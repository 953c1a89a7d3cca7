-------------------------------- MODULE Audio -------------------------------
(***************************************************************************)
(* Sound output: the mixer (AudioMixer), the AC97 driver with its two DMA   *)
(* halves, and the WAV player above them.  PlayBuffer runs in a task and is *)
(* interrupted between its locked regions; Update runs in the timer         *)
(* interrupt, so nothing but the sound card moves while it does; the card   *)
(* plays the queued halves in order and raises its interrupt.  Positions    *)
(* and lengths are counted in 16-bit samples.                               *)
(***************************************************************************)
EXTENDS Integers, Sequences, FiniteSets

CONSTANTS
    Slots,          \* streams[]: 0..7 in the code
    FrameSamples,   \* samples in one half-buffer
    Lengths,        \* lengths of the sounds that are played
    MaxPlays,       \* bound: calls of PlayBuffer
    NULL

ASSUME AudioAssumptions ==
    /\ Slots # {} /\ Slots \subseteq Nat /\ IsFiniteSet(Slots)
    /\ FrameSamples \in Nat \ {0}
    /\ Lengths \subseteq Nat \ {0}
    /\ \E n \in Lengths : \A k \in Lengths : k <= n     \* a length is a uint32_t
    /\ MaxPlays \in Nat
    /\ NULL \notin Nat

VARIABLES
    dma,        \* Activate() has the pages of both halves and the descriptor list
    mixBuffer,  \* the scratch buffer was allocated
    streams,    \* AudioMixer::streams
    pending,    \* AudioMixer::pendingFreeBuffers
    heap,       \* the sample copies that are allocated
    occupied,   \* buffersOccupied
    active,     \* activeHalf
    queue,      \* halves between CIV and LVI, the one being played first
    running,    \* CR_RUN, and isPlaying with it
    bcis,       \* the card's buffer-completion status bit
    player,     \* where PlayBuffer is
    timer,      \* where Update is
    plays,      \* copies made so far; a copy is named by its number
    queued,     \* history: samples of each copy handed to the card
    lost        \* history: mixed frames the driver refused, counted to 2

mixVars == <<streams, pending, heap, queued, lost, occupied, active, queue>>
audioVars == <<dma, mixBuffer, mixVars, running, bcis, player, timer, plays>>

Silent == [data |-> NULL, length |-> 0, position |-> 0, active |-> FALSE, looping |-> FALSE]
Copies == 1..MaxPlays
Longest == CHOOSE n \in Lengths : \A k \in Lengths : k <= n

AudioTypeOK ==
    /\ {dma, mixBuffer, running, bcis} \subseteq BOOLEAN
    /\ streams \in [Slots -> [data : Copies \cup {NULL}, length : Lengths \cup {0},
                              position : 0..Longest, active : BOOLEAN, looping : BOOLEAN]]
    /\ pending \in [Slots -> Copies \cup {NULL}]
    /\ heap \subseteq 1..plays
    /\ occupied \in 0..2 /\ active \in {0, 1}
    /\ queue \in Seq({0, 1}) /\ Len(queue) <= 2
    /\ player \in {"idle", "prefill", "mix", "start"}
    /\ timer \in {"idle", "fill"}
    /\ plays \in 0..MaxPlays /\ lost \in 0..2
    /\ queued \in [Copies -> Nat]

\* Activate and the mixer's constructor: either allocation may fail, and the mixer is
\* created all the same.
AudioInit ==
    /\ dma \in BOOLEAN /\ mixBuffer \in BOOLEAN
    /\ streams = [s \in Slots |-> Silent]
    /\ pending = [s \in Slots |-> NULL]
    /\ heap = {} /\ plays = 0
    /\ occupied = 0 /\ active = 0 /\ queue = <<>>
    /\ running = FALSE /\ bcis = FALSE
    /\ player = "idle" /\ timer = "idle"
    /\ queued = [c \in Copies |-> 0] /\ lost = 0

\* Interrupts are taken and the task runs only outside the timer handler.
Enabled == timer = "idle"

IsReadyForData == occupied < 2

------------------------------------------------------------------------------
(* One frame.                                                                *)

\* Mutant: every stream restarts.
AdvanceLoops(st) ==
    [st EXCEPT !.position = ((st.position + FrameSamples - 1) % st.length) + 1]

\* The sample loop over one active stream: a looping stream restarts when it is read past
\* its end, another one stops there.
Advance(st) ==
    IF st.looping
    THEN [st EXCEPT !.position = ((st.position + FrameSamples - 1) % st.length) + 1]
    ELSE [st EXCEPT !.position = IF st.length < st.position + FrameSamples
                                 THEN st.length ELSE st.position + FrameSamples,
                    !.active = st.length >= st.position + FrameSamples]

\* AC97 WriteData of one whole half: the descriptors, LVI, the half swap and the count;
\* nothing without DMA memory or with two halves already queued.
WriteData ==
    IF dma /\ occupied < 2
    THEN /\ queue' = Append(queue, active)
         /\ active' = 1 - active
         /\ occupied' = occupied + 1
         /\ lost' = lost
    ELSE /\ lost' = IF dma /\ lost < 2 THEN lost + 1 ELSE lost
         /\ UNCHANGED <<queue, active, occupied>>

Ended(st) == st.active /\ ~Advance(st).active

\* Mixes every active stream; a stream that ended is cleared and its copy left to Update.
ProcessAudio ==
    /\ streams' = [s \in Slots |-> IF ~streams[s].active THEN streams[s]
                                   ELSE IF Ended(streams[s])
                                        THEN [Silent EXCEPT !.looping = streams[s].looping]
                                        ELSE Advance(streams[s])]
    /\ pending' = [s \in Slots |-> IF Ended(streams[s]) THEN streams[s].data ELSE pending[s]]
    /\ queued' = [c \in Copies |->
                    IF dma /\ occupied < 2 /\ \E s \in Slots : streams[s].active /\ streams[s].data = c
                    THEN LET st == streams[CHOOSE s \in Slots : streams[s].active /\ streams[s].data = c]
                         IN IF st.looping THEN queued[c]
                            ELSE queued[c] + (Advance(st).position - st.position)
                    ELSE queued[c]]
    /\ WriteData

------------------------------------------------------------------------------
(* The task: Wav::Play and PlayBuffer.                                       *)

FirstInactive(s) == ~streams[s].active /\ \A t \in Slots : t < s => streams[t].active

\* The locked region: a copy of the samples in the first inactive slot.  With no slot left
\* nothing is played; without memory the call returns.
PlayBuffer ==
    /\ Enabled /\ player = "idle" /\ plays < MaxPlays
    /\ \E len \in Lengths, loop \in BOOLEAN :
         \/ \E s \in Slots :
              /\ FirstInactive(s)
              /\ heap' = heap \cup {plays + 1}
              /\ plays' = plays + 1
              /\ streams' = [streams EXCEPT ![s] =
                     [data |-> plays + 1, length |-> len, position |-> 0,
                      active |-> TRUE, looping |-> loop]]
              /\ player' = IF running THEN "idle" ELSE "prefill"
         \/ /\ \A s \in Slots : streams[s].active
            /\ player' = IF running THEN "idle" ELSE "prefill"
            /\ UNCHANGED <<heap, plays, streams>>
    /\ UNCHANGED <<dma, mixBuffer, pending, occupied, active, queue, running, bcis, timer,
                   queued, lost>>

\* The test of the prefill loop, or the way past it.
Prefill ==
    /\ Enabled /\ player = "prefill"
    /\ player' = IF mixBuffer /\ IsReadyForData THEN "mix" ELSE "start"
    /\ UNCHANGED <<dma, mixBuffer, mixVars, running, bcis, timer, plays>>

PrefillMix ==
    /\ Enabled /\ player = "mix"
    /\ ProcessAudio
    /\ player' = "prefill"
    /\ UNCHANGED <<dma, mixBuffer, heap, running, bcis, timer, plays>>

Start ==
    /\ Enabled /\ player = "start"
    /\ running' = TRUE
    /\ player' = "idle"
    /\ UNCHANGED <<dma, mixBuffer, mixVars, bcis, timer, plays>>

------------------------------------------------------------------------------
(* The timer interrupt: Update.                                              *)

\* Mutant: the entries are freed and not cleared.
UpdateFreeKeeps ==
    /\ Enabled /\ mixBuffer
    /\ heap' = heap \ {pending[s] : s \in Slots}
    /\ timer' = "fill"
    /\ UNCHANGED <<dma, mixBuffer, streams, pending, occupied, active, queue, running, bcis,
                   player, plays, queued, lost>>

\* Every tenth tick: the deferred frees, then the fill loop.
UpdateFree ==
    /\ Enabled /\ mixBuffer
    /\ heap' = heap \ {pending[s] : s \in Slots}
    /\ pending' = [s \in Slots |-> NULL]
    /\ timer' = "fill"
    /\ UNCHANGED <<dma, mixBuffer, streams, occupied, active, queue, running, bcis, player,
                   plays, queued, lost>>

UpdateFill ==
    /\ timer = "fill" /\ IsReadyForData
    /\ ProcessAudio
    /\ UNCHANGED <<dma, mixBuffer, heap, running, bcis, player, timer, plays>>

UpdateReturn ==
    /\ timer = "fill" /\ ~IsReadyForData
    /\ timer' = "idle"
    /\ UNCHANGED <<dma, mixBuffer, mixVars, running, bcis, player, plays>>

------------------------------------------------------------------------------
(* The card.                                                                 *)

\* External: the DMA engine finishes the half at the head of the list, whose last
\* descriptor asks for an interrupt; at LVI it halts until LVI moves.
CardFinishes ==
    /\ running /\ queue # <<>>
    /\ queue' = Tail(queue)
    /\ bcis' = TRUE
    /\ UNCHANGED <<dma, mixBuffer, streams, pending, heap, queued, lost, occupied, active,
                   running, player, timer, plays>>

\* One acknowledged interrupt frees one half, however many completions it stands for.
OnInterrupt ==
    /\ Enabled /\ bcis
    /\ bcis' = FALSE
    /\ occupied' = IF occupied > 0 THEN occupied - 1 ELSE 0
    /\ UNCHANGED <<dma, mixBuffer, streams, pending, heap, queued, lost, active, queue,
                   running, player, timer, plays>>

AudioNext ==
    \/ PlayBuffer \/ Prefill \/ PrefillMix \/ Start
    \/ UpdateFree \/ UpdateFill \/ UpdateReturn
    \/ CardFinishes \/ OnInterrupt

AudioSpec == AudioInit /\ [][AudioNext]_audioVars

\* The timer and the card keep going, and a started PlayBuffer is scheduled again.
FairAudioSpec ==
    /\ AudioSpec
    /\ WF_audioVars(UpdateFree) /\ WF_audioVars(UpdateFill \/ UpdateReturn)
    /\ WF_audioVars(CardFinishes) /\ SF_audioVars(OnInterrupt)
    /\ SF_audioVars(Prefill \/ PrefillMix \/ Start)

------------------------------------------------------------------------------
(* Properties.                                                               *)

Held == {streams[s].data : s \in Slots} \cup {pending[s] : s \in Slots}

\* Every sample copy that is allocated is held by exactly one stream or deferred-free entry,
\* and none is held twice or after it was freed: the one entry per slot is enough for the
\* order in which slots are reused and Update runs (AudioMixer.cpp:108-195).
CopiesHeldOnce ==
    /\ heap = Held \ {NULL}
    /\ \A s, t \in Slots :
         /\ s # t => (streams[s].data = NULL \/ streams[s].data # streams[t].data)
                     /\ (pending[s] = NULL \/ pending[s] # pending[t])
         /\ streams[s].data = NULL \/ streams[s].data # pending[t]

\* The half that WriteData fills next is never one the card still has to play: the software
\* count never falls below what is queued, even when one interrupt stands for two completions
\* (ac97.cpp:191-205, 363-412).
NextHalfFree ==
    /\ occupied >= Len(queue)
    /\ (dma /\ occupied < 2) => \A i \in 1..Len(queue) : queue[i] # active

\* A lost completion costs one half of the queue and never more: a full count always means
\* the card still has a half to play or an interrupt to deliver, so the output never stalls.
NeverStalls ==
    occupied = 2 => queue # <<>> \/ bcis

\* The ring of the card against the count the driver keeps of it.
QueueSound == AudioTypeOK /\ NextHalfFree /\ NeverStalls

\* A frame mixed by PlayBuffer is refused by the driver at most once (Update filled the queue
\* between the test and the mix), and only the sounds of that frame skip samples
\* (AudioMixer.cpp:90-97).
OneFrameLost ==
    /\ lost <= 1
    /\ (lost = 0 /\ dma) => \A s \in Slots :
         streams[s].active /\ ~streams[s].looping => queued[streams[s].data] = streams[s].position

\* The streams of the mixer: their copies and what they have played.
StreamsSound == CopiesHeldOnce /\ OneFrameLost

\* The mixer and the driver together, over every order of play calls, timer ticks and
\* interrupts of the card.
MixerSound == QueueSound /\ StreamsSound

\* With its memory in place, a sound that is not looped is played to its end and its copy is
\* freed, although the end is seen in one interrupt and the copy freed in another.
SoundsEnd ==
    \A c \in Copies : (dma /\ mixBuffer /\ \E s \in Slots : streams[s].data = c /\ ~streams[s].looping)
                          ~> c \notin heap

\* The timer handler returns: its fill loop ends because each pass queues a half
\* (AudioMixer.cpp:120-123).
UpdateReturns == timer = "fill" ~> timer = "idle"
=============================================================================

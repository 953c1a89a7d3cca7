------------------------------ MODULE Terminal ------------------------------
(***************************************************************************)
(* A key from the keyboard driver to the program that reads it: the key     *)
(* states, which the event thread of the terminal polls; the terminal, whose *)
(* main loop and event thread both run PollForegroundProcess() with no lock  *)
(* between them; and the command-line program it runs in the foreground,     *)
(* which reads the characters the terminal pushes into the program's         *)
(* standard-input ring.  A thread may be preempted anywhere: a step reads or *)
(* writes one of the ids the threads share, or is a system call, which runs  *)
(* with interrupts off.  What the terminal shows (lines, scrolling, view) is *)
(* left out; a character is the number of the push that made it.             *)
(***************************************************************************)
EXTENDS Integers, Sequences, FiniteSets

CONSTANTS
    Char, Enter, F11,   \* scancodes, in the order of their numbers: a key that makes a
                        \* character, Enter, and a key the terminal keeps for itself
    STDIN_QUEUE_SIZE,   \* slots of a standard-input ring
    MaxPresses,         \* bound: key presses
    MaxHeld,            \* bound: keys held at once (a key and its twin count as one)
    MaxRuns             \* bound: programs started

ASSUME TerminalAssumptions ==
    /\ {Char, Enter, F11} \subseteq Nat
    /\ MaxRuns \in Nat \ {0}
    /\ STDIN_QUEUE_SIZE \in Nat \ {0, 1}
    /\ {MaxPresses, MaxHeld} \subseteq Nat

Keys == {Char, Enter, F11}
Pids == 1..MaxRuns
None == 0
Threads == {"event", "main"}

VARIABLES
    normal, ext,    \* keyStatesNormal, keyStatesExt: the keys held down
    prevKeys,       \* the event thread's last snapshot
    edges,          \* new presses of the snapshot not yet dispatched
    th,             \* each thread: where it is, the process id it has read, and where
                    \* it returns to from PollForegroundProcess()
    fg, bg,         \* foregroundPid, backgroundPid
    child,          \* the programs, by pid
    ring,           \* their standard-input rings
    got,            \* history: what each program has read
    count           \* history: presses, dispatches, pushes

kbdVars == <<normal, ext>>
pidVars == <<fg, bg>>
childVars == <<child, ring, got>>
vars == <<kbdVars, prevKeys, edges, th, pidVars, childVars, count>>

keyStates == normal \cup ext
EmptyRing == [slots |-> [i \in 0..STDIN_QUEUE_SIZE - 1 |-> [n |-> 0, key |-> 0]], head |-> 0, tail |-> 0]

Asking == {"askFg", "askBg", "lostFg", "lostBg"}
Polling == {"poll", "pollBg"} \cup Asking
Handling == {"route", "push", "ran", "done"}

TypeOK ==
    /\ normal \subseteq Keys /\ ext \subseteq Keys /\ prevKeys \subseteq Keys
    /\ edges \subseteq Keys
    /\ th["main"].at \in Polling /\ th["main"].next = "poll"
    /\ th["event"].at \in {"idle"} \cup Polling \cup Handling
    /\ th["event"].next \in {"route", "done"}
    /\ {fg, bg, th["main"].pid, th["event"].pid} \subseteq Pids \cup {None}
    /\ DOMAIN ring = DOMAIN child /\ DOMAIN got = DOMAIN child
    /\ \A p \in DOMAIN child :
         /\ child[p].at \in {"new", "name", "wait", "gone"}
         /\ ring[p].head \in DOMAIN ring[p].slots /\ ring[p].tail \in DOMAIN ring[p].slots

\* At the prompt, or with a command-line program just attached.
Init ==
    /\ normal = {} /\ ext = {} /\ prevKeys = {} /\ edges = {}
    /\ th = [t \in Threads |-> IF t = "main" THEN [at |-> "poll", pid |-> None, next |-> "poll"]
                               ELSE [at |-> "idle", pid |-> None, next |-> "route"]]
    /\ bg = None
    /\ \/ fg = None /\ child = <<>> /\ ring = <<>> /\ got = <<>>
       \/ /\ fg = 1 /\ child = <<[at |-> "new", cli |-> TRUE]>>
          /\ ring = <<EmptyRing>> /\ got = <<<<>>>>
    /\ count = [press |-> 0, dispatch |-> 0, push |-> 0]

Alive(p) == p \in DOMAIN child /\ child[p].at # "gone"

Goto(t, s) == th' = [th EXCEPT ![t].at = s]

------------------------------------------------------------------------------
(* The keyboard driver's interrupt, and the controller above it.             *)

\* A make code: the plain key, or its twin behind the 0xE0 prefix (keypad Enter).
KeyDown(k) ==
    /\ count.press < MaxPresses /\ Cardinality(keyStates \cup {k}) <= MaxHeld
    /\ \/ k \notin normal /\ normal' = normal \cup {k} /\ UNCHANGED ext
       \/ k = Enter /\ k \notin ext /\ ext' = ext \cup {k} /\ UNCHANGED normal
    /\ count' = [count EXCEPT !.press = @ + 1]
    /\ UNCHANGED <<prevKeys, edges, th, pidVars, childVars>>

\* A break code clears the one of the two it belongs to.
KeyUp(k) ==
    /\ \/ k \in normal /\ normal' = normal \ {k} /\ UNCHANGED ext
       \/ k \in ext /\ ext' = ext \ {k} /\ UNCHANGED normal
    /\ UNCHANGED <<prevKeys, edges, th, pidVars, childVars, count>>

------------------------------------------------------------------------------
(* The event thread of the library: the snapshot, and its new presses.       *)

\* Mutant: a key that is still held is dispatched again.
PollKeysLevel ==
    /\ th["event"].at = "idle" /\ edges = {}
    /\ edges' = keyStates
    /\ prevKeys' = keyStates
    /\ UNCHANGED <<kbdVars, th, pidVars, childVars, count>>

\* syscall_get_input: every key down now and not in the last snapshot.
PollKeys ==
    /\ th["event"].at = "idle" /\ edges = {}
    /\ edges' = keyStates \ prevKeys
    /\ prevKeys' = keyStates
    /\ UNCHANGED <<kbdVars, th, pidVars, childVars, count>>

\* New presses are dispatched in the order of their scancodes.
First == CHOOSE k \in edges : \A j \in edges : k <= j

\* HandleScancode() of the terminal starts with PollForegroundProcess().
Dispatch ==
    /\ th["event"].at = "idle" /\ edges # {}
    /\ th' = [th EXCEPT !["event"] = [at |-> "poll", pid |-> None, next |-> "route"]]
    /\ count' = [count EXCEPT !.dispatch = @ + 1]
    /\ UNCHANGED <<kbdVars, prevKeys, edges, pidVars, childVars>>

\* The handler is back and the loop goes to the next key.
Dispatched ==
    /\ th["event"].at = "done"
    /\ Goto("event", "idle")
    /\ edges' = edges \ {First}
    /\ UNCHANGED <<kbdVars, prevKeys, pidVars, childVars, count>>

------------------------------------------------------------------------------
(* PollForegroundProcess(), run by either thread.                            *)

Return(t) == th' = [th EXCEPT ![t] = [@ EXCEPT !.at = th[t].next, !.pid = None]]

ReadForeground(t) ==
    /\ th[t].at = "poll"
    /\ th' = [th EXCEPT ![t] = IF fg # None THEN [@ EXCEPT !.at = "askFg", !.pid = fg]
                               ELSE [@ EXCEPT !.at = "pollBg"]]
    /\ UNCHANGED <<kbdVars, prevKeys, edges, pidVars, childVars, count>>

ReadBackground(t) ==
    /\ th[t].at = "pollBg"
    /\ IF bg # None THEN th' = [th EXCEPT ![t] = [@ EXCEPT !.at = "askBg", !.pid = bg]]
       ELSE Return(t)
    /\ UNCHANGED <<kbdVars, prevKeys, edges, pidVars, childVars, count>>

\* syscall_is_process_alive.
Ask(t) ==
    /\ th[t].at \in {"askFg", "askBg"}
    /\ IF Alive(th[t].pid) THEN Return(t)
       ELSE Goto(t, IF th[t].at = "askFg" THEN "lostFg" ELSE "lostBg")
    /\ UNCHANGED <<kbdVars, prevKeys, edges, pidVars, childVars, count>>

\* Mutant: the exit is printed and the process stays in the foreground.
ReportKeeps(t) ==
    /\ th[t].at \in {"lostFg", "lostBg"}
    /\ Return(t)
    /\ UNCHANGED <<kbdVars, prevKeys, edges, pidVars, childVars, count>>

\* The process was gone: its variable is cleared, whatever it holds by now, and the exit
\* printed.
Report(t) ==
    /\ \/ th[t].at = "lostFg" /\ fg' = None /\ UNCHANGED bg
       \/ th[t].at = "lostBg" /\ bg' = None /\ UNCHANGED fg
    /\ Return(t)
    /\ UNCHANGED <<kbdVars, prevKeys, edges, childVars, count>>

Poll(t) == ReadForeground(t) \/ ReadBackground(t) \/ Ask(t) \/ Report(t)

------------------------------------------------------------------------------
(* HandleScancode() after its poll.                                          *)

\* With a program in the foreground, F11 scrolls and every other key is forwarded.
HandleForeground ==
    /\ th["event"].at = "route" /\ fg # None
    /\ IF First = F11 THEN Goto("event", "done")
       ELSE th' = [th EXCEPT !["event"] = [@ EXCEPT !.at = "push", !.pid = fg]]
    /\ UNCHANGED <<kbdVars, prevKeys, edges, pidVars, childVars, count>>

\* PushProcessStdin: the oldest character makes room.
Push(r, c) ==
    LET next == (r.head + 1) % STDIN_QUEUE_SIZE
    IN [slots |-> [r.slots EXCEPT ![r.head] = c], head |-> next,
        tail |-> IF next = r.tail THEN (r.tail + 1) % STDIN_QUEUE_SIZE ELSE r.tail]

\* Hsys_stdinPush finds the program, or fails and PollForegroundProcess() runs again.  The
\* compiler may pass on the id it has compared or load foregroundPid a second time.
HandleForward ==
    /\ th["event"].at = "push"
    /\ \E p \in {th["event"].pid, fg} :
          IF Alive(p)
          THEN LET n == count.push + 1
               IN /\ count' = [count EXCEPT !.push = n]
                  /\ ring' = [ring EXCEPT ![p] = Push(@, [n |-> n, key |-> First])]
                  /\ Goto("event", "done")
          ELSE /\ th' = [th EXCEPT !["event"] = [at |-> "poll", pid |-> None, next |-> "done"]]
               /\ UNCHANGED <<ring, count>>
    /\ UNCHANGED <<kbdVars, prevKeys, edges, pidVars, child, got>>

\* Typing and scrolling at the prompt.
HandleEdit ==
    /\ th["event"].at = "route" /\ fg = None /\ First # Enter
    /\ Goto("event", "done")
    /\ UNCHANGED <<kbdVars, prevKeys, edges, pidVars, childVars, count>>

\* Enter on an empty line, on a built-in command, or on what cannot be run.
HandleEnter ==
    /\ th["event"].at = "route" /\ fg = None /\ First = Enter
    /\ Goto("event", "done")
    /\ UNCHANGED <<kbdVars, prevKeys, edges, pidVars, childVars, count>>

\* Enter on the name of a program: sys_execve sets up the child, attaches a command-line
\* one to this host, and starts it.
HandleRun ==
    /\ th["event"].at = "route" /\ fg = None /\ First = Enter
    /\ Len(child) < MaxRuns
    /\ \E cli \in BOOLEAN : child' = Append(child, [at |-> "new", cli |-> cli])
    /\ ring' = Append(ring, EmptyRing) /\ got' = Append(got, <<>>)
    /\ th' = [th EXCEPT !["event"] = [@ EXCEPT !.at = "ran", !.pid = Len(child) + 1]]
    /\ UNCHANGED <<kbdVars, prevKeys, edges, pidVars, count>>

\* The mode of the started process decides who waits for it; one that is already gone
\* counts as a background process.
HandleRan ==
    /\ th["event"].at = "ran"
    /\ LET p == th["event"].pid
       IN IF Alive(p) /\ child[p].cli THEN fg' = p /\ UNCHANGED bg
          ELSE bg' = p /\ UNCHANGED fg
    /\ Goto("event", "done")
    /\ UNCHANGED <<kbdVars, prevKeys, edges, childVars, count>>

------------------------------------------------------------------------------
(* The programs.  A command-line program is CLIHello.                        *)

\* init_sys: Hsys_initCli empties the ring; then the first prompt is printed.
ChildInit(p) ==
    /\ Alive(p) /\ child[p].at = "new" /\ child[p].cli
    /\ ring' = [ring EXCEPT ![p] = [@ EXCEPT !.head = 0, !.tail = 0]]
    /\ child' = [child EXCEPT ![p].at = "name"]
    /\ UNCHANGED <<kbdVars, prevKeys, edges, th, pidVars, got, count>>

\* Mutant: the slot is read and the tail stays.
PopStuck(r) == r

PopRing(r) == [r EXCEPT !.tail = (@ + 1) % STDIN_QUEUE_SIZE]

\* syscall_read of one character: the name up to Enter, then a last Enter to leave.
ChildRead(p) ==
    /\ Alive(p) /\ child[p].at \in {"name", "wait"}
    /\ ring[p].head # ring[p].tail
    /\ LET c == ring[p].slots[ring[p].tail]
       IN /\ got' = [got EXCEPT ![p] = Append(@, c.n)]
          /\ child' = [child EXCEPT ![p].at =
                 IF c.key # Enter THEN @ ELSE IF @ = "name" THEN "wait" ELSE "gone"]
    /\ ring' = [ring EXCEPT ![p] = PopRing(@)]
    /\ UNCHANGED <<kbdVars, prevKeys, edges, th, pidVars, count>>

\* A crash, a kill, or the exit of a graphical program.
ChildDies(p) ==
    /\ Alive(p)
    /\ child' = [child EXCEPT ![p].at = "gone"]
    /\ UNCHANGED <<kbdVars, prevKeys, edges, th, pidVars, ring, got, count>>

Event ==
    \/ PollKeys \/ Dispatch \/ Dispatched \/ Poll("event")
    \/ HandleForeground \/ HandleForward \/ HandleEdit \/ HandleEnter \/ HandleRun \/ HandleRan

\* The main loop: poll, redraw, sleep.
Main == Poll("main")

Next ==
    \/ \E k \in Keys : KeyDown(k) \/ KeyUp(k)
    \/ Event
    \/ Main
    \/ \E p \in Pids : ChildInit(p) \/ ChildRead(p) \/ ChildDies(p)

Spec == Init /\ [][Next]_vars

\* The terminal's main loop is scheduled again and again; the user and the programs promise
\* nothing.
FairSpec == Spec /\ WF_vars(Main)

------------------------------------------------------------------------------
(* Properties.                                                               *)

RingSize(r) == (r.head + STDIN_QUEUE_SIZE - r.tail) % STDIN_QUEUE_SIZE

\* What a ring holds, oldest first.
RingSeq(r) == [i \in 1..RingSize(r) |-> r.slots[(r.tail + i - 1) % STDIN_QUEUE_SIZE].n]

\* A program reads the characters pushed to it in the order they were typed and none twice,
\* although a full ring moves the reader's index and Hsys_initCli empties the ring under the
\* writer (syscalls.cpp:46-92).
ReadInOrder ==
    \A p \in DOMAIN got :
        LET s == got[p] \o RingSeq(ring[p])
        IN \A i, j \in 1..Len(s) : i < j => s[i] < s[j]

\* One press is dispatched at most once, however long it is held and however the two codes
\* of a key overlap (desktop.cpp of libhx86:128-142, keyboard.cpp:236-249).
DispatchedOnce ==
    count.dispatch + Cardinality(edges) <= count.press + (IF th["event"].at = "idle" THEN 0 ELSE 1)

\* The process the terminal waits for: the foreground one, or else the background one.
Watched == IF fg # None THEN fg ELSE bg

\* The end of the process the terminal waits for is noticed and the terminal waits for it no
\* longer, whichever thread saw it, whatever the other had read before, and also if the
\* process had died before it was attached (PollForegroundProcess()).
ExitNoticed == \A p \in Pids : (Watched = p /\ ~Alive(p)) ~> Watched # p

\* A program that runs in the foreground stays there, so that keys are forwarded to it (the
\* comment of TerminalApp, prog.h:138-139).
ForegroundKept == [][fg # None /\ Alive(fg) => fg' = fg]_vars
=============================================================================

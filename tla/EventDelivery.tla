----------------------------- MODULE EventDelivery -----------------------------
(***************************************************************************)
(* How a click travels from the mouse interrupt to the GUI process that    *)
(* owns the widget: the driver's InputQueue, the desktop thread's          *)
(* dispatch, the per-process EventHandler and the process's GET syscall,   *)
(* while processes start, register handlers and exit.                      *)
(*                                                                         *)
(* Syscalls run with IF=0, in one step.  The desktop thread pops its input *)
(* under an InterruptGuard and dispatches it outside, so processes run     *)
(* between its lookup of an event handler and its use of the pointer.      *)
(* Handler addresses are reused once freed, as the kernel heap reuses      *)
(* them.  What an interrupted Add() does to the list itself is the subject *)
(* of ListImpl; here list operations are atomic.                           *)
(***************************************************************************)
EXTENDS LinkedList, FiniteSets

CONSTANTS
    Pids,          \* process IDs, never reused
    Handlers,      \* heap addresses an EventHandler can be allocated at
    NoPid,         \* no process
    NoHandler,     \* a null EventHandler pointer
    Capacity,      \* InputQueue::CAPACITY
    FirstID,       \* the value widgetIDCounter starts with
    MaxID,         \* bound: widget IDs handed out
    MaxInputs,     \* bound: interrupts of the mouse
    HalfWord       \* 2^16: GET packs the widget ID above the event type

ASSUME EventAssumption ==
    /\ NoPid \notin Pids
    /\ NoHandler \notin Handlers
    /\ Capacity \in Nat \ {0}
    /\ FirstID \in Nat /\ MaxID \in Nat /\ FirstID <= MaxID
    /\ MaxInputs \in Nat
    /\ HalfWord \in Nat \ {0, 1} /\ HalfWord % 2 = 0

VARIABLES
    started, live,          \* processes ever started, and those running
    widgetIDCounter, widgets,   \* HguiWidgets: <<widget ID, owner>>
    handlerList,            \* Desktop::HguiEventHandlers
    hpid, eventQueue,       \* the fields of an EventHandler
    inputs, taken, overflow, inputQueue,   \* interrupts so far, and the ring
    pc, event, target, handler,     \* the desktop thread
    accepted, fetched, received   \* history: posted, popped by GET, unpacked

procVars == <<started, live>>
widgetVars == <<widgetIDCounter, widgets>>
handlerVars == <<handlerList, hpid, eventQueue>>
inputVars == <<inputs, taken, overflow, inputQueue>>
desktopVars == <<pc, event, target, handler>>
history == <<accepted, fetched, received>>
vars == <<procVars, widgetVars, handlerVars, inputVars, desktopVars, history>>

\* An event: the input it stems from and the widget it was raised by.
Events == [n : 0..MaxInputs, widget : 0..MaxID]
NoEvent == [n |-> 0, widget |-> 0]

TypeOK ==
    /\ live \subseteq started /\ started \subseteq Pids
    /\ widgetIDCounter \in FirstID..MaxID
    /\ widgets \subseteq (FirstID..MaxID) \X Pids
    /\ handlerList \in Seq(Handlers)
    /\ hpid \in [Handlers -> Pids \cup {NoPid}]
    /\ eventQueue \in [Handlers -> Seq(Events)]
    /\ {inputs, taken} \subseteq 0..MaxInputs /\ overflow \in 0..MaxInputs
    /\ inputQueue \in Seq(1..MaxInputs) /\ Len(inputQueue) <= Capacity
    /\ pc \in {"idle", "dispatch", "lookup", "post"}
    /\ event \in Events
    /\ target \in Pids \cup {NoPid}
    /\ handler \in Handlers \cup {NoHandler}
    /\ accepted \in [Pids -> SUBSET (1..MaxInputs)]
    /\ fetched \in [Pids -> Seq(Events)]
    /\ received \in [Pids -> Seq(Events)]

Init ==
    /\ started = {} /\ live = {}
    /\ widgetIDCounter = FirstID /\ widgets = {}
    /\ handlerList = <<>>
    /\ hpid = [h \in Handlers |-> NoPid]
    /\ eventQueue = [h \in Handlers |-> <<>>]
    /\ inputs = 0 /\ taken = 0 /\ overflow = 0 /\ inputQueue = <<>>
    /\ pc = "idle" /\ event = NoEvent /\ target = NoPid /\ handler = NoHandler
    /\ accepted = [p \in Pids |-> {}]
    /\ fetched = [p \in Pids |-> <<>>]
    /\ received = [p \in Pids |-> <<>>]

-------------------------------------------------------------------------------
\* The positions of pid's handlers on the list.
HandlersOf(pid) == {i \in DOMAIN handlerList : hpid[handlerList[i]] = pid}

\* Desktop::getHandler(): ForEach keeps the last match.
getHandler(pid) ==
    IF HandlersOf(pid) = {} THEN NoHandler
    ELSE handlerList[CHOOSE i \in HandlersOf(pid) : \A j \in HandlersOf(pid) : j <= i]

\* A program is launched.
StartProcess(p) ==
    /\ p \in Pids \ started
    /\ started' = started \cup {p}
    /\ live' = live \cup {p}
    /\ UNCHANGED <<widgetVars, handlerVars, inputVars, desktopVars, history>>

\* A CREATE request: the widget gets the next ID and joins the registry.
CreateWidget(p) ==
    /\ p \in live
    /\ widgetIDCounter < MaxID
    /\ widgets' = widgets \cup {<<widgetIDCounter, p>>}
    /\ widgetIDCounter' = widgetIDCounter + 1
    /\ UNCHANGED <<procVars, handlerVars, inputVars, desktopVars, history>>

\* Hsys_regEventH: Desktop::createNewHandler() puts the new handler first.  A
\* process may register more than once.
createNewHandler(p, h) ==
    /\ p \in live
    /\ h \in Handlers \ Elems(handlerList)
    /\ handlerList' = Add(handlerList, h)
    /\ hpid' = [hpid EXCEPT ![h] = p]
    /\ eventQueue' = [eventQueue EXCEPT ![h] = <<>>]
    /\ UNCHANGED <<procVars, widgetVars, inputVars, desktopVars, history>>

\* Desktop::deleteEventHandler(): one handler, the last match, goes with its
\* queue.
deleteEventHandler(p) ==
    LET h == getHandler(p)
    IN  IF h = NoHandler
        THEN UNCHANGED handlerVars
        ELSE /\ handlerList' = RemoveFirsts(handlerList, {h})
             /\ hpid' = [hpid EXCEPT ![h] = NoPid]
             /\ eventQueue' = [eventQueue EXCEPT ![h] = <<>>]

\* The process exits or is killed, and CleanupExitedProcessGui() removes its
\* widgets and its handler.
ProcessExit(p) ==
    /\ p \in live
    /\ live' = live \ {p}
    /\ widgets' = {w \in widgets : w[2] # p}
    /\ deleteEventHandler(p)
    /\ UNCHANGED <<started, widgetIDCounter, inputVars, desktopVars, history>>

\* The 32-bit word GET returns, as user space reads it: negative means no event.
Encoded(e, type) ==
    LET word == (e.widget * HalfWord + type) % (HalfWord * HalfWord)
    IN  IF word >= (HalfWord * HalfWord) \div 2 THEN word - HalfWord * HalfWord ELSE word

ON_CLICK == 1

\* Mutant: GET returns the head and clears the queue.
GetClears(p) ==
    LET h == getHandler(p)
    IN  /\ p \in live /\ h # NoHandler /\ eventQueue[h] # <<>>
        /\ eventQueue' = [eventQueue EXCEPT ![h] = <<>>]
        /\ fetched' = [fetched EXCEPT ![p] = Append(@, Head(eventQueue[h]))]
        /\ UNCHANGED <<procVars, widgetVars, handlerList, hpid, inputVars, desktopVars, received,
                       accepted>>

\* HandleEvent(GET), and EventHandlerHGUI() in the process, which unpacks the
\* word it returns.
Get(p) ==
    LET h == getHandler(p)
        e == Head(eventQueue[h])
        word == Encoded(e, ON_CLICK)
    IN  /\ p \in live /\ h # NoHandler /\ eventQueue[h] # <<>>
        /\ eventQueue' = [eventQueue EXCEPT ![h] = Tail(@)]
        /\ fetched' = [fetched EXCEPT ![p] = Append(@, e)]
        /\ received' = IF word < 0 THEN received
                       ELSE [received EXCEPT ![p] =
                               Append(@, [n |-> e.n, widget |-> word \div HalfWord])]
        /\ UNCHANGED <<procVars, widgetVars, handlerList, hpid, inputVars, desktopVars, accepted>>

-------------------------------------------------------------------------------
\* The mouse interrupt: InputQueue::Push(), which drops the event when full.
Push ==
    /\ inputs < MaxInputs
    /\ inputs' = inputs + 1
    /\ IF Len(inputQueue) >= Capacity
       THEN overflow' = overflow + 1 /\ UNCHANGED inputQueue
       ELSE inputQueue' = Append(inputQueue, inputs + 1) /\ UNCHANGED overflow
    /\ UNCHANGED <<taken, procVars, widgetVars, handlerVars, desktopVars, history>>

\* Mutant: the event is read and left in the ring.
PopPeeks ==
    /\ pc = "idle" /\ inputQueue # <<>>
    /\ event' = [n |-> Head(inputQueue), widget |-> 0]
    /\ pc' = "dispatch"
    /\ UNCHANGED <<inputVars, target, handler, procVars, widgetVars, handlerVars, history>>

\* Desktop::ProcessInput(): InputQueue::Pop() under the guard.
Pop ==
    /\ pc = "idle" /\ inputQueue # <<>>
    /\ event' = [n |-> Head(inputQueue), widget |-> 0]
    /\ inputQueue' = Tail(inputQueue)
    /\ taken' = taken + 1
    /\ pc' = "dispatch"
    /\ UNCHANGED <<inputs, overflow, target, handler, procVars, widgetVars, handlerVars,
                   history>>

\* The ring is empty: ProcessInput() returns, and the desktop's loop goes on.
NoInput ==
    /\ pc = "idle" /\ inputQueue = <<>>
    /\ UNCHANGED vars

\* The click falls on widget w, whose handler calls PostEvent(PID, ID, ON_CLICK).
DispatchTo(w) ==
    /\ pc = "dispatch" /\ w \in widgets
    /\ event' = [event EXCEPT !.widget = w[1]]
    /\ target' = w[2]
    /\ pc' = "lookup"
    /\ UNCHANGED <<handler, inputVars, procVars, widgetVars, handlerVars, history>>

\* The click falls on the desktop or a kernel widget: no event.
DispatchNowhere ==
    /\ pc = "dispatch"
    /\ pc' = "idle"
    /\ event' = NoEvent
    /\ UNCHANGED <<target, handler, inputVars, procVars, widgetVars, handlerVars, history>>

\* PostEvent() looks the handler up, or gives up.
LookupHandler ==
    /\ pc = "lookup"
    /\ handler' = getHandler(target)
    /\ IF handler' = NoHandler
       THEN pc' = "idle" /\ target' = NoPid /\ event' = NoEvent
       ELSE pc' = "post" /\ UNCHANGED <<target, event>>
    /\ UNCHANGED <<inputVars, procVars, widgetVars, handlerVars, history>>

\* handler->eventQueue.Add(event).  A freed handler that has not been allocated
\* again takes the event out of sight; WakeProcess(), which follows, is
\* WakeThread() of module Scheduler.
PostEvent ==
    /\ pc = "post"
    /\ eventQueue' = IF handler \in Elems(handlerList)
                     THEN [eventQueue EXCEPT ![handler] = Add(@, event)]
                     ELSE eventQueue
    /\ accepted' = [accepted EXCEPT ![target] = @ \cup {event.n}]
    /\ pc' = "idle" /\ event' = NoEvent /\ target' = NoPid /\ handler' = NoHandler
    /\ UNCHANGED <<handlerList, hpid, inputVars, procVars, widgetVars, fetched, received>>

Next ==
    \/ \E p \in Pids : StartProcess(p) \/ CreateWidget(p) \/ ProcessExit(p) \/ Get(p)
    \/ \E p \in Pids, h \in Handlers : createNewHandler(p, h)
    \/ Push \/ Pop \/ NoInput \/ (\E w \in widgets : DispatchTo(w)) \/ DispatchNowhere
    \/ LookupHandler \/ PostEvent

Spec == Init /\ [][Next]_vars

\* Desktop::pDesktop() loops over ProcessInput() forever.
Desktop == Pop \/ (\E w \in widgets : DispatchTo(w)) \/ DispatchNowhere \/ LookupHandler \/ PostEvent

FairSpec == Spec /\ WF_vars(Desktop)

-------------------------------------------------------------------------------
\* Properties.

\* The events of a queue or a history, by input number.
Numbers(s) == {s[i].n : i \in DOMAIN s}

\* One input reaches one process once: no two GETs, of one process or of two,
\* return the same event, and none that is still queued has been returned.
AtMostOnce ==
    /\ \A p, q \in Pids : \A i \in DOMAIN fetched[p], j \in DOMAIN fetched[q] :
          fetched[p][i].n = fetched[q][j].n => p = q /\ i = j
    /\ \A h \in Elems(handlerList), p \in Pids : Numbers(eventQueue[h]) \cap Numbers(fetched[p]) = {}

\* Every interrupt is counted once: waiting in the ring, dropped by it, or taken
\* by the desktop thread in the order of arrival.
InputsAccountedFor ==
    /\ \A i, j \in DOMAIN inputQueue : i < j => inputQueue[i] < inputQueue[j]
    /\ \A i \in DOMAIN inputQueue : event.n < inputQueue[i]
    /\ inputs = Len(inputQueue) + overflow + taken

\* The events of s that are encoded without setting the sign of the word.
Positive(s) == SubSeqAt(s, {i \in DOMAIN s : 2 * (s[i].widget % HalfWord) < HalfWord})

\* User space receives, in order, exactly the events GET took off the queue whose widget ID
\* leaves the sign of the word alone, and receives them unchanged as long as the ID fits its
\* half of the word (Hgui.cpp:780).
SmallIDsReceived ==
    \A p \in Pids :
        LET kept == Positive(fetched[p])
        IN  /\ Len(received[p]) = Len(kept)
            /\ \A i \in DOMAIN kept : /\ received[p][i].n = kept[i].n
                                      /\ kept[i].widget < HalfWord => received[p][i] = kept[i]

\* PostEvent() returned TRUE for an event, so as long as its process lives the
\* event has been fetched by it or is in the queue that its next GET will read,
\* also when the process has registered a second handler since.
AcceptedIsDeliverable ==
    \A p \in live : accepted[p] \subseteq
        Numbers(fetched[p]) \cup
            (IF getHandler(p) = NoHandler THEN {} ELSE Numbers(eventQueue[getHandler(p)]))

\* From the interrupt to user space no input is duplicated, reordered in the ring, lost
\* without being counted, or garbled.
EventsSound == TypeOK /\ AtMostOnce /\ InputsAccountedFor /\ SmallIDsReceived
               /\ AcceptedIsDeliverable

\* An interrupt that the ring accepted is eventually dispatched.
InputsEventuallyTaken ==
    \A n \in 1..MaxInputs : (n \in Elems(inputQueue)) ~> (n \notin Elems(inputQueue))

\* "FIFO of events awaiting delivery": GET returns the events of a process in
\* the order they were posted.
DeliveredInOrder ==
    \A p \in Pids : \A i, j \in DOMAIN fetched[p] :
        i < j => fetched[p][i].n < fetched[p][j].n

\* "True when the event was accepted for delivery": user space unpacks exactly
\* the events GET took off the queue.
UnpackedAsPosted == received = fetched

===============================================================================

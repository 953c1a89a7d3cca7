------------------------------- MODULE Scheduler -------------------------------
(***************************************************************************)
(* The process and thread scheduler of the kernel (core/scheduler.cpp):    *)
(* thread and process control blocks, the ready and blocked queues, sleep  *)
(* and wake-up, thread and process exit with deferred reclamation, and the *)
(* part of the CPU state a context switch changes (TSS.esp0 and CR3).      *)
(*                                                                         *)
(* One CPU.  Syscalls and exceptions enter through interrupt gates and so  *)
(* run with IF=0: each is one atomic step, or two when the handler ends in *)
(* Schedule() (iflag is 0 between them, and then nothing but that          *)
(* Schedule() is enabled).  Kernel threads run with IF=1: the timer may    *)
(* preempt them between any two guarded sections, so each of their steps   *)
(* is an action of its own.                                                *)
(*                                                                         *)
(* Sleep() and nanosleep do not switch away: the caller keeps running in   *)
(* state BLOCKED until the next timer tick.  Any action of the current     *)
(* thread may therefore happen while its state is BLOCKED.                 *)
(***************************************************************************)
EXTENDS LinkedList, FiniteSets

CONSTANTS
    Threads,      \* addresses a ThreadControlBlock can be allocated at
    Procs,        \* addresses a ProcessControlBlock can be allocated at
    KStacks,      \* slot numbers of the kernel-stack zone (core/kstack.cpp)
    IdleThread,   \* the thread the constructor creates for the idle loop
    NoThread,     \* a null ThreadControlBlock pointer
    NoProc,       \* a null ProcessControlBlock pointer
    NoStack,      \* no kernel stack (the boot stack before the first switch)
    KernelPD,     \* Paging::KernelPageDirectory
    TickMod,      \* timerTicks and wakeTime are uint32_t: arithmetic modulo this
    SleepTimes    \* the durations threads sleep for

ASSUME ConstAssumption ==
    /\ IdleThread \in Threads
    /\ NoThread \notin Threads
    /\ NoProc \notin Procs
    /\ KStacks \subseteq Nat
    /\ NoStack \notin KStacks
    /\ KernelPD \notin Procs
    /\ TickMod \in Nat \ {0}
    /\ SleepTimes \subseteq Nat

VARIABLES
    \* thread control blocks
    tcbs,             \* the allocated ThreadControlBlocks
    state,            \* ThreadControlBlock.state
    wakeTime,         \* ThreadControlBlock.wakeTime
    parent,           \* ThreadControlBlock.parent
    stack,            \* ThreadControlBlock.stack, as a slot of the zone
    \* process control blocks
    procs,            \* globalProcessList
    kernelProcs,      \* those with isKernelProcess
    threads,          \* ProcessControlBlock.threads
    loading,          \* the process a kernel thread is loading an ELF into
    \* queues
    readyQueue, blockedQueue, terminatedQueue, pendingReclaims,
    \* kernel stacks in use and the CPU
    kstacks, currentThread, esp0, cr3, timerTicks, iflag

tcbVars  == <<tcbs, state, wakeTime, parent, stack>>
procVars == <<procs, kernelProcs, threads, loading>>
queueVars == <<readyQueue, blockedQueue, terminatedQueue, pendingReclaims>>
cpuVars  == <<currentThread, esp0, cr3, timerTicks, iflag>>
vars == <<tcbVars, procVars, queueVars, kstacks, cpuVars>>

ThreadStates == {"ready", "running", "blocked", "terminated"}

TypeOK ==
    /\ tcbs \subseteq Threads
    /\ state \in [Threads -> ThreadStates]
    /\ wakeTime \in [Threads -> 0..(TickMod-1)]
    /\ parent \in [Threads -> Procs \cup {NoProc}]
    /\ stack \in [Threads -> KStacks \cup {NoStack}]
    /\ procs \subseteq Procs
    /\ kernelProcs \subseteq Procs
    /\ threads \in [Procs -> SUBSET Threads]
    /\ loading \in [Threads -> Procs \cup {NoProc}]
    /\ readyQueue \in Seq(Threads)
    /\ blockedQueue \in Seq(Threads)
    /\ terminatedQueue \in Seq(Threads)
    /\ pendingReclaims \in Seq(Threads)
    /\ kstacks \subseteq KStacks
    /\ currentThread \in Threads \cup {NoThread}
    /\ esp0 \in KStacks \cup {NoStack}
    /\ cr3 \in Procs \cup {KernelPD}
    /\ timerTicks \in 0..(TickMod-1)
    /\ iflag \in {0, 1}

-------------------------------------------------------------------------------
\* Scheduler::Scheduler() creates the idle thread, which has no process and
\* never enters a queue; kernelMain() then creates the boot worker process p
\* with its thread t.
Booted(t, p, si, sb) ==
    /\ si < sb
    /\ \A k \in KStacks \ {si} : sb <= k
    /\ tcbs = {IdleThread, t}
    /\ state = [x \in Threads |-> IF x \in {IdleThread, t} THEN "ready" ELSE "terminated"]
    /\ parent = [x \in Threads |-> IF x = t THEN p ELSE NoProc]
    /\ stack = [x \in Threads |-> IF x = IdleThread THEN si
                                  ELSE IF x = t THEN sb ELSE NoStack]
    /\ procs = {p}
    /\ kernelProcs = {p}
    /\ threads = [x \in Procs |-> IF x = p THEN {t} ELSE {}]
    /\ readyQueue = <<t>>
    /\ kstacks = {si, sb}

\* kernelMain() enables interrupts: no thread has run yet.
Init ==
    /\ \E t \in Threads \ {IdleThread}, p \in Procs, si, sb \in KStacks : Booted(t, p, si, sb)
    /\ wakeTime = [x \in Threads |-> 0]
    /\ loading = [x \in Threads |-> NoProc]
    /\ blockedQueue = <<>>
    /\ terminatedQueue = <<>>
    /\ pendingReclaims = <<>>
    /\ currentThread = NoThread
    /\ esp0 = NoStack
    /\ cr3 = KernelPD
    /\ timerTicks = 0
    /\ iflag = 1

-------------------------------------------------------------------------------
\* The page directory of a process: kernel processes share KernelPageDirectory.
PageDirectory(p) == IF p \in kernelProcs THEN KernelPD ELSE p

\* GetCurrentProcess().
CurrentProcess == IF currentThread = NoThread THEN NoProc ELSE parent[currentThread]

\* The current thread belongs to a user process and enters the kernel by a
\* syscall or an exception.
InUserProcess ==
    /\ iflag = 1
    /\ currentThread # NoThread
    /\ CurrentProcess \in procs \ kernelProcs

\* The current thread is a kernel thread of some kernel process, not in the
\* middle of LaunchProgram().
InKernelThread ==
    /\ iflag = 1
    /\ currentThread # NoThread
    /\ CurrentProcess \in kernelProcs
    /\ loading[currentThread] = NoProc

\* Mutant: the scan for a free slot does not look at the bitmap.
FirstFreeStackNoBitmap(k) == k \in KStacks /\ \A j \in KStacks : k <= j

\* kstack_alloc(): slot k is the lowest one that is free.
FirstFreeStack(k) ==
    /\ k \in KStacks \ kstacks
    /\ \A j \in KStacks \ kstacks : k <= j

\* CreateThread(): a new TCB t with kernel stack k joins process p's list and
\* the tail of the ready queue.  kstack_alloc() returns the lowest free slot; when
\* there is none the caller undoes everything and the state is unchanged.
CreateThread(p, t, k) ==
    /\ t \in Threads \ tcbs
    /\ FirstFreeStack(k)
    /\ tcbs' = tcbs \cup {t}
    /\ state' = [state EXCEPT ![t] = "ready"]
    /\ wakeTime' = [wakeTime EXCEPT ![t] = 0]
    /\ parent' = [parent EXCEPT ![t] = p]
    /\ stack' = [stack EXCEPT ![t] = k]
    /\ threads' = [threads EXCEPT ![p] = @ \cup {t}]
    /\ readyQueue' = PushBack(readyQueue, t)
    /\ kstacks' = kstacks \cup {k}
    /\ UNCHANGED <<blockedQueue, terminatedQueue, pendingReclaims, cpuVars>>

\* CreateProcess() with its main thread, by a kernel thread that starts another
\* kernel process (the boot worker starts the splash and the desktop).
CreateKernelProcess(p, t, k) ==
    /\ InKernelThread
    /\ p \in Procs \ procs
    /\ procs' = procs \cup {p}
    /\ kernelProcs' = kernelProcs \cup {p}
    /\ CreateThread(p, t, k)
    /\ UNCHANGED loading

\* execve: CreateProcess(createMainThread = false), the load and
\* StartProcess() in one syscall.  Any failure kills the child again.
\* CloneCurrentProcess() (fork) registers its child the same way.
SpawnProcess(p, t, k) ==
    /\ InUserProcess
    /\ p \in Procs \ procs
    /\ procs' = procs \cup {p}
    /\ CreateThread(p, t, k)
    /\ UNCHANGED <<kernelProcs, loading>>

\* CloneCurrentThread() and Hsys_regEventH: one more thread in the current
\* process.
CloneCurrentThread(t, k) ==
    /\ InUserProcess
    /\ CreateThread(CurrentProcess, t, k)
    /\ UNCHANGED <<procs, kernelProcs, loading>>

\* LaunchProgram() on the desktop thread: loadELF() registers the process with
\* no thread, and the load that follows runs with interrupts enabled.
LaunchBegin(p) ==
    /\ InKernelThread
    /\ p \in Procs \ procs
    /\ procs' = procs \cup {p}
    /\ loading' = [loading EXCEPT ![currentThread] = p]
    /\ UNCHANGED <<tcbVars, kernelProcs, threads, queueVars, kstacks, cpuVars>>

\* StartProcess() at the end of LaunchProgram(): the entry thread is created.
LaunchStart(t, k) ==
    /\ iflag = 1
    /\ currentThread # NoThread
    /\ loading[currentThread] # NoProc
    /\ CreateThread(loading[currentThread], t, k)
    /\ loading' = [loading EXCEPT ![currentThread] = NoProc]
    /\ UNCHANGED <<procs, kernelProcs>>

\* The load failed, or StartProcess() could not create the entry thread:
\* KillProcess() on a process that has no thread.
LaunchFail ==
    /\ iflag = 1
    /\ currentThread # NoThread
    /\ loading[currentThread] # NoProc
    /\ procs' = procs \ {loading[currentThread]}
    /\ loading' = [loading EXCEPT ![currentThread] = NoProc]
    /\ UNCHANGED <<tcbVars, kernelProcs, threads, queueVars, kstacks, cpuVars>>

-------------------------------------------------------------------------------
\* The threads of S are terminated and those of gone freed with their stacks.
Terminate(S, gone) ==
    /\ state' = [t \in Threads |-> IF t \in S THEN "terminated" ELSE state[t]]
    /\ readyQueue' = RemoveFirsts(readyQueue, S)
    /\ blockedQueue' = RemoveFirsts(blockedQueue, S)
    /\ tcbs' = tcbs \ gone
    /\ kstacks' = kstacks \ {stack[t] : t \in gone}
    /\ stack' = [t \in Threads |-> IF t \in gone THEN NoStack ELSE stack[t]]
    /\ parent' = [t \in Threads |-> IF t \in gone THEN NoProc ELSE parent[t]]
    /\ wakeTime' = [t \in Threads |-> IF t \in gone THEN 0 ELSE wakeTime[t]]
    /\ pendingReclaims' = IF currentThread \in S
                          THEN PushBack(pendingReclaims, currentThread)
                          ELSE pendingReclaims
    /\ currentThread' = IF currentThread \in S THEN NoThread ELSE currentThread

\* TerminateThread() on every thread of S.  A thread that is not current is
\* freed with its stack at once; the current one is still on its stack, so it
\* only goes on pendingReclaims and currentThread becomes null.
TerminateThreads(S) == Terminate(S, S \ {currentThread})

\* Mutant: KillProcess() frees the directory the CPU is on.
StayInDirectory(p) == UNCHANGED cr3

\* KillProcess() first leaves the page directory it will free.
LeaveDirectory(p) == cr3' = IF cr3 = PageDirectory(p) THEN KernelPD ELSE cr3

\* KillProcess(p): leave p's page directory if it is the active one, terminate
\* every thread of p, free the directory and unlink the process.
KillProcess(p) ==
    /\ LeaveDirectory(p)
    /\ TerminateThreads(threads[p])
    /\ threads' = [threads EXCEPT ![p] = {}]
    /\ procs' = procs \ {p}
    /\ kernelProcs' = kernelProcs \ {p}

\* The threads of p that ExitCurrentThread() counts.
ActiveThreads(p) == {t \in threads[p] : state[t] # "terminated"}

\* Mutant: the process is killed only when no live thread is left.
LastThreadGone(p) == ActiveThreads(p) = {}

\* No thread of p but the caller is live.
LastThread(p) == Cardinality(ActiveThreads(p)) <= 1

\* ExitCurrentThread(): the last live thread takes its process with it.
ExitCurrentThread ==
    LET p == CurrentProcess
    IN  IF LastThread(p)
        THEN KillProcess(p)
        ELSE /\ TerminateThreads({currentThread})
             /\ threads' = [threads EXCEPT ![p] = @ \ {currentThread}]
             /\ UNCHANGED <<procs, kernelProcs, cr3>>

\* sys_exit, also reached through the exit trampoline; the handler goes on to
\* Schedule().
SysExit ==
    /\ InUserProcess
    /\ ExitCurrentThread
    /\ iflag' = 0
    /\ UNCHANGED <<loading, terminatedQueue, esp0, timerTicks>>

\* sys_exit_group, and a fault in user mode: both kill the current process and
\* go on to Schedule().
SysExitGroup ==
    /\ InUserProcess
    /\ KillProcess(CurrentProcess)
    /\ iflag' = 0
    /\ UNCHANGED <<loading, terminatedQueue, esp0, timerTicks>>

\* A kernel thread's function returns into ThreadExit(), which halts until the
\* timer interrupt.  Kernel processes have one thread, so no other thread
\* looks at the thread list ExitCurrentThread() walks with interrupts on.
KernelThreadExit ==
    /\ InKernelThread
    /\ ExitCurrentThread
    /\ UNCHANGED <<loading, terminatedQueue, esp0, timerTicks, iflag>>

-------------------------------------------------------------------------------
\* Sleep(), from a kernel thread or through nanosleep.
Sleep(ms) ==
    /\ InUserProcess \/ InKernelThread
    /\ wakeTime' = [wakeTime EXCEPT ![currentThread] = (timerTicks + ms) % TickMod]
    /\ state' = [state EXCEPT ![currentThread] = "blocked"]
    /\ UNCHANGED <<tcbs, parent, stack, procVars, queueVars, kstacks, cpuVars>>

\* WakeThread(t), called by the desktop thread on the event-handler thread of a
\* user process.
WakeThread(t) ==
    /\ InKernelThread
    /\ t \in tcbs
    /\ parent[t] \in procs \ kernelProcs
    /\ state[t] = "blocked"
    /\ state' = [state EXCEPT ![t] = "ready"]
    /\ wakeTime' = [wakeTime EXCEPT ![t] = 0]
    /\ blockedQueue' = RemoveFirsts(blockedQueue, {t})
    /\ readyQueue' = PushBack(readyQueue, t)
    /\ UNCHANGED <<tcbs, parent, stack, procVars, terminatedQueue, pendingReclaims,
                   kstacks, cpuVars>>

-------------------------------------------------------------------------------
\* Mutant: the deferred threads are forgotten.
NeverDrain == UNCHANGED <<pendingReclaims, tcbs, kstacks, stack, parent>>

\* DrainPendingReclaims(): free the stack and the TCB of every deferred thread.
DrainPendingReclaims ==
    LET dead == Elems(pendingReclaims)
    IN  /\ pendingReclaims' = <<>>
        /\ tcbs' = tcbs \ dead
        /\ kstacks' = kstacks \ {stack[t] : t \in dead}
        /\ stack' = [t \in Threads |-> IF t \in dead THEN NoStack ELSE stack[t]]
        /\ parent' = [t \in Threads |-> IF t \in dead THEN NoProc ELSE parent[t]]

\* Mutant: the outgoing thread is requeued whatever its state.
PreemptedInAnyState == currentThread # NoThread /\ currentThread # IdleThread

\* Mutant: the idle thread is requeued as well.
PreemptedIdleToo == currentThread # NoThread /\ state[currentThread] = "running"

\* The current thread is preempted: it goes back to the ready queue.
Preempted ==
    /\ currentThread # NoThread
    /\ currentThread # IdleThread
    /\ state[currentThread] = "running"

\* The outgoing thread goes to the tail of q if cond holds of it.
OutgoingTo(q, cond) == IF currentThread # NoThread /\ cond THEN PushBack(q, currentThread) ELSE q

\* Mutant: sleepers are woken at the first tick.
DueAtOnce(bq, now) == {i \in DOMAIN bq : state[bq[i]] = "blocked"}

\* Mutant: a sleeper is woken only after its time.
DueAfter(bq, now) == {i \in DOMAIN bq : state[bq[i]] = "blocked" /\ wakeTime[bq[i]] < now}

\* The positions of queue bq whose threads are due for wake-up at time now.
Due(bq, now) == {i \in DOMAIN bq : state[bq[i]] = "blocked" /\ wakeTime[bq[i]] <= now}

\* Schedule(): requeue the outgoing thread by its state, wake the sleepers that
\* are due, switch to the head of the ready queue or to the idle thread, and
\* reclaim the threads that exited on the stack being left.
Schedule(now) ==
    LET blocked == OutgoingTo(blockedQueue, state[currentThread] = "blocked")
        due     == Due(blocked, now)
        woken   == {blocked[i] : i \in due}
        ready   == OutgoingTo(readyQueue, Preempted) \o SubSeqAt(blocked, due)
        next    == IF ready = <<>> THEN IdleThread ELSE Head(ready)
    IN  /\ currentThread' = next
        /\ readyQueue' = IF ready = <<>> THEN <<>> ELSE Tail(ready)
        /\ blockedQueue' = SubSeqAt(blocked, DOMAIN blocked \ due)
        /\ terminatedQueue' = OutgoingTo(terminatedQueue, state[currentThread] = "terminated")
        /\ state' = [t \in Threads |->
                        IF t = next THEN "running"
                        ELSE IF t \in woken \/ (Preempted /\ t = currentThread) THEN "ready"
                        ELSE state[t]]
        /\ wakeTime' = [t \in Threads |->
                            IF t \in woken \cup Elems(pendingReclaims) THEN 0 ELSE wakeTime[t]]
        /\ esp0' = stack[next]
        /\ cr3' = IF parent[next] = NoProc THEN KernelPD ELSE PageDirectory(parent[next])
        /\ DrainPendingReclaims
        /\ UNCHANGED procVars

\* The timer interrupt, whenever interrupts are enabled.
TimerTick ==
    LET now == (timerTicks + 1) % TickMod
    IN  /\ iflag = 1
        /\ timerTicks' = now
        /\ Schedule(now)
        /\ UNCHANGED iflag

\* The Schedule() an exit or fault handler ends with, still with IF=0.
HandlerReturn ==
    /\ iflag = 0
    /\ iflag' = 1
    /\ Schedule(timerTicks)
    /\ UNCHANGED timerTicks

\* Vector 0x2E, the yield vector of DoHandleInterrupt(): nothing raises it by an
\* instruction, but it is also where IRQ 14 of the primary disk channel arrives,
\* whose interrupts the driver leaves enabled.
DiskInterrupt ==
    /\ iflag = 1
    /\ Schedule(timerTicks)
    /\ UNCHANGED <<timerTicks, iflag>>

-------------------------------------------------------------------------------
Next ==
    \/ \E p \in Procs, t \in Threads, k \in KStacks : CreateKernelProcess(p, t, k)
    \/ \E p \in Procs, t \in Threads, k \in KStacks : SpawnProcess(p, t, k)
    \/ \E t \in Threads, k \in KStacks : CloneCurrentThread(t, k)
    \/ \E p \in Procs : LaunchBegin(p)
    \/ \E t \in Threads, k \in KStacks : LaunchStart(t, k)
    \/ LaunchFail
    \/ SysExit
    \/ SysExitGroup
    \/ KernelThreadExit
    \/ \E ms \in SleepTimes : Sleep(ms)
    \/ \E t \in Threads : WakeThread(t)
    \/ TimerTick
    \/ HandlerReturn
    \/ DiskInterrupt

Spec == Init /\ [][Next]_vars

\* The timer keeps firing, and a handler returns: nothing else is assumed of the
\* threads.  A tick that arrives while a handler runs with IF=0 stays latched in
\* the interrupt controller, so the timer cannot be overtaken forever by a
\* succession of handlers (strong fairness).
FairSpec == Spec /\ SF_vars(TimerTick) /\ WF_vars(HandlerReturn)

-------------------------------------------------------------------------------
\* Properties.

\* The threads that are still alive: allocated and not waiting for reclamation.
Live == {t \in tcbs : state[t] # "terminated"}

\* A queue never holds a freed or a terminated TCB, and never one thread twice:
\* LinkedList::Remove() takes out one occurrence only, so after a duplicate the
\* next TerminateThread() would leave a dangling pointer behind.  The ready
\* queue holds exactly the ready threads and the blocked queue exactly the
\* blocked ones that have been switched away from, although Sleep() marks the
\* thread BLOCKED long before Schedule() queues it.
QueueDiscipline ==
    /\ NoRepeat(readyQueue) /\ NoRepeat(blockedQueue)
    /\ Elems(readyQueue) = {t \in tcbs \ {IdleThread} :
                                state[t] = "ready" /\ t # currentThread}
    /\ Elems(blockedQueue) = {t \in tcbs : state[t] = "blocked" /\ t # currentThread}

\* Every allocated TCB owns a kernel stack of its own, and every stack slot in
\* use is owned: exits, failed launches and kills neither leak a slot nor free
\* one twice.
StackOwnership ==
    /\ \A t, u \in tcbs : stack[t] = stack[u] => t = u
    /\ kstacks = {stack[t] : t \in tcbs}

\* TSS.esp0 names the stack of the current thread, and once the current thread
\* has exited the stack of a thread whose reclamation is still pending: between
\* two steps the CPU is never on a kernel stack that has been given back.
CpuStackOwned ==
    IF currentThread # NoThread
    THEN currentThread \in Live /\ esp0 = stack[currentThread]
    ELSE esp0 # NoStack => \E t \in Elems(pendingReclaims) : t \in tcbs /\ esp0 = stack[t]

\* CR3 is never the directory of a process that has been killed, and it is the
\* current thread's directory whenever a thread runs.
Cr3Live ==
    /\ cr3 \in procs \cup {KernelPD}
    /\ CurrentProcess # NoProc => cr3 = PageDirectory(CurrentProcess)

\* A process on the global list has a live thread or is being loaded: the last
\* thread to exit reaps its process, whichever thread that is.
NoZombieProcess ==
    \A p \in procs : \E t \in Live : parent[t] = p \/ loading[t] = p

\* A live thread's process is on the global list and lists the thread: parent
\* pointers and thread lists agree, so KillProcess() reaches every thread.
ParentLinks ==
    /\ \A t \in Live \ {IdleThread} : parent[t] \in procs /\ t \in threads[parent[t]]
    /\ \A p \in procs : \A t \in threads[p] : t \in Live /\ parent[t] = p

\* Schedule() has a branch that moves a terminated current thread to
\* terminatedQueue, which nothing ever drains; TerminateThread() clears
\* currentThread, so the branch must stay dead.
NothingLeaksToTerminatedQueue == terminatedQueue = <<>>

\* A sleeping thread, from the moment Sleep() marks it, leaves the blocked state
\* only when its time has come by the clock Schedule() reads, when the desktop
\* wakes it, or when it dies.
SleepersWakeInTime ==
    [][\A t \in Threads :
          (state[t] = "blocked" /\ state'[t] # "blocked")
             => \/ wakeTime[t] <= timerTicks'
                \/ WakeThread(t)
                \/ state'[t] = "terminated"]_vars

\* What the comment in Schedule() says of DrainPendingReclaims(): "Now running on
\* the new thread's stack - safe to reclaim deferred threads".  No step gives
\* back the kernel stack it runs on, the one TSS.esp0 named when it began.
ReclaimedOffStack == [][\A k \in kstacks \ kstacks' : k # esp0]_vars

\* Round robin: a ready thread eventually runs or dies.
ReadyEventuallyRuns ==
    \A t \in Threads \ {IdleThread} : state[t] = "ready" ~> state[t] # "ready"

\* A sleeper eventually wakes or dies, also when the tick counter wraps around
\* before its wake time.
SleeperEventuallyWakes ==
    \A t \in Threads : state[t] = "blocked" ~> state[t] # "blocked"

\* The stack of an exited thread is eventually given back.
ExitedEventuallyReclaimed ==
    \A t \in Threads : t \in Elems(pendingReclaims) ~> t \notin Elems(pendingReclaims)

-------------------------------------------------------------------------------
\* The inductive invariant behind the safety properties.

\* The state field of a TCB tells what may hold a pointer to it.  The idle
\* thread keeps state RUNNING when another thread is switched in.
StateInv ==
    /\ IdleThread \in tcbs
    /\ state[IdleThread] \in {"ready", "running"}
    /\ parent[IdleThread] = NoProc
    /\ \A t \in Threads \ tcbs : state[t] = "terminated"
    /\ \A t \in Threads \ {IdleThread} : state[t] = "running" => t = currentThread
    /\ currentThread # NoThread => /\ currentThread \in tcbs
                                   /\ state[currentThread] \in {"running", "blocked"}
    /\ iflag = 0 => currentThread = NoThread

\* A terminated thread waits on pendingReclaims, and only between the exit of
\* the current thread and the next Schedule().
ReclaimInv ==
    /\ Elems(pendingReclaims) = {t \in tcbs : state[t] = "terminated"}
    /\ currentThread # NoThread => Elems(pendingReclaims) = {}

StackInv == \A t \in tcbs : stack[t] \in KStacks

\* Thread lists are exactly the live threads; kernel processes have at most one
\* thread.
ProcInv ==
    /\ kernelProcs \subseteq procs
    /\ \A t \in Live \ {IdleThread} : parent[t] \in procs
    /\ \A p \in Procs : threads[p] = {t \in Live : parent[t] = p}
    /\ \A p \in kernelProcs : \A t, u \in threads[p] : t = u
    /\ cr3 \notin kernelProcs

\* A process being loaded belongs to one live kernel thread and has no thread.
LoadInv ==
    \A t \in Threads : loading[t] # NoProc =>
        /\ t \in Live
        /\ parent[t] \in kernelProcs
        /\ loading[t] \in procs \ kernelProcs
        /\ threads[loading[t]] = {}
        /\ \A u \in Threads : loading[u] = loading[t] => u = t

IInv ==
    /\ TypeOK /\ StateInv /\ QueueDiscipline /\ ReclaimInv /\ StackInv /\ StackOwnership
    /\ CpuStackOwned /\ ProcInv /\ LoadInv /\ Cr3Live /\ NoZombieProcess
    /\ NothingLeaksToTerminatedQueue

===============================================================================

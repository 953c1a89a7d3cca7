---------------------------- MODULE SchedulerProofs ----------------------------
(***************************************************************************)
(* The safety properties of Scheduler hold for any number of threads,      *)
(* processes and kernel stacks.                                            *)
(***************************************************************************)
EXTENDS Scheduler, LinkedListProofs, FiniteSetTheorems

\* The invariant holds when kernelMain() enables interrupts.
LEMMA InitIInv == Init => IInv
<1>. SUFFICES ASSUME Init PROVE IInv
  OBVIOUS
<1>1. PICK t \in Threads \ {IdleThread}, p \in Procs, si, sb \in KStacks : Booted(t, p, si, sb)
  BY DEF Init
<1>. USE DEF Booted
<1>2. Elems(readyQueue) = {t} /\ NoRepeat(readyQueue) /\ readyQueue \in Seq(Threads)
  BY <1>1 DEF Elems, NoRepeat
<1>3. Elems(<<>>) = {} /\ NoRepeat(<<>>)
  BY DEF Elems, NoRepeat
<1>4. si # sb
  BY <1>1, ConstAssumption
<1>5. Live = {IdleThread, t}
  BY <1>1, ConstAssumption DEF Live
<1>6. TypeOK
  <2>1. /\ tcbs \subseteq Threads
        /\ state \in [Threads -> ThreadStates]
        /\ parent \in [Threads -> Procs \cup {NoProc}]
        /\ stack \in [Threads -> KStacks \cup {NoStack}]
    BY <1>1, ConstAssumption DEF ThreadStates
  <2>2. /\ procs \subseteq Procs
        /\ kernelProcs \subseteq Procs
        /\ threads \in [Procs -> SUBSET Threads]
        /\ kstacks \subseteq KStacks
    BY <1>1
  <2>3. /\ wakeTime \in [Threads -> 0..(TickMod-1)]
        /\ timerTicks \in 0..(TickMod-1)
    BY ConstAssumption DEF Init
  <2>4. /\ loading \in [Threads -> Procs \cup {NoProc}]
        /\ readyQueue \in Seq(Threads)
        /\ blockedQueue \in Seq(Threads)
        /\ terminatedQueue \in Seq(Threads)
        /\ pendingReclaims \in Seq(Threads)
        /\ currentThread \in Threads \cup {NoThread}
        /\ esp0 \in KStacks \cup {NoStack}
        /\ cr3 \in Procs \cup {KernelPD}
    BY <1>2 DEF Init
  <2>5. iflag \in {0, 1}
    BY DEF Init
  <2>. QED
    BY <2>1, <2>2, <2>3, <2>4, <2>5 DEF TypeOK
<1>7. StateInv
  BY <1>1, ConstAssumption DEF Init, StateInv
<1>8. QueueDiscipline
  BY <1>1, <1>2, <1>3, ConstAssumption DEF Init, QueueDiscipline
<1>9. ReclaimInv /\ NothingLeaksToTerminatedQueue
  BY <1>1, <1>3, ConstAssumption DEF Init, ReclaimInv, NothingLeaksToTerminatedQueue
<1>10. StackInv /\ StackOwnership /\ CpuStackOwned
  BY <1>1, <1>3, <1>4, ConstAssumption DEF Init, StackInv, StackOwnership, CpuStackOwned
<1>11. ProcInv
  BY <1>1, <1>5, ConstAssumption DEF Init, ProcInv
<1>12. LoadInv /\ Cr3Live /\ NoZombieProcess
  BY <1>1, <1>5, ConstAssumption DEF Init, LoadInv, Cr3Live, CurrentProcess, NoZombieProcess
<1>. QED
  BY <1>6, <1>7, <1>8, <1>9, <1>10, <1>11, <1>12 DEF IInv
\* Sleep() changes one thread, which is current and so in no queue.
LEMMA SleepStep ==
    ASSUME IInv, NEW ms \in SleepTimes, Sleep(ms)
    PROVE  IInv'
<1>. USE DEF IInv
<1>1. currentThread \in tcbs /\ currentThread \in Threads /\ currentThread # NoThread
  BY ConstAssumption DEF Sleep, InUserProcess, InKernelThread, StateInv, TypeOK
<1>2. currentThread # IdleThread
  BY <1>1, ConstAssumption
     DEF Sleep, InUserProcess, InKernelThread, CurrentProcess, StateInv, ProcInv, TypeOK
<1>3. (timerTicks + ms) % TickMod \in 0..(TickMod-1)
  BY ConstAssumption DEF TypeOK
<1>4. /\ state' = [state EXCEPT ![currentThread] = "blocked"]
      /\ UNCHANGED <<tcbs, parent, stack, procVars, queueVars, kstacks, cpuVars>>
  BY DEF Sleep
<1>5. TypeOK'
  BY <1>1, <1>3, <1>4 DEF Sleep, TypeOK, ThreadStates, procVars, queueVars, cpuVars
<1>6. StateInv'
  BY <1>1, <1>2, <1>4 DEF StateInv, TypeOK, cpuVars
<1>7. Live' = Live
  BY <1>1, <1>4 DEF Live, TypeOK, StateInv
<1>8. QueueDiscipline'
  BY <1>1, <1>4 DEF QueueDiscipline, TypeOK, queueVars, cpuVars, StateInv
<1>9. ReclaimInv' /\ NothingLeaksToTerminatedQueue'
  BY <1>1, <1>4 DEF ReclaimInv, TypeOK, queueVars, cpuVars, StateInv, NothingLeaksToTerminatedQueue
<1>10. StackInv' /\ StackOwnership' /\ CpuStackOwned'
  BY <1>1, <1>4, <1>7 DEF StackInv, StackOwnership, CpuStackOwned, queueVars, cpuVars
<1>11. ProcInv' /\ LoadInv' /\ Cr3Live' /\ NoZombieProcess'
  BY <1>1, <1>4, <1>7
     DEF ProcInv, LoadInv, Cr3Live, NoZombieProcess, CurrentProcess, PageDirectory, procVars, cpuVars
<1>. QED
  BY <1>5, <1>6, <1>8, <1>9, <1>10, <1>11

\* WakeThread() moves a blocked thread that is not current between the queues.
LEMMA WakeThreadStep ==
    ASSUME IInv, NEW t \in Threads, WakeThread(t)
    PROVE  IInv'
<1>. USE DEF IInv
<1>1. /\ t \in tcbs /\ state[t] = "blocked"
      /\ state' = [state EXCEPT ![t] = "ready"]
      /\ blockedQueue' = RemoveFirsts(blockedQueue, {t})
      /\ readyQueue' = PushBack(readyQueue, t)
      /\ UNCHANGED <<tcbs, parent, stack, procVars, terminatedQueue, pendingReclaims,
                     kstacks, cpuVars>>
  BY DEF WakeThread
<1>2. t # currentThread /\ t # IdleThread
  BY ConstAssumption
     DEF WakeThread, InKernelThread, CurrentProcess, StateInv, ProcInv, TypeOK
<1>3. /\ readyQueue' \in Seq(Threads)
      /\ Elems(readyQueue') = Elems(readyQueue) \cup {t}
      /\ NoRepeat(readyQueue')
  <2>1. readyQueue \in Seq(Threads) /\ NoRepeat(readyQueue) /\ t \notin Elems(readyQueue)
    BY <1>1 DEF QueueDiscipline, TypeOK
  <2>. QED
    BY <1>1, <2>1, PushBackFacts
<1>4. /\ blockedQueue' \in Seq(Threads)
      /\ Elems(blockedQueue') = Elems(blockedQueue) \ {t}
      /\ NoRepeat(blockedQueue')
  <2>1. blockedQueue \in Seq(Threads) /\ NoRepeat(blockedQueue)
    BY DEF QueueDiscipline, TypeOK
  <2>. QED
    BY <1>1, <2>1, RemoveFirstsFacts
<1>5. TypeOK'
  <2>1. wakeTime' \in [Threads -> 0..(TickMod-1)]
    BY ConstAssumption DEF WakeThread, TypeOK
  <2>. QED
    BY <1>1, <1>3, <1>4, <2>1 DEF TypeOK, ThreadStates, procVars, cpuVars
<1>6. StateInv'
  BY <1>1, <1>2 DEF StateInv, TypeOK, cpuVars
<1>7. Live' = Live
  BY <1>1 DEF Live, TypeOK
<1>8. QueueDiscipline'
  <2>1. Elems(readyQueue') = {u \in tcbs' \ {IdleThread} :
                                state'[u] = "ready" /\ u # currentThread'}
    BY <1>1, <1>2, <1>3 DEF QueueDiscipline, TypeOK, cpuVars
  <2>2. Elems(blockedQueue') = {u \in tcbs' : state'[u] = "blocked" /\ u # currentThread'}
    BY <1>1, <1>2, <1>4 DEF QueueDiscipline, TypeOK, cpuVars
  <2>. QED
    BY <1>3, <1>4, <2>1, <2>2 DEF QueueDiscipline
<1>9. ReclaimInv' /\ NothingLeaksToTerminatedQueue'
  BY <1>1 DEF ReclaimInv, TypeOK, cpuVars, NothingLeaksToTerminatedQueue
<1>10. StackInv' /\ StackOwnership' /\ CpuStackOwned'
  BY <1>1, <1>7 DEF StackInv, StackOwnership, CpuStackOwned, cpuVars
<1>11. ProcInv' /\ LoadInv' /\ Cr3Live' /\ NoZombieProcess'
  BY <1>1, <1>7
     DEF ProcInv, LoadInv, Cr3Live, NoZombieProcess, CurrentProcess, PageDirectory, procVars, cpuVars
<1>. QED
  BY <1>5, <1>6, <1>8, <1>9, <1>10, <1>11

\* What creating a thread of process p does to the invariants of threads,
\* queues and stacks.
LEMMA CreateThreadStep ==
    ASSUME IInv, NEW p \in Procs, NEW t \in Threads, NEW k \in KStacks,
           CreateThread(p, t, k)
    PROVE  /\ t \notin tcbs /\ t # IdleThread /\ t # currentThread
           /\ wakeTime' \in [Threads -> 0..(TickMod-1)]
           /\ readyQueue' \in Seq(Threads)
           /\ Live' = Live \cup {t}
           /\ StateInv' /\ QueueDiscipline' /\ ReclaimInv' /\ StackInv' /\ StackOwnership'
           /\ CpuStackOwned' /\ NothingLeaksToTerminatedQueue'
<1>. USE DEF IInv
<1>1. /\ t \notin tcbs /\ k \notin kstacks
      /\ tcbs' = tcbs \cup {t}
      /\ state' = [state EXCEPT ![t] = "ready"]
      /\ parent' = [parent EXCEPT ![t] = p]
      /\ stack' = [stack EXCEPT ![t] = k]
      /\ readyQueue' = PushBack(readyQueue, t)
      /\ kstacks' = kstacks \cup {k}
      /\ UNCHANGED <<blockedQueue, terminatedQueue, pendingReclaims, cpuVars>>
  BY DEF CreateThread, FirstFreeStack
<1>2. t # currentThread /\ t # IdleThread
  BY <1>1, ConstAssumption DEF StateInv
<1>3. /\ readyQueue' \in Seq(Threads)
      /\ Elems(readyQueue') = Elems(readyQueue) \cup {t}
      /\ NoRepeat(readyQueue')
  <2>1. readyQueue \in Seq(Threads) /\ NoRepeat(readyQueue) /\ t \notin Elems(readyQueue)
    BY <1>1 DEF QueueDiscipline, TypeOK
  <2>. QED
    BY <1>1, <2>1, PushBackFacts
<1>4. wakeTime' \in [Threads -> 0..(TickMod-1)]
  BY ConstAssumption DEF CreateThread, TypeOK
<1>5. StateInv'
  BY <1>1, <1>2 DEF StateInv, TypeOK, cpuVars
<1>6. Live' = Live \cup {t}
  BY <1>1 DEF Live, TypeOK
<1>7. QueueDiscipline'
  <2>1. Elems(readyQueue') = {u \in tcbs' \ {IdleThread} :
                                state'[u] = "ready" /\ u # currentThread'}
    BY <1>1, <1>2, <1>3 DEF QueueDiscipline, TypeOK, cpuVars
  <2>2. Elems(blockedQueue') = {u \in tcbs' : state'[u] = "blocked" /\ u # currentThread'}
    BY <1>1, <1>2 DEF QueueDiscipline, TypeOK, cpuVars
  <2>. QED
    BY <1>1, <1>3, <2>1, <2>2 DEF QueueDiscipline
<1>8. ReclaimInv' /\ NothingLeaksToTerminatedQueue'
  BY <1>1 DEF ReclaimInv, TypeOK, cpuVars, NothingLeaksToTerminatedQueue
<1>9. StackInv'
  BY <1>1 DEF StackInv, TypeOK
<1>10. StackOwnership'
  <2>1. \A u \in tcbs : stack'[u] = stack[u] /\ stack[u] \in kstacks /\ stack[u] # k
    BY <1>1 DEF StackOwnership, TypeOK
  <2>2. stack'[t] = k
    BY <1>1 DEF TypeOK
  <2>. QED
    BY <1>1, <2>1, <2>2 DEF StackOwnership
<1>11. CpuStackOwned'
  <2>1. \A u \in tcbs : stack'[u] = stack[u]
    BY <1>1 DEF TypeOK
  <2>. QED
    BY <1>1, <1>6, <2>1 DEF CpuStackOwned, cpuVars, Live
<1>. QED
  BY <1>1, <1>2, <1>3, <1>4, <1>5, <1>6, <1>7, <1>8, <1>9, <1>10, <1>11

\* A thread created in process p keeps the process invariants if p is listed
\* afterwards, p was a user process or is new, and p's load, if it had one,
\* ends with this step.
LEMMA CreateThreadProcs ==
    ASSUME IInv, NEW p \in Procs, NEW t \in Threads, NEW k \in KStacks,
           CreateThread(p, t, k),
           procs' \in SUBSET Procs, kernelProcs' \in SUBSET procs', p \in procs',
           procs' = procs \cup {p},
           kernelProcs' = kernelProcs \/ (kernelProcs' = kernelProcs \cup {p} /\ p \notin procs),
           p \notin kernelProcs,
           loading' \in [Threads -> Procs \cup {NoProc}],
           \A u \in Threads : loading'[u] = IF loading[u] = p THEN NoProc ELSE loading[u]
    PROVE  IInv'
<1>. USE DEF IInv
<1>1. /\ t \notin tcbs /\ t # IdleThread /\ t # currentThread
      /\ wakeTime' \in [Threads -> 0..(TickMod-1)]
      /\ readyQueue' \in Seq(Threads)
      /\ Live' = Live \cup {t}
      /\ StateInv' /\ QueueDiscipline' /\ ReclaimInv' /\ StackInv' /\ StackOwnership'
      /\ CpuStackOwned' /\ NothingLeaksToTerminatedQueue'
  BY CreateThreadStep
<1>2. /\ tcbs' = tcbs \cup {t}
      /\ state' = [state EXCEPT ![t] = "ready"]
      /\ parent' = [parent EXCEPT ![t] = p]
      /\ stack' = [stack EXCEPT ![t] = k]
      /\ threads' = [threads EXCEPT ![p] = @ \cup {t}]
      /\ kstacks' = kstacks \cup {k}
      /\ UNCHANGED <<blockedQueue, terminatedQueue, pendingReclaims, cpuVars>>
  BY DEF CreateThread
<1>3. TypeOK'
  BY <1>1, <1>2 DEF TypeOK, ThreadStates, cpuVars
<1>4. t \notin Live /\ NoProc \notin Procs
  BY <1>1, ConstAssumption DEF Live
<1>5. \A u \in Threads : parent'[u] = IF u = t THEN p ELSE parent[u]
  BY <1>2 DEF TypeOK
<1>6. ProcInv'
  <2>1. \A q \in Procs : threads'[q] = {u \in Live' : parent'[u] = q}
    BY <1>1, <1>2, <1>4, <1>5 DEF ProcInv, TypeOK, Live
  <2>2. p \notin procs => threads[p] = {}
    BY ConstAssumption DEF ProcInv, Live, StateInv, TypeOK
  <2>3. \A q \in kernelProcs' : \A u, v \in threads'[q] : u = v
    BY <1>2, <2>2 DEF ProcInv, TypeOK
  <2>4. cr3' \notin kernelProcs'
    BY <1>2, ConstAssumption DEF ProcInv, Cr3Live, cpuVars
  <2>5. \A u \in Live' \ {IdleThread} : parent'[u] \in procs'
    BY <1>1, <1>5 DEF ProcInv, Live, TypeOK
  <2>. QED
    BY <2>1, <2>3, <2>4, <2>5 DEF ProcInv
<1>7. LoadInv'
  <2>. SUFFICES ASSUME NEW u \in Threads, loading'[u] # NoProc
                PROVE  /\ u \in Live'
                       /\ parent'[u] \in kernelProcs'
                       /\ loading'[u] \in procs' \ kernelProcs'
                       /\ threads'[loading'[u]] = {}
                       /\ \A v \in Threads : loading'[v] = loading'[u] => v = u
    BY DEF LoadInv
  <2>1. loading[u] # p /\ loading'[u] = loading[u] /\ loading[u] \in Procs /\ loading[u] # NoProc
    BY DEF TypeOK
  <2>2. /\ u \in Live /\ parent[u] \in kernelProcs /\ loading[u] \in procs \ kernelProcs
        /\ threads[loading[u]] = {} /\ \A v \in Threads : loading[v] = loading[u] => v = u
    BY <2>1 DEF LoadInv
  <2>3. u # t
    BY <2>2, <1>4
  <2>4. u \in Live' /\ parent'[u] \in kernelProcs'
    BY <2>2, <2>3, <1>1, <1>5
  <2>5. loading'[u] \in procs' \ kernelProcs'
    BY <2>1, <2>2
  <2>6. threads'[loading'[u]] = {}
    BY <2>1, <2>2, <1>2 DEF TypeOK
  <2>7. \A v \in Threads : loading'[v] = loading'[u] => v = u
    BY <2>1, <2>2
  <2>. QED
    BY <2>4, <2>5, <2>6, <2>7
<1>8. Cr3Live'
  <2>1. CurrentProcess' = CurrentProcess
    BY <1>1, <1>2, <1>5 DEF CurrentProcess, cpuVars, TypeOK
  <2>2. CurrentProcess # NoProc => CurrentProcess \in procs
    BY ConstAssumption DEF CurrentProcess, ProcInv, StateInv, Live, TypeOK
  <2>. QED
    BY <1>2, <2>1, <2>2 DEF Cr3Live, PageDirectory, cpuVars
<1>9. NoZombieProcess'
  <2>. SUFFICES ASSUME NEW q \in procs'
                PROVE  \E u \in Live' : parent'[u] = q \/ loading'[u] = q
    BY DEF NoZombieProcess
  <2>1. CASE q = p
    BY <2>1, <1>1, <1>5
  <2>2. CASE q # p
    <3>1. PICK u \in Live : parent[u] = q \/ loading[u] = q
      BY <2>2 DEF NoZombieProcess
    <3>2. u # t /\ u \in Threads /\ u \in Live'
      BY <3>1, <1>1, <1>4 DEF Live, TypeOK
    <3>3. parent'[u] = q \/ loading'[u] = q
      BY <3>1, <3>2, <2>2, <1>5
    <3>. QED
      BY <3>2, <3>3
  <2>. QED
    BY <2>1, <2>2
<1>. QED
  BY <1>1, <1>3, <1>6, <1>7, <1>8, <1>9

\* The four actions that create a thread.
LEMMA CreationStep ==
    ASSUME IInv, NEW p \in Procs, NEW t \in Threads, NEW k \in KStacks,
           \/ CreateKernelProcess(p, t, k)
           \/ SpawnProcess(p, t, k)
           \/ CloneCurrentThread(t, k)
           \/ LaunchStart(t, k)
    PROVE  IInv'
<1>. USE DEF IInv
<1>1. ASSUME NEW q \in Procs \ procs PROVE \A u \in Threads : loading[u] # q
  BY ConstAssumption, <1>1 DEF LoadInv, TypeOK
<1>2. CASE CreateKernelProcess(p, t, k)
  <2>1. /\ CreateThread(p, t, k) /\ p \notin procs
        /\ procs' = procs \cup {p} /\ kernelProcs' = kernelProcs \cup {p}
        /\ loading' = loading
    BY <1>2 DEF CreateKernelProcess
  <2>2. /\ \A u \in Threads : loading[u] # p
        /\ loading \in [Threads -> Procs \cup {NoProc}]
        /\ procs \subseteq Procs /\ kernelProcs \subseteq procs
    BY <1>1, <2>1 DEF TypeOK, ProcInv
  <2>. QED
    BY <2>1, <2>2, CreateThreadProcs
<1>3. CASE SpawnProcess(p, t, k)
  <2>1. /\ CreateThread(p, t, k) /\ p \notin procs
        /\ procs' = procs \cup {p} /\ kernelProcs' = kernelProcs
        /\ loading' = loading
    BY <1>3 DEF SpawnProcess
  <2>2. /\ \A u \in Threads : loading[u] # p
        /\ loading \in [Threads -> Procs \cup {NoProc}]
        /\ procs \subseteq Procs /\ kernelProcs \subseteq procs
    BY <1>1, <2>1 DEF TypeOK, ProcInv
  <2>. QED
    BY <2>1, <2>2, CreateThreadProcs
<1>4. CASE CloneCurrentThread(t, k)
  <2>. DEFINE q == CurrentProcess
  <2>1. /\ CreateThread(q, t, k) /\ q \in procs \ kernelProcs
        /\ procs' = procs \cup {q} /\ kernelProcs' = kernelProcs
        /\ loading' = loading
    BY <1>4 DEF CloneCurrentThread, InUserProcess
  <2>2. threads[q] # {}
    BY <2>1, <1>4, ConstAssumption
       DEF CloneCurrentThread, InUserProcess, CurrentProcess, ProcInv, StateInv, Live, TypeOK
  <2>. HIDE DEF q
  <2>3. /\ loading \in [Threads -> Procs \cup {NoProc}]
        /\ procs \subseteq Procs /\ kernelProcs \subseteq procs
    BY DEF TypeOK, ProcInv
  <2>4. q \in Procs /\ q # NoProc
    BY <2>1, <2>3, ConstAssumption
  <2>5. \A u \in Threads : loading[u] # q
    BY <2>2, <2>4 DEF LoadInv
  <2>. QED
    BY <2>1, <2>3, <2>4, <2>5, CreateThreadProcs
<1>5. CASE LaunchStart(t, k)
  <2>. DEFINE q == loading[currentThread]
  <2>1. /\ CreateThread(q, t, k) /\ q # NoProc /\ currentThread \in Threads
        /\ procs' = procs /\ kernelProcs' = kernelProcs
        /\ loading' = [loading EXCEPT ![currentThread] = NoProc]
    BY <1>5 DEF LaunchStart, TypeOK
  <2>2. /\ q \in procs \ kernelProcs
        /\ \A u \in Threads : loading[u] = q => u = currentThread
        /\ loading \in [Threads -> Procs \cup {NoProc}]
        /\ procs \subseteq Procs /\ kernelProcs \subseteq procs
    BY <2>1 DEF TypeOK, ProcInv, LoadInv
  <2>3. /\ loading' \in [Threads -> Procs \cup {NoProc}]
        /\ \A u \in Threads : loading'[u] = IF loading[u] = q THEN NoProc ELSE loading[u]
    BY <2>1, <2>2
  <2>. HIDE DEF q
  <2>4. procs' = procs \cup {q} /\ q \in procs' /\ procs' \in SUBSET Procs
          /\ kernelProcs' \in SUBSET procs' /\ q \in Procs
    BY <2>1, <2>2
  <2>. QED
    BY <2>1, <2>2, <2>3, <2>4, CreateThreadProcs
<1>. QED
  BY <1>2, <1>3, <1>4, <1>5

\* A launch registers a process with no thread.
LEMMA LaunchBeginStep ==
    ASSUME IInv, NEW p \in Procs, LaunchBegin(p)
    PROVE  IInv'
<1>. USE DEF IInv
<1>1. /\ p \notin procs /\ currentThread \in tcbs /\ currentThread \in Threads
      /\ currentThread # NoThread
      /\ parent[currentThread] \in kernelProcs /\ loading[currentThread] = NoProc
      /\ procs' = procs \cup {p}
      /\ loading' = [loading EXCEPT ![currentThread] = p]
      /\ UNCHANGED <<tcbVars, kernelProcs, threads, queueVars, kstacks, cpuVars>>
  BY DEF LaunchBegin, InKernelThread, CurrentProcess, StateInv, TypeOK
<1>2. /\ UNCHANGED <<tcbs, state, wakeTime, parent, stack, readyQueue, blockedQueue,
                     terminatedQueue, pendingReclaims, currentThread, esp0, cr3, timerTicks, iflag>>
      /\ Live' = Live
  BY <1>1 DEF tcbVars, queueVars, cpuVars, Live
<1>3. TypeOK'
  BY <1>1, <1>2 DEF TypeOK
<1>4. StateInv' /\ QueueDiscipline' /\ ReclaimInv' /\ StackInv'
  BY <1>1, <1>2 DEF StateInv, QueueDiscipline, ReclaimInv, StackInv
<1>5. StackOwnership' /\ CpuStackOwned' /\ NothingLeaksToTerminatedQueue'
  BY <1>1, <1>2 DEF StackOwnership, CpuStackOwned, NothingLeaksToTerminatedQueue
<1>6. ProcInv'
  BY <1>1, <1>2 DEF ProcInv
<1>7. threads[p] = {}
  BY <1>1, ConstAssumption DEF ProcInv, StateInv, Live, TypeOK
<1>8. currentThread \in Live
  BY <1>1 DEF Live, StateInv
<1>9. LoadInv'
  <2>1. \A u \in Threads : loading[u] # p
    BY <1>1, ConstAssumption DEF LoadInv, TypeOK
  <2>2. \A u \in Threads : loading'[u] = IF u = currentThread THEN p ELSE loading[u]
    BY <1>1 DEF TypeOK
  <2>3. p \in procs' \ kernelProcs'
    BY <1>1 DEF ProcInv
  <2>. QED
    BY <1>1, <1>2, <1>7, <1>8, <2>1, <2>2, <2>3 DEF LoadInv
<1>10. Cr3Live'
  BY <1>1, <1>2 DEF Cr3Live, CurrentProcess, PageDirectory
<1>11. NoZombieProcess'
  <2>1. loading'[currentThread] = p
    BY <1>1 DEF TypeOK
  <2>2. ASSUME NEW q \in procs PROVE \E u \in Live : parent[u] = q \/ loading'[u] = q
    <3>1. PICK u \in Live : parent[u] = q \/ loading[u] = q
      BY <2>2 DEF NoZombieProcess
    <3>2. u = currentThread => parent[u] = q
      BY <3>1, <1>1, ConstAssumption DEF TypeOK
    <3>. QED
      BY <3>1, <3>2, <1>1 DEF TypeOK, Live
  <2>. QED
    BY <1>1, <1>2, <1>8, <2>1, <2>2 DEF NoZombieProcess
<1>. QED
  BY <1>3, <1>4, <1>5, <1>6, <1>9, <1>10, <1>11

\* A failed launch removes the process, which has no thread.
LEMMA LaunchFailStep ==
    ASSUME IInv, LaunchFail
    PROVE  IInv'
<1>. USE DEF IInv
<1>. DEFINE p == loading[currentThread]
<1>1. /\ p # NoProc /\ p \in procs \ kernelProcs /\ threads[p] = {}
      /\ \A u \in Threads : loading[u] = p => u = currentThread
      /\ currentThread \in Live /\ currentThread \in Threads /\ currentThread # NoThread
      /\ parent[currentThread] \in kernelProcs
      /\ procs' = procs \ {p}
      /\ loading' = [loading EXCEPT ![currentThread] = NoProc]
      /\ UNCHANGED <<tcbVars, kernelProcs, threads, queueVars, kstacks, cpuVars>>
  BY DEF LaunchFail, LoadInv, TypeOK
<1>. HIDE DEF p
<1>2. /\ UNCHANGED <<tcbs, state, wakeTime, parent, stack, readyQueue, blockedQueue,
                     terminatedQueue, pendingReclaims, currentThread, esp0, cr3, timerTicks, iflag>>
      /\ Live' = Live
  BY <1>1 DEF tcbVars, queueVars, cpuVars, Live
<1>3. TypeOK'
  BY <1>1, <1>2 DEF TypeOK
<1>4. StateInv' /\ QueueDiscipline' /\ ReclaimInv' /\ StackInv'
  BY <1>1, <1>2 DEF StateInv, QueueDiscipline, ReclaimInv, StackInv
<1>5. StackOwnership' /\ CpuStackOwned' /\ NothingLeaksToTerminatedQueue'
  BY <1>1, <1>2 DEF StackOwnership, CpuStackOwned, NothingLeaksToTerminatedQueue
<1>6. ProcInv'
  BY <1>1, <1>2 DEF ProcInv, TypeOK
<1>7. \A u \in Threads : loading'[u] = IF u = currentThread THEN NoProc ELSE loading[u]
  BY <1>1 DEF TypeOK
<1>8. LoadInv'
  BY <1>1, <1>2, <1>7 DEF LoadInv, TypeOK
<1>9. Cr3Live'
  <2>1. CurrentProcess' = CurrentProcess /\ CurrentProcess \in kernelProcs
    BY <1>1, <1>2 DEF CurrentProcess
  <2>2. cr3 = KernelPD
    BY <2>1, ConstAssumption DEF Cr3Live, PageDirectory, TypeOK
  <2>. QED
    BY <1>1, <1>2, <2>1, <2>2 DEF Cr3Live, PageDirectory
<1>10. NoZombieProcess'
  <2>. SUFFICES ASSUME NEW q \in procs, q # p
                PROVE  \E u \in Live : parent[u] = q \/ loading'[u] = q
    BY <1>1, <1>2 DEF NoZombieProcess
  <2>1. PICK u \in Live : parent[u] = q \/ loading[u] = q
    BY DEF NoZombieProcess
  <2>2. u \in Threads
    BY DEF Live, TypeOK
  <2>3. u = currentThread => loading[u] = p
    BY DEF p
  <2>. QED
    BY <2>1, <2>2, <2>3, <1>7
<1>. QED
  BY <1>3, <1>4, <1>5, <1>6, <1>8, <1>9, <1>10

\* The current thread exits together with the other threads in S: it keeps its
\* TCB and its stack until the next Schedule(), the others lose theirs.
LEMMA TerminateStep ==
    ASSUME IInv, NEW S, S \subseteq Live \ {IdleThread}, currentThread \in S,
           TerminateThreads(S),
           UNCHANGED <<terminatedQueue, esp0>>, iflag' \in {0, 1}
    PROVE  /\ tcbs' = (tcbs \ S) \cup {currentThread}
           /\ Live' = Live \ S
           /\ currentThread' = NoThread
           /\ \A t \in Live \ S : parent'[t] = parent[t]
           /\ state' \in [Threads -> ThreadStates]
           /\ wakeTime' \in [Threads -> 0..(TickMod-1)]
           /\ parent' \in [Threads -> Procs \cup {NoProc}]
           /\ stack' \in [Threads -> KStacks \cup {NoStack}]
           /\ readyQueue' \in Seq(Threads) /\ blockedQueue' \in Seq(Threads)
           /\ pendingReclaims' \in Seq(Threads)
           /\ StateInv' /\ QueueDiscipline' /\ ReclaimInv' /\ StackInv' /\ StackOwnership'
           /\ CpuStackOwned' /\ NothingLeaksToTerminatedQueue'
<1>. USE DEF IInv
<1>1. /\ S \subseteq tcbs /\ S \subseteq Threads /\ IdleThread \notin S
      /\ currentThread \in tcbs /\ currentThread \in Threads /\ currentThread # NoThread
      /\ \A t \in S : state[t] # "terminated"
  BY ConstAssumption DEF Live, TypeOK
<1>2. /\ state' = [t \in Threads |-> IF t \in S THEN "terminated" ELSE state[t]]
      /\ readyQueue' = RemoveFirsts(readyQueue, S)
      /\ blockedQueue' = RemoveFirsts(blockedQueue, S)
      /\ tcbs' = tcbs \ (S \ {currentThread})
      /\ kstacks' = kstacks \ {stack[t] : t \in S \ {currentThread}}
      /\ stack' = [t \in Threads |-> IF t \in S \ {currentThread} THEN NoStack ELSE stack[t]]
      /\ parent' = [t \in Threads |-> IF t \in S \ {currentThread} THEN NoProc ELSE parent[t]]
      /\ wakeTime' = [t \in Threads |-> IF t \in S \ {currentThread} THEN 0 ELSE wakeTime[t]]
      /\ pendingReclaims' = PushBack(pendingReclaims, currentThread)
      /\ currentThread' = NoThread
      /\ terminatedQueue' = terminatedQueue /\ esp0' = esp0
  BY DEF TerminateThreads, Terminate
<1>3. /\ readyQueue' \in Seq(Threads) /\ NoRepeat(readyQueue')
      /\ Elems(readyQueue') = Elems(readyQueue) \ S
  <2>1. readyQueue \in Seq(Threads) /\ NoRepeat(readyQueue)
    BY DEF QueueDiscipline, TypeOK
  <2>. QED
    BY <1>2, <2>1, RemoveFirstsFacts
<1>4. /\ blockedQueue' \in Seq(Threads) /\ NoRepeat(blockedQueue')
      /\ Elems(blockedQueue') = Elems(blockedQueue) \ S
  <2>1. blockedQueue \in Seq(Threads) /\ NoRepeat(blockedQueue)
    BY DEF QueueDiscipline, TypeOK
  <2>. QED
    BY <1>2, <2>1, RemoveFirstsFacts
<1>5. /\ pendingReclaims' \in Seq(Threads)
      /\ Elems(pendingReclaims') = {currentThread}
  <2>1. Elems(pendingReclaims) = {} /\ pendingReclaims \in Seq(Threads)
    BY <1>1 DEF ReclaimInv, TypeOK
  <2>2. NoRepeat(pendingReclaims)
    BY <2>1 DEF Elems, NoRepeat
  <2>. QED
    BY <1>1, <1>2, <2>1, <2>2, PushBackFacts
<1>6. tcbs' = (tcbs \ S) \cup {currentThread}
  BY <1>1, <1>2
<1>7. Live' = Live \ S
  BY <1>1, <1>2, <1>6 DEF Live, TypeOK
<1>8. /\ state' \in [Threads -> ThreadStates]
      /\ wakeTime' \in [Threads -> 0..(TickMod-1)]
      /\ parent' \in [Threads -> Procs \cup {NoProc}]
      /\ stack' \in [Threads -> KStacks \cup {NoStack}]
  BY <1>2, ConstAssumption DEF TypeOK, ThreadStates
<1>9. \A t \in Live \ S : parent'[t] = parent[t]
  BY <1>2 DEF Live, TypeOK
<1>10. StateInv'
  BY <1>1, <1>2, <1>6 DEF StateInv, TypeOK
<1>11. QueueDiscipline'
  <2>1. Elems(readyQueue') = {u \in tcbs' \ {IdleThread} :
                                state'[u] = "ready" /\ u # currentThread'}
    BY <1>1, <1>2, <1>3, <1>6, ConstAssumption DEF QueueDiscipline, TypeOK
  <2>2. Elems(blockedQueue') = {u \in tcbs' : state'[u] = "blocked" /\ u # currentThread'}
    BY <1>1, <1>2, <1>4, <1>6, ConstAssumption DEF QueueDiscipline, TypeOK
  <2>. QED
    BY <1>3, <1>4, <2>1, <2>2 DEF QueueDiscipline
<1>12. ReclaimInv'
  <2>1. \A t \in tcbs : state[t] # "terminated"
    BY <1>1 DEF ReclaimInv
  <2>. QED
    BY <1>1, <1>2, <1>5, <1>6, <2>1 DEF ReclaimInv, TypeOK
<1>13. /\ \A t \in tcbs' : t \in tcbs /\ stack'[t] = stack[t]
       /\ stack'[currentThread] = stack[currentThread]
  BY <1>1, <1>2, <1>6 DEF TypeOK
<1>14. StackInv'
  BY <1>13 DEF StackInv
<1>15. StackOwnership'
  <2>1. \A t, u \in tcbs' : stack'[t] = stack'[u] => t = u
    BY <1>13 DEF StackOwnership
  <2>2. ASSUME NEW k \in kstacks' PROVE \E t \in tcbs' : k = stack'[t]
    <3>1. PICK t \in tcbs : k = stack[t]
      BY <1>2 DEF StackOwnership
    <3>2. t \notin S \ {currentThread}
      BY <1>2, <3>1
    <3>. QED
      BY <1>2, <1>13, <3>1, <3>2
  <2>3. ASSUME NEW t \in tcbs' PROVE stack'[t] \in kstacks'
    <3>1. \A u \in S \ {currentThread} : stack[u] # stack[t]
      BY <1>1, <1>2, <1>13 DEF StackOwnership
    <3>. QED
      BY <1>2, <1>13, <3>1 DEF StackOwnership
  <2>. QED
    BY <2>1, <2>2, <2>3 DEF StackOwnership
<1>16. CpuStackOwned'
  <2>1. esp0 = stack[currentThread]
    BY <1>1 DEF CpuStackOwned
  <2>. QED
    BY <1>2, <1>5, <1>6, <1>13, <2>1 DEF CpuStackOwned
<1>17. NothingLeaksToTerminatedQueue'
  BY <1>2 DEF NothingLeaksToTerminatedQueue
<1>. QED
  BY <1>2, <1>3, <1>4, <1>5, <1>6, <1>7, <1>8, <1>9, <1>10, <1>11, <1>12, <1>14, <1>15,
     <1>16, <1>17

\* The current thread leaves its process p: either with every thread of p, and
\* p is unlinked, or alone, and p keeps another thread.
LEMMA ExitProcs ==
    ASSUME IInv, NEW p \in procs, NEW S \in SUBSET threads[p],
           currentThread \in S, parent[currentThread] = p,
           loading[currentThread] = NoProc,
           TerminateThreads(S),
           threads' = [threads EXCEPT ![p] = @ \ S],
           \/ /\ S = threads[p] /\ cr3' = KernelPD
              /\ procs' = procs \ {p} /\ kernelProcs' = kernelProcs \ {p}
           \/ /\ threads[p] \ S # {} /\ cr3' = cr3
              /\ procs' = procs /\ kernelProcs' = kernelProcs,
           UNCHANGED <<loading, terminatedQueue, esp0, timerTicks>>, iflag' \in {0, 1}
    PROVE  IInv'
<1>. USE DEF IInv
<1>1. p \in Procs /\ p # NoProc /\ \A t \in threads[p] : t \in Live /\ parent[t] = p
  BY ConstAssumption DEF TypeOK, ProcInv
<1>2. S \subseteq Live \ {IdleThread}
  BY <1>1 DEF StateInv
<1>3. /\ tcbs' = (tcbs \ S) \cup {currentThread}
      /\ Live' = Live \ S
      /\ currentThread' = NoThread
      /\ \A t \in Live \ S : parent'[t] = parent[t]
      /\ state' \in [Threads -> ThreadStates]
      /\ wakeTime' \in [Threads -> 0..(TickMod-1)]
      /\ parent' \in [Threads -> Procs \cup {NoProc}]
      /\ stack' \in [Threads -> KStacks \cup {NoStack}]
      /\ readyQueue' \in Seq(Threads) /\ blockedQueue' \in Seq(Threads)
      /\ pendingReclaims' \in Seq(Threads)
      /\ StateInv' /\ QueueDiscipline' /\ ReclaimInv' /\ StackInv' /\ StackOwnership'
      /\ CpuStackOwned' /\ NothingLeaksToTerminatedQueue'
  BY <1>2, TerminateStep
<1>4. kstacks' \subseteq KStacks
  BY DEF TerminateThreads, Terminate, TypeOK
<1>5. TypeOK'
  <2>1. tcbs' \subseteq Threads /\ procs' \subseteq Procs /\ kernelProcs' \subseteq Procs
    BY <1>2, <1>3 DEF TypeOK, Live
  <2>2. threads' \in [Procs -> SUBSET Threads]
    BY DEF TypeOK
  <2>3. cr3' \in Procs \cup {KernelPD}
    BY DEF TypeOK
  <2>. QED
    BY <1>3, <1>4, <2>1, <2>2, <2>3 DEF TypeOK
<1>6. \A q \in Procs : threads'[q] = IF q = p THEN threads[p] \ S ELSE threads[q]
  BY DEF TypeOK
<1>7. ProcInv'
  <2>1. \A q \in Procs : threads'[q] = {t \in Live' : parent'[t] = q}
    <3>. SUFFICES ASSUME NEW q \in Procs PROVE threads'[q] = {t \in Live' : parent'[t] = q}
      OBVIOUS
    <3>1. threads'[q] = threads[q] \ S
      BY <1>1, <1>6 DEF ProcInv
    <3>2. threads[q] = {t \in Live : parent[t] = q}
      BY DEF ProcInv
    <3>3. \A t \in Live' : t \in Live /\ t \notin S /\ parent'[t] = parent[t]
      BY <1>3
    <3>4. \A t : t \in threads'[q] <=> t \in Live' /\ parent'[t] = q
      BY <3>1, <3>2, <3>3, <1>3
    <3>. HIDE <3>1, <3>2, <3>3
    <3>. QED
      BY <3>4
  <2>2. kernelProcs' \subseteq procs'
    BY DEF ProcInv
  <2>3. \A t \in Live' \ {IdleThread} : parent'[t] \in procs'
    <3>. SUFFICES ASSUME NEW t \in Live \ S, t # IdleThread PROVE parent[t] \in procs'
      BY <1>3
    <3>1. parent[t] \in procs
      BY DEF ProcInv
    <3>2. CASE S = threads[p]
      BY <3>1, <3>2, <1>1 DEF ProcInv
    <3>3. CASE procs' = procs
      BY <3>1, <3>3
    <3>. QED
      BY <3>2, <3>3
  <2>4. \A q \in kernelProcs' : \A t, u \in threads'[q] : t = u
    BY <1>6 DEF ProcInv, TypeOK
  <2>5. cr3' \notin kernelProcs'
    BY ConstAssumption DEF ProcInv, TypeOK
  <2>. QED
    BY <2>1, <2>2, <2>3, <2>4, <2>5 DEF ProcInv
<1>8. ASSUME NEW u \in Threads, loading[u] # NoProc
      PROVE  u \in Live \ S /\ loading[u] # p /\ parent[u] # p
  <2>1. u \in Live /\ parent[u] \in kernelProcs /\ threads[loading[u]] = {}
    BY <1>8 DEF LoadInv
  <2>2. loading[u] # p
    BY <2>1
  <2>3. u # currentThread
    BY <1>8
  <2>4. parent[u] # p
    BY <2>1, <2>3, <1>1 DEF ProcInv
  <2>. QED
    BY <2>1, <2>2, <2>4, <1>1
<1>9. LoadInv'
  <2>. SUFFICES ASSUME NEW u \in Threads, loading[u] # NoProc
                PROVE  /\ u \in Live'
                       /\ parent'[u] \in kernelProcs'
                       /\ loading[u] \in procs' \ kernelProcs'
                       /\ threads'[loading[u]] = {}
                       /\ \A v \in Threads : loading[v] = loading[u] => v = u
    BY DEF LoadInv
  <2>1. /\ u \in Live /\ parent[u] \in kernelProcs /\ loading[u] \in procs \ kernelProcs
        /\ threads[loading[u]] = {} /\ \A v \in Threads : loading[v] = loading[u] => v = u
    BY DEF LoadInv
  <2>2. u \in Live' /\ parent'[u] = parent[u] /\ loading[u] # p /\ parent[u] # p
    BY <1>3, <1>8
  <2>3. threads'[loading[u]] = {}
    BY <2>1, <2>2, <1>6 DEF TypeOK
  <2>. QED
    BY <2>1, <2>2, <2>3
<1>10. Cr3Live'
  <2>1. cr3 = PageDirectory(p) /\ cr3 \in procs \cup {KernelPD}
    BY <1>1, ConstAssumption DEF Cr3Live, CurrentProcess, StateInv, TypeOK, Live
  <2>. QED
    BY <1>3, <2>1 DEF Cr3Live, CurrentProcess
<1>11. NoZombieProcess'
  <2>. SUFFICES ASSUME NEW q \in procs'
                PROVE  \E u \in Live' : parent'[u] = q \/ loading[u] = q
    BY DEF NoZombieProcess
  <2>1. CASE q = p
    <3>1. PICK u \in threads[p] : u \notin S
      BY <2>1
    <3>. QED
      BY <3>1, <2>1, <1>1, <1>3
  <2>2. CASE q # p
    <3>1. PICK u \in Live : parent[u] = q \/ loading[u] = q
      BY <2>2 DEF NoZombieProcess
    <3>2. u \in Threads /\ q # NoProc
      BY ConstAssumption DEF Live, TypeOK
    <3>3. u \notin S
      BY <3>1, <3>2, <2>2, <1>1, <1>8
    <3>. QED
      BY <3>1, <3>3, <1>3
  <2>. QED
    BY <2>1, <2>2
<1>. QED
  BY <1>3, <1>5, <1>7, <1>9, <1>10, <1>11

\* sys_exit, sys_exit_group, a user fault, and the return of a kernel thread.
LEMMA ExitStep ==
    ASSUME IInv, SysExit \/ SysExitGroup \/ KernelThreadExit
    PROVE  IInv'
<1>. USE DEF IInv
<1>. DEFINE p == CurrentProcess
<1>1. /\ currentThread # NoThread /\ currentThread \in tcbs /\ currentThread \in Threads
      /\ p = parent[currentThread] /\ p \in procs
      /\ InKernelThread => loading[currentThread] = NoProc
      /\ InUserProcess => p \notin kernelProcs
      /\ InKernelThread \/ InUserProcess
  BY DEF SysExit, SysExitGroup, KernelThreadExit, InUserProcess, InKernelThread,
         CurrentProcess, StateInv, TypeOK, ProcInv
<1>2. /\ UNCHANGED <<loading, terminatedQueue, esp0, timerTicks>> /\ iflag' \in {0, 1}
      /\ ExitCurrentThread \/ KillProcess(p)
  BY DEF SysExit, SysExitGroup, KernelThreadExit, TypeOK
<1>3. \/ KillProcess(p)
      \/ /\ TerminateThreads({currentThread})
         /\ threads' = [threads EXCEPT ![p] = @ \ {currentThread}]
         /\ UNCHANGED <<procs, kernelProcs, cr3>>
         /\ ~ Cardinality({t \in threads[p] : state[t] # "terminated"}) <= 1
  BY <1>2 DEF ExitCurrentThread, LastThread, ActiveThreads
<1>. HIDE DEF p
<1>4. currentThread \in threads[p] /\ currentThread \in Live /\ p \in Procs
  BY <1>1 DEF ProcInv, Live, StateInv, TypeOK
<1>5. loading[currentThread] = NoProc
  BY <1>1 DEF LoadInv
<1>6. CASE KillProcess(p)
  <2>1. cr3 = PageDirectory(p)
    BY <1>1, ConstAssumption DEF Cr3Live, CurrentProcess, TypeOK
  <2>2. /\ cr3' = KernelPD /\ TerminateThreads(threads[p])
        /\ threads' = [threads EXCEPT ![p] = {}]
        /\ procs' = procs \ {p} /\ kernelProcs' = kernelProcs \ {p}
    BY <1>6, <2>1 DEF KillProcess, LeaveDirectory
  <2>3. threads' = [threads EXCEPT ![p] = @ \ threads[p]]
    BY <2>2 DEF TypeOK
  <2>. QED
    BY <1>1, <1>2, <1>4, <1>5, <2>2, <2>3, ExitProcs
<1>7. CASE /\ TerminateThreads({currentThread})
           /\ threads' = [threads EXCEPT ![p] = @ \ {currentThread}]
           /\ UNCHANGED <<procs, kernelProcs, cr3>>
           /\ ~ Cardinality({t \in threads[p] : state[t] # "terminated"}) <= 1
  <2>1. threads[p] \ {currentThread} # {}
    <3>. SUFFICES ASSUME threads[p] = {currentThread} PROVE FALSE
      BY <1>4
    <3>1. {t \in threads[p] : state[t] # "terminated"} = {currentThread}
      BY <1>4 DEF Live
    <3>2. Cardinality({currentThread}) = 1
      BY FS_Singleton
    <3>. QED
      BY <1>7, <3>1, <3>2
  <2>2. {currentThread} \in SUBSET threads[p]
    BY <1>4
  <2>. QED
    BY <1>1, <1>2, <1>4, <1>5, <1>7, <2>1, <2>2, ExitProcs
<1>. QED
  BY <1>3, <1>6, <1>7

\* The four queues Schedule() builds on its way, and the thread it picks.
LEMMA ScheduleQueues ==
    ASSUME IInv, NEW now \in 0..(TickMod-1), Schedule(now)
    PROVE  \E W :
             /\ W \subseteq {t \in tcbs \ {IdleThread} : state[t] = "blocked"}
             /\ \A t \in W : wakeTime[t] <= now
             /\ currentThread' \in tcbs
             /\ \/ /\ currentThread' = IdleThread
                   /\ readyQueue' = <<>>
                   /\ W = {} /\ ~ Preempted
                \/ /\ currentThread' \in tcbs \ {IdleThread}
                   /\ \/ currentThread' \in W
                      \/ state[currentThread'] = "ready" /\ currentThread' # currentThread
                      \/ Preempted /\ currentThread' = currentThread
             /\ readyQueue' \in Seq(Threads) /\ NoRepeat(readyQueue')
             /\ Elems(readyQueue') = {t \in tcbs \ {IdleThread} :
                                        /\ t # currentThread'
                                        /\ \/ t \in W
                                           \/ state[t] = "ready" /\ t # currentThread
                                           \/ Preempted /\ t = currentThread}
             /\ blockedQueue' \in Seq(Threads) /\ NoRepeat(blockedQueue')
             /\ Elems(blockedQueue') = {t \in tcbs : state[t] = "blocked"} \ W
             /\ state' = [t \in Threads |->
                            IF t = currentThread' THEN "running"
                            ELSE IF t \in W \/ (Preempted /\ t = currentThread) THEN "ready"
                            ELSE state[t]]
<1>. USE DEF IInv
<1>. DEFINE blocked == OutgoingTo(blockedQueue, state[currentThread] = "blocked")
            due     == Due(blocked, now)
            W       == {blocked[i] : i \in due}
            kept    == OutgoingTo(readyQueue, Preempted)
            woken   == SubSeqAt(blocked, due)
            ready   == kept \o woken
            next    == IF ready = <<>> THEN IdleThread ELSE Head(ready)
<1>1. /\ currentThread' = next
      /\ readyQueue' = IF ready = <<>> THEN <<>> ELSE Tail(ready)
      /\ blockedQueue' = SubSeqAt(blocked, DOMAIN blocked \ due)
      /\ state' = [t \in Threads |->
                      IF t = next THEN "running"
                      ELSE IF t \in W \/ (Preempted /\ t = currentThread) THEN "ready"
                      ELSE state[t]]
  BY DEF Schedule
<1>2. /\ readyQueue \in Seq(Threads) /\ NoRepeat(readyQueue)
      /\ blockedQueue \in Seq(Threads) /\ NoRepeat(blockedQueue)
      /\ Elems(readyQueue) = {t \in tcbs \ {IdleThread} : state[t] = "ready" /\ t # currentThread}
      /\ Elems(blockedQueue) = {t \in tcbs : state[t] = "blocked" /\ t # currentThread}
      /\ currentThread # NoThread => currentThread \in tcbs /\ currentThread \in Threads
      /\ tcbs \subseteq Threads /\ NoThread \notin tcbs
  BY ConstAssumption DEF QueueDiscipline, TypeOK, StateInv
<1>3. /\ blocked \in Seq(Threads) /\ NoRepeat(blocked)
      /\ Elems(blocked) = {t \in tcbs : state[t] = "blocked"}
  <2>1. CASE currentThread # NoThread /\ state[currentThread] = "blocked"
    <3>1. blocked = PushBack(blockedQueue, currentThread) /\ currentThread \notin Elems(blockedQueue)
      BY <2>1, <1>2 DEF OutgoingTo
    <3>2. /\ blocked \in Seq(Threads) /\ NoRepeat(blocked)
          /\ Elems(blocked) = Elems(blockedQueue) \cup {currentThread}
      BY <2>1, <3>1, <1>2, PushBackFacts
    <3>. QED
      BY <2>1, <3>2, <1>2
  <2>2. CASE ~ (currentThread # NoThread /\ state[currentThread] = "blocked")
    <3>1. blocked = blockedQueue
      BY <2>2 DEF OutgoingTo
    <3>2. Elems(blockedQueue) = {t \in tcbs : state[t] = "blocked"}
      BY <2>2, <1>2
    <3>. QED
      BY <3>1, <3>2, <1>2
  <2>. QED
    BY <2>1, <2>2
<1>4. /\ kept \in Seq(Threads) /\ NoRepeat(kept)
      /\ Elems(kept) = {t \in tcbs \ {IdleThread} :
                          \/ state[t] = "ready" /\ t # currentThread
                          \/ Preempted /\ t = currentThread}
  <2>1. CASE Preempted
    <3>1. /\ kept = PushBack(readyQueue, currentThread) /\ currentThread \notin Elems(readyQueue)
          /\ currentThread \in tcbs \ {IdleThread}
      BY <2>1, <1>2 DEF OutgoingTo, Preempted
    <3>2. /\ kept \in Seq(Threads) /\ NoRepeat(kept)
          /\ Elems(kept) = Elems(readyQueue) \cup {currentThread}
      BY <3>1, <1>2, PushBackFacts
    <3>. QED
      BY <2>1, <3>1, <3>2, <1>2
  <2>2. CASE ~ Preempted
    BY <2>2, <1>2 DEF OutgoingTo
  <2>. QED
    BY <2>1, <2>2
<1>. HIDE DEF blocked, kept
<1>5. due \subseteq DOMAIN blocked
  BY DEF Due
<1>6. /\ woken \in Seq(Threads) /\ NoRepeat(woken) /\ Elems(woken) = W
  <2>1. DOMAIN blocked \cap due = due
    BY <1>5
  <2>. QED
    BY <1>3, <2>1, SubSeqAtFacts
<1>7. W \subseteq Elems(blocked)
  BY <1>5 DEF Elems
<1>8. W \subseteq {t \in tcbs \ {IdleThread} : state[t] = "blocked"}
  BY <1>3, <1>7 DEF StateInv
<1>9. \A t \in W : wakeTime[t] <= now
  BY DEF Due
<1>10. /\ blockedQueue' \in Seq(Threads) /\ NoRepeat(blockedQueue')
      /\ Elems(blockedQueue') = Elems(blocked) \ W
  <2>1. DOMAIN blocked \cap (DOMAIN blocked \ due) = DOMAIN blocked \ due
    OBVIOUS
  <2>2. /\ blockedQueue' \in Seq(Threads) /\ NoRepeat(blockedQueue')
        /\ Elems(blockedQueue') = {blocked[i] : i \in DOMAIN blocked \ due}
    BY <1>1, <1>3, <2>1, SubSeqAtFacts
  <2>3. {blocked[i] : i \in DOMAIN blocked \ due} = Elems(blocked) \ W
    BY <1>3, <1>5 DEF NoRepeat, Elems
  <2>. QED
    BY <2>2, <2>3
<1>. HIDE DEF due, woken, W
<1>11. /\ ready \in Seq(Threads) /\ NoRepeat(ready) /\ Elems(ready) = Elems(kept) \cup W
  <2>1. Elems(kept) \cap Elems(woken) = {}
    BY <1>4, <1>6, <1>8 DEF Preempted
  <2>. QED
    BY <1>4, <1>6, <2>1, ConcatFacts
<1>. HIDE DEF ready
<1>12. CASE ready = <<>>
  <2>1. readyQueue' = <<>> /\ currentThread' = IdleThread
    BY <1>1, <1>12
  <2>2. Elems(ready) = {} /\ NoRepeat(<<>>)
    BY <1>12 DEF Elems, NoRepeat
  <2>3. W = {} /\ Elems(kept) = {} /\ Elems(readyQueue') = {}
    BY <1>11, <1>12, <2>1, <2>2
  <2>4. ~ Preempted
    BY <2>3, <1>2, <1>4 DEF Preempted
  <2>5. {t \in tcbs \ {IdleThread} :
            /\ t # currentThread'
            /\ \/ t \in W
               \/ state[t] = "ready" /\ t # currentThread
               \/ Preempted /\ t = currentThread} = {}
    BY <2>3, <1>4
  <2>6. IdleThread \in tcbs
    BY DEF StateInv
  <2>7. readyQueue' \in Seq(Threads) /\ NoRepeat(readyQueue')
    BY <2>1, <2>2
  <2>. QED
    BY <1>1, <1>3, <1>8, <1>10, <1>9, <2>1, <2>3, <2>4, <2>5, <2>6, <2>7
<1>13. CASE ready # <<>>
  <2>1. readyQueue' = Tail(ready) /\ currentThread' = Head(ready)
    BY <1>1, <1>13
  <2>2. /\ currentThread' \in Elems(ready)
        /\ readyQueue' \in Seq(Threads) /\ NoRepeat(readyQueue')
        /\ Elems(readyQueue') = Elems(ready) \ {currentThread'}
    BY <1>11, <1>13, <2>1, PopFrontFacts
  <2>3. Elems(ready) = {t \in tcbs \ {IdleThread} :
                          \/ t \in W
                          \/ state[t] = "ready" /\ t # currentThread
                          \/ Preempted /\ t = currentThread}
    BY <1>4, <1>8, <1>11
  <2>. HIDE DEF next
  <2>4. /\ currentThread' \in tcbs \ {IdleThread}
        /\ \/ currentThread' \in W
           \/ state[currentThread'] = "ready" /\ currentThread' # currentThread
           \/ Preempted /\ currentThread' = currentThread
    BY <2>2, <2>3
  <2>5. Elems(readyQueue') = {t \in tcbs \ {IdleThread} :
                                /\ t # currentThread'
                                /\ \/ t \in W
                                   \/ state[t] = "ready" /\ t # currentThread
                                   \/ Preempted /\ t = currentThread}
    BY <2>2, <2>3
  <2>6. state' = [t \in Threads |->
                    IF t = currentThread' THEN "running"
                    ELSE IF t \in W \/ (Preempted /\ t = currentThread) THEN "ready"
                    ELSE state[t]]
    BY <1>1
  <2>7. currentThread' \in tcbs
    BY <2>4
  <2>8. Elems(blockedQueue') = {t \in tcbs : state[t] = "blocked"} \ W
    BY <1>3, <1>10
  <2>. WITNESS W
  <2>. QED
    BY <1>8, <1>10, <1>9, <2>2, <2>4, <2>5, <2>6, <2>7, <2>8
<1>. QED
  BY <1>12, <1>13

\* Schedule(), entered from the timer or from a handler that has just ended the
\* current thread.
LEMMA ScheduleStep ==
    ASSUME IInv, NEW now \in 0..(TickMod-1), Schedule(now), timerTicks' = now, iflag' = 1
    PROVE  IInv'
<1>. USE DEF IInv
<1>1. PICK W :
         /\ W \subseteq {t \in tcbs \ {IdleThread} : state[t] = "blocked"}
         /\ currentThread' \in tcbs
         /\ \/ /\ currentThread' = IdleThread
               /\ readyQueue' = <<>>
               /\ W = {} /\ ~ Preempted
            \/ /\ currentThread' \in tcbs \ {IdleThread}
               /\ \/ currentThread' \in W
                  \/ state[currentThread'] = "ready" /\ currentThread' # currentThread
                  \/ Preempted /\ currentThread' = currentThread
         /\ readyQueue' \in Seq(Threads) /\ NoRepeat(readyQueue')
         /\ Elems(readyQueue') = {t \in tcbs \ {IdleThread} :
                                    /\ t # currentThread'
                                    /\ \/ t \in W
                                       \/ state[t] = "ready" /\ t # currentThread
                                       \/ Preempted /\ t = currentThread}
         /\ blockedQueue' \in Seq(Threads) /\ NoRepeat(blockedQueue')
         /\ Elems(blockedQueue') = {t \in tcbs : state[t] = "blocked"} \ W
         /\ state' = [t \in Threads |->
                        IF t = currentThread' THEN "running"
                        ELSE IF t \in W \/ (Preempted /\ t = currentThread) THEN "ready"
                        ELSE state[t]]
  BY ScheduleQueues
<1>. DEFINE dead == {t \in tcbs : state[t] = "terminated"}
<1>2. /\ pendingReclaims' = <<>>
      /\ tcbs' = tcbs \ dead
      /\ kstacks' = kstacks \ {stack[t] : t \in dead}
      /\ stack' = [t \in Threads |-> IF t \in dead THEN NoStack ELSE stack[t]]
      /\ parent' = [t \in Threads |-> IF t \in dead THEN NoProc ELSE parent[t]]
      /\ procs' = procs /\ kernelProcs' = kernelProcs /\ threads' = threads /\ loading' = loading
      /\ terminatedQueue' = OutgoingTo(terminatedQueue, state[currentThread] = "terminated")
      /\ esp0' = stack[currentThread']
      /\ cr3' = IF parent[currentThread'] = NoProc THEN KernelPD
                ELSE PageDirectory(parent[currentThread'])
  <2>1. Elems(pendingReclaims) = dead
    BY DEF ReclaimInv
  <2>. QED
    BY <2>1 DEF Schedule, DrainPendingReclaims, procVars
<1>3. wakeTime' \in [Threads -> 0..(TickMod-1)]
  <2>1. PICK Z : wakeTime' = [t \in Threads |-> IF t \in Z THEN 0 ELSE wakeTime[t]]
    BY DEF Schedule
  <2>. QED
    BY <2>1, ConstAssumption DEF TypeOK
<1>4. /\ currentThread' \in Threads /\ currentThread' # NoThread
      /\ currentThread' \in tcbs \ dead /\ NoThread \notin tcbs /\ tcbs \subseteq Threads
      /\ \A t \in tcbs \ dead : t \in Threads /\ stack'[t] = stack[t] /\ parent'[t] = parent[t]
  BY <1>1, <1>2, ConstAssumption DEF TypeOK, StateInv, Preempted
<1>5. \A t \in tcbs \ dead : state'[t] # "terminated"
  BY <1>1, <1>4
<1>6. Live = tcbs \ dead /\ Live' = tcbs \ dead
  BY <1>2, <1>5 DEF Live
<1>7. TypeOK'
  <2>1. state' \in [Threads -> ThreadStates]
    BY <1>1 DEF TypeOK, ThreadStates
  <2>2. /\ parent' \in [Threads -> Procs \cup {NoProc}]
        /\ stack' \in [Threads -> KStacks \cup {NoStack}]
    BY <1>2 DEF TypeOK
  <2>3. esp0' \in KStacks \cup {NoStack} /\ kstacks' \subseteq KStacks /\ tcbs' \subseteq Threads
    BY <1>2, <1>4 DEF TypeOK
  <2>4. cr3' \in Procs \cup {KernelPD}
    BY <1>2, <1>4 DEF TypeOK, PageDirectory
  <2>5. terminatedQueue' \in Seq(Threads) /\ pendingReclaims' \in Seq(Threads)
    BY <1>2 DEF TypeOK, OutgoingTo, StateInv
  <2>6. /\ procs' \subseteq Procs /\ kernelProcs' \subseteq Procs
        /\ threads' \in [Procs -> SUBSET Threads] /\ loading' \in [Threads -> Procs \cup {NoProc}]
    BY <1>2 DEF TypeOK
  <2>7. timerTicks' \in 0..(TickMod-1) /\ iflag' \in {0, 1}
    OBVIOUS
  <2>. QED
    BY <1>1, <1>3, <1>4, <2>1, <2>2, <2>3, <2>4, <2>5, <2>6, <2>7 DEF TypeOK
<1>8. StateInv'
  <2>1. IdleThread \in tcbs \ dead /\ parent'[IdleThread] = NoProc
    BY <1>4 DEF StateInv
  <2>2. state'[IdleThread] \in {"ready", "running"}
    BY <1>1, <1>4, <2>1 DEF StateInv
  <2>3. \A t \in Threads \ tcbs' : state'[t] = "terminated"
    <3>. SUFFICES ASSUME NEW t \in Threads, t \notin tcbs \ dead PROVE state'[t] = "terminated"
      BY <1>2
    <3>1. state[t] = "terminated" /\ t # currentThread'
      BY <1>4 DEF StateInv
    <3>2. t \notin W /\ ~ (Preempted /\ t = currentThread)
      BY <1>1, <3>1 DEF Preempted
    <3>. QED
      BY <1>1, <3>1, <3>2
  <2>4. \A t \in Threads \ {IdleThread} : state'[t] = "running" => t = currentThread'
    <3>. SUFFICES ASSUME NEW t \in Threads \ {IdleThread}, t # currentThread'
                  PROVE  state'[t] # "running"
      OBVIOUS
    <3>1. state[t] = "running" => Preempted /\ t = currentThread
      BY ConstAssumption DEF StateInv, Preempted
    <3>. QED
      BY <1>1, <3>1
  <2>5. state'[currentThread'] = "running"
    BY <1>1, <1>4
  <2>. QED
    BY <1>2, <1>4, <2>1, <2>2, <2>3, <2>4, <2>5 DEF StateInv
<1>9. QueueDiscipline'
  <2>1. \A t \in tcbs \ {IdleThread} : t # currentThread' =>
           (state'[t] = "ready" <=> \/ t \in W
                                    \/ state[t] = "ready" /\ t # currentThread
                                    \/ Preempted /\ t = currentThread)
    <3>1. currentThread # NoThread => state[currentThread] \in {"running", "blocked"}
      BY DEF StateInv
    <3>. QED
      BY <1>1, <1>4, <3>1
  <2>2. \A t \in tcbs : state'[t] = "blocked" /\ t # currentThread' <=> state[t] = "blocked" /\ t \notin W
    <3>. SUFFICES ASSUME NEW t \in tcbs
                  PROVE  state'[t] = "blocked" /\ t # currentThread'
                           <=> state[t] = "blocked" /\ t \notin W
      OBVIOUS
    <3>1. CASE t = currentThread'
      BY <1>1, <3>1 DEF Preempted, StateInv
    <3>2. CASE t # currentThread'
      BY <1>1, <1>4, <3>2 DEF Preempted
    <3>. QED
      BY <3>1, <3>2
  <2>3. \A t \in tcbs \ dead : t \in tcbs'
    BY <1>2
  <2>4. Elems(readyQueue') = {t \in tcbs' \ {IdleThread} : state'[t] = "ready" /\ t # currentThread'}
    <3>1. \A t \in Elems(readyQueue') : t \notin dead
      BY <1>1 DEF Preempted
    <3>. HIDE DEF dead
    <3>2. \A t : t \in Elems(readyQueue') <=>
                   t \in tcbs' \ {IdleThread} /\ state'[t] = "ready" /\ t # currentThread'
      BY <1>1, <1>2, <2>1, <3>1
    <3>. QED
      BY <3>2
  <2>5. Elems(blockedQueue') = {t \in tcbs' : state'[t] = "blocked" /\ t # currentThread'}
    <3>1. \A t : t \in Elems(blockedQueue') <=>
                   t \in tcbs' /\ state'[t] = "blocked" /\ t # currentThread'
      BY <1>1, <1>2, <2>2
    <3>. QED
      BY <3>1
  <2>. QED
    BY <1>1, <2>4, <2>5 DEF QueueDiscipline
<1>10. ReclaimInv' /\ NothingLeaksToTerminatedQueue'
  <2>1. Elems(pendingReclaims') = {}
    BY <1>2 DEF Elems
  <2>2. terminatedQueue' = terminatedQueue
    BY <1>2 DEF OutgoingTo, StateInv
  <2>. QED
    BY <1>2, <1>5, <2>1, <2>2 DEF ReclaimInv, NothingLeaksToTerminatedQueue
<1>11. StackInv'
  BY <1>2, <1>4 DEF StackInv
<1>12. StackOwnership'
  <2>1. \A t, u \in tcbs' : stack'[t] = stack'[u] => t = u
    BY <1>2, <1>4 DEF StackOwnership
  <2>2. ASSUME NEW k \in kstacks' PROVE \E t \in tcbs' : k = stack'[t]
    <3>1. PICK t \in tcbs : k = stack[t]
      BY <1>2 DEF StackOwnership
    <3>2. t \notin dead
      BY <1>2, <3>1
    <3>. QED
      BY <1>2, <1>4, <3>1, <3>2
  <2>3. ASSUME NEW t \in tcbs' PROVE stack'[t] \in kstacks'
    <3>1. \A u \in dead : stack[u] # stack[t]
      BY <1>2, <1>4 DEF StackOwnership
    <3>. QED
      BY <1>2, <1>4, <3>1 DEF StackOwnership
  <2>. QED
    BY <2>1, <2>2, <2>3 DEF StackOwnership
<1>13. CpuStackOwned'
  BY <1>2, <1>4, <1>6 DEF CpuStackOwned
<1>14. ProcInv'
  <2>1. cr3' \notin kernelProcs'
    BY <1>2, ConstAssumption DEF ProcInv, PageDirectory, TypeOK
  <2>. QED
    BY <1>2, <1>4, <1>6, <2>1 DEF ProcInv
<1>15. LoadInv'
  BY <1>2, <1>4, <1>6 DEF LoadInv
<1>16. Cr3Live'
  <2>1. CurrentProcess' = parent[currentThread']
    BY <1>4 DEF CurrentProcess
  <2>2. parent[currentThread'] # NoProc => parent[currentThread'] \in procs
    BY <1>4, <1>6 DEF ProcInv, StateInv
  <2>. QED
    BY <1>2, <2>1, <2>2 DEF Cr3Live, PageDirectory
<1>17. NoZombieProcess'
  BY <1>2, <1>4, <1>6 DEF NoZombieProcess
<1>. QED
  BY <1>7, <1>8, <1>9, <1>10, <1>11, <1>12, <1>13, <1>14, <1>15, <1>16, <1>17

\* The invariant is inductive.
LEMMA NextIInv == IInv /\ [Next]_vars => IInv'
<1>. SUFFICES ASSUME IInv, [Next]_vars PROVE IInv'
  OBVIOUS
<1>1. ASSUME NEW p \in Procs, NEW t \in Threads, NEW k \in KStacks, CreateKernelProcess(p, t, k)
      PROVE  IInv'
  BY <1>1, CreationStep
<1>2. ASSUME NEW p \in Procs, NEW t \in Threads, NEW k \in KStacks, SpawnProcess(p, t, k)
      PROVE  IInv'
  BY <1>2, CreationStep
<1>3. ASSUME NEW t \in Threads, NEW k \in KStacks, CloneCurrentThread(t, k) \/ LaunchStart(t, k)
      PROVE  IInv'
  <2>1. PICK p : p \in Procs
    BY <1>3, ConstAssumption DEF CloneCurrentThread, LaunchStart, InUserProcess, IInv, TypeOK
  <2>. QED
    BY <1>3, <2>1, CreationStep
<1>4. ASSUME NEW p \in Procs, LaunchBegin(p) PROVE IInv'
  BY <1>4, LaunchBeginStep
<1>5. CASE LaunchFail
  BY <1>5, LaunchFailStep
<1>6. CASE SysExit \/ SysExitGroup \/ KernelThreadExit
  BY <1>6, ExitStep
<1>7. ASSUME NEW ms \in SleepTimes, Sleep(ms) PROVE IInv'
  BY <1>7, SleepStep
<1>8. ASSUME NEW t \in Threads, WakeThread(t) PROVE IInv'
  BY <1>8, WakeThreadStep
<1>9. CASE TimerTick
  <2>. DEFINE now == (timerTicks + 1) % TickMod
  <2>1. now \in 0..(TickMod-1)
    BY ConstAssumption DEF IInv, TypeOK
  <2>2. Schedule(now) /\ timerTicks' = now /\ iflag' = 1
    BY <1>9 DEF TimerTick
  <2>. HIDE DEF now
  <2>. QED
    BY <2>1, <2>2, ScheduleStep
<1>10. CASE HandlerReturn \/ DiskInterrupt
  <2>1. timerTicks \in 0..(TickMod-1)
    BY DEF IInv, TypeOK
  <2>2. Schedule(timerTicks) /\ timerTicks' = timerTicks /\ iflag' = 1
    BY <1>10 DEF HandlerReturn, DiskInterrupt
  <2>. QED
    BY <2>1, <2>2, ScheduleStep
<1>11. CASE UNCHANGED vars
  <2>1. /\ UNCHANGED <<tcbs, state, wakeTime, parent, stack, procs, kernelProcs, threads, loading>>
        /\ UNCHANGED <<readyQueue, blockedQueue, terminatedQueue, pendingReclaims, kstacks,
                       currentThread, esp0, cr3, timerTicks, iflag>>
    BY <1>11 DEF vars, tcbVars, procVars, queueVars, cpuVars
  <2>. QED
    BY <2>1 DEF IInv, TypeOK, StateInv, QueueDiscipline, ReclaimInv, StackInv, StackOwnership,
                CpuStackOwned, ProcInv, LoadInv, Cr3Live, NoZombieProcess,
                NothingLeaksToTerminatedQueue, Live, CurrentProcess, PageDirectory
<1>. QED
  BY <1>1, <1>2, <1>3, <1>4, <1>5, <1>6, <1>7, <1>8, <1>9, <1>10, <1>11 DEF Next

\* Every state the scheduler reaches satisfies the inductive invariant.
THEOREM Invariance == Spec => []IInv
<1>1. Init => IInv
  BY InitIInv
<1>2. IInv /\ [Next]_vars => IInv'
  BY NextIInv
<1>. QED
  BY <1>1, <1>2, PTL DEF Spec

\* Type correctness of the control blocks, the queues and the CPU state.
THEOREM TypeCorrectness == Spec => []TypeOK
<1>1. IInv => TypeOK
  BY DEF IInv
<1>. QED
  BY <1>1, Invariance, PTL

\* The ready and blocked queues hold exactly the ready and the switched-out
\* blocked threads, each once, and no freed TCB.
THEOREM QueueSafety == Spec => []QueueDiscipline
<1>1. IInv => QueueDiscipline
  BY DEF IInv
<1>. QED
  BY <1>1, Invariance, PTL

\* No kernel stack is shared, leaked or freed twice, and the CPU never runs on
\* one that has been given back.
THEOREM StackSafety == Spec => [](StackOwnership /\ CpuStackOwned)
<1>1. IInv => StackOwnership /\ CpuStackOwned
  BY DEF IInv
<1>. QED
  BY <1>1, Invariance, PTL

\* CR3 is the directory of the running thread and never that of a dead process.
THEOREM AddressSpaceSafety == Spec => []Cr3Live
<1>1. IInv => Cr3Live
  BY DEF IInv
<1>. QED
  BY <1>1, Invariance, PTL

\* A listed process has a live thread or a loader, and the parent pointers of
\* the live threads agree with the thread lists.
THEOREM ProcessSafety == Spec => [](NoZombieProcess /\ ParentLinks)
<1>1. IInv => NoZombieProcess
  BY DEF IInv
<1>2. IInv => ParentLinks
  BY DEF IInv, ParentLinks, ProcInv, StateInv, Live, TypeOK
<1>. QED
  BY <1>1, <1>2, Invariance, PTL

\* A pass of Schedule() at time now takes a thread out of the blocked state only
\* when its wake time is not after now.
LEMMA ScheduleWakes ==
    ASSUME IInv, NEW now \in 0..(TickMod-1), Schedule(now), NEW t \in Threads,
           state[t] = "blocked", state'[t] # "blocked"
    PROVE  wakeTime[t] <= now
<1>1. PICK W :
         /\ \A u \in W : wakeTime[u] <= now
         /\ \/ currentThread' = IdleThread
            \/ currentThread' \in W
            \/ state[currentThread'] = "ready"
            \/ Preempted /\ currentThread' = currentThread
         /\ state' = [u \in Threads |->
                        IF u = currentThread' THEN "running"
                        ELSE IF u \in W \/ (Preempted /\ u = currentThread) THEN "ready"
                        ELSE state[u]]
  BY ScheduleQueues
<1>2. t = currentThread' \/ t \in W \/ (Preempted /\ t = currentThread)
  BY <1>1
<1>3. t # IdleThread /\ ~ (Preempted /\ t = currentThread)
  BY DEF IInv, StateInv, Preempted
<1>. QED
  BY <1>1, <1>2, <1>3

\* Sleepers are woken on time, by the desktop, or never: for every set of threads
\* and every period of the tick counter.
THEOREM WakeInTime == Spec => SleepersWakeInTime
<1>. DEFINE OnTime(t) ==
              (state[t] = "blocked" /\ state'[t] # "blocked")
                 => \/ wakeTime[t] <= timerTicks'
                    \/ WakeThread(t)
                    \/ state'[t] = "terminated"
<1>1. IInv /\ [Next]_vars => [\A t \in Threads : OnTime(t)]_vars
  <2>. SUFFICES ASSUME IInv, Next, NEW t \in Threads,
                       state[t] = "blocked", state'[t] # "blocked"
                PROVE  \/ wakeTime[t] <= timerTicks'
                       \/ WakeThread(t)
                       \/ state'[t] = "terminated"
    OBVIOUS
  <2>1. state \in [Threads -> ThreadStates]
        /\ \A u \in Threads \ tcbs : state[u] = "terminated"
    BY DEF IInv, TypeOK, StateInv
  <2>2. ASSUME NEW p, NEW u \in Threads, NEW k, CreateThread(p, u, k) PROVE FALSE
    BY <2>1, <2>2 DEF CreateThread
  <2>3. ASSUME NEW p \in Procs, NEW u \in Threads, NEW k \in KStacks,
               CreateKernelProcess(p, u, k) \/ SpawnProcess(p, u, k)
        PROVE  FALSE
    BY <2>2, <2>3 DEF CreateKernelProcess, SpawnProcess
  <2>4. ASSUME NEW u \in Threads, NEW k \in KStacks, CloneCurrentThread(u, k) \/ LaunchStart(u, k)
        PROVE  FALSE
    BY <2>2, <2>4 DEF CloneCurrentThread, LaunchStart
  <2>5. ASSUME NEW p \in Procs, LaunchBegin(p) PROVE FALSE
    BY <2>5 DEF LaunchBegin, tcbVars
  <2>6. CASE LaunchFail
    BY <2>6 DEF LaunchFail, tcbVars
  <2>7. ASSUME NEW S, NEW gone, Terminate(S, gone) PROVE state'[t] = "terminated"
    BY <2>1, <2>7 DEF Terminate
  <2>8. CASE SysExit \/ SysExitGroup \/ KernelThreadExit
    BY <2>7, <2>8 DEF SysExit, SysExitGroup, KernelThreadExit, ExitCurrentThread, KillProcess,
                      TerminateThreads
  <2>9. ASSUME NEW ms \in SleepTimes, Sleep(ms) PROVE FALSE
    BY <2>1, <2>9 DEF Sleep
  <2>10. ASSUME NEW u \in Threads, WakeThread(u) PROVE WakeThread(t)
    <3>1. t = u
      BY <2>1, <2>10 DEF WakeThread
    <3>. QED
      BY <2>10, <3>1
  <2>11. CASE TimerTick
    <3>. DEFINE now == (timerTicks + 1) % TickMod
    <3>1. now \in 0..(TickMod-1)
      BY ConstAssumption DEF IInv, TypeOK
    <3>2. Schedule(now) /\ timerTicks' = now
      BY <2>11 DEF TimerTick
    <3>. HIDE DEF now
    <3>. QED
      BY <3>1, <3>2, ScheduleWakes
  <2>12. CASE HandlerReturn \/ DiskInterrupt
    <3>1. timerTicks \in 0..(TickMod-1)
      BY DEF IInv, TypeOK
    <3>2. Schedule(timerTicks) /\ timerTicks' = timerTicks
      BY <2>12 DEF HandlerReturn, DiskInterrupt
    <3>. QED
      BY <3>1, <3>2, ScheduleWakes
  <2>. QED
    BY <2>3, <2>4, <2>5, <2>6, <2>8, <2>9, <2>10, <2>11, <2>12 DEF Next
<1>. QED
  BY <1>1, Invariance, PTL DEF Spec, SleepersWakeInTime

===============================================================================

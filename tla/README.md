# TLA+ models of the Hashx86 kernel

This directory models the parts of Hashx86-OS in which several activities share
state: threads and the timer, the desktop thread and the system calls of GUI
programs, interrupts and the code they interrupt. The modules are checked by TLC
on small instances, and the scheduler and the screen's ownership are proved
correct with TLAPS for every number of threads, processes, stacks and buffers.

Every definition that models code is listed under `map` in `PROJECT.json` with
the lines it stands for; paths below are relative to `src/`.

## The execution model all modules share

There is one CPU. System calls (`int 0x80`) and exceptions go through interrupt
gates, so they run with interrupts off until they return: each is one atomic
step. `InterruptGuard` (`include/core/Iguard.h`)
switches interrupts off for a block of kernel-thread code; everything else a
kernel thread does can be interrupted between any two statements, and another
thread's system calls can then run. So a step of a kernel thread ends wherever
its guard ends, and what it has read before it is a variable of the model
(`handler` in `EventDelivery`, `src` in `Framebuffer`, `cur` in `ListImpl`,
`held` in `WidgetTree`, `anim.drv` in `KernelTasks`, `loader` in `PhysicalMemory`).
User threads are preempted anywhere: a step of the terminal reads or writes one of the
variables its two threads share (`foregroundPid`, `backgroundPid`), or is a system call.

## Inventory

| Component | State | Operations | Correct when |
|---|---|---|---|
| Linked list (`include/utils/linkedList.h`) | nodes, head, tail, size | Add (front), PushBack, PopFront, Remove, Take | it is a sequence: nothing lost, leaked or freed twice, tail and size right |
| Scheduler (`core/scheduler.cpp`) | TCBs, PCBs, ready, blocked and reclaim queues, current thread, CR3, TSS.esp0, tick counter | create, clone, fork, start, sleep, wake, exit, kill, schedule | each live thread is in exactly one place, exits leave nothing behind, ready threads run |
| Kernel stacks (`core/kstack.cpp`) | bitmap of slots | alloc, free | one owner per slot, no leak |
| User stacks (`core/scheduler.cpp`) | pool of slots, next fresh slot, mappings | AllocUserStack, FreeUserStackSlot, fork's copy, sweep | slots and frames conserved on every path |
| Interrupt dispatch (`core/interrupts.cpp`, `asm/`) | handler table | dispatch, exception | which events end in Schedule() |
| System calls (`core/syscalls.cpp`) | stdin rings, framebuffer grant | about forty calls | each leaves the component it acts on consistent |
| GUI events (`gui/desktop.cpp`, `gui/Hgui.cpp`, `gui/widgetHostKernel.cpp`) | input ring, event handlers, event queues | Push, Pop, dispatch, PostEvent, GET, register, cleanup | each input reaches its owner at most once, accepted ones stay deliverable |
| Framebuffer ownership (`core/syscalls.cpp`, `gui/desktop.cpp`, `kernel.cpp`) | owner, grant record, private tables, back buffer | grant, revoke, exit, mode switch, draw, flush | only a living owner has access, and only to the buffer in use |
| Widget tree (`gui/widget.cpp`, `gui/window.cpp`, `gui/Hgui.cpp`) | registry, parents and children, deferred deletes | CREATE, ADD_CHILD, DELETE, close, DestroyWidgetLater, drain, RemoveAppByPID, crash dialog | no list holds a freed widget, the registry holds exactly the live ones |
| Focus, drag, modal, tabs (`gui/desktop.cpp`, `gui/taskbar.cpp`) | pointers into the tree | press, drag, Tab, prompt, raise, tab click | never point at a deleted widget; focus is one chain |
| Post-present actions (`gui/desktop.cpp`, `core/power.cpp`) | one slot | post, run | run, and only after a frame without the dialog |
| Audio mixer, AC97 (`core/drivers/AudioMixer.cpp`, `drivers/ac97.cpp`) | streams, deferred frees, DMA ring | play, stop, Update, interrupt | buffers freed once, ring never overrun |
| Keyboard, standard input, terminal (`core/drivers/keyboard.cpp`, `core/syscalls.cpp`, `user_prog/Terminal`) | key states, snapshot, ring per process, ids of the processes waited for | interrupt, poll, dispatch, push, read, run, report an exit | each press dispatched once, characters read in order, drop oldest |
| Boot (`kernel.cpp`, `gui/bootanim.cpp`) | stage, exit handshake | BootMain, animator | the desktop starts |
| Physical memory (`core/pmm.cpp`), paging (`core/paging.cpp`), ELF loader (`core/elf.cpp`), brk | bitmap, counter, directories, tables, heap limits | alloc, free, map, load, brk, fork, kill | each frame has one owner, failures give back what they took |
| Files (`core/filesystem/File.cpp`, `FatFsWrapper.cpp`), FatFs (`FatFs/ff.c`) | descriptors, open-file slots, file objects with one cached sector, the window over directory and allocation table, the disk | open, read, write, lseek, getdents, close | a closed file survives a power cut, a handle reads what it wrote, the volume is sound after any sector write |
| Settings (`core/settings.cpp`, `user_prog/Settings`) | settings.json | save, load at boot | a boot takes the last mode that was saved, or the defaults |
| Module loading, TLSF, disk and video drivers, rendering, other widgets and programs | see `PROJECT.json` | | |

How they interact:

- the timer interrupt increments `timerTicks` and calls `Schedule()`; system
  calls and faults that end the current thread call it too, and so does the disk
  interrupt, because IRQ 14 arrives at the vector the kernel uses for yields;
- every queue is a `LinkedList`, so which end an operation works on decides
  whether a queue is FIFO. `Add()` prepends, which is easy to overlook;
- the desktop thread dispatches input and posts events into queues that GUI
  processes pop in their system calls, and wakes their event threads through the
  scheduler;
- exit of a process runs through the scheduler (threads, stacks, address space),
  the desktop (windows, focus), the Hgui registry (widgets, event handler) and
  the framebuffer owner, in this order;
- the boot worker starts the splash animator, stops it, waits for its exit flag
  and starts the desktop thread, which then owns the framebuffer;
- the audio mixer is called by a task and by the timer interrupt, the card's
  interrupt frees its halves;
- a terminal passes keys to the program it started through that program's
  standard-input ring, and learns of its exit by asking for it;
- file calls pass through descriptor, File and slot to FatFs, which keeps directory
  and allocation table in one window and a sector of data in each open file; the
  Settings program replaces its file in three such calls, which the next boot reads.

What is hard about the code: preemption of the desktop thread between a look-up
and its use; exits that free what the CPU is standing on; partial failures in
the middle of multi-page allocations; 32-bit tick arithmetic; addresses that are
reused after a free; a power cut between the sector writes of one file call. `hazards` in `PROJECT.json` lists the places, each with the
properties that watch it or the reason why none does yet.

## Modules

`LinkedList` defines the list operations on sequences; the other modules use it
for every queue. `ListSpec` is the abstract specification of a list and
`ListImpl` the pointer code, one action per statement, which implements it under
the mapping `list <- Contents`.

`Scheduler` models `core/scheduler.cpp` with the stack zone. A TCB or PCB is an
address; `tcbs` and `procs` are the allocated ones, so reuse of an address after
a free happens. Variables carry the names of the fields they model. The actions
are the entry points: `SpawnProcess` (execve, fork), `CloneCurrentThread`,
`LaunchBegin`/`LaunchStart`/`LaunchFail` (a program started by the desktop
thread, which is registered with no thread while its file is read with
interrupts on), `SysExit`, `SysExitGroup` (and a user-mode fault),
`KernelThreadExit`, `Sleep`, `WakeThread`, `TimerTick`, `DiskInterrupt`, and
`HandlerReturn`, the `Schedule()` with which an exit or fault handler ends.
`Schedule` is the whole function: queue the outgoing thread, move the sleepers
that are due, take the head of the ready queue or the idle thread, set CR3 and
TSS.esp0, drain the pending reclaims. Two facts of the code shape it:
`Sleep()` only marks the caller, who runs on in state BLOCKED until the next
tick; and a thread that exits stays on its stack until `Schedule()` has run.
`threads` is a set, since only membership and number of a process's threads are
ever used.

`UserStack` models the stack slots of user threads. It is a module of its own
because its state (slots, mappings, frames) does not interact with the queues: a
scheduler step that creates or ends a user thread is one of its steps. A page
directory is the set of `<<slot, page>>` pairs it maps. Failure at any page of
an allocation is an action.

`EventDelivery` follows a click from the interrupt to the process: `Push` (ring
full: drop and count), `Pop` under the guard, dispatch to a widget,
`LookupHandler` and `PostEvent` as two steps, `Get`, with processes that start,
create widgets, register handlers (more than once if they like) and exit. Which
widget a click hits is a free choice. `Get` includes the packing of the event
into one 32-bit word and its unpacking by the user library. `accepted`,
`fetched` and `received` are history variables.

`Framebuffer` models the owner of the screen, the grant with its private page
tables, revoke, exit, mode switches, and the desktop's draw and flush.

`WidgetTree` models the kernel's tree of widgets as a record `tree` (who is
allocated, kinds, parents, lists of children, focus, registry) on which the
operations of `widget.cpp` are operators; the actions are the system calls of GUI
processes, their exits and crashes, and the desktop thread's dispatch. Dispatch
runs with interrupts on: the widgets under the pointer are chosen in one step
(`held`) and used in a later one, and a use of a freed widget sets
`tree.fault`. `Preemptible` says whether system calls come in between; the checked
run excludes it, to see whether the code is right without that race, which
`MCWidgetRace.cfg` shows. `LibraryOrder` says that processes add a widget right
after they have created it, as the user library does. `Own` stands for the close
button or another child the kernel makes for itself, whose ID is 0.

`KernelTasks` models the three kernel threads of `kernel.cpp`: boot worker, splash
animator and desktop loop, the last one only as far as frames, prompts and
the post-present slot go. `back` and `screen` say which prompt is painted in the
back buffer and on the panel; `late` counts frames drawn over a process that
owns the screen.

`Audio` models the mixer and the AC97 driver: streams as positions in owned
copies, deferred frees, the driver's count of occupied halves, and the card, which
finishes queued halves and merges its interrupts. The timer handler is not
interrupted; the task that plays a sound is, between any two of its locked regions.

`Terminal` follows a key from the keyboard interrupt through the polled snapshot
and the two threads of the terminal to the program it started. It composes the keyboard
driver, the library's event loop, the terminal, and the standard-input ring of the
child. `th` says where each thread is in `PollForegroundProcess()` and `HandleScancode()` and which id it
has read; the other thread, the child and the user act between any two of these steps.
What the terminal shows is left out (see below).

`PhysicalMemory` models frames: the bitmap and its counter, page directories and
tables, `brk`, fork, exit and the ELF loader page by page. A system call works on
a record `m` of the memory and one address space, which each of its steps
transforms, so that a failure at any page is reached by memory running out there.
With `Preemptible` the loader is the one of the desktop thread, interrupted
between any two steps; without it, it is execve's. Addresses count half pages,
so that rounding matters. User stacks are not in it: `UserStack` has them. The kernel heap
does not run out: the early return of `brk` when its rollback array cannot be allocated, before
anything is changed, is left out.

`FatVolume` has the FatFs calls as operators on a record of the volume: the tables as
the window shows them, which of the two the window holds unwritten, and the disk.
Each sector write of a call appends the disk's new image to `log`, so the order of
writes is the order of the C code. Reading the other table turns the window and
writes the first one back, as `move_window()` does.

`Storage` is the system calls on top: descriptors, the slots, the File's own cursor,
`getdents` with its two record sizes, and the Settings program, which may run more than
once, each saving in three calls. Every call either completes or is cut after one of
its writes, which reboots from that image. A program that ends leaves its slots open
(`orphans`), since nothing walks its descriptors. `MayOpen` is an assumption about
programs: FatFs is built without `FF_FS_LOCK`, so nothing stops two of them from
opening one file for writing. The two Settings programs do it, ordinary programs
here do not. `want`, `closed` and `saved` are histories.
The FSInfo sector, the second table, sub-directories and device errors are left out,
and so is the file work of kernel threads. A directory is read by `getdents` and by
`read`, which moves the same position.

Proofs are in modules of their own: `SchedulerProofs`, `ListImplProofs`,
`EventDeliveryProofs`, `StorageProofs`, `DeviceProofs` (of `Terminal` and `Audio`),
`ScreenProofs` (of `Framebuffer` and `KernelTasks`) and `MemoryProofs` (of `UserStack` and
`PhysicalMemory`). The three that are about two modules extend both, which is why the
definitions of `KernelTasks`, `PhysicalMemory` and `Audio` have names of their own
(`TasksSpec`, `MemorySpec`, `AudioSpec`, ...).
`LinkedListProofs` holds what most of them need about sequences.
`MC*` modules only add constants and symmetry sets for TLC. A definition whose
comment begins with "Mutant" is not part of a specification: it is a plausible
mistake in the definition below it, used to see that a property would notice.

## Runs

| Run | Checks | Instance |
|---|---|---|
| `scheduler` | the inductive invariant (with types), queue discipline, stacks, CR3, process and thread lists, wake-up times; ready threads run, sleepers wake, exited threads are reclaimed | 3 threads and idle, 2 processes, 4 stacks, ticks modulo 2 |
| `list` | no leak, ends and size right, implements a sequence | 4 nodes, 2 values, all operations |
| `events` | at most once, conservation of inputs, small IDs arrive, accepted events deliverable, inputs taken | 2 processes, 2 handlers, ring of 2, 3 inputs |
| `user_stacks` | slots and frames conserved, stacks mapped | 4 threads, 3 processes, 5 slots, 12 frames |
| `framebuffer` | owner alive, access only by the owner, page-table frames conserved | 3 processes, 2 directory frames, 2 buffers |
| `widgets` | children, focus chain, deferred deletions and modal pointer sound; registry exact; tabs of processes live; focus restored at exit | 3 widgets, 2 processes, 2 tabs; no system call inside a dispatch |
| `tasks` | splash and drivers, prompt off the screen before the action, one late frame; boot ends, confirmed actions run | 2 actions, 3 prompts, 3 invalidations, 2 owners |
| `audio` | copies freed once, halves never overwritten while they play; sounds end | 2 slots, 4 sounds of 1 or 4 samples, frames of 2 |
| `terminal` | keys dispatched once, read in order; exits noticed | 3 presses, ring of 2, 2 programs |
| `memory` | frames owned once, counter exact, heap mapped; failed brk undone; frames lost by the loader only | 3 processes, 13 frames, 6 pages, 2 per table |
| `storage` | volume sound after every sector write; closed files durable; handles read what they wrote; slots and listings exact; boots take the mode saved | 3 clusters of 2 units, 2 slots, 1 descriptor, 2 Settings programs, 3 calls, 2 cuts |
| `frame_race` | a violation: `used_blocks` is the number of bits set | 2 processes, loader preemptible |

Invariants that are about one piece of state are conjoined (`EventsSound`,
`UserStacksSound`, `MixerSound`, `PointersSound`, `MemorySound`, ...); the conjuncts are named and
can be given to TLC one by one.

Why the bounds are enough. In `scheduler` one process can have two user threads
while another is being loaded, all stacks can be
taken, a freed TCB, PCB and stack are reused, and the tick counter wraps during
a sleep; the proofs of the safety properties cover all sizes. In
`list` the interesting cases are first, last, only and middle element. In
`events` the ring overflows, two events wait together, a process registers
twice, and a handler address is reused. In `user_stacks` a fork of a fork
inherits a mapping, the slot it covers is recycled, and both slots and frames
run out. In `framebuffer` a directory frame of an earlier owner is reused and
the two buffers share one table. In `widgets` a window with a child, a dialog and
another process's window exist together, a window waits for its destruction while
its owner exits, an address is reused, and tabs run out. In `tasks` a prompt is
confirmed, cancelled and opened again around a frame, and the screen is taken
between any two steps of the loop. In `audio` all slots play, two completions
merge into one interrupt, and a sound ends within, at and after a frame. In
`terminal` the ring is full (a ring of 2 holds 1 character), the program ends between any
two steps of a poll, both threads report one end, and a second program is started between
the answer and the report of the other thread. In `memory`
memory ends at the directory, at a page, at a page table and at the second page
of a break, and segments overlap. In `storage` the disk fills up in the middle of a
save, of a write and of a seek past the end, the slots run out (to programs that
ended as well), an open finds a slot and no descriptor, two saves overlap, and a second
cut follows the recovery from a first.

Bounds that are not in the code: `MaxInputs` and `MaxID` in `EventDelivery`,
`MaxDisabled` in `WidgetTree`, `MaxPrompts`, `MaxInvalidations` and `MaxTakes` in
`KernelTasks`, `MaxPlays` in `Audio`, `MaxPresses`, `MaxHeld` and
`MaxRuns` in `Terminal`, `MaxCalls`, `MaxCuts` and `SeekTargets` in `Storage` (they cap
what users and programs do, and how often the power fails), and the finite sets of
addresses. `HalfWord`
stands for 2^16 and `TickMod` for 2^32; the properties do not depend on their
size, and small values make wrap-around happen.

Fairness. `scheduler` assumes strong fairness of the timer, because a tick
that arrives while interrupts are off stays latched in the interrupt controller
and is taken when they are enabled again, so a stream of system calls cannot
starve it; and weak fairness of the return from a handler, which is straight-line
code. Nothing is assumed of threads. The sleeper's guarantee across a wrap of
the counter is only "eventually": it may be woken early or after a full period.
`events` assumes that the desktop thread's loop keeps running (`WF_vars(Desktop)`),
which is `ReadyEventuallyRuns` of the scheduler for that thread. `tasks` assumes
weak fairness of each of the three kernel threads and `terminal` of the terminal's
main loop, for the same reason; nothing is assumed of users and programs.
`audio` assumes the timer, the task and the card keep going.
`ConfirmedRuns` needs the bound on invalidations: an application that marks the
desktop dirty between every draw and the drain of the slot postpones the action
for ever.

Deadlock is checked in the first five runs and in `memory`. The others may stop: the
machine is switched off or halted (`tasks`), or the bounds on what users do are used up
(`widgets`, `audio`, `terminal`, `storage`).

## Proofs

What is proved holds for every value of the constants that the assumptions of the
module admit. Of the invariants the runs check, those of `Scheduler`, `Framebuffer`,
`EventDelivery`, `UserStack`, `KernelTasks`, `Audio`, `Terminal`, `ListImpl` and
`PhysicalMemory` are all theorems, and so are two of the four of `Storage`, and the
refinement of `ListSpec` by `ListImpl`.

| Module | Theorems | Properties of the runs they state |
|---|---|---|
| `SchedulerProofs` | `Invariance`, `TypeCorrectness`, `QueueSafety`, `StackSafety`, `AddressSpaceSafety`, `ProcessSafety`, `WakeInTime` (an action property) | `IInv`, `QueueDiscipline`, `StackOwnership`, `Cr3Live`, `NoZombieProcess`, `SleepersWakeInTime` |
| `ListImplProofs` | `ListSound`, `ListRefines` (a refinement) | `ChainSound`, `ImplementsSequence` |
| `ScreenProofs` | `ScreenOwnership`, `ScreenAccess`, `FramebufferTypes`, `TableConservation` | `OwnerAlive`, `AccessOnlyByOwner`, `TablesAccountedFor` |
| `ScreenProofs` | `SplashIsSound`, `GoesDownWithoutPrompt`, `AtMostOneLateFrame` | `SplashSound`, `PresentedWithoutPrompt`, `OneLateFrame` |
| `EventDeliveryProofs` | `EventsAreSound` | `EventsSound` |
| `MemoryProofs` | `StacksAreSound` | `UserStacksSound` |
| `MemoryProofs` | `MemoryIsSound`, `OnlyLoaderLoses`, `BrkAllOrNothing` (two action properties) | `MemorySound`, `LostOnlyByLoader`, `FailedBrkUndone` |
| `StorageProofs` | `VolumeIsSound`, `HandlesAreSound` | `VolumeSound`, `HandlesSound` |
| `DeviceProofs` | `MixerIsSound` | `MixerSound` |
| `DeviceProofs` | `ReadsInOrder`, `PressesDispatchedOnce`, `TerminalTypes` | `ReadInOrder`, `DispatchedOnce` |

Each proof goes the same way: an inductive `IInv` of named parts, which TLC has
checked as an invariant of the run's instance; `Init => IInv`; one lemma per action that
the step keeps it (or keeps one part of it); and `IInv` implies the property. Hardly any
of the properties is inductive by itself. What the invariants add, and why:

`SchedulerProofs`

- `StateInv`: the state field says who may point at a TCB; only the current
  thread is RUNNING (the idle thread excepted, which keeps that state when it is
  preempted), and no thread is current while a handler is about to schedule;
- `ReclaimInv`: terminated but allocated threads are exactly those on
  `pendingReclaims`, and there are none while a thread is current. This is what
  makes it safe for a new thread to be created between an exit and `Schedule()`;
- `ProcInv` and `LoadInv`: thread lists are the live threads by parent; a process
  being loaded has one loader, a live kernel thread, and no threads. Without
  `LoadInv` an exit could leave a process that nobody will start or kill;
- `NothingLeaksToTerminatedQueue`: the branch of `Schedule()` that fills
  `terminatedQueue`, which nothing drains, is dead.

`WakeInTime` follows from `IInv` and the same account of what `Schedule()` does to its
queues. Creation, exit and `Schedule()` are split further into what happens to
queues, stacks and process lists.

`ListImplProofs`: the inductive invariant says that there is a witness, the sequence of the
nodes on the list: `Walk` (it goes from `head` along `next`, without repetition, to null, and
these are the allocated nodes but the one a call has in hand), `Ends` (what `tail` and `size`
are at each statement of each call, when they may lag behind) and `Locals` (where the local
pointers of the call in progress stand in the sequence). Each statement is shown to lead from
one witness to another and to change the values along it as `Effect` says: not at all, or by
one operation of `ListSpec`. That the recursive functions of the model compute the
sequence follows from the witness by a least counterexample (`WalkIsChain`). Both theorems have the
hypothesis `Guarded`, lists used under an `InterruptGuard`; without it they are false, as
`MCEventQueue` shows for `Add()`.

`ScreenProofs`, `Framebuffer`: `GrantInv` adds `DirInv` (live processes have distinct
directory frames, so the owner recorded by its directory is one process) and
`AccessInRange` (what the owner can reach lies within the recorded range, which
is all a revoke walks). `FrameInv` adds the types and `TablesAccountedFor`; its
steps rest on two counting lemmas, `AddTables` (a grant adds the tables it
un-shares) and `RemoveTables` (an exit takes away those the directory had).

`EventDeliveryProofs`: `ListInv` (a handler is on the list once, and one that is not on it
has no event), `OwnerInv` (a widget does not outlive its owner, and events go to processes
that were started), and `PointerInv`: the handler the desktop thread keeps between
`LookupHandler` and `PostEvent` may be freed and its address used again, but while the
process lives it is the one the next GET will find. With it `AcceptedIsDeliverable` goes
through, the second registration of a process included. `PastInv` and `OnceInv` say that the
number of an input is in one place only (ring, hand, queue or history) and that whatever has
left the ring came before what is still in it.

`MemoryProofs`, `UserStack`: `ListsInv` (a thread is on the list of at most one process, once, so a
TCB address that is free is on none, and overwriting its slot index loses no slot) and
`DirsInv` (a directory of no process maps nothing, none maps a guard page or a page of a
slot not handed out yet, inherited mappings of forks included). Frames are counted by
`MappingsExcept`: the number of mapped pages changes by what changes in the one
directory that changes.

`MemoryProofs`, `PhysicalMemory`: the operations work on a record with the bitmap, the counter
and one address space. `Good(m, R)` says that the bits set are those of `R`, which the address
space does not own, and those of the frames it holds, that each of these has one place in it,
and that the counter is their number. One lemma each shows what `Take`, `FreeBlocks`, a
new table, a page, the sweep, the trampoline and a failed `MapPage()` do to it; `BrkRun` and
`CopyRun` add what the loops of brk and fork have done after some pages: which are
mapped, and which the rollback has to undo. `SpaceInv` is the same of all processes together (`Own`:
no frame is in two address spaces), and `LoaderInv` says that the frame the loader has
searched for is still free and the frame it has taken is nobody's yet. `OnlyLoaderLoses` compares the
frames marked used that nobody owns before and after a step (`Strays`, shown to be `Lost`). The three
theorems have the hypothesis `~Preemptible`: no system call of another process between the
statements of the loader. That holds for execve, which loads inside one system call, and not
for the programs that the desktop and the start menu launch; `frame_race` refutes
`CounterExact` there.

`ScreenProofs`, `KernelTasks`: `HandshakeInv` ties the worker's place, the animator's place and the two
flags of the splash together; `SlotInv` ties the number of the prompt an action came
from to what is painted in the back buffer and on the panel; `LateInv` says when one
late frame may have been drawn. The first is about the boot threads only, the other two
about the desktop loop only, so each step has to keep one half.

`DeviceProofs`, `Audio`: `RingInv` (which halves the card has queued, against the driver's software
count and the pending interrupt), `StartInv` (the card is started once; a frame can only be
refused before), `ReuseInv` (a slot is played again before its last copy was freed only
where no frame can be mixed in between) and `PlayedInv` (what was handed to the card is
what was mixed).

`DeviceProofs`, `Terminal`: `ChildInv` strengthens `ReadInOrder` with a bound: what a program has
read, and then what its ring holds, grows, and nothing in it is above the number of pushes,
so the next push goes to the end. Its steps rest on the arithmetic of the ring (`PushFacts`,
`PopFacts`), where a push into a full ring also drops the oldest character. `KeyInv` counts a
press as dispatched, waiting in `edges`, or a key held that the last snapshot does not
show; a thread in a dispatch has a key to handle. `ThreadInv` says where each thread can be
and that ids are of programs that were started, which makes every push go to a ring.

`StorageProofs`: `VolumeSound` speaks of the disk, the code works on the window and the
handles, so neither it nor `HandlesSound` is inductive. `IInv` has four parts. `VolSound`: the
tables in memory and the image on the disk are each sound (`TablesSound`: no cluster is linked
to while free or linked to twice, an entry has a chain of its own that covers its size), and
they differ at most in the one sector the window holds. `HandlesOK`: a handle of a
file has a chain that covers its size, which no entry but its own names (`FileOK`), and two handles
have one chain only if both just read one ordinary file (`Apart`); a handle of the settings
file, which two programs truncate under each other, has a chain that no entry and no other
handle names until it is closed. `Owned` and `Shaped`: who has which slot.
With it every operation of FatFs (`put_fat`, `create_chain`, `remove_chain`, `f_open` with a truncation,
`f_lseek`, `f_write`, `f_read`, `f_close`) is shown to keep tables, handles and every image it
writes on the way sound: `LogSound`, which is what a power cut in the middle of the operation
boots from. A chain is unique, ends and is no longer than the volume because no cluster is
linked to twice and a first cluster is not linked to at all (`Pigeons`, `ChainUnique`).
The loops over chains, sectors and names are recursive functions in the model; what holds of each
pass is proved by looking at the least pass at which it would not (`LeastNat`, `IsLoop`).

`LinkedListProofs` proves what `PushBack`, `PopFront`, `Remove` and the
filtering pass of `Schedule()` do to the elements of a list, to the absence of
repetitions and to the order of what remains (`Before`). The filtering pass is a recursive
function; its facts are proved from the existence of a least counterexample.

Assumptions. `ConstAssumption` (the idle thread exists, null pointers are no addresses, the
tick modulus is positive); `FramebufferAssumption` (finitely many directory frames, a
directory of 1024 entries, the null values distinct); `EventAssumption` (a ring of one slot at
least, the first ID not above the last, a half word of an even number of values, the null values
distinct); `ListAssumption` (finitely many nodes, null is none of them); `StackAssumption` (finitely many threads and processes, a stack of two pages at
least); `MemoryAssumption` (null and the trampoline are frames that are never free, the
trampoline has a user page, a program has at least one segment); `VolumeAssumption` and
`StorageAssumption` (at least one cluster and one unit in a sector, the volume is sound when
it is first booted, the settings file is no ordinary one, a directory record is not empty);
`TaskAssumptions`; `AudioAssumptions` (sounds have a longest length, as a `uint32_t` has, and null is no number); `TerminalAssumptions` (scancodes are numbers, a ring of two slots, at least
one program).

One statement changed on the way. `SmallIDsReceived` said that GET and user space agree
whenever the low half of the word is not negative; with IDs beyond 16 bits this is false, since
the packing cuts the ID, and no instance had such IDs. It now says which events
arrive, that they arrive in order, and that they arrive unchanged if the ID fits.

Only model-checked:

- everything under fairness (`ReadyEventuallyRuns`, `InputsEventuallyTaken`, `BootCompletes`,
  `SoundsEnd`, `ExitNoticed` and the like): liveness is out of the prover's reach;
- `WidgetTree`: its operators recurse over the tree;
- `ClosedIsDurable` and `ReadsOwnWrites` of `Storage`, which compare contents unit by unit with
  what was written, and `BootsSavedMode`, which rests on them: the invariant below follows
  tables and sizes and says nothing of the data in the clusters.

## Findings

One run must find its property violated.

- `frame_race`: `pmm_alloc_block_low()` searches for a frame and marks it later. A
  program launched from the desktop or the start menu is loaded with interrupts
  on; a `brk` in between gets the same frame, which then belongs to two processes
  and is counted twice. In the same window `paging_map_depth` is 1, so the other
  call's `MapPage()` fails as a recursion (`core/paging.cpp:152`).

Further configurations show other disagreements of the code with its comments, each
violating the one property it names; they are not among the runs.

| Configuration (module) | Property | Shows |
|---|---|---|
| `MCSchedulerReclaim` (`MCScheduler`) | `ReclaimedOffStack` | `Schedule()` gives back the kernel stack it still runs on (`core/scheduler.cpp:1032`); harmless while interrupts are off, which `IInv` covers |
| `MCEventQueue` (`MCListImpl`) | `ChainAllocated` | a GET between two statements of the unguarded `Add()` leaves a freed node linked (`gui/widgetHostKernel.cpp:59`) |
| `MCEventOrder` (`MCEventDelivery`) | `DeliveredInOrder` | the event queue is documented as FIFO and is a stack |
| `MCEventWord` (`MCEventDelivery`) | `UnpackedAsPosted` | from widget ID 0x8000 on, user space reads the word of GET as "no event" |
| `MCUserStackScan` (`MCUserStack`) | `PoolCheckedBeforeFresh` | the scan of the slot pool requeues at the front and looks at one candidate only |
| `MCFramebufferFlush` (`MCFramebuffer`) | `FlushReadsLiveBuffer` | a mode switch frees the back buffer during `Flush()` |
| `MCWidgetTab` (`MCWidgetTree`) | `TabsLive` | the tab of the widget gallery survives its window |
| `MCDesktopLost` (`MCWidgetTree`) | `DesktopRegistered` | `DELETE` of a window removes registry entries by ID; the close button's ID is 0, the desktop's too, and the desktop is no longer registered |
| `MCWidgetRace` (`MCWidgetTree`) | `NoWildAccess` | dispatch uses a widget that a system call has freed meanwhile; `widgets` leaves such system calls out (`Preemptible = FALSE`) and says nothing of them |
| `MCAudioNoDma` (`MCAudio`) | `UpdateReturns` | with a mixer but no DMA memory `Update()` spins in the timer interrupt |
| `MCTerminalRace` (`MCTerminal`) | `ForegroundKept` | one thread of the terminal has asked about a program that is gone; the other reports it and starts the next; the first then clears `foregroundPid` (`Terminal/prog.cpp:182-186`), and keys are no longer "forwarded to the attached foreground process" (`Terminal/include/prog.h:138`) |

Weaknesses seen while modelling that have no configuration:

- events: `PostEvent()` uses a handler that may have been freed and reused since its
  look-up; a process with two event handlers leaves one behind when it exits;
- memory: the loader loses the frame it holds when `MapPage()` fails, and the one an
  overlapping segment had mapped (`LostOnlyByLoader` says these are the only
  ones); `CreateProcess()` does not test the directory for null;
- widgets: `RemoveAppByPID()` leaves a child that was created and never added
  (`gui/Hgui.cpp:811`), and such a child keeps the pointer to its parent; a process
  with two windows that exits leaves the desktop without focus
  (`gui/desktop.cpp:417`); hiding the information dialog keeps its focus; a drag
  reaches widgets behind a modal dialog; CREATE does not ask who owns the parent;
  DELETE of a child removes the tab of its window;
- audio: two tasks that start the first sound together both prefill; 8-bit files are
  played as 16-bit;
- terminal, input: both threads may report one exit; Enter takes only the last line of a
  wrapped command; a press and release between two polls are not seen, and presses within
  one poll are dispatched by scancode; the driver's character ring is never read;
- terminal, output: the two threads edit the line buffer, the scroll offset and `viewDirty` with no
  lock, so `Backspace()` may remove a character of a prompt that was printed after its check
  (`Terminal/prog.cpp:88-94`), both may add a line past `MAX_LINES` (48-67), a scroll offset
  computed before a `clear` is stored after it (310-312), and a `MarkDirty()` during
  `UpdateView()` is lost; the output of a program it runs never shows, because SET_TEXT on the
  host's view is refused to a process that does not own it (`gui/Hgui.cpp:718-723`); a view that is
  scrolled up skips `scrollOffset` lines of a text that begins as many lines higher
  already (`gui/terminalview.cpp:267-273`), so it shows no older line;
- files: the exit of a process closes no descriptor, so its slots stay taken and what
  it had not closed is not on the disk; an open with truncation that finds no free slot
  or descriptor fails and has emptied the file; FatFs is not reentrant
  (`FF_FS_REENTRANT` is 0) although the desktop thread reads program files with
  interrupts on; `disk_read()` does not look at the result of `Read28()`.

## Not modelled

Third-party code (TLSF, the TrueType and image decoders, and of FatFs everything
but the calls in `FatVolume`), port-level drivers, rendering, fonts, single widgets, file formats and the other user
programs: sequential code, or code whose correctness is about data and not about
order. The terminal's line buffer, scrolling and view are left out too: nothing orders the
two threads on them, so no property of what is shown holds of the code, and the
races are listed above instead. These parts make up most of the repository: two Unicode tables and FatFs alone are
more than a quarter of its lines. Register contents, TID reporting, program
arguments and logging are left out of the modelled functions.

## Plan

1. Proofs: the registry and the pointers of `WidgetTree`, whose recursive operators would
   have to become recursive functions first.
2. A composition of `Scheduler` and `EventDelivery`: wake-ups through
   `EventHandler::thread`, which outlives the thread it names.
3. File reads of the desktop thread between the steps of file calls, on a finer
   `FatVolume`; the module loader.
4. `UserStack` and `Framebuffer` on the frames of `PhysicalMemory`.

---------------------------- MODULE KernelTasks -----------------------------
(***************************************************************************)
(* The kernel's own threads: the boot worker (BootMain), the boot animation *)
(* (BootSplashAnimator) and the desktop loop (pDesktop), with the exit      *)
(* handshake between the first two and the post-present action that a       *)
(* confirmed power dialog leaves to the third.  A step is what runs between *)
(* two places where another thread or a system call can come in; a block    *)
(* under an InterruptGuard is one step.                                     *)
(***************************************************************************)
EXTENDS Naturals

CONSTANTS
    Actions,            \* confirmable power actions (restart, shut down)
    NoAction,
    MaxPrompts,         \* bound: power prompts the user opens
    MaxInvalidations,   \* bound: times another thread marks the desktop dirty
    MaxTakes            \* bound: times a process takes the screen

ASSUME TaskAssumptions ==
    /\ NoAction \notin Actions
    /\ {MaxPrompts, MaxInvalidations, MaxTakes} \subseteq Nat

VARIABLES
    boot,       \* where the boot worker is
    anim,       \* where the animator is, and the driver it has read
    desk,       \* where the desktop loop is
    driver,     \* g_GraphicsDriver
    drivers,    \* the driver objects that exist
    frames,     \* g_bootAnimSet: "none", "loaded" or "freed"
    done,       \* g_bootSplashDone
    exited,     \* g_bootSplashExited
    dirty,      \* Desktop::isDirty
    moved,      \* Desktop::MouseMoved()
    prompt,     \* the power dialog: its number, whether it is visible, what it would run
    post,       \* postPresentAction with the number of the prompt it comes from
    back,       \* the prompt drawn in the back buffer, 0 for none
    screen,     \* the prompt visible on the panel, 0 for none
    full,       \* g_stop_gui_rendering
    late,       \* desktop frames drawn since a process took the screen
    spent       \* uses of the bounds

tasksVars == <<boot, anim, desk, driver, drivers, frames, done, exited, dirty, moved, prompt, post,
             back, screen, full, late, spent>>
splashVars == <<boot, anim, driver, drivers, frames, done, exited>>
deskVars == <<desk, dirty, moved, prompt, post, back, screen, full, late, spent>>

BootPlaces == {"mount", "splash", "title", "pci", "repaint", "stop", "wait", "retire", "mode",
               "handover", "gone", "halted"}
AnimPlaces == {"none", "test", "draw", "sleep", "free", "exit", "gone"}
DeskPlaces == {"none", "input", "check", "pick", "draw", "flush", "post", "off"}
NoPost == [action |-> NoAction, from |-> 0]

TasksType ==
    /\ boot \in BootPlaces /\ desk \in DeskPlaces
    /\ anim \in [at : AnimPlaces, drv : {"none", "vbe", "bga"}]
    /\ driver \in {"vbe", "bga"} /\ drivers \subseteq {"vbe", "bga"}
    /\ frames \in {"none", "loaded", "freed"}
    /\ {done, exited, dirty, moved, full} \subseteq BOOLEAN
    /\ prompt \in [number : 0..MaxPrompts, shown : BOOLEAN, action : Actions \cup {NoAction}]
    /\ post \in [action : Actions \cup {NoAction}, from : 0..MaxPrompts]
    /\ back \in 0..MaxPrompts /\ screen \in 0..MaxPrompts
    /\ late \in Nat
    /\ spent \in [invalidations : 0..MaxInvalidations, takes : 0..MaxTakes]

TasksInit ==
    /\ boot = "mount" /\ anim = [at |-> "none", drv |-> "none"] /\ desk = "none"
    /\ driver = "vbe" /\ drivers = {"vbe"} /\ frames = "none"
    /\ done = FALSE /\ exited = FALSE
    /\ dirty = TRUE /\ moved = FALSE
    /\ prompt = [number |-> 0, shown |-> FALSE, action |-> NoAction]
    /\ post = NoPost /\ back = 0 /\ screen = 0
    /\ full = FALSE /\ late = 0
    /\ spent = [invalidations |-> 0, takes |-> 0]

On == desk # "off" /\ boot # "halted"

------------------------------------------------------------------------------
(* The boot worker.                                                          *)

\* ATA probe and partition mount; without a drive or a partition the machine halts.
BootMount ==
    /\ On /\ boot = "mount"
    /\ boot' \in {"splash", "halted"}
    /\ UNCHANGED <<anim, driver, drivers, frames, done, exited, deskVars>>

\* LoadBootAnimFrames finds a frame set or none; then the animator is started.
BootStartSplash ==
    /\ On /\ boot = "splash"
    /\ frames' \in {"none", "loaded"}
    /\ anim' = [anim EXCEPT !.at = "test"]
    /\ boot' = "title"
    /\ UNCHANGED <<driver, drivers, done, exited, deskVars>>

\* The fonts, then BootTitleResync under a guard; without the system font the worker stays here.
BootTitle ==
    /\ On /\ boot = "title"
    /\ boot' \in {"pci", "halted"}
    /\ UNCHANGED <<anim, driver, drivers, frames, done, exited, deskVars>>

\* init_pci under a guard: a BGA adapter that activates replaces the bootstrap driver, which
\* is retired and not yet deleted.
BootPci ==
    /\ On /\ boot = "pci"
    /\ \/ driver' = "bga" /\ drivers' = drivers \cup {"bga"}
       \/ UNCHANGED <<driver, drivers>>
    /\ boot' = "repaint"
    /\ UNCHANGED <<anim, frames, done, exited, deskVars>>

\* BootSplashRepaint, the input drivers, the ELF loader and the boot sound.
BootRepaint ==
    /\ On /\ boot = "repaint"
    /\ boot' = "stop"
    /\ UNCHANGED <<anim, driver, drivers, frames, done, exited, deskVars>>

BootStop ==
    /\ On /\ boot = "stop"
    /\ done' = TRUE
    /\ boot' = "wait"
    /\ UNCHANGED <<anim, driver, drivers, frames, exited, deskVars>>

\* Mutant: the worker does not wait for the animator.
BootWaitNot ==
    /\ On /\ boot = "wait"
    /\ boot' = "retire"
    /\ UNCHANGED <<anim, driver, drivers, frames, done, exited, deskVars>>

\* while (!g_bootSplashExited) Sleep(1): the loop ends when the flag is seen.
BootWait ==
    /\ On /\ boot = "wait" /\ exited
    /\ boot' = "retire"
    /\ UNCHANGED <<anim, driver, drivers, frames, done, exited, deskVars>>

\* The bootstrap driver is deleted if another one has replaced it; then ActivateAll.
BootRetire ==
    /\ On /\ boot = "retire"
    /\ drivers' = {driver}
    /\ boot' = "mode"
    /\ UNCHANGED <<anim, driver, frames, done, exited, deskVars>>

\* ApplyDisplayMode of the saved settings, then the desktop thread.
BootMode ==
    /\ On /\ boot = "mode"
    /\ boot' = "handover"
    /\ UNCHANGED <<anim, driver, drivers, frames, done, exited, deskVars>>

BootHandover ==
    /\ On /\ boot = "handover"
    /\ boot' = "gone" /\ desk' = "input"
    /\ UNCHANGED <<anim, driver, drivers, frames, done, exited, dirty, moved, prompt, post, back,
                   screen, full, late, spent>>

BootStep ==
    \/ BootMount \/ BootStartSplash \/ BootTitle \/ BootPci \/ BootRepaint
    \/ BootStop \/ BootWait \/ BootRetire \/ BootMode \/ BootHandover

------------------------------------------------------------------------------
(* The animator.                                                             *)

\* The flag, then the global driver pointer, both outside the guard.
AnimTest ==
    /\ On /\ anim.at = "test"
    /\ anim' = IF done THEN [anim EXCEPT !.at = "free"] ELSE [at |-> "draw", drv |-> driver]
    /\ UNCHANGED <<boot, driver, drivers, frames, done, exited, deskVars>>

\* One frame or one sweep of the dots under a guard, on the driver read before.
AnimDraw ==
    /\ On /\ anim.at = "draw"
    /\ anim' = [anim EXCEPT !.at = "sleep"]
    /\ UNCHANGED <<boot, driver, drivers, frames, done, exited, deskVars>>

\* Mutant: the animator leaves without its last statements, as a thread that is killed would.
AnimDies ==
    /\ On /\ anim.at = "sleep"
    /\ anim' \in {[at |-> "test", drv |-> "none"], [at |-> "gone", drv |-> "none"]}
    /\ UNCHANGED <<boot, driver, drivers, frames, done, exited, deskVars>>

AnimSleep ==
    /\ On /\ anim.at = "sleep"
    /\ anim' = [at |-> "test", drv |-> "none"]
    /\ UNCHANGED <<boot, driver, drivers, frames, done, exited, deskVars>>

\* FreeBootAnimFrames.
AnimFree ==
    /\ On /\ anim.at = "free"
    /\ frames' = "freed"
    /\ anim' = [anim EXCEPT !.at = "exit"]
    /\ UNCHANGED <<boot, driver, drivers, done, exited, deskVars>>

AnimExit ==
    /\ On /\ anim.at = "exit"
    /\ exited' = TRUE
    /\ anim' = [anim EXCEPT !.at = "gone"]
    /\ UNCHANGED <<boot, driver, drivers, frames, done, deskVars>>

AnimStep == AnimTest \/ AnimDraw \/ AnimSleep \/ AnimFree \/ AnimExit

------------------------------------------------------------------------------
(* The desktop loop.                                                         *)

\* ProcessInput: a power button opens the confirmation prompt, which marks the desktop dirty.
ShowConfirm(a) ==
    /\ desk = "input" /\ ~prompt.shown /\ prompt.number < MaxPrompts
    /\ prompt' = [number |-> prompt.number + 1, shown |-> TRUE, action |-> a]
    /\ dirty' = TRUE
    /\ UNCHANGED <<splashVars, desk, moved, post, back, screen, full, late, spent>>

\* Mutant: OnConfirmClicked as it would be if it called the action at once.
RunOnConfirm ==
    /\ desk = "input" /\ prompt.shown
    /\ prompt' = [prompt EXCEPT !.shown = FALSE, !.action = NoAction]
    /\ post' = [action |-> prompt.action, from |-> prompt.number]
    /\ desk' = "off"
    /\ UNCHANGED <<splashVars, dirty, moved, back, screen, full, late, spent>>

\* OnConfirmClicked: the dialog is hidden, its action goes to the post-present slot.
OnConfirmClicked ==
    /\ desk = "input" /\ prompt.shown
    /\ prompt' = [prompt EXCEPT !.shown = FALSE, !.action = NoAction]
    /\ post' = [action |-> prompt.action, from |-> prompt.number]
    /\ dirty' = TRUE
    /\ UNCHANGED <<splashVars, desk, moved, back, screen, full, late, spent>>

OnCancelClicked ==
    /\ desk = "input" /\ prompt.shown
    /\ prompt' = [prompt EXCEPT !.shown = FALSE, !.action = NoAction]
    /\ dirty' = TRUE
    /\ UNCHANGED <<splashVars, desk, moved, post, back, screen, full, late, spent>>

\* HandleMouseMove changes the cursor position.
MouseMove ==
    /\ desk = "input" /\ ~moved
    /\ moved' = TRUE
    /\ UNCHANGED <<splashVars, desk, dirty, prompt, post, back, screen, full, late, spent>>

\* The queue is empty: the loop goes on.
InputDone ==
    /\ desk = "input"
    /\ desk' = "check"
    /\ UNCHANGED <<splashVars, dirty, moved, prompt, post, back, screen, full, late, spent>>

\* Mutant: the flag is not tested.
CheckOwnerNot ==
    /\ desk = "check"
    /\ desk' = "pick"
    /\ UNCHANGED <<splashVars, dirty, moved, prompt, post, back, screen, full, late, spent>>

\* A full-screen application: flush, sleep and start over, with nothing else of the loop.
DesktopChecksOwner ==
    /\ desk = "check"
    /\ desk' = IF full THEN "input" ELSE "pick"
    /\ UNCHANGED <<splashVars, dirty, moved, prompt, post, back, screen, full, late, spent>>

\* Something to present, or Sleep(16).  Once a second the clock marks the desktop dirty.
PickWork(clock) ==
    /\ desk = "pick"
    /\ dirty' = (dirty \/ clock)
    /\ desk' = IF dirty' \/ moved \/ post # NoPost THEN "draw" ELSE "input"
    /\ UNCHANGED <<splashVars, moved, prompt, post, back, screen, full, late, spent>>

\* Desktop::Draw under its guard: everything when dirty, otherwise only the cursor.
DrawDesktop ==
    /\ desk = "draw"
    /\ back' = IF dirty THEN (IF prompt.shown THEN prompt.number ELSE 0) ELSE back
    /\ dirty' = FALSE /\ moved' = FALSE
    /\ late' = IF full THEN late + 1 ELSE late
    /\ desk' = "flush"
    /\ UNCHANGED <<splashVars, prompt, post, screen, full, spent>>

Flush ==
    /\ desk = "flush"
    /\ screen' = back
    /\ desk' = "post"
    /\ UNCHANGED <<splashVars, dirty, moved, prompt, post, back, full, late, spent>>

\* Mutant: the slot is cleared before the frame is found stale.
RunPostDropped ==
    /\ desk = "post"
    /\ desk' = IF dirty \/ post = NoPost THEN "input" ELSE "off"
    /\ post' = IF dirty THEN NoPost ELSE post
    /\ UNCHANGED <<splashVars, dirty, moved, prompt, back, screen, full, late, spent>>

\* RunPostPresentAction: a dirty desktop keeps the action queued; the action does not return.
RunPostPresentAction ==
    /\ desk = "post"
    /\ desk' = IF dirty \/ post = NoPost THEN "input" ELSE "off"
    /\ UNCHANGED <<splashVars, dirty, moved, prompt, post, back, screen, full, late, spent>>

\* What the loop does by itself once its input is handled.
DeskStep ==
    \/ InputDone \/ DesktopChecksOwner \/ \E clock \in BOOLEAN : PickWork(clock)
    \/ DrawDesktop \/ Flush \/ RunPostPresentAction

UserStep ==
    \/ \E a \in Actions : ShowConfirm(a)
    \/ OnConfirmClicked \/ OnCancelClicked \/ MouseMove

------------------------------------------------------------------------------
(* Other threads, between any two steps of the loop.                         *)

Invalidate ==
    /\ desk \notin {"none", "off"} /\ spent.invalidations < MaxInvalidations
    /\ dirty' = TRUE
    /\ spent' = [spent EXCEPT !.invalidations = @ + 1]
    /\ UNCHANGED <<splashVars, desk, moved, prompt, post, back, screen, full, late>>

\* Sys_getFramebuffer makes the caller the owner of the screen.
TakeScreen ==
    /\ desk \notin {"none", "off"} /\ ~full /\ spent.takes < MaxTakes
    /\ full' = TRUE /\ late' = 0
    /\ spent' = [spent EXCEPT !.takes = @ + 1]
    /\ UNCHANGED <<splashVars, desk, dirty, moved, prompt, post, back, screen>>

\* The owner gives it back or exits; the desktop has to be drawn again.
ReleaseScreen ==
    /\ desk \notin {"none", "off"} /\ full
    /\ full' = FALSE /\ late' = 0 /\ dirty' = TRUE
    /\ UNCHANGED <<splashVars, desk, moved, prompt, post, back, screen, spent>>

TasksNext ==
    \/ BootStep \/ AnimStep \/ DeskStep \/ UserStep
    \/ Invalidate \/ TakeScreen \/ ReleaseScreen

TasksSpec == TasksInit /\ [][TasksNext]_tasksVars

\* Each thread keeps running because the scheduler runs every ready thread (module Scheduler).
FairSpec ==
    /\ TasksSpec
    /\ WF_tasksVars(BootStep) /\ WF_tasksVars(AnimStep) /\ WF_tasksVars(DeskStep)

------------------------------------------------------------------------------
(* Properties.                                                               *)

\* The driver the animator read before its guard still exists when it draws, although the boot
\* worker may have replaced it in between.
AnimDriverLive == anim.at = "draw" => anim.drv \in drivers

\* From the moment the worker may delete a driver, switch the mode or start the desktop, the
\* animator touches neither the framebuffer nor its frames again.
HandoffExclusive ==
    boot \in {"retire", "mode", "handover", "gone"}
        => anim.at = "gone" /\ frames = "freed" /\ driver \in drivers

\* The worker redraws over the saved background only while the animator has not freed it.
FramesLive == boot \in {"title", "pci", "repaint"} => frames # "freed"

\* What the boot worker and the animator share: drivers, frames and the framebuffer.
SplashSound == TasksType /\ AnimDriverLive /\ HandoffExclusive /\ FramesLive

\* When the machine goes down the prompt that asked for it is no longer on the screen.
PresentedWithoutPrompt == desk = "off" => post # NoPost /\ screen # post.from

\* A process that takes the screen sees at most one more frame of the desktop.
OneLateFrame == late <= 1

\* Boot ends in the desktop or in a reported halt; the handshake never waits for ever.
BootCompletes == <>(boot \in {"gone", "halted"})

\* A confirmed action is carried out, unless a process keeps the screen.
ConfirmedRuns == post # NoPost ~> (desk = "off" \/ full)
=============================================================================

----------------------------- MODULE Framebuffer -----------------------------
(***************************************************************************)
(* Who may write to the screen.  A full-screen program takes the back      *)
(* buffer with Hsys_getFramebuffer: the kernel gives it private copies of  *)
(* the page tables that cover the buffer, with user access, records the    *)
(* grant, and the desktop stops drawing.  The screen comes back when the   *)
(* program calls Hsys_initCli, exits or faults.  Any program may meanwhile *)
(* ask for another display mode, which replaces the buffer.                *)
(*                                                                         *)
(* Syscalls and fault handlers run with IF=0, in one step.  The desktop    *)
(* thread draws under an InterruptGuard, but tests the owner before it and *)
(* copies the buffer to the video memory after it, with interrupts on.     *)
(***************************************************************************)
EXTENDS Integers, FiniteSets

CONSTANTS
    Pids,          \* process IDs, never reused
    Dirs,          \* frames a page directory can be allocated at
    Buffers,       \* heap addresses the back buffer can be allocated at
    Covers,        \* the page-directory indices [start, end] over each buffer
    NoPid,         \* g_gui_owner_pid = -1
    NoDir,         \* a null page directory
    NoBuffer       \* a null buffer

ASSUME FramebufferAssumption ==
    /\ IsFiniteSet(Dirs)
    /\ NoPid \notin Pids
    /\ NoDir \notin Dirs
    /\ NoBuffer \notin Buffers
    /\ \A b \in Buffers : Covers[b] \subseteq 0..1023     \* a directory has 1024 entries

PDs == UNION {Covers[b] : b \in Buffers}

VARIABLES
    started, live,           \* processes ever started, and those running
    page_directory,          \* of each live process
    g_stop_gui_rendering, g_gui_owner_pid,
    g_fb_private_valid, g_fb_private_owner, g_fb_private_range,
    private,                 \* indices at which a directory has its own table
    userAccess,              \* <<index, buffer>>: PAGE_USER in a private table
    tables,                  \* frames taken for private tables
    backBuffer,              \* the buffer in use; every other one is free
    pc, src                  \* the desktop thread, and the buffer Flush() copies

procVars == <<started, live, page_directory>>
ownerVars == <<g_stop_gui_rendering, g_gui_owner_pid>>
grantVars == <<g_fb_private_valid, g_fb_private_owner, g_fb_private_range>>
tableVars == <<private, userAccess, tables>>
desktopVars == <<pc, src>>
vars == <<procVars, ownerVars, grantVars, tableVars, backBuffer, desktopVars>>

TypeOK ==
    /\ live \subseteq started /\ started \subseteq Pids
    /\ page_directory \in [Pids -> Dirs \cup {NoDir}]
    /\ g_stop_gui_rendering \in BOOLEAN
    /\ g_gui_owner_pid \in Pids \cup {NoPid}
    /\ g_fb_private_valid \in BOOLEAN
    /\ g_fb_private_owner \in Dirs \cup {NoDir}
    /\ g_fb_private_range \subseteq PDs
    /\ private \in [Dirs -> SUBSET PDs]
    /\ userAccess \in [Dirs -> SUBSET (PDs \X Buffers)]
    /\ tables \in Nat
    /\ backBuffer \in Buffers
    /\ pc \in {"loop", "draw", "flush", "copying"}
    /\ src \in Buffers \cup {NoBuffer}

Init ==
    /\ started = {} /\ live = {}
    /\ page_directory = [p \in Pids |-> NoDir]
    /\ g_stop_gui_rendering = FALSE /\ g_gui_owner_pid = NoPid
    /\ g_fb_private_valid = FALSE /\ g_fb_private_owner = NoDir /\ g_fb_private_range = {}
    /\ private = [d \in Dirs |-> {}]
    /\ userAccess = [d \in Dirs |-> {}]
    /\ tables = 0
    /\ backBuffer \in Buffers
    /\ pc = "loop" /\ src = NoBuffer

-------------------------------------------------------------------------------
\* Directories that belong to a live process.
DirsInUse == {page_directory[p] : p \in live}

\* CreateProcess() or fork: CreateProcessDirectory() takes a free frame and shares
\* every kernel table, so the child of a full-screen program has no access.
StartProcess(p, d) ==
    /\ p \in Pids \ started
    /\ d \in Dirs \ DirsInUse
    /\ started' = started \cup {p}
    /\ live' = live \cup {p}
    /\ page_directory' = [page_directory EXCEPT ![p] = d]
    /\ UNCHANGED <<ownerVars, grantVars, tableVars, backBuffer, desktopVars>>

\* Ownership is exclusive; the owner may ask again.
MayTakeScreen(p) == ~g_stop_gui_rendering \/ g_gui_owner_pid = p

\* Hsys_getFramebuffer: un-share the tables over the back buffer, record the
\* grant, then give user access to the pages of the buffer.
GetFramebuffer(p) ==
    LET d == page_directory[p]
        range == Covers[backBuffer]
    IN  /\ p \in live
        /\ MayTakeScreen(p)
        /\ private' = [private EXCEPT ![d] = @ \cup range]
        /\ tables' = tables + Cardinality(range \ private[d])
        /\ userAccess' = [userAccess EXCEPT ![d] = @ \cup (range \X {backBuffer})]
        /\ g_fb_private_range' = range
        /\ g_fb_private_owner' = d
        /\ g_fb_private_valid' = TRUE
        /\ g_stop_gui_rendering' = TRUE
        /\ g_gui_owner_pid' = p
        /\ UNCHANGED <<procVars, backBuffer, desktopVars>>

\* Hsys_getFramebuffer runs out of memory at index i: the tables below it have
\* been un-shared and stay so, with no record of it.
GetFramebufferFails(p, i) ==
    LET d == page_directory[p]
        below == {j \in Covers[backBuffer] : j < i}
    IN  /\ p \in live
        /\ MayTakeScreen(p)
        /\ i \in Covers[backBuffer] \ private[d]
        /\ private' = [private EXCEPT ![d] = @ \cup below]
        /\ tables' = tables + Cardinality(below \ private[d])
        /\ UNCHANGED <<procVars, ownerVars, grantVars, userAccess, backBuffer, desktopVars>>

\* Mutant: the last table of the range is left out.
RevokedRangeShort ==
    {i \in g_fb_private_range : \E j \in g_fb_private_range : i < j}

\* The indices RevokeFramebufferMapping() walks.
RevokedRange == g_fb_private_range

\* RevokeFramebufferMapping(): the recorded owner gets the shared tables back and
\* the private ones are freed; any other directory is left alone.
RevokeFramebufferMapping(d) ==
    IF ~g_fb_private_valid \/ d # g_fb_private_owner
    THEN UNCHANGED <<grantVars, tableVars>>
    ELSE /\ tables' = tables - Cardinality(RevokedRange \cap private[d])
         /\ private' = [private EXCEPT ![d] = @ \ RevokedRange]
         /\ userAccess' = [userAccess EXCEPT ![d] = {a \in @ : a[1] \notin RevokedRange}]
         /\ g_fb_private_valid' = FALSE
         /\ g_fb_private_owner' = NoDir
         /\ UNCHANGED g_fb_private_range

\* Hsys_initCli by the owner of the screen; for any other process it changes
\* nothing here.
InitCli(p) ==
    /\ p \in live
    /\ g_stop_gui_rendering /\ g_gui_owner_pid = p
    /\ RevokeFramebufferMapping(page_directory[p])
    /\ g_stop_gui_rendering' = FALSE
    /\ g_gui_owner_pid' = NoPid
    /\ UNCHANGED <<procVars, backBuffer, desktopVars>>

\* Mutant: the sweep stops at the user part of the directory.
FreePrivateNone(d) == tables

\* KillProcess() frees the private copies of kernel tables.
FreePrivate(d) == tables - Cardinality(private[d])

\* Mutant: a dead owner keeps the screen.
OwnerGoneKept(p) == UNCHANGED ownerVars

\* CleanupExitedProcessGui(), and the same lines of the fault handler.
OwnerGone(p) ==
    IF g_stop_gui_rendering /\ g_gui_owner_pid = p
    THEN g_stop_gui_rendering' = FALSE /\ g_gui_owner_pid' = NoPid
    ELSE UNCHANGED ownerVars

\* Exit of the last thread, exit_group or a fault: KillProcess() frees the
\* directory, then the screen is released.  The record of the grant is kept.
ProcessExit(p) ==
    LET d == page_directory[p]
    IN  /\ p \in live
        /\ tables' = FreePrivate(d)
        /\ private' = [private EXCEPT ![d] = {}]
        /\ userAccess' = [userAccess EXCEPT ![d] = {}]
        /\ live' = live \ {p}
        /\ page_directory' = [page_directory EXCEPT ![p] = NoDir]
        /\ OwnerGone(p)
        /\ UNCHANGED <<started, grantVars, backBuffer, desktopVars>>

\* ApplyDisplayMode() refuses while a program owns the screen.
ModeSwitchAllowed == ~g_stop_gui_rendering

\* HandleDisplay(SET_MODE): the new buffer is allocated, then the old one freed.
\* A refusal by the adapter or the heap changes nothing.
SetMode(b) ==
    /\ live # {}
    /\ ModeSwitchAllowed
    /\ b \in Buffers \ {backBuffer}
    /\ backBuffer' = b
    /\ UNCHANGED <<procVars, ownerVars, grantVars, tableVars, desktopVars>>

-------------------------------------------------------------------------------
\* pDesktop(): with an owner the buffer is only flushed, else it is drawn first
\* when something changed.
CheckOwner ==
    /\ pc = "loop"
    /\ pc' = IF g_stop_gui_rendering THEN "flush" ELSE "draw"
    /\ UNCHANGED <<procVars, ownerVars, grantVars, tableVars, backBuffer, src>>

\* Desktop::Draw(), atomic under its guard.
Draw ==
    /\ pc = "draw"
    /\ pc' = "flush"
    /\ UNCHANGED <<procVars, ownerVars, grantVars, tableVars, backBuffer, src>>

\* Flush() reads the pointer and copies from it.
FlushStart ==
    /\ pc = "flush"
    /\ src' = backBuffer
    /\ pc' = "copying"
    /\ UNCHANGED <<procVars, ownerVars, grantVars, tableVars, backBuffer>>

FlushEnd ==
    /\ pc = "copying"
    /\ src' = NoBuffer
    /\ pc' = "loop"
    /\ UNCHANGED <<procVars, ownerVars, grantVars, tableVars, backBuffer>>

Next ==
    \/ \E p \in Pids, d \in Dirs : StartProcess(p, d)
    \/ \E p \in Pids : GetFramebuffer(p) \/ InitCli(p) \/ ProcessExit(p)
    \/ \E p \in Pids, i \in PDs : GetFramebufferFails(p, i)
    \/ \E b \in Buffers : SetMode(b)
    \/ CheckOwner \/ Draw \/ FlushStart \/ FlushEnd

Spec == Init /\ [][Next]_vars

-------------------------------------------------------------------------------
\* Properties.

\* The screen is never locked by a process that is gone, whichever way it went,
\* and the record RevokeFramebufferMapping() will use is the owner's own, also
\* when the owner's directory frame belonged to an earlier owner.
OwnerAlive ==
    g_stop_gui_rendering =>
        /\ g_gui_owner_pid \in live
        /\ g_fb_private_valid
        /\ g_fb_private_owner = page_directory[g_gui_owner_pid]
        /\ g_fb_private_range = Covers[backBuffer]

\* User access to a back buffer exists only in the address space of the owner and
\* only to the buffer in use: none survives the release of the screen, a reuse of
\* the directory frame, or a change of the display mode.
AccessOnlyByOwner ==
    \A d \in Dirs : \A a \in userAccess[d] :
        /\ g_stop_gui_rendering
        /\ d = page_directory[g_gui_owner_pid]
        /\ a[1] \in private[d]
        /\ a[2] = backBuffer

\* The private tables of all directories.
PrivateTables == {x \in Dirs \X PDs : x[2] \in private[x[1]]}

\* A frame for each private table and no other: tables un-shared by a grant that
\* failed half-way are freed too, and no table by both the revoke and the exit.
TablesAccountedFor ==
    /\ tables = Cardinality(PrivateTables)
    /\ \A d \in Dirs \ DirsInUse : private[d] = {}

\* What the comment in HandleDisplay() says of the mode switch: "it must not race
\* the GUI task".  The buffer Flush() is copying from has not been freed.
FlushReadsLiveBuffer == pc = "copying" => src = backBuffer

===============================================================================

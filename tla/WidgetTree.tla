----------------------------- MODULE WidgetTree -----------------------------
(***************************************************************************)
(* The kernel's widget tree: the widgets processes create through the HGUI  *)
(* system calls and the ones the kernel owns, the registry that finds them, *)
(* the focus chain, the taskbar tabs, the modal dialog, the drag target and *)
(* the deferred destruction of closed windows (gui/widget.cpp, desktop.cpp, *)
(* window.cpp, Hgui.cpp, taskbar.cpp, messagebox.cpp, infodialog.cpp).      *)
(*                                                                          *)
(* A widget is its address, and an address is used again after a delete.    *)
(* The buttons a window or dialog builds for itself live and die with it    *)
(* and carry the identifier 0: they are all written Own.  Geometry is left  *)
(* out: which visible widget a pointer event hits is a free choice.         *)
(***************************************************************************)
EXTENDS Naturals, Sequences, FiniteSets, SequencesExt

CONSTANTS
    Widgets,        \* heap addresses of widgets
    Pids,           \* user processes
    Kernel,         \* PID 0, the owner of kernel windows
    Desktop,        \* the root, identifier 0
    Own,            \* the buttons a window creates for itself, identifier 0
    Null,
    MaxTabs,        \* TASKBAR_TAB_MAX_TABS
    MaxDisabled,    \* bound: widgets disabled at the same time
    LibraryOrder,   \* processes issue their requests in libhx86's order
    Preemptible     \* process steps may interrupt an unguarded desktop step

ASSUME WidgetAssumptions ==
    /\ IsFiniteSet(Widgets)
    /\ MaxTabs \in Nat /\ MaxDisabled \in Nat
    /\ {LibraryOrder, Preemptible} \subseteq BOOLEAN
    /\ Cardinality({Kernel, Desktop, Own, Null}) = 4
    /\ {Kernel, Desktop, Own, Null} \cap (Widgets \cup Pids) = {}

VARIABLES
    tree,       \* the widgets: see TypeOK
    alive,      \* processes that have not exited
    handlers,   \* processes with an EventHandler; libhx86 registers one before any window
    tabs,       \* the taskbar's tabs
    pending,    \* g_pendingWidgetDestroy
    dialog,     \* g_powerDialog
    info,       \* g_crashDialog
    modal,      \* Desktop::modalWidget
    holdsFocus, \* MessageBox::holdsFocus
    drag,       \* Desktop::dragTarget
    held        \* what the desktop task works on outside a guard

vars == <<tree, alive, handlers, tabs, pending, dialog, info, modal, holdsFocus, drag, held>>

procVars == <<alive, handlers>>
kernelVars == <<pending, dialog, info, modal, holdsFocus>>

Containers == Widgets \cup {Desktop}
Kinds == {"free", "window", "leaf", "dialog", "info"}
Idle == [op |-> "idle", path |-> <<>>]

\* Every widget is reachable only as the program reaches it; "tree" gathers the fields of all widgets.
TypeOK ==
    /\ tree \in [kind : [Widgets -> Kinds],
                 pid : [Widgets -> Pids \cup {Kernel}],
                 parent : [Containers -> Containers \cup {Null}],
                 children : [Containers -> Seq(Widgets)],
                 focus : [Containers -> Widgets \cup {Own, Null}],
                 focused : SUBSET Widgets,
                 hidden : SUBSET Widgets,
                 disabled : SUBSET Widgets,
                 registry : SUBSET Containers,
                 fault : {"none", "wild", "tab"}]
    /\ alive \subseteq Pids /\ handlers \subseteq Pids
    /\ tabs \in Seq([pid : Pids \cup {Kernel}, window : Widgets])
    /\ pending \in Seq(Widgets)
    /\ {dialog, info, modal, drag} \subseteq Widgets \cup {Null}
    /\ holdsFocus \in BOOLEAN
    /\ held \in [op : {"idle", "press", "close", "drain"}, path : Seq(Widgets \cup {Own})]

------------------------------------------------------------------------------
(* Operations on widgets, each from a tree to a tree.                        *)

Live(t, w) == w = Desktop \/ (w \in Widgets /\ t.kind[w] # "free")
Composite(t, w) == w = Desktop \/ (w \in Widgets /\ t.kind[w] \in {"window", "dialog", "info"})
IsWindow(t, w) == w \in Widgets /\ t.kind[w] \in {"window", "dialog", "info"}
Child(t, c, w) == w \in Range(t.children[c])
Without(s, w) == SelectSeq(s, LAMBDA c : c # w)
Visible(t, w) == w \notin t.hidden
Wild(t) == [t EXCEPT !.fault = "wild"]

\* Widget::SetFocus and CompositeWidget::SetFocus: the focused child follows its container.
RECURSIVE SetFocus(_, _, _)
SetFocus(t, w, on) ==
    IF w = Own \/ (w \in t.focused) = on THEN t
    ELSE LET u == [t EXCEPT !.focused = IF on THEN @ \cup {w} ELSE @ \ {w}]
         IN  IF u.focus[w] = Null THEN u ELSE SetFocus(u, u.focus[w], on)

\* Moves an actual child to the end of the list, the top of the Z-order.
Raise(t, c, w) ==
    IF Child(t, c, w) THEN [t EXCEPT !.children[c] = Append(Without(@, w), w)] ELSE t

\* CompositeWidget::GetFocus, then the same request for the container at its parent.
RECURSIVE GetFocus(_, _, _)
GetFocus(t, c, w) ==
    LET dropped == IF t.focus[c] = Null THEN t ELSE SetFocus(t, t.focus[c], FALSE)
        chosen == [dropped EXCEPT !.focus[c] = w]
        u == IF t.focus[c] = w THEN t
             ELSE IF w = Null THEN chosen
             ELSE Raise(SetFocus(chosen, w, TRUE), c, w)
        up == t.parent[c]
    IN  IF up = Null THEN u
        ELSE IF Live(t, up) THEN GetFocus(u, up, c)
        ELSE Wild(t)

\* CompositeWidget::RemoveChild over Widget::RemoveChild.
RemoveChild(t, c, w) ==
    LET u == IF t.focus[c] = w THEN [SetFocus(t, w, FALSE) EXCEPT !.focus[c] = Null] ELSE t
    IN  IF Child(t, c, w)
        THEN [u EXCEPT !.children[c] = Without(@, w),
                       !.parent[w] = IF @ = c THEN Null ELSE @]
        ELSE u

\* Mutant: the link to the parent is dropped, the parent's list is not.
DetachOneSided(t, w) == [t EXCEPT !.parent[w] = Null]

\* parent->RemoveChild(w) where the parent is only known by its address.
Detach(t, w) ==
    IF t.parent[w] = Null THEN t
    ELSE IF Live(t, t.parent[w]) THEN RemoveChild(t, t.parent[w], w)
    ELSE Wild(t)

\* Widget::AddChild: refuses a child of another parent and one it already has.
AddChild(t, c, w) ==
    IF t.parent[w] \notin {Null, c} \/ Child(t, c, w) THEN t
    ELSE [t EXCEPT !.children[c] = Append(@, w), !.parent[w] = c]

\* delete: ~CompositeWidget deletes the children it holds, ~Widget leaves parent and registry.
RECURSIVE Delete(_, _)
Delete(t, w) ==
    IF ~Live(t, w) THEN Wild(t)
    ELSE IF t.children[w] # <<>>
    THEN LET c == Head(t.children[w])
         IN  Delete(Delete([t EXCEPT !.children[w] = Tail(@), !.parent[c] = Null], c), w)
    ELSE [Detach(t, w) EXCEPT !.kind[w] = "free", !.pid[w] = Kernel, !.parent[w] = Null,
                              !.focus[w] = Null, !.focused = @ \ {w}, !.hidden = @ \ {w},
                              !.disabled = @ \ {w}, !.registry = @ \ {w}]

\* The constructors: the parent link is set, the parent's list is not.
New(t, w, kind, p, c) ==
    [t EXCEPT !.kind[w] = kind, !.pid[w] = p, !.parent[w] = c]

\* The widgets below c that lists reach, c included (TreeContainsWidget, the walk of DELETE).
RECURSIVE Subtree(_, _)
Subtree(t, c) == {c} \cup UNION {Subtree(t, w) : w \in Range(t.children[c])}

\* The topmost visible window on the desktop, Null when there is none.
TopMost(t) ==
    LET shown == SelectSeq(t.children[Desktop], LAMBDA w : Visible(t, w) /\ IsWindow(t, w))
    IN  IF shown = <<>> THEN Null ELSE Last(shown)

\* Where a pointer event can land: a visible chain of children from the desktop down.
Paths(t) ==
    LET Below(w) == {<<w>>} \cup (IF Composite(t, w) THEN {<<w, Own>>} ELSE {})
                    \cup {<<w, c>> : c \in {d \in Range(t.children[w]) : Visible(t, d)}}
    IN  {<<>>} \cup UNION {Below(w) : w \in {d \in Range(t.children[Desktop]) : Visible(t, d)}}

\* CompositeWidget::OnMouseDown of c along the chain it hits: the child first, then the focus.
RECURSIVE OnMouseDown(_, _, _)
OnMouseDown(t, c, path) ==
    IF c \in t.disabled THEN t
    ELSE IF path = <<>> THEN GetFocus(t, c, Null)
    ELSE LET w == Head(path)
             u == IF Composite(t, w) THEN OnMouseDown(t, w, Tail(path)) ELSE t
         IN  GetFocus(u, c, w)

------------------------------------------------------------------------------
(* The taskbar's tabs: one per process, each with the address of a widget.   *)

AddTab(s, p, w) ==
    IF Len(s) >= MaxTabs \/ \E i \in DOMAIN s : s[i].pid = p THEN s
    ELSE <<[pid |-> p, window |-> w]>> \o s

DropFirst(s, Test(_)) ==
    LET hits == {i \in DOMAIN s : Test(s[i])}
    IN  IF hits = {} THEN s ELSE RemoveAt(s, CHOOSE i \in hits : \A j \in hits : i <= j)

RemoveTabByPID(s, p) == DropFirst(s, LAMBDA tab : tab.pid = p)
RemoveTabByWindow(s, w) == DropFirst(s, LAMBDA tab : tab.window = w)

\* The window a widget belongs to, following parent links.
RECURSIVE WindowOf(_, _)
WindowOf(t, w) == IF w \in {Null, Desktop} \/ IsWindow(t, w) THEN w ELSE WindowOf(t, t.parent[w])

------------------------------------------------------------------------------
(* System calls, each under an InterruptGuard.                               *)

Running(p) == p \in alive /\ tree.fault = "none" /\ (Preemptible \/ held.op = "idle")
\* An address that a tab still names is not handed out: a use through the tab then shows as one.
Free == {w \in Widgets : tree.kind[w] = "free" /\ \A i \in DOMAIN tabs : tabs[i].window # w}
Owned(p) == {w \in tree.registry \ {Desktop} : tree.pid[w] = p}
Unattached(p) == {w \in Owned(p) : tree.kind[w] = "leaf" /\ \A c \in Containers : ~Child(tree, c, w)}

\* WINDOW/CREATE takes any registered composite, the other CREATEs any but the desktop.
CreateWidget(p, w, kind, c) ==
    /\ Running(p) /\ w \in Free
    /\ c \in tree.registry /\ Composite(tree, c)
    /\ kind = "leaf" => c # Desktop
    /\ LibraryOrder => IF kind = "window" THEN c = Desktop ELSE tree.pid[c] = p
    /\ tree' = [New(tree, w, kind, p, c) EXCEPT !.registry = @ \cup {w}]
    /\ UNCHANGED <<procVars, tabs, drag, held, kernelVars>>

\* WIDGET/ADD_CHILD: the result of AddChild is not looked at before the tab is added.
AddChildCall(p, c, w) ==
    /\ Running(p) /\ {c, w} \subseteq tree.registry
    /\ w # Desktop /\ tree.pid[w] = p /\ Composite(tree, c) /\ c # w
    /\ c # Desktop => tree.pid[c] = p
    /\ c \notin Subtree(tree, w)
    /\ LibraryOrder => c = tree.parent[w]
    /\ tree' = AddChild(tree, c, w)
    /\ tabs' = IF c = Desktop THEN AddTab(tabs, p, w) ELSE tabs
    /\ UNCHANGED <<procVars, drag, held, kernelVars>>

\* Takes out of the registry what has the identifier of a widget of the deleted subtree.
Unregister(t, w) ==
    LET gone == Subtree(t, w)
        zero == IF \E c \in gone : IsWindow(t, c) THEN {Desktop} ELSE {}
    IN  [t EXCEPT !.registry = @ \ (gone \cup zero)]

\* Mutant: the tab is left behind.
DeleteCallKeepsTab(p, w) ==
    /\ Running(p) /\ w \in Owned(p)
    /\ LibraryOrder => tree.kind[w] = "window" /\ Unattached(p) = {}
    /\ tree' = Delete(Detach(Unregister(tree, w), w), w)
    /\ UNCHANGED <<procVars, tabs, drag, held, kernelVars>>

\* WIDGET/DELETE: tab of the enclosing window, registry entries, parent link, the widget.
DeleteCall(p, w) ==
    /\ Running(p) /\ w \in Owned(p)
    /\ LibraryOrder => tree.kind[w] = "window" /\ Unattached(p) = {}
    /\ tabs' = IF WindowOf(tree, w) \in {Null, Desktop} THEN tabs
               ELSE RemoveTabByWindow(tabs, WindowOf(tree, w))
    /\ tree' = Delete(Detach(Unregister(tree, w), w), w)
    /\ UNCHANGED <<procVars, drag, held, kernelVars>>

\* WIDGET/SET_ENABLED: Widget::SetEnabled drops the focus of a widget it disables.
SetEnabled(p, w, on) ==
    /\ Running(p) /\ w \in Owned(p) /\ (w \in tree.disabled) = on
    /\ on \/ Cardinality(tree.disabled) < MaxDisabled
    /\ tree' = IF on THEN [tree EXCEPT !.disabled = @ \ {w}]
               ELSE LET t == [tree EXCEPT !.disabled = @ \cup {w}]
                    IN  IF w \notin t.focused THEN t
                        ELSE LET u == SetFocus(t, w, FALSE)
                             IN  IF t.parent[w] = Null THEN u ELSE GetFocus(u, t.parent[w], Null)
    /\ UNCHANGED <<procVars, tabs, drag, held, kernelVars>>

\* Mutant: nothing takes the focus of the window that goes.
DesktopRemoveOnly(t, p) ==
    LET mine == SelectSeq(t.children[Desktop], LAMBDA c : t.pid[c] = p)
    IN  IF mine = <<>> THEN t ELSE RemoveChild(t, Desktop, Head(mine))

\* Desktop::RemoveAppByPID: only the first window of the process, and the focus behind it.
DesktopRemove(t, p) ==
    LET mine == SelectSeq(t.children[Desktop], LAMBDA c : t.pid[c] = p)
        u == RemoveChild(t, Desktop, Head(mine))
    IN  IF mine = <<>> THEN t
        ELSE IF TopMost(u) = Null THEN u ELSE GetFocus(u, Desktop, TopMost(u))

\* HguiHandler::RemoveAppByPID: deletes the registered widgets whose parent is not one of them.
RegistryRemove(t, p) ==
    LET mine == {w \in t.registry \ {Desktop} : t.pid[w] = p}
        roots == {w \in mine : t.parent[w] \notin mine}
    IN  FoldSet(LAMBDA w, u : Delete(Detach(u, w), w), t, roots)

\* CleanupExitedProcessGui, also reached from KillProcess of a faulting process.
ProcessGone(t, p) ==
    /\ tree' = RegistryRemove(DesktopRemove(t, p), p)
    /\ tabs' = RemoveTabByPID(tabs, p)
    /\ drag' = LET mine == SelectSeq(t.children[Desktop], LAMBDA c : t.pid[c] = p)
               IN  IF mine # <<>> /\ drag \in Subtree(t, Head(mine)) THEN Null ELSE drag
    /\ alive' = alive \ {p}
    /\ handlers' = handlers \ {p}

ProcessExit(p) ==
    /\ Running(p)
    /\ ProcessGone(tree, p)
    /\ UNCHANGED <<held, kernelVars>>

\* The fault handler: CrashReporter's dialog first, then the removal of the process.
ProcessCrash(p) ==
    /\ Running(p)
    /\ \E w \in IF info = Null THEN Free ELSE {info} :
        LET t == IF info = Null THEN AddChild(New(tree, w, "info", Kernel, Desktop), Desktop, w)
                 ELSE [tree EXCEPT !.hidden = @ \ {w}]
        IN  /\ ProcessGone(GetFocus(t, Desktop, w), p)
            /\ info' = w
    /\ UNCHANGED <<held, pending, dialog, modal, holdsFocus>>

------------------------------------------------------------------------------
(* The desktop task.  Dispatch runs outside the guards: what it works on is  *)
(* held from the choice of the target to the end of the handler.  The        *)
(* handlers of a release come after HandleMouseUp has ended the drag.        *)

DesktopFree == held.op = "idle" /\ tree.fault = "none"
ModalActive == modal # Null /\ Visible(tree, modal)

\* HandleMouseDown picks the widgets under the pointer; the modal dialog takes every press.
HandleMouseDown(path) ==
    /\ DesktopFree
    /\ path \in IF ModalActive THEN {<<modal>>, <<modal, Own>>} ELSE Paths(tree)
    /\ held' = [op |-> "press", path |-> path]
    /\ UNCHANGED <<tree, procVars, tabs, drag, kernelVars>>

\* A pointer of the held path that was freed meanwhile is used all the same.
PathLive == \A i \in DOMAIN held.path : held.path[i] = Own \/ Live(tree, held.path[i])

\* The handlers return; a press in the title bar raised the window first.
FinishMouseDown(title) ==
    /\ held.op = "press" /\ tree.fault = "none"
    /\ title => held.path # <<>> /\ Len(held.path) = 1 /\ Composite(tree, held.path[1])
                /\ held.path[1] \notin tree.disabled
    /\ tree' = IF ~PathLive THEN Wild(tree)
               ELSE IF ModalActive THEN OnMouseDown(tree, modal, Tail(held.path))
               ELSE OnMouseDown(IF title THEN Raise(tree, Desktop, held.path[1]) ELSE tree,
                                Desktop, held.path)
    /\ held' = Idle
    /\ UNCHANGED <<procVars, tabs, drag, kernelVars>>

\* A release on the close button of a visible window; a dialog shows no such button.
ClickClose(w) ==
    /\ DesktopFree /\ ~ModalActive
    /\ Child(tree, Desktop, w) /\ Visible(tree, w)
    /\ tree.kind[w] \in {"window", "info"} /\ w \notin tree.disabled
    /\ held' = [op |-> "close", path |-> <<w>>]
    /\ drag' = Null
    /\ UNCHANGED <<tree, procVars, tabs, kernelVars>>

\* Window::OnClose: the owner decides; without a handler hide, detach and destroy later.
OnClose ==
    /\ held.op = "close" /\ tree.fault = "none"
    /\ LET w == held.path[1]
           t == [tree EXCEPT !.hidden = @ \cup {w}]
       IN  /\ tree' = IF ~PathLive THEN Wild(tree)
                      ELSE IF tree.pid[w] \in handlers THEN tree
                      ELSE IF tree.kind[w] = "info" THEN t
                      ELSE Detach(t, w)
           /\ pending' = IF PathLive /\ tree.pid[w] \notin handlers /\ tree.kind[w] = "window"
                         THEN Append(pending, w) ELSE pending
    /\ held' = Idle
    /\ UNCHANGED <<procVars, tabs, drag, dialog, info, modal, holdsFocus>>

\* DrainDeferredWidgetDeletes pops under the guard and deletes outside it.
DrainPop ==
    /\ DesktopFree /\ pending # <<>>
    /\ held' = [op |-> "drain", path |-> <<Head(pending)>>]
    /\ pending' = Tail(pending)
    /\ UNCHANGED <<tree, procVars, tabs, drag, dialog, info, modal, holdsFocus>>

DrainDelete ==
    /\ held.op = "drain" /\ tree.fault = "none"
    /\ tree' = Delete(tree, held.path[1])
    /\ held' = Idle
    /\ UNCHANGED <<procVars, tabs, drag, kernelVars>>

\* TaskbarTab::OnMouseDown follows the address the tab has kept.
ClickTab(i) ==
    /\ DesktopFree /\ ~ModalActive
    /\ LET w == tabs[i].window IN
        tree' = IF ~Live(tree, w) THEN [tree EXCEPT !.fault = "tab"]
                ELSE IF tree.parent[w] = Null THEN tree
                ELSE IF ~Live(tree, tree.parent[w]) THEN Wild(tree)
                ELSE GetFocus(tree, tree.parent[w], w)
    /\ UNCHANGED <<procVars, tabs, drag, held, kernelVars>>

\* CompositeWidget::OnTabFocus: some stop of the visible tree, entered through its parent.
OnTabFocus(path) ==
    /\ DesktopFree
    /\ path \in Paths(tree) /\ Len(path) > 1
    /\ tree' = GetFocus(tree, path[1], path[2])
    /\ UNCHANGED <<procVars, tabs, drag, held, kernelVars>>

\* OpenWidgetGallery: a window of the kernel, raised, with a tab for PID 0.
OpenWidgetGallery(w) ==
    /\ DesktopFree /\ ~ModalActive /\ w \in Free
    /\ tree' = Raise(AddChild(New(tree, w, "window", Kernel, Desktop), Desktop, w), Desktop, w)
    /\ tabs' = AddTab(tabs, Kernel, w)
    /\ drag' = Null
    /\ UNCHANGED <<procVars, held, kernelVars>>

\* StartMenuPowerButton::OnMouseUp: the shared dialog, created once, then ShowConfirm.
ShowConfirm(w) ==
    /\ DesktopFree /\ ~ModalActive
    /\ w \in IF dialog = Null THEN Free ELSE {dialog}
    /\ LET t == IF dialog = Null THEN AddChild(New(tree, w, "dialog", Kernel, Desktop), Desktop, w)
                ELSE [tree EXCEPT !.hidden = @ \ {w}]
       IN  tree' = GetFocus(t, Desktop, w)
    /\ dialog' = w /\ modal' = w /\ holdsFocus' = TRUE /\ drag' = Null
    /\ UNCHANGED <<procVars, tabs, held, pending, info>>

\* OnConfirmClicked and OnCancelClicked: HideDialog gives the focus back.
HideDialog ==
    /\ DesktopFree /\ ModalActive
    /\ modal' = IF modal = dialog THEN Null ELSE modal
    /\ LET t == [tree EXCEPT !.hidden = @ \cup {dialog}]
       IN  tree' = IF holdsFocus THEN GetFocus(t, Desktop, TopMost(t)) ELSE t
    /\ holdsFocus' = FALSE /\ drag' = Null
    /\ UNCHANGED <<procVars, tabs, held, pending, dialog, info>>

\* InfoDialog's OK button only hides the dialog.
HideInfo ==
    /\ DesktopFree /\ ~ModalActive
    /\ info # Null /\ Visible(tree, info)
    /\ tree' = [tree EXCEPT !.hidden = @ \cup {info}]
    /\ drag' = Null
    /\ UNCHANGED <<procVars, tabs, held, kernelVars>>

\* HandleMouseMove past the threshold takes the deepest widget under the press as target.
StartDrag(path) ==
    /\ DesktopFree /\ drag = Null
    /\ path \in Paths(tree) /\ path # <<>> /\ Last(path) # Own
    /\ drag' = Last(path)
    /\ UNCHANGED <<tree, procVars, tabs, held, kernelVars>>

\* A move or a release while dragging: the target is used only if the live tree still has it.
ContinueDrag(release) ==
    /\ DesktopFree /\ drag # Null
    /\ tree' = IF drag \in Subtree(tree, Desktop) /\ ~Live(tree, drag) THEN Wild(tree) ELSE tree
    /\ drag' = IF release \/ drag \notin Subtree(tree, Desktop) THEN Null ELSE drag
    /\ UNCHANGED <<procVars, tabs, held, kernelVars>>

------------------------------------------------------------------------------
Init ==
    /\ tree = [kind |-> [w \in Widgets |-> "free"],
               pid |-> [w \in Widgets |-> Kernel],
               parent |-> [w \in Containers |-> Null],
               children |-> [w \in Containers |-> <<>>],
               focus |-> [w \in Containers |-> Null],
               focused |-> {}, hidden |-> {}, disabled |-> {},
               registry |-> {Desktop}, fault |-> "none"]
    /\ alive = Pids
    /\ handlers \in SUBSET Pids /\ (LibraryOrder => handlers = Pids)
    /\ tabs = <<>> /\ pending = <<>>
    /\ dialog = Null /\ info = Null /\ modal = Null /\ holdsFocus = FALSE
    /\ drag = Null /\ held = Idle

ProcessNext ==
    \E p \in Pids :
        \/ ProcessExit(p) \/ ProcessCrash(p)
        \/ \E w \in Widgets, c \in Containers, kind \in {"window", "leaf"} :
                CreateWidget(p, w, kind, c)
        \/ \E w \in Widgets, c \in Containers : AddChildCall(p, c, w)
        \/ \E w \in Widgets : DeleteCall(p, w) \/ \E on \in BOOLEAN : SetEnabled(p, w, on)

DesktopNext ==
    \/ \E path \in Paths(tree) \cup {<<modal>>, <<modal, Own>>} : HandleMouseDown(path)
    \/ \E path \in Paths(tree) : OnTabFocus(path) \/ StartDrag(path)
    \/ \E title \in BOOLEAN : FinishMouseDown(title)
    \/ \E release \in BOOLEAN : ContinueDrag(release)
    \/ \E w \in Widgets : ClickClose(w) \/ OpenWidgetGallery(w) \/ ShowConfirm(w)
    \/ \E i \in DOMAIN tabs : ClickTab(i)
    \/ OnClose \/ DrainPop \/ DrainDelete \/ HideDialog \/ HideInfo

Next == ProcessNext \/ DesktopNext

Spec == Init /\ [][Next]_vars

------------------------------------------------------------------------------
(* Properties.                                                               *)

\* Whatever is deleted, in whatever order, no list of children holds a freed widget, a widget
\* twice or a widget of another parent: what ~Widget's "defensive invariant" is there for.
TreeSound ==
    \A c \in Containers :
        /\ ~Live(tree, c) => tree.children[c] = <<>>
        /\ IsInjective(tree.children[c])
        /\ \A w \in Range(tree.children[c]) : Live(tree, w) /\ tree.parent[w] = c

\* The focused widgets are one chain from the desktop down: each is the focused child of the
\* container that lists it, so keys never reach a detached or a freed widget.
FocusSound ==
    /\ \A w \in tree.focused :
        /\ Live(tree, w) /\ tree.parent[w] # Null
        /\ Child(tree, tree.parent[w], w) /\ tree.focus[tree.parent[w]] = w
        /\ tree.parent[w] \in tree.focused \cup {Desktop}
    /\ tree.focus[Desktop] \in Widgets => tree.focus[Desktop] \in tree.focused
    /\ \A c \in tree.focused : tree.focus[c] \in Widgets => tree.focus[c] \in tree.focused

\* The registry holds exactly the live widgets of processes: RemoveAppByPID can find each of
\* them and never finds a freed one.
RegistryExact == tree.registry \ {Desktop} = {w \in Widgets : Live(tree, w) /\ tree.pid[w] # Kernel}

\* What a terminated process leaves behind are only widgets it created and never added.
ExitFreesAttached ==
    \A w \in Widgets : Live(tree, w) /\ tree.pid[w] \notin alive \cup {Kernel}
        => tree.kind[w] = "leaf" /\ \A c \in Containers : ~Child(tree, c, w)

\* The tab of a process names a live widget of that process.
ProcessTabsLive ==
    \A i \in DOMAIN tabs : tabs[i].pid # Kernel =>
        /\ tabs[i].pid \in alive
        /\ Live(tree, tabs[i].window) /\ tree.pid[tabs[i].window] = tabs[i].pid

\* The registry through which processes reach widgets and their exit frees them, and the
\* tabs that name their windows.
RegistrySound == RegistryExact /\ ExitFreesAttached /\ ProcessTabsLive

\* A window that waits for its destruction is waiting once, is detached and still allocated.
PendingSound ==
    /\ IsInjective(pending)
    /\ \A w \in Range(pending) : /\ Live(tree, w) /\ tree.parent[w] = Null
                                 /\ w \notin tree.focused

\* The widget that owns the pointer is a visible child of the desktop; the hidden dialog never
\* keeps the focus, which would let the next prompt skip the raise.
ModalSound ==
    /\ modal # Null => /\ modal = dialog /\ holdsFocus
                       /\ Child(tree, Desktop, modal) /\ Visible(tree, modal)
    /\ dialog # Null /\ dialog \in tree.hidden => tree.focus[Desktop] # dialog

\* The pointers the desktop follows on the next input event, over every order of closing,
\* deleting, raising, focusing, prompting and exiting.
PointersSound == TypeOK /\ TreeSound /\ FocusSound /\ PendingSound /\ ModalSound

\* When a process with one window ends, the topmost window left has the keyboard.
ExitRestoresFocus ==
    [][\A p \in alive \ alive' :
        /\ Len(SelectSeq(tree.children[Desktop], LAMBDA w : tree.pid[w] = p)) = 1
        /\ TopMost(tree') # Null
        => tree'.focus[Desktop] = TopMost(tree')]_vars

\* No freed widget is used, except through a tab; it fails when system calls run inside a
\* dispatch of the desktop thread.
NoWildAccess == tree.fault # "wild"

\* The same for every tab, the widget gallery's included.
TabsLive == \A i \in DOMAIN tabs : Live(tree, tabs[i].window)

\* The desktop stays registered: processes find it as the parent of their windows.
DesktopRegistered == Desktop \in tree.registry
=============================================================================

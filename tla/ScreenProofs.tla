----------------------------- MODULE ScreenProofs -----------------------------
(***************************************************************************)
(* Ownership of the screen, proved for any numbers of processes, directory *)
(* frames and buffers, and the kernel's own threads that draw on it,       *)
(* proved for any number of power actions, prompts, invalidations and      *)
(* owners.                                                                 *)
(***************************************************************************)
EXTENDS Framebuffer, KernelTasks, FiniteSetTheorems, TLAPS

\* The part of the type invariant the argument about the grant needs.
StateType ==
    /\ live \subseteq started /\ started \subseteq Pids
    /\ page_directory \in [Pids -> Dirs \cup {NoDir}]
    /\ g_stop_gui_rendering \in BOOLEAN
    /\ g_gui_owner_pid \in Pids \cup {NoPid}
    /\ g_fb_private_valid \in BOOLEAN
    /\ g_fb_private_owner \in Dirs \cup {NoDir}
    /\ private \in [Dirs -> SUBSET PDs]
    /\ userAccess \in [Dirs -> SUBSET (PDs \X Buffers)]
    /\ backBuffer \in Buffers

\* Two live processes never share a directory frame: a frame is reused only after
\* its process is gone.
DirInv ==
    /\ \A p \in live : page_directory[p] \in Dirs
    /\ \A p, q \in live : page_directory[p] = page_directory[q] => p = q

\* What the owner can reach lies within the recorded range, so that a revoke,
\* which walks the range only, takes all of it away.
AccessInRange ==
    \A d \in Dirs : \A a \in userAccess[d] : a[1] \in Covers[backBuffer]

GrantInv == StateType /\ DirInv /\ OwnerAlive /\ AccessOnlyByOwner /\ AccessInRange

\* With no owner nobody has access.
LEMMA NoOwnerNoAccess ==
    ASSUME GrantInv, ~g_stop_gui_rendering, NEW d \in Dirs
    PROVE  userAccess[d] = {}
  BY DEF GrantInv, AccessOnlyByOwner

LEMMA CoversInPDs ==
    ASSUME NEW b \in Buffers
    PROVE  Covers[b] \subseteq PDs
  BY DEF PDs

LEMMA InitGrantInv == Init => GrantInv
  BY DEF Init, GrantInv, StateType, DirInv, OwnerAlive, AccessOnlyByOwner, AccessInRange

\* A new process gets a frame that no live process has, hence no access.
LEMMA StartProcessStep ==
    ASSUME GrantInv, NEW p \in Pids, NEW d \in Dirs, StartProcess(p, d)
    PROVE  GrantInv'
<1>. USE DEF GrantInv, StartProcess, ownerVars, grantVars, tableVars, desktopVars
<1>1. p \notin live
  BY DEF StateType
<1>2. StateType'
  BY DEF StateType
<1>3. \A q \in live : page_directory'[q] = page_directory[q]
  BY <1>1 DEF StateType
<1>4. page_directory'[p] = d
  BY DEF StateType
<1>5. DirInv'
  BY <1>3, <1>4 DEF DirInv, DirsInUse
<1>6. OwnerAlive'
  BY <1>3 DEF OwnerAlive
<1>7. AccessOnlyByOwner'
  BY <1>3 DEF AccessOnlyByOwner, OwnerAlive
<1>8. AccessInRange'
  BY DEF AccessInRange
<1>. QED
  BY <1>2, <1>5, <1>6, <1>7, <1>8

\* The owner asks again, or nobody owns the screen and so nobody has access.
LEMMA GetFramebufferStep ==
    ASSUME GrantInv, NEW p \in Pids, GetFramebuffer(p)
    PROVE  GrantInv'
<1>. DEFINE dir == page_directory[p]
            range == Covers[backBuffer]
<1>. USE DEF GrantInv
<1>1. /\ p \in live /\ dir \in Dirs /\ page_directory' = page_directory
      /\ live' = live /\ started' = started
      /\ backBuffer' = backBuffer
      /\ private' = [private EXCEPT ![dir] = @ \cup range]
      /\ userAccess' = [userAccess EXCEPT ![dir] = @ \cup (range \X {backBuffer})]
      /\ g_fb_private_range' = range /\ g_fb_private_owner' = dir
      /\ g_fb_private_valid' = TRUE /\ g_stop_gui_rendering' = TRUE /\ g_gui_owner_pid' = p
  BY DEF GetFramebuffer, DirInv, procVars
<1>2. range \subseteq PDs /\ backBuffer \in Buffers
  BY CoversInPDs DEF StateType
<1>3. \A e \in Dirs : e # dir => userAccess[e] = {}
  <2>1. CASE ~g_stop_gui_rendering
    BY <2>1, NoOwnerNoAccess
  <2>2. CASE g_stop_gui_rendering
    <3>1. g_gui_owner_pid = p
      BY <2>2 DEF GetFramebuffer, MayTakeScreen
    <3>. QED
      BY <3>1 DEF AccessOnlyByOwner
  <2>. QED
    BY <2>1, <2>2 DEF StateType
<1>4. \A a \in userAccess[dir] : a[1] \in range /\ a[2] = backBuffer /\ a[1] \in private[dir]
  BY <1>1 DEF AccessInRange, AccessOnlyByOwner
<1>5. StateType'
  BY <1>1, <1>2 DEF StateType
<1>6. DirInv' /\ OwnerAlive'
  BY <1>1 DEF DirInv, OwnerAlive
<1>7. /\ userAccess'[dir] = userAccess[dir] \cup (range \X {backBuffer})
      /\ private'[dir] = private[dir] \cup range
      /\ \A e \in Dirs : e # dir => userAccess'[e] = {}
  BY <1>1, <1>3 DEF StateType
<1>8. \A a \in userAccess'[dir] : a[1] \in range /\ a[2] = backBuffer /\ a[1] \in private'[dir]
  BY <1>4, <1>7
<1>9. AccessOnlyByOwner'
  BY <1>1, <1>7, <1>8 DEF AccessOnlyByOwner
<1>10. AccessInRange'
  BY <1>1, <1>7, <1>8 DEF AccessInRange
<1>. QED
  BY <1>5, <1>6, <1>9, <1>10

\* A grant that fails half-way gives no access.
LEMMA GetFramebufferFailsStep ==
    ASSUME GrantInv, NEW p \in Pids, NEW i \in PDs, GetFramebufferFails(p, i)
    PROVE  GrantInv'
<1>. DEFINE dir == page_directory[p]
            below == {j \in Covers[backBuffer] : j < i}
<1>. USE DEF GrantInv
<1>1. /\ p \in live /\ dir \in Dirs
      /\ private' = [private EXCEPT ![dir] = @ \cup below]
      /\ UNCHANGED <<procVars, ownerVars, grantVars, userAccess, backBuffer>>
  BY DEF GetFramebufferFails, DirInv
<1>2. below \subseteq PDs
  BY CoversInPDs DEF StateType
<1>3. \A e \in Dirs : private[e] \subseteq private'[e]
  BY <1>1 DEF StateType
<1>4. StateType'
  BY <1>1, <1>2 DEF StateType, procVars, ownerVars, grantVars
<1>5. DirInv' /\ OwnerAlive' /\ AccessInRange'
  BY <1>1 DEF DirInv, OwnerAlive, AccessInRange, procVars, ownerVars, grantVars
<1>6. AccessOnlyByOwner'
  BY <1>1, <1>3 DEF AccessOnlyByOwner, procVars, ownerVars
<1>. QED
  BY <1>4, <1>5, <1>6

\* The revoke walks the recorded range, which is all the owner has.
LEMMA InitCliStep ==
    ASSUME GrantInv, NEW p \in Pids, InitCli(p)
    PROVE  GrantInv'
<1>. DEFINE dir == page_directory[p]
<1>. USE DEF GrantInv
<1>1. /\ p \in live /\ g_stop_gui_rendering /\ g_gui_owner_pid = p
      /\ g_stop_gui_rendering' = FALSE /\ g_gui_owner_pid' = NoPid
      /\ UNCHANGED <<procVars, backBuffer>>
      /\ RevokeFramebufferMapping(dir)
  BY DEF InitCli
<1>2. /\ dir \in Dirs /\ g_fb_private_valid /\ g_fb_private_owner = dir
      /\ g_fb_private_range = Covers[backBuffer]
  BY <1>1 DEF OwnerAlive, DirInv
<1>3. /\ private' = [private EXCEPT ![dir] = @ \ RevokedRange]
      /\ userAccess' = [userAccess EXCEPT ![dir] = {a \in @ : a[1] \notin RevokedRange}]
      /\ g_fb_private_valid' = FALSE /\ g_fb_private_owner' = NoDir
  BY <1>1, <1>2 DEF RevokeFramebufferMapping
<1>4. \A e \in Dirs : userAccess'[e] = {}
  <2>1. userAccess'[dir] = {}
    BY <1>2, <1>3 DEF StateType, AccessInRange, RevokedRange
  <2>2. \A e \in Dirs : e # dir => userAccess'[e] = userAccess[e]
    BY <1>2, <1>3 DEF StateType
  <2>3. \A e \in Dirs : e # dir => userAccess[e] = {}
    BY <1>1 DEF AccessOnlyByOwner
  <2>. QED
    BY <2>1, <2>2, <2>3
<1>5. StateType'
  BY <1>1, <1>2, <1>3 DEF StateType, procVars
<1>6. DirInv'
  BY <1>1 DEF DirInv, procVars
<1>7. OwnerAlive' /\ AccessOnlyByOwner' /\ AccessInRange'
  BY <1>1, <1>4 DEF OwnerAlive, AccessOnlyByOwner, AccessInRange
<1>. QED
  BY <1>5, <1>6, <1>7

\* An owner's access dies with its directory; another process's exit leaves the
\* owner's alone, because their directories differ.
LEMMA ProcessExitStep ==
    ASSUME GrantInv, NEW p \in Pids, ProcessExit(p)
    PROVE  GrantInv'
<1>. DEFINE dir == page_directory[p]
<1>. USE DEF GrantInv
<1>1. /\ p \in live /\ live' = live \ {p} /\ dir \in Dirs
      /\ private' = [private EXCEPT ![dir] = {}]
      /\ userAccess' = [userAccess EXCEPT ![dir] = {}]
      /\ page_directory' = [page_directory EXCEPT ![p] = NoDir]
      /\ OwnerGone(p)
      /\ UNCHANGED <<started, grantVars, backBuffer>>
  BY DEF ProcessExit, DirInv
<1>2. \A q \in live' : page_directory'[q] = page_directory[q] /\ page_directory[q] # dir
  BY <1>1 DEF DirInv, StateType
<1>3. DirInv'
  BY <1>1, <1>2 DEF DirInv
<1>4. /\ userAccess'[dir] = {}
      /\ \A e \in Dirs : e # dir => userAccess'[e] = userAccess[e] /\ private'[e] = private[e]
  BY <1>1 DEF StateType
<1>5. AccessInRange'
  BY <1>1, <1>4 DEF AccessInRange
<1>6. CASE g_stop_gui_rendering /\ g_gui_owner_pid = p
  <2>1. g_stop_gui_rendering' = FALSE /\ g_gui_owner_pid' = NoPid
    BY <1>1, <1>6 DEF OwnerGone
  <2>2. \A e \in Dirs : userAccess'[e] = {}
    BY <1>4, <1>6 DEF AccessOnlyByOwner
  <2>3. StateType'
    BY <1>1, <2>1 DEF StateType, grantVars
  <2>4. OwnerAlive' /\ AccessOnlyByOwner'
    BY <2>1, <2>2 DEF OwnerAlive, AccessOnlyByOwner
  <2>. QED
    BY <1>3, <1>5, <2>3, <2>4
<1>7. CASE ~(g_stop_gui_rendering /\ g_gui_owner_pid = p)
  <2>1. UNCHANGED ownerVars
    BY <1>1, <1>7 DEF OwnerGone
  <2>2. StateType'
    BY <1>1, <2>1 DEF StateType, grantVars, ownerVars
  <2>3. g_stop_gui_rendering => g_gui_owner_pid \in live'
    BY <1>1, <1>7 DEF OwnerAlive
  <2>4. OwnerAlive'
    BY <1>1, <1>2, <2>1, <2>3 DEF OwnerAlive, grantVars, ownerVars
  <2>5. AccessOnlyByOwner'
    BY <1>1, <1>2, <1>4, <2>1, <2>3 DEF AccessOnlyByOwner, ownerVars
  <2>. QED
    BY <1>3, <1>5, <2>2, <2>4, <2>5
<1>. QED
  BY <1>6, <1>7

\* A mode switch needs a screen without owner, when nobody has access to the
\* buffer it frees.
LEMMA SetModeStep ==
    ASSUME GrantInv, NEW b \in Buffers, SetMode(b)
    PROVE  GrantInv'
<1>. USE DEF GrantInv
<1>1. /\ ~g_stop_gui_rendering /\ backBuffer' = b
      /\ UNCHANGED <<procVars, ownerVars, grantVars, tableVars>>
  BY DEF SetMode, ModeSwitchAllowed
<1>2. \A d \in Dirs : userAccess[d] = {}
  BY <1>1, NoOwnerNoAccess
<1>3. StateType'
  BY <1>1 DEF StateType, procVars, ownerVars, grantVars, tableVars
<1>4. DirInv'
  BY <1>1 DEF DirInv, procVars
<1>5. OwnerAlive' /\ AccessOnlyByOwner' /\ AccessInRange'
  BY <1>1, <1>2 DEF OwnerAlive, AccessOnlyByOwner, AccessInRange, ownerVars, tableVars
<1>. QED
  BY <1>3, <1>4, <1>5

\* The desktop thread touches no part of the grant.
LEMMA DesktopStep ==
    ASSUME GrantInv, CheckOwner \/ Draw \/ FlushStart \/ FlushEnd \/ UNCHANGED vars
    PROVE  GrantInv'
<1>1. UNCHANGED <<procVars, ownerVars, grantVars, tableVars, backBuffer>>
  BY DEF CheckOwner, Draw, FlushStart, FlushEnd, vars
<1>. QED
  BY <1>1 DEF GrantInv, StateType, DirInv, OwnerAlive, AccessOnlyByOwner, AccessInRange,
              procVars, ownerVars, grantVars, tableVars

LEMMA NextGrantInv == GrantInv /\ [Next]_vars => GrantInv'
<1>. SUFFICES ASSUME GrantInv, [Next]_vars PROVE GrantInv'
  OBVIOUS
<1>1. ASSUME NEW p \in Pids, NEW d \in Dirs, StartProcess(p, d) PROVE GrantInv'
  BY <1>1, StartProcessStep
<1>2. ASSUME NEW p \in Pids, GetFramebuffer(p) PROVE GrantInv'
  BY <1>2, GetFramebufferStep
<1>3. ASSUME NEW p \in Pids, InitCli(p) PROVE GrantInv'
  BY <1>3, InitCliStep
<1>4. ASSUME NEW p \in Pids, ProcessExit(p) PROVE GrantInv'
  BY <1>4, ProcessExitStep
<1>5. ASSUME NEW p \in Pids, NEW i \in PDs, GetFramebufferFails(p, i) PROVE GrantInv'
  BY <1>5, GetFramebufferFailsStep
<1>6. ASSUME NEW b \in Buffers, SetMode(b) PROVE GrantInv'
  BY <1>6, SetModeStep
<1>7. CASE CheckOwner \/ Draw \/ FlushStart \/ FlushEnd \/ UNCHANGED vars
  BY <1>7, DesktopStep
<1>. QED
  BY <1>1, <1>2, <1>3, <1>4, <1>5, <1>6, <1>7 DEF Next

\* In every reachable state the screen belongs to a live process, whose grant is
\* on record, or to nobody: no order of grants, releases, exits, faults and mode
\* switches leaves it locked by a process that is gone.
THEOREM ScreenOwnership == Spec => []OwnerAlive
<1>1. GrantInv => OwnerAlive
  BY DEF GrantInv
<1>. QED
  BY <1>1, InitGrantInv, NextGrantInv, PTL DEF Spec

\* In every reachable state user access to a back buffer is the owner's, and to
\* the buffer in use: the revoke of Hsys_initCli and the exit of a process leave
\* none behind.
THEOREM ScreenAccess == Spec => []AccessOnlyByOwner
<1>1. GrantInv => AccessOnlyByOwner
  BY DEF GrantInv
<1>. QED
  BY <1>1, InitGrantInv, NextGrantInv, PTL DEF Spec

-------------------------------------------------------------------------------
\* The frames of the private tables.

LEMMA FiniteTables == IsFiniteSet(PDs)
<1>1. PDs \subseteq 0..1023
  BY FramebufferAssumption DEF PDs
<1>2. 1023 \in Nat /\ \A i \in PDs : i \in Nat /\ i <= 1023
  BY <1>1
<1>3. PICK n \in Nat : \A i \in PDs : i \in Nat /\ i <= n
  BY <1>2
<1>4. PDs \in SUBSET Nat
  BY <1>3
<1>. QED
  BY <1>3, <1>4, FS_BoundedSetOfNaturals

\* The tables of one directory are as many as their indices.
LEMMA Row ==
    ASSUME NEW d, NEW X, IsFiniteSet(X)
    PROVE  IsFiniteSet({d} \X X) /\ Cardinality({d} \X X) = Cardinality(X)
<1>1. IsFiniteSet({d}) /\ Cardinality({d}) = 1
  BY FS_Singleton
<1>2. IsFiniteSet({d} \X X) /\ Cardinality({d} \X X) = Cardinality({d}) * Cardinality(X)
  BY <1>1, FS_Product
<1>3. Cardinality(X) \in Nat
  BY FS_CardinalityType
<1>. QED
  BY <1>1, <1>2, <1>3

LEMMA FinitePrivate == IsFiniteSet(PrivateTables)
<1>1. IsFiniteSet(Dirs \X PDs)
  BY FiniteTables, FramebufferAssumption, FS_Product
<1>2. PrivateTables \in SUBSET (Dirs \X PDs)
  BY DEF PrivateTables
<1>. QED
  BY <1>1, <1>2, FS_Subset

\* Un-sharing the tables R of one directory adds the ones it did not have.
LEMMA AddTables ==
    ASSUME StateType, NEW d \in Dirs, NEW R \in SUBSET PDs,
           private' = [private EXCEPT ![d] = @ \cup R]
    PROVE  /\ Cardinality(PrivateTables') = Cardinality(PrivateTables) + Cardinality(R \ private[d])
           /\ Cardinality(R \ private[d]) \in Nat
<1>. DEFINE X == R \ private[d]
<1>1. IsFiniteSet(X)
  BY FiniteTables, FS_Subset
<1>2. IsFiniteSet({d} \X X) /\ Cardinality({d} \X X) = Cardinality(X)
  BY <1>1, Row
<1>3. private' \in [Dirs -> SUBSET PDs] /\ private'[d] = private[d] \cup R
      /\ \A e \in Dirs : e # d => private'[e] = private[e]
  BY DEF StateType
<1>4. PrivateTables' = PrivateTables \cup ({d} \X X)
  BY <1>3 DEF PrivateTables
<1>5. PrivateTables \cap ({d} \X X) = {}
  BY DEF PrivateTables
<1>6. Cardinality(PrivateTables') =
        Cardinality(PrivateTables) + Cardinality({d} \X X) - Cardinality({})
  BY <1>2, <1>4, <1>5, FinitePrivate, FS_Union
<1>7. Cardinality({}) = 0 /\ Cardinality(PrivateTables) \in Nat /\ Cardinality(X) \in Nat
  BY <1>1, FinitePrivate, FS_EmptySet, FS_CardinalityType
<1>. QED
  BY <1>2, <1>6, <1>7

\* Freeing the tables R of one directory takes away the ones it had.
LEMMA RemoveTables ==
    ASSUME StateType, NEW d \in Dirs, NEW R, private' = [private EXCEPT ![d] = @ \ R]
    PROVE  /\ Cardinality(PrivateTables') =
                Cardinality(PrivateTables) - Cardinality(R \cap private[d])
           /\ Cardinality(PrivateTables') \in Nat
<1>. DEFINE X == R \cap private[d]
<1>0. X \in SUBSET PDs
  BY DEF StateType
<1>1. IsFiniteSet(X)
  BY <1>0, FiniteTables, FS_Subset
<1>2. IsFiniteSet({d} \X X) /\ Cardinality({d} \X X) = Cardinality(X)
  BY <1>1, Row
<1>3. private'[d] = private[d] \ R /\ \A e \in Dirs : e # d => private'[e] = private[e]
  BY DEF StateType
<1>4. PrivateTables' = PrivateTables \ ({d} \X X)
  BY <1>0, <1>3 DEF PrivateTables
<1>5. PrivateTables \cap ({d} \X X) = {d} \X X
  BY <1>0 DEF PrivateTables
<1>. DEFINE Y == {d} \X X
<1>. HIDE DEF Y
<1>6. /\ IsFiniteSet(PrivateTables \ Y)
      /\ Cardinality(PrivateTables \ Y) =
           Cardinality(PrivateTables) - Cardinality(PrivateTables \cap Y)
  BY FinitePrivate, FS_Difference
<1>7. /\ Cardinality(PrivateTables') = Cardinality(PrivateTables) - Cardinality(Y)
      /\ IsFiniteSet(PrivateTables')
  BY <1>4, <1>5, <1>6 DEF Y
<1>8. Cardinality(PrivateTables') \in Nat
  BY <1>7, FS_CardinalityType
<1>. QED
  BY <1>2, <1>7, <1>8 DEF Y

FrameInv == GrantInv /\ TypeOK /\ TablesAccountedFor

LEMMA InitFrameInv == Init => FrameInv
<1>. SUFFICES ASSUME Init PROVE TypeOK /\ TablesAccountedFor
  BY InitGrantInv DEF FrameInv
<1>1. TypeOK
  BY DEF Init, TypeOK
<1>2. PrivateTables = {}
  BY DEF Init, PrivateTables
<1>3. TablesAccountedFor
  BY <1>2, FS_EmptySet DEF Init, TablesAccountedFor
<1>. QED
  BY <1>1, <1>3

\* A grant takes a frame for each table it un-shares.
LEMMA GrantFrames ==
    ASSUME FrameInv, NEW p \in Pids, NEW R \in SUBSET PDs, p \in live,
           private' = [private EXCEPT ![page_directory[p]] = @ \cup R],
           tables' = tables + Cardinality(R \ private[page_directory[p]]),
           UNCHANGED procVars
    PROVE  TablesAccountedFor' /\ tables' \in Nat /\ private' \in [Dirs -> SUBSET PDs]
<1>. DEFINE dir == page_directory[p]
<1>1. dir \in Dirs /\ dir \in DirsInUse
  BY DEF FrameInv, GrantInv, DirInv, DirsInUse
<1>2. /\ Cardinality(PrivateTables') = Cardinality(PrivateTables) + Cardinality(R \ private[dir])
      /\ Cardinality(R \ private[dir]) \in Nat
  BY <1>1, AddTables DEF FrameInv, GrantInv
<1>3. DirsInUse' = DirsInUse
  BY DEF DirsInUse, procVars
<1>4. \A e \in Dirs \ DirsInUse : private'[e] = {}
  BY <1>1 DEF FrameInv, TablesAccountedFor, TypeOK
<1>5. tables' = Cardinality(PrivateTables')
  BY <1>2 DEF FrameInv, TablesAccountedFor
<1>6. tables' \in Nat
  BY <1>2 DEF FrameInv, TypeOK
<1>7. private' \in [Dirs -> SUBSET PDs]
  BY <1>1 DEF FrameInv, TypeOK
<1>. QED
  BY <1>3, <1>4, <1>5, <1>6, <1>7 DEF TablesAccountedFor

LEMMA NextFrameInv == FrameInv /\ [Next]_vars => FrameInv'
<1>. SUFFICES ASSUME FrameInv, [Next]_vars PROVE TypeOK' /\ TablesAccountedFor'
  BY NextGrantInv DEF FrameInv
<1>0. GrantInv /\ StateType /\ DirInv /\ TypeOK /\ TablesAccountedFor
  BY DEF FrameInv, GrantInv
<1>. USE <1>0
<1>1. ASSUME NEW p \in Pids, NEW d \in Dirs, StartProcess(p, d)
      PROVE  TypeOK' /\ TablesAccountedFor'
  <2>1. TypeOK'
    BY <1>1 DEF StartProcess, TypeOK, ownerVars, grantVars, tableVars, desktopVars
  <2>2. /\ live' = live \cup {p} /\ p \notin live
        /\ page_directory' = [page_directory EXCEPT ![p] = d]
        /\ private' = private /\ tables' = tables
    BY <1>1 DEF StartProcess, TypeOK, tableVars
  <2>3. DirsInUse \subseteq DirsInUse'
    BY <2>2 DEF DirsInUse, TypeOK
  <2>4. PrivateTables' = PrivateTables
    BY <2>2 DEF PrivateTables
  <2>. QED
    BY <2>1, <2>2, <2>3, <2>4 DEF TablesAccountedFor
<1>2. ASSUME NEW p \in Pids, GetFramebuffer(p)
      PROVE  TypeOK' /\ TablesAccountedFor'
  <2>1. /\ p \in live /\ UNCHANGED procVars /\ page_directory[p] \in Dirs
        /\ private' = [private EXCEPT ![page_directory[p]] = @ \cup Covers[backBuffer]]
        /\ tables' = tables + Cardinality(Covers[backBuffer] \ private[page_directory[p]])
    BY <1>2 DEF GetFramebuffer, DirInv
  <2>2. Covers[backBuffer] \in SUBSET PDs
    BY CoversInPDs DEF TypeOK
  <2>3. TablesAccountedFor' /\ tables' \in Nat /\ private' \in [Dirs -> SUBSET PDs]
    BY <2>1, <2>2, GrantFrames
  <2>4. userAccess' \in [Dirs -> SUBSET (PDs \X Buffers)]
    BY <1>2, <2>1, <2>2 DEF GetFramebuffer, TypeOK
  <2>5. TypeOK'
    BY <1>2, <2>1, <2>2, <2>3, <2>4 DEF GetFramebuffer, TypeOK, procVars, desktopVars
  <2>. QED
    BY <2>3, <2>5
<1>3. ASSUME NEW p \in Pids, NEW i \in PDs, GetFramebufferFails(p, i)
      PROVE  TypeOK' /\ TablesAccountedFor'
  <2>. DEFINE below == {j \in Covers[backBuffer] : j < i}
  <2>1. /\ p \in live /\ UNCHANGED <<procVars, ownerVars, grantVars, userAccess, backBuffer, desktopVars>>
        /\ private' = [private EXCEPT ![page_directory[p]] = @ \cup below]
        /\ tables' = tables + Cardinality(below \ private[page_directory[p]])
    BY <1>3 DEF GetFramebufferFails
  <2>2. below \in SUBSET PDs
    BY CoversInPDs DEF TypeOK
  <2>. HIDE DEF below
  <2>3. TablesAccountedFor' /\ tables' \in Nat /\ private' \in [Dirs -> SUBSET PDs]
    BY <2>1, <2>2, GrantFrames
  <2>4. TypeOK'
    BY <2>1, <2>3 DEF TypeOK, procVars, ownerVars, grantVars, desktopVars
  <2>. QED
    BY <2>3, <2>4
<1>4. ASSUME NEW p \in Pids, InitCli(p)
      PROVE  TypeOK' /\ TablesAccountedFor'
  <2>. DEFINE dir == page_directory[p]
  <2>1. /\ p \in live /\ dir \in Dirs /\ UNCHANGED <<procVars, backBuffer, desktopVars>>
        /\ g_stop_gui_rendering' = FALSE /\ g_gui_owner_pid' = NoPid
        /\ g_fb_private_valid /\ g_fb_private_owner = dir
    BY <1>4 DEF InitCli, DirInv, GrantInv, OwnerAlive
  <2>2. /\ tables' = tables - Cardinality(RevokedRange \cap private[dir])
        /\ private' = [private EXCEPT ![dir] = @ \ RevokedRange]
        /\ userAccess' = [userAccess EXCEPT ![dir] = {a \in @ : a[1] \notin RevokedRange}]
        /\ g_fb_private_valid' = FALSE /\ g_fb_private_owner' = NoDir
        /\ UNCHANGED g_fb_private_range
    BY <1>4, <2>1 DEF InitCli, RevokeFramebufferMapping
  <2>3. /\ Cardinality(PrivateTables') =
             Cardinality(PrivateTables) - Cardinality(RevokedRange \cap private[dir])
        /\ Cardinality(PrivateTables') \in Nat
    BY <2>1, <2>2, RemoveTables
  <2>4. tables' = Cardinality(PrivateTables') /\ tables' \in Nat
    BY <2>2, <2>3 DEF TablesAccountedFor
  <2>5. DirsInUse' = DirsInUse
    BY <2>1 DEF DirsInUse, procVars
  <2>6. TablesAccountedFor'
    BY <2>1, <2>2, <2>4, <2>5 DEF TablesAccountedFor, TypeOK
  <2>7. TypeOK'
    BY <2>1, <2>2, <2>4 DEF TypeOK, procVars, desktopVars
  <2>. QED
    BY <2>6, <2>7
<1>5. ASSUME NEW p \in Pids, ProcessExit(p)
      PROVE  TypeOK' /\ TablesAccountedFor'
  <2>. DEFINE dir == page_directory[p]
  <2>1. /\ p \in live /\ dir \in Dirs /\ live' = live \ {p}
        /\ private' = [private EXCEPT ![dir] = {}]
        /\ userAccess' = [userAccess EXCEPT ![dir] = {}]
        /\ page_directory' = [page_directory EXCEPT ![p] = NoDir]
        /\ tables' = tables - Cardinality(private[dir])
        /\ OwnerGone(p) /\ UNCHANGED <<started, grantVars, backBuffer, desktopVars>>
    BY <1>5 DEF ProcessExit, FreePrivate, DirInv
  <2>2. private' = [private EXCEPT ![dir] = @ \ private[dir]]
    BY <2>1 DEF TypeOK
  <2>3. /\ Cardinality(PrivateTables') = Cardinality(PrivateTables) - Cardinality(private[dir] \cap private[dir])
        /\ Cardinality(PrivateTables') \in Nat
    BY <2>1, <2>2, RemoveTables
  <2>4. tables' = Cardinality(PrivateTables') /\ tables' \in Nat
    <3>1. private[dir] \cap private[dir] = private[dir]
      OBVIOUS
    <3>. QED
      BY <2>1, <2>3, <3>1 DEF TablesAccountedFor
  <2>5. \A e \in Dirs \ DirsInUse' : private'[e] = {}
    <3>1. ASSUME NEW e \in Dirs, e \notin DirsInUse', e # dir PROVE e \notin DirsInUse
      BY <2>1, <3>1 DEF DirsInUse, DirInv, TypeOK
    <3>. QED
      BY <2>1, <3>1 DEF TypeOK, TablesAccountedFor
  <2>6. TypeOK'
    <3>1. g_stop_gui_rendering' \in BOOLEAN /\ g_gui_owner_pid' \in Pids \cup {NoPid}
      BY <2>1 DEF OwnerGone, ownerVars, TypeOK
    <3>. QED
      BY <2>1, <2>4, <3>1 DEF TypeOK, grantVars, desktopVars
  <2>. QED
    BY <2>4, <2>5, <2>6 DEF TablesAccountedFor
<1>6. ASSUME NEW b \in Buffers, SetMode(b)
      PROVE  TypeOK' /\ TablesAccountedFor'
  BY <1>6 DEF SetMode, TypeOK, TablesAccountedFor, PrivateTables, DirsInUse,
              procVars, ownerVars, grantVars, tableVars, desktopVars
<1>7. CASE CheckOwner \/ Draw \/ FlushStart \/ FlushEnd \/ UNCHANGED vars
  BY <1>7 DEF CheckOwner, Draw, FlushStart, FlushEnd, vars, TypeOK, TablesAccountedFor,
              PrivateTables, DirsInUse, procVars, ownerVars, grantVars, tableVars, desktopVars
<1>. QED
  BY <1>1, <1>2, <1>3, <1>4, <1>5, <1>6, <1>7 DEF Next

\* Every variable keeps its type; in particular the count of frames never goes
\* below zero, which a table freed twice would cause.
THEOREM FramebufferTypes == Spec => []TypeOK
<1>1. FrameInv => TypeOK
  BY DEF FrameInv
<1>. QED
  BY <1>1, InitFrameInv, NextFrameInv, PTL DEF Spec

\* In every reachable state the frames taken for page tables are the private
\* tables of live processes: a failed grant, a revoke and an exit, in any order,
\* neither leak one nor free one twice.
THEOREM TableConservation == Spec => []TablesAccountedFor
<1>1. FrameInv => TablesAccountedFor
  BY DEF FrameInv
<1>. QED
  BY <1>1, InitFrameInv, NextFrameInv, PTL DEF Spec

-------------------------------------------------------------------------------
\* The kernel's own threads, which draw on the same screen.

\* How the exit handshake holds the two boot threads together.  The flags are only ever set:
\* g_bootSplashDone by the worker once it has finished with the saved frames, which lets the
\* animator leave its loop; g_bootSplashExited as the animator's last statement, which lets the
\* worker go on to delete a driver.
HandshakeInv ==
    /\ boot \in {"mount", "splash"} => anim.at = "none"
    /\ done => boot \in {"wait", "retire", "mode", "handover", "gone"}
    /\ anim.at \in {"free", "exit", "gone"} \/ frames = "freed" => done
    /\ anim.at \in {"exit", "gone"} => frames = "freed"
    /\ exited => anim.at = "gone"
    /\ boot \in {"retire", "mode", "handover", "gone"} => exited
    /\ driver \in drivers

\* What ties the slot of the post-present action to the frame: it comes from a prompt already
\* closed, so the prompt that is open has a later number; a clean desktop has been drawn since
\* the prompt was closed, and after the flush the same holds of the panel.
SlotInv ==
    /\ prompt.shown => prompt.action \in Actions /\ prompt.number > 0
    /\ post # NoPost =>
        /\ 0 < post.from /\ post.from <= prompt.number
        /\ prompt.shown => post.from # prompt.number
        /\ ~dirty => back # post.from
        /\ ~dirty /\ desk = "post" => screen # post.from

\* The test of the flag precedes the frame: an owner that came after the test finds the loop at
\* most once between the test and the end of the frame.
LateInv ==
    /\ late <= 1
    /\ late = 1 => full /\ desk \notin {"pick", "draw"}

\* The invariant has two halves: one about splashVars only, one about deskVars only.
DeskType ==
    /\ desk \in DeskPlaces
    /\ {dirty, moved, full} \subseteq BOOLEAN
    /\ prompt \in [number : 0..MaxPrompts, shown : BOOLEAN, action : Actions \cup {NoAction}]
    /\ post \in [action : Actions \cup {NoAction}, from : 0..MaxPrompts]
    /\ back \in 0..MaxPrompts /\ screen \in 0..MaxPrompts
    /\ late \in Nat
    /\ spent \in [invalidations : 0..MaxInvalidations, takes : 0..MaxTakes]

SplashType ==
    /\ boot \in BootPlaces
    /\ anim \in [at : AnimPlaces, drv : {"none", "vbe", "bga"}]
    /\ driver \in {"vbe", "bga"} /\ drivers \subseteq {"vbe", "bga"}
    /\ frames \in {"none", "loaded", "freed"}
    /\ {done, exited} \subseteq BOOLEAN

SplashInv == SplashType /\ HandshakeInv /\ AnimDriverLive
DeskInv == DeskType /\ SlotInv /\ PresentedWithoutPrompt /\ LateInv

TasksInv == SplashInv /\ DeskInv

\* The invariant holds when the boot worker starts.
LEMMA InitTasksInv == TasksInit => TasksInv
<1>. SUFFICES ASSUME TasksInit PROVE TasksInv
  OBVIOUS
<1>1. SplashInv
  BY DEF TasksInit, SplashInv, SplashType, HandshakeInv, AnimDriverLive, BootPlaces, AnimPlaces
<1>2. DeskType
  <2>1. /\ MaxPrompts \in Nat /\ MaxInvalidations \in Nat /\ MaxTakes \in Nat
        /\ NoAction \in Actions \cup {NoAction}
    BY TaskAssumptions
  <2>2. prompt \in [number : 0..MaxPrompts, shown : BOOLEAN, action : Actions \cup {NoAction}]
    BY <2>1 DEF TasksInit
  <2>3. post \in [action : Actions \cup {NoAction}, from : 0..MaxPrompts]
    BY <2>1 DEF TasksInit, NoPost
  <2>4. spent \in [invalidations : 0..MaxInvalidations, takes : 0..MaxTakes]
    BY <2>1 DEF TasksInit
  <2>5. desk \in DeskPlaces /\ {dirty, moved, full} \subseteq BOOLEAN
    BY DEF TasksInit, DeskPlaces
  <2>6. back \in 0..MaxPrompts /\ screen \in 0..MaxPrompts /\ late \in Nat
    BY <2>1 DEF TasksInit
  <2>. QED
    BY <2>2, <2>3, <2>4, <2>5, <2>6 DEF DeskType
<1>3. SlotInv /\ PresentedWithoutPrompt /\ LateInv
  BY DEF TasksInit, SlotInv, PresentedWithoutPrompt, LateInv
<1>. QED
  BY <1>1, <1>2, <1>3 DEF TasksInv, DeskInv

\* Every step of the boot worker keeps the splash half.
LEMMA BootStepSplash == SplashInv /\ BootStep => SplashInv'
<1>. SUFFICES ASSUME SplashInv, BootStep PROVE SplashInv'
  OBVIOUS
<1>. USE DEF SplashInv, SplashType, HandshakeInv, AnimDriverLive, BootPlaces, AnimPlaces
<1>1. CASE BootMount
  BY <1>1 DEF BootMount
<1>2. CASE BootStartSplash
  BY <1>2 DEF BootStartSplash
<1>3. CASE BootTitle
  BY <1>3 DEF BootTitle
<1>4. CASE BootPci
  BY <1>4 DEF BootPci
<1>5. CASE BootRepaint
  BY <1>5 DEF BootRepaint
<1>6. CASE BootStop
  BY <1>6 DEF BootStop
<1>7. CASE BootWait
  BY <1>7 DEF BootWait
<1>8. CASE BootRetire
  BY <1>8 DEF BootRetire
<1>9. CASE BootMode
  BY <1>9 DEF BootMode
<1>10. CASE BootHandover
  BY <1>10 DEF BootHandover
<1>. QED
  BY <1>1, <1>2, <1>3, <1>4, <1>5, <1>6, <1>7, <1>8, <1>9, <1>10 DEF BootStep

\* Every step of the animator keeps the splash half.
LEMMA AnimStepSplash == SplashInv /\ AnimStep => SplashInv'
<1>. SUFFICES ASSUME SplashInv, AnimStep PROVE SplashInv'
  OBVIOUS
<1>. USE DEF SplashInv, SplashType, HandshakeInv, AnimDriverLive, BootPlaces, AnimPlaces
<1>1. CASE AnimTest
  BY <1>1 DEF AnimTest
<1>2. CASE AnimDraw
  BY <1>2 DEF AnimDraw
<1>3. CASE AnimSleep
  BY <1>3 DEF AnimSleep
<1>4. CASE AnimFree
  BY <1>4 DEF AnimFree
<1>5. CASE AnimExit
  BY <1>5 DEF AnimExit
<1>. QED
  BY <1>1, <1>2, <1>3, <1>4, <1>5 DEF AnimStep

\* The steps that leave the desktop alone, and the one that starts it, keep the desktop half.
LEMMA SplashStepDesk == DeskInv /\ (BootStep \/ AnimStep) => DeskInv'
<1>. SUFFICES ASSUME DeskInv, BootStep \/ AnimStep PROVE DeskInv'
  OBVIOUS
<1>1. CASE UNCHANGED deskVars
  BY <1>1 DEF deskVars, DeskInv, DeskType, SlotInv, PresentedWithoutPrompt, LateInv
<1>2. CASE BootHandover
  BY <1>2 DEF BootHandover, DeskInv, DeskType, SlotInv, PresentedWithoutPrompt, LateInv,
     DeskPlaces, NoPost
<1>. QED
  BY <1>1, <1>2 DEF BootStep, AnimStep, BootMount, BootStartSplash, BootTitle, BootPci,
     BootRepaint, BootStop, BootWait, BootRetire, BootMode, AnimTest, AnimDraw, AnimSleep,
     AnimFree, AnimExit

\* Every step of the desktop loop, of the user and of the other threads keeps the desktop half.
LEMMA DeskStepDesk ==
    DeskInv /\ (DeskStep \/ UserStep \/ Invalidate \/ TakeScreen \/ ReleaseScreen) => DeskInv'
<1>. SUFFICES ASSUME DeskInv,
                     DeskStep \/ UserStep \/ Invalidate \/ TakeScreen \/ ReleaseScreen
              PROVE  DeskInv'
  OBVIOUS
<1>. USE TaskAssumptions DEF DeskInv, DeskType, SlotInv, PresentedWithoutPrompt, LateInv,
         DeskPlaces, NoPost
<1>1. CASE \E a \in Actions : ShowConfirm(a)
  BY <1>1 DEF ShowConfirm
<1>2. CASE OnConfirmClicked
  <2>1. DeskType'
    BY <1>2 DEF OnConfirmClicked
  <2>2. SlotInv'
    BY <1>2 DEF OnConfirmClicked
  <2>3. PresentedWithoutPrompt' /\ LateInv'
    BY <1>2 DEF OnConfirmClicked
  <2>. QED
    BY <2>1, <2>2, <2>3
<1>3. CASE OnCancelClicked
  BY <1>3 DEF OnCancelClicked
<1>4. CASE MouseMove
  BY <1>4 DEF MouseMove
<1>5. CASE InputDone
  BY <1>5 DEF InputDone
<1>6. CASE DesktopChecksOwner
  BY <1>6 DEF DesktopChecksOwner
<1>7. CASE \E clock \in BOOLEAN : PickWork(clock)
  BY <1>7 DEF PickWork
<1>8. CASE DrawDesktop
  <2>1. DeskType'
    <3>1. back' \in 0..MaxPrompts /\ late' \in Nat
      BY <1>8 DEF DrawDesktop
    <3>2. dirty' = FALSE /\ moved' = FALSE /\ desk' = "flush"
          /\ UNCHANGED <<prompt, post, screen, full, spent>>
      BY <1>8 DEF DrawDesktop
    <3>. QED
      BY <3>1, <3>2
  <2>2. SlotInv'
    BY <1>8 DEF DrawDesktop
  <2>3. PresentedWithoutPrompt' /\ LateInv'
    BY <1>8 DEF DrawDesktop
  <2>. QED
    BY <2>1, <2>2, <2>3
<1>9. CASE Flush
  BY <1>9 DEF Flush
<1>10. CASE RunPostPresentAction
  BY <1>10 DEF RunPostPresentAction
<1>11. CASE Invalidate
  BY <1>11 DEF Invalidate
<1>12. CASE TakeScreen
  BY <1>12 DEF TakeScreen
<1>13. CASE ReleaseScreen
  <2>1. DeskType'
    BY <1>13 DEF ReleaseScreen
  <2>2. SlotInv'
    BY <1>13 DEF ReleaseScreen
  <2>3. PresentedWithoutPrompt' /\ LateInv'
    BY <1>13 DEF ReleaseScreen
  <2>. QED
    BY <2>1, <2>2, <2>3
<1>. QED
  BY <1>1, <1>2, <1>3, <1>4, <1>5, <1>6, <1>7, <1>8, <1>9, <1>10, <1>11, <1>12, <1>13
     DEF DeskStep, UserStep

\* The same steps leave what the boot threads share alone.
LEMMA DeskStepSplash ==
    DeskStep \/ UserStep \/ Invalidate \/ TakeScreen \/ ReleaseScreen => UNCHANGED splashVars
BY DEF DeskStep, UserStep, Invalidate, TakeScreen, ReleaseScreen, ShowConfirm,
   OnConfirmClicked, OnCancelClicked, MouseMove, InputDone, DesktopChecksOwner, PickWork, DrawDesktop, Flush,
   RunPostPresentAction

\* Every step of every kernel thread keeps the invariant.
LEMMA NextTasksInv == TasksInv /\ [TasksNext]_tasksVars => TasksInv'
<1>. SUFFICES ASSUME SplashInv, DeskInv, [TasksNext]_tasksVars PROVE SplashInv' /\ DeskInv'
  BY DEF TasksInv
<1>1. UNCHANGED splashVars => SplashInv'
  BY DEF splashVars, SplashInv, SplashType, HandshakeInv, AnimDriverLive
<1>2. UNCHANGED deskVars => DeskInv'
  BY DEF deskVars, DeskInv, DeskType, SlotInv, PresentedWithoutPrompt, LateInv
<1>3. CASE BootStep \/ AnimStep
  BY <1>3, BootStepSplash, AnimStepSplash, SplashStepDesk
<1>4. CASE DeskStep \/ UserStep \/ Invalidate \/ TakeScreen \/ ReleaseScreen
  BY <1>1, <1>4, DeskStepDesk, DeskStepSplash
<1>5. CASE UNCHANGED tasksVars
  BY <1>1, <1>2, <1>5 DEF tasksVars, splashVars, deskVars
<1>. QED
  BY <1>3, <1>4, <1>5 DEF TasksNext

\* The invariant holds throughout.
LEMMA TasksInductive == TasksSpec => []TasksInv
BY InitTasksInv, NextTasksInv, PTL DEF TasksSpec

\* However the worker and the animator interleave, the driver an animation frame is drawn on has
\* not been deleted, the saved frames are not used once freed, and the animator is over with
\* both before the worker retires a driver or starts the desktop.
THEOREM SplashIsSound == TasksSpec => []SplashSound
<1>1. TasksInv => SplashSound
  BY DEF TasksInv, SplashInv, SplashType, DeskInv, DeskType, TasksType, SplashSound, HandshakeInv,
     HandoffExclusive, FramesLive
<1>. QED
  BY <1>1, TasksInductive, PTL

\* The machine goes down only after a frame without the prompt that asked for it has reached the
\* panel, whatever else the user opens and whoever marks the desktop dirty meanwhile.
THEOREM GoesDownWithoutPrompt == TasksSpec => []PresentedWithoutPrompt
<1>1. TasksInv => PresentedWithoutPrompt
  BY DEF TasksInv, DeskInv
<1>. QED
  BY <1>1, TasksInductive, PTL

\* A process that takes the screen at any point of the desktop loop is drawn over at most once.
THEOREM AtMostOneLateFrame == TasksSpec => []OneLateFrame
<1>1. TasksInv => OneLateFrame
  BY DEF TasksInv, DeskInv, LateInv, OneLateFrame
<1>. QED
  BY <1>1, TasksInductive, PTL
===============================================================================

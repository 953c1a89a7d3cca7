------------------------------ MODULE Storage ------------------------------
(***************************************************************************)
(* Files as programs see them: descriptors (core/filesystem/File.cpp and   *)
(* the file system calls of core/syscalls.cpp), the fixed pool of open     *)
(* files and directories (FatFsWrapper.cpp) and the volume below           *)
(* (FatVolume), with power cuts between any two sector writes; and the     *)
(* settings file, written by the Settings program and read at boot         *)
(* (core/settings.cpp).                                                    *)
(*                                                                         *)
(* A system call runs with interrupts off: a call is one step, which a     *)
(* power cut may end early.  The file work of kernel threads, which is not *)
(* protected, is left out.  The directory is the root directory.           *)
(***************************************************************************)
EXTENDS FatVolume

CONSTANTS MaxOpenFiles,  \* MAX_OPEN_FILES: slots for open files
          NumFds,        \* FD_MAX - FD_MIN: descriptors of a process
          DirentBuffer,  \* bytes sys_getdents() reads at a time
          KernelLen,     \* name -> length of its KernelDirentHeader record
          UserLen,       \* name -> length of its linux_dirent
          UserCounts,    \* buffer sizes of reads of a directory
          DataFiles,     \* names ordinary programs open
          Values,        \* units ordinary programs write
          OpenFlags,     \* flag records of open calls
          Apps,          \* running instances of the Settings program
          Modes,         \* display modes a user may save
          DefaultMode,   \* GUI_SCREEN_WIDTH x GUI_SCREEN_HEIGHT
          InitialDisk,   \* disks the system may be booted from first
          SeekTargets,   \* bound: positions of lseek calls
          MaxCalls,      \* bound: open and write calls and saves
          MaxCuts        \* bound: power cuts

Settings == "settings.json"
Slots == 1 .. MaxOpenFiles
Fds == 1 .. NumFds
NoFile == 0
Names == DOMAIN KernelLen   \* file names there are
Unknown == << <<"unknown", 0>> >>  \* contents nothing is promised about
Hole == <<"hole", 0>> \* a unit inside a file that was never written

(* The disk is a sound volume when the system is first booted. *)

\* No cluster is linked to while it is free, or linked to twice.
Linked(fat) ==
    /\ fat \in [Clusters -> Free .. EOC]
    /\ \A c \in Clusters : fat[c] \in Clusters => fat[fat[c]] # Free
    /\ \A c, d \in Clusters : fat[c] = fat[d] /\ fat[c] \in Clusters => c = d

\* r is allocated and the first cluster of its chain.
Root(fat, r) == r \in Clusters /\ fat[r] # Free /\ \A c \in Clusters : fat[c] # r

\* The chain that starts at r, none when r = 0, covers n units.
Covers(fat, r, n) == (r = 0 \/ Root(fat, r)) /\ n <= SectorUnits * Len(Chain(fat, r))

TablesSound(fat, dir) ==
    /\ Linked(fat)
    /\ dir \in Seq([name : Names, sclust : 0 .. NClusters, size : Nat])
    /\ \A i \in DOMAIN dir : Covers(fat, dir[i].sclust, dir[i].size)
    /\ \A i, j \in DOMAIN dir :
          i = j \/ (dir[i].name # dir[j].name /\ dir[i].sclust \notin {dir[j].sclust} \ {0})

ImageSound(image) ==
    /\ image = [dir |-> image.dir, fat |-> image.fat, data |-> image.data]
    /\ TablesSound(image.fat, image.dir)

ASSUME StorageAssumption ==
    /\ MaxOpenFiles \in Nat /\ NumFds \in Nat /\ DirentBuffer \in Nat
    /\ UserCounts \subseteq Nat /\ SeekTargets \subseteq Nat
    /\ KernelLen \in [Names -> Nat \ {0}] /\ UserLen \in [Names -> Nat]
    /\ DataFiles \subseteq Names \ {Settings} /\ Settings \in Names
    /\ OpenFlags \subseteq [acc : {"r", "w", "rw"}, creat : BOOLEAN, trunc : BOOLEAN,
                            excl : BOOLEAN, append : BOOLEAN]
    /\ \A image \in InitialDisk : ImageSound(image)

VARIABLES
    vol,      \* the volume
    slots,    \* FatFsWrapper's slots, each with the File it backs
    fdTable,  \* descriptors of the one ordinary program: slots
    apps,     \* the Settings programs: [pc, slot, mode, ok]
    orphans,  \* slots still open when their program ended
    closed,   \* name -> contents at the last close, or Unknown
    booted,   \* <<width, height>> the last boot took from the settings
    first,    \* what the very first boot took
    saved,    \* mode of the last save that reported success, none during one
    budget    \* calls and power cuts left

vars == <<vol, slots, fdTable, apps, orphans, closed, booted, first, saved, budget>>

NoSlot == [used |-> FALSE]
NoMode == 0
IdleApp == [pc |-> "idle", slot |-> NoFile, mode |-> NoMode, ok |-> FALSE]

-----------------------------------------------------------------------------
(* The settings file: version, width and height, in the order they are      *)
(* written.  Loading is tolerant of a key that is missing and of a bad       *)
(* number, one key at a time, and of nothing else.                           *)

Document(mode) == << <<"version", 1>>, <<"width", mode>>, <<"height", mode>> >>
SettingsMax == 4               \* SETTINGS_MAX_BYTES
Missing == 0                   \* of a key that is not there, or whose number does not parse
Key == << "version", "width", "height" >>

\* jsmn_parse(): a whole object, not one that a cut write left short.
Parses(text) == Len(text) = 3 /\ \A k \in 1 .. 3 : text[k] # NoData /\ text[k][1] = Key[k]

SettingsLoad(text) ==
    LET number(k) == IF text[k][2] = Missing THEN DefaultMode ELSE text[k][2]
    IN  IF Len(text) \in 1 .. SettingsMax /\ Parses(text) /\ text[1][2] <= 1
        THEN << number(2), number(3) >>
        ELSE << DefaultMode, DefaultMode >>

Boot(image) ==
    LET at == {i \in DOMAIN image.dir : image.dir[i].name = Settings}
    IN  IF at = {} THEN << DefaultMode, DefaultMode >>
        ELSE SettingsLoad(ContentOf(image, CHOOSE i \in at : TRUE))

-----------------------------------------------------------------------------
(* Open files.  A slot keeps the FatFs object (fil) and the File: access,   *)
(* position and size.  The rest is history: what the holder has to find in  *)
(* the file (want), whether it has changed it (touched), whether a write    *)
(* failed (short) or a read gave something else (wrong), and the directory  *)
(* entries it was given (listed).                                           *)

Readable(h) == h.acc \in {"r", "rw"}
Writable(h) == h.acc \in {"w", "rw"}
Held == {s \in Slots : slots[s].used} \ orphans
FreeSlot == {s \in Slots : ~slots[s].used}
Lowest(S) == CHOOSE s \in S : \A t \in S : s <= t

\* FatFs is built without FF_FS_LOCK: it relies on nobody opening a file
\* for writing that is open, or any file that is open for writing.
MayOpen(name, flags) ==
    \A s \in Held : (~slots[s].isDir /\ slots[s].name = name)
                        => flags.acc = "r" /\ ~Writable(slots[s])

FileHandle(name, flags, fil, want, touched) ==
    [used |-> TRUE, isDir |-> FALSE, name |-> name, acc |-> flags.acc, append |-> flags.append,
     pos |-> 0, size |-> fil.fsize, fil |-> fil, want |-> want, touched |-> touched,
     short |-> FALSE, wrong |-> FALSE, listed |-> << >>]

DirHandle ==
    [used |-> TRUE, isDir |-> TRUE, name |-> "/", acc |-> "r", append |-> FALSE, pos |-> 0,
     size |-> 0, listed |-> << >>]

\* A file that is open needs a slot, or is closed again.
GiveSlot(name, flags, r) ==
    LET want == IF r.fil.modified THEN << >> ELSE ContentOf(View(r.vol), r.fil.entry)
    IN  IF ~r.ok THEN [slot |-> NoFile, vol |-> r.vol]
        ELSE IF FreeSlot = {} THEN [slot |-> NoFile, vol |-> f_close(r.vol, r.fil)]
        ELSE [slot |-> Lowest(FreeSlot), vol |-> r.vol,
              handle |-> FileHandle(name, flags, r.fil, want, r.fil.modified)]

\* FatFsWrapper::OpenWithFlags(), once f_stat() has looked into the directory.
OpenStated(S, name, flags) ==
    IF NameAt(S, name) = {} /\ ~flags.creat THEN [slot |-> NoFile, vol |-> S]
    ELSE GiveSlot(name, flags, f_open(S, name, flags.creat, flags.trunc, flags.excl))

Refused(flags) == (flags.trunc /\ flags.acc = "r") \/ (flags.excl /\ ~flags.creat)

OpenWithFlags(name, flags) ==
    IF Refused(flags) THEN [slot |-> NoFile, vol |-> vol]
    ELSE OpenStated(Look(vol), name, flags)

SaveFlags == [acc |-> "w", creat |-> TRUE, trunc |-> TRUE, excl |-> FALSE, append |-> FALSE]

\* Whether the open changes the file: created or truncated.
Resets(name, flags) ==
    /\ ~Refused(flags)
    /\ IF NameAt(vol, name) = {} THEN flags.creat ELSE flags.trunc /\ ~flags.excl

\* File::Close(), FatFsWrapper::CloseFile() and the delete of the File.
CloseVol(h) == IF h.isDir THEN vol ELSE f_close(vol, h.fil)

\* After a close the file holds what its writer wanted.
ClosedAs(h) == IF ~h.isDir /\ h.touched THEN [closed EXCEPT ![h.name] = h.want] ELSE closed

\* Merges units, written at position from, into the contents wanted.
Overwrite(want, from, units) ==
    [j \in 1 .. Larger(Len(want), from + Len(units)) |->
        IF j \in from + 1 .. from + Len(units) THEN units[j - from]
        ELSE IF j <= Len(want) THEN want[j] ELSE Hole]

\* File::Write(): the position and the size follow what was written, w; s is
\* where f_lseek() came to.
Written(h, start, s, w, units) ==
    LET gap == Overwrite(h.want, s.fil.fptr, << >>)
        want == IF w.done = 0 THEN gap ELSE Overwrite(gap, start, SubSeq(units, 1, w.done))
        handle == [h EXCEPT !.fil = w.fil, !.want = want, !.touched = TRUE]
    IN  [vol |-> w.vol, done |-> w.done,
         handle |-> IF w.done = 0 THEN [handle EXCEPT !.short = TRUE]
                    ELSE [handle EXCEPT !.pos = start + w.done,
                                        !.size = Larger(@, start + w.done)]]

\* File::Write() with FatFsWrapper::WriteStream().
WriteHandle(h, units) ==
    LET start == IF h.append THEN h.size ELSE h.pos
        target == IF h.append THEN h.fil.fsize ELSE h.pos
        write(s) == Written(h, start, s, f_write(s.vol, s.fil, units), units)
    IN  write(f_lseek(vol, h.fil, target, TRUE))

\* File::Read() with FatFsWrapper::ReadStream() of a file.
ReadHandle(h, n) ==
    LET len == IF h.pos >= h.size THEN 0 ELSE Smaller(n, h.size - h.pos)
        differs(r) == \E j \in 1 .. len : h.want[h.pos + j] \notin {Hole, r.units[j]}
        done(r) == [vol |-> r.vol,
                    handle |-> [h EXCEPT !.fil = r.fil, !.pos = @ + len,
                                         !.wrong = @ \/ differs(r)]]
        read(s) == done(f_read(s.vol, s.fil, len))
    IN  IF len = 0 THEN [vol |-> vol, handle |-> h]
        ELSE read(f_lseek(vol, h.fil, h.pos, Writable(h)))

\* Sum of the lengths of the records of a sequence of names.
Total(len, names) ==
    LET sum[k \in 0 .. Len(names)] == IF k = 0 THEN 0 ELSE sum[k-1] + len[names[k]]
    IN  sum[Len(names)]

\* The longest prefix of the names whose records fit.
Fitting(len, names, room) ==
    LET fits == {k \in 0 .. Len(names) : Total(len, SubSeq(names, 1, k)) <= room}
    IN  SubSeq(names, 1, CHOOSE k \in fits : \A j \in fits : j <= k)

\* FatFsWrapper::ReadStream() of a directory: skip what lies before the
\* position, then the records that fit the buffer.
DirStream(h, room) ==
    LET names == [i \in DOMAIN vol.dir |-> vol.dir[i].name]
        skips == {k \in 0 .. Len(names) :
                    k = Len(names) \/ Total(KernelLen, SubSeq(names, 1, k)) >= h.pos}
    IN  Fitting(KernelLen, SubSeq(names, Lowest(skips) + 1, Len(names)), room)

-----------------------------------------------------------------------------
(* Power. *)

\* The machine starts again from an image: every program, handle and cache
\* is gone.  Names in touched were being changed.
Reboot(image, touched) ==
    /\ budget.cuts > 0
    /\ vol' = f_mount(image)
    /\ slots' = [s \in Slots |-> NoSlot]
    /\ fdTable' = [fd \in Fds |-> NoFile]
    /\ apps' = [a \in Apps |-> IdleApp]
    /\ orphans' = {}
    /\ closed' = [n \in DOMAIN closed |->
                    IF \/ n \in touched
                       \/ \E s \in Held : /\ ~slots[s].isDir /\ slots[s].name = n
                                          /\ slots[s].touched
                    THEN Unknown ELSE closed[n]]
    /\ booted' = Boot(image)
    /\ budget' = [budget EXCEPT !.cuts = @ - 1]
    /\ saved' = IF Settings \in touched THEN NoMode ELSE saved
    /\ UNCHANGED first

\* A call that turns vol into S is cut after one of its sector writes.
CutDuring(S, touched) == \E k \in DOMAIN S.log : Reboot(S.log[k], touched)

Settle(S) == vol' = [S EXCEPT !.log = << >>]

PowerCut == Reboot(vol.disk, {})

-----------------------------------------------------------------------------
(* System calls of an ordinary program. *)

\* sys_open(): a File without a descriptor is closed again.
Open(name, flags) ==
    LET fd == {f \in Fds : fdTable[f] = NoFile}
        reset == Resets(name, flags)
    IN  /\ budget.calls > 0
        /\ MayOpen(name, flags)
        /\ \E r \in {OpenWithFlags(name, flags)} :
           \E kept \in {r.slot # NoFile /\ fd # {}} :
           \E T \in {IF kept \/ r.slot = NoFile THEN r.vol ELSE f_close(r.vol, r.handle.fil)} :
           \/ /\ Settle(T)
              /\ slots' = IF kept THEN [slots EXCEPT ![r.slot] = r.handle] ELSE slots
              /\ fdTable' = IF kept THEN [fdTable EXCEPT ![Lowest(fd)] = r.slot] ELSE fdTable
              /\ closed' = IF reset THEN [closed EXCEPT ![name] = << >>] ELSE closed
              /\ budget' = [budget EXCEPT !.calls = @ - 1]
              /\ UNCHANGED <<apps, orphans, booted, first, saved>>
           \/ CutDuring(T, IF reset THEN {name} ELSE {})

OpenDirectory ==
    LET fd == {f \in Fds : fdTable[f] = NoFile}
        kept == FreeSlot # {} /\ fd # {}
    IN  /\ budget.calls > 0
        /\ Settle(Look(vol))
        /\ slots' = IF kept THEN [slots EXCEPT ![Lowest(FreeSlot)] = DirHandle] ELSE slots
        /\ fdTable' = IF kept THEN [fdTable EXCEPT ![Lowest(fd)] = Lowest(FreeSlot)] ELSE fdTable
        /\ budget' = [budget EXCEPT !.calls = @ - 1]
        /\ UNCHANGED <<apps, orphans, closed, booted, first, saved>>

Write(fd, units) ==
    LET s == fdTable[fd]
    IN  /\ s # NoFile /\ ~slots[s].isDir
        /\ Writable(slots[s])
        /\ budget.calls > 0
        /\ \E r \in {WriteHandle(slots[s], units)} :
           \/ /\ Settle(r.vol)
              /\ slots' = [slots EXCEPT ![s] = r.handle]
              /\ budget' = [budget EXCEPT !.calls = @ - 1]
              /\ UNCHANGED <<fdTable, apps, orphans, closed, booted, first, saved>>
           \/ CutDuring(r.vol, {slots[s].name})

Read(fd, n) ==
    LET s == fdTable[fd]
    IN  /\ s # NoFile /\ ~slots[s].isDir
        /\ Readable(slots[s])
        /\ \E r \in {ReadHandle(slots[s], n)} :
           \/ /\ Settle(r.vol)
              /\ slots' = [slots EXCEPT ![s] = r.handle]
              /\ UNCHANGED <<fdTable, apps, orphans, closed, booted, first, saved, budget>>
           \/ CutDuring(r.vol, {})

\* sys_read() of a directory: the records as the kernel keeps them; the position stays
\* behind them.
ReadDirectory(fd, n) ==
    LET s == fdTable[fd]
        h == slots[s]
    IN  /\ s # NoFile /\ h.isDir
        /\ \E batch \in {DirStream(h, n)} :
              slots' = [slots EXCEPT ![s] = [h EXCEPT !.pos = @ + Total(KernelLen, batch),
                                                      !.listed = @ \o batch]]
        /\ Settle(Look(vol))
        /\ UNCHANGED <<fdTable, apps, orphans, closed, booted, first, saved, budget>>

\* sys_lseek() with File::Seek(): a handle that cannot write stays in the file.
Lseek(fd, newPos) ==
    LET s == fdTable[fd]
        h == slots[s]
    IN  /\ s # NoFile
        /\ slots' = [slots EXCEPT ![s] =
                        IF h.isDir THEN [h EXCEPT !.pos = 0, !.listed = << >>]
                        ELSE [h EXCEPT !.pos = IF Writable(h) THEN newPos
                                               ELSE Smaller(newPos, h.size)]]
        /\ UNCHANGED <<vol, fdTable, apps, orphans, closed, booted, first, saved, budget>>

Close(fd) ==
    LET s == fdTable[fd]
    IN  /\ s # NoFile
        /\ \E S \in {CloseVol(slots[s])} :
           \/ /\ Settle(S)
              /\ closed' = ClosedAs(slots[s])
              /\ slots' = [slots EXCEPT ![s] = NoSlot]
              /\ fdTable' = [fdTable EXCEPT ![fd] = NoFile]
              /\ UNCHANGED <<apps, orphans, booted, first, saved, budget>>
           \/ CutDuring(S, {})

\* Mutant: the position stays behind the batch.
NoRollBack(pos, batch, k) == pos + Total(KernelLen, batch)

\* The position of a directory after k records of a batch were given: behind
\* the batch, and back over the records that were not.
RolledBack(pos, batch, k) ==
    (pos + Total(KernelLen, batch)) - Total(KernelLen, SubSeq(batch, k + 1, Len(batch)))

\* sys_getdents(): the records read are converted to longer ones; memory or
\* the user's buffer may end at any of them, and the position goes back.
Getdents(fd, count) ==
    LET s == fdTable[fd]
        h == slots[s]
    IN  /\ s # NoFile /\ h.isDir
        /\ \E batch \in {DirStream(h, DirentBuffer)} :
           \E k \in 0 .. Len(Fitting(UserLen, batch, count)) :
              slots' = [slots EXCEPT ![s] =
                  [h EXCEPT !.pos = RolledBack(@, batch, k),
                            !.listed = @ \o SubSeq(batch, 1, k)]]
        /\ Settle(Look(vol))
        /\ UNCHANGED <<fdTable, apps, orphans, closed, booted, first, saved, budget>>

\* The program ends: nobody walks its descriptor table.
Exit ==
    LET left == {fdTable[fd] : fd \in Fds} \ {NoFile}
    IN  /\ left # {}
        /\ orphans' = orphans \union left
        /\ fdTable' = [fd \in Fds |-> NoFile]
        /\ closed' = [n \in DOMAIN closed |->
                        IF \E s \in left : /\ ~slots[s].isDir /\ slots[s].name = n
                                           /\ slots[s].touched
                        THEN Unknown ELSE closed[n]]
        /\ UNCHANGED <<vol, slots, apps, booted, first, saved, budget>>

-----------------------------------------------------------------------------
(* SettingsApp::onSave(): open with truncation, write, close, report.  The  *)
(* program may have been started more than once.                            *)

SaveOpen(a, mode) ==
    /\ apps[a].pc = "idle" /\ budget.calls > 0
    /\ \E r \in {OpenWithFlags(Settings, SaveFlags)} :
           \/ /\ Settle(r.vol)
              /\ slots' = IF r.slot = NoFile THEN slots ELSE [slots EXCEPT ![r.slot] = r.handle]
              /\ apps' = IF r.slot = NoFile THEN apps
                         ELSE [apps EXCEPT ![a] = [pc |-> "write", slot |-> r.slot,
                                                   mode |-> mode, ok |-> FALSE]]
              /\ closed' = [closed EXCEPT ![Settings] = << >>]
              /\ saved' = NoMode
              /\ budget' = [budget EXCEPT !.calls = @ - 1]
              /\ UNCHANGED <<fdTable, orphans, booted, first>>
           \/ CutDuring(r.vol, {Settings})

SaveWrite(a) ==
    LET app == apps[a]
    IN  /\ app.pc = "write"
        /\ \E r \in {WriteHandle(slots[app.slot], Document(app.mode))} :
           \/ /\ Settle(r.vol)
              /\ slots' = [slots EXCEPT ![app.slot] = r.handle]
              /\ apps' = [apps EXCEPT ![a].pc = "close",
                                      ![a].ok = r.done = Len(Document(app.mode))]
              /\ UNCHANGED <<fdTable, orphans, closed, booted, first, saved, budget>>
           \/ CutDuring(r.vol, {})

SaveClose(a) ==
    LET app == apps[a]
        h == slots[app.slot]
    IN  /\ app.pc = "close"
        /\ \E S \in {CloseVol(h)} :
           \/ /\ Settle(S)
              /\ closed' = ClosedAs(h)
              /\ slots' = [slots EXCEPT ![app.slot] = NoSlot]
              /\ saved' = IF app.ok THEN app.mode ELSE NoMode
              /\ apps' = [apps EXCEPT ![a] = IdleApp]
              /\ UNCHANGED <<fdTable, orphans, booted, first, budget>>
           \/ CutDuring(S, {Settings})

-----------------------------------------------------------------------------
Init ==
    /\ \E image \in InitialDisk :
          /\ vol = f_mount(image)
          /\ booted = Boot(image)
          /\ first = Boot(image)
          /\ closed = [n \in DataFiles \union {Settings} |->
                         LET at == {i \in DOMAIN image.dir : image.dir[i].name = n}
                         IN  IF at = {} THEN Unknown
                             ELSE ContentOf(image, CHOOSE i \in at : TRUE)]
    /\ slots = [s \in Slots |-> NoSlot]
    /\ fdTable = [fd \in Fds |-> NoFile]
    /\ apps = [a \in Apps |-> IdleApp]
    /\ orphans = {}
    /\ saved = NoMode
    /\ budget = [calls |-> MaxCalls, cuts |-> MaxCuts]

Next ==
    \/ PowerCut
    \/ \E name \in DataFiles, flags \in OpenFlags : Open(name, flags)
    \/ OpenDirectory
    \/ \E fd \in Fds, n \in 1 .. SectorUnits, v \in Values : Write(fd, [j \in 1 .. n |-> v])
    \/ \E fd \in Fds, n \in 1 .. SectorUnits : Read(fd, n)
    \/ \E fd \in Fds, n \in UserCounts : ReadDirectory(fd, n)
    \/ \E fd \in Fds, p \in SeekTargets : Lseek(fd, p)
    \/ \E fd \in Fds : Close(fd)
    \/ \E fd \in Fds, count \in UserCounts : Getdents(fd, count)
    \/ Exit
    \/ \E a \in Apps, mode \in Modes : SaveOpen(a, mode)
    \/ \E a \in Apps : SaveWrite(a) \/ SaveClose(a)

Spec == Init /\ [][Next]_vars

-----------------------------------------------------------------------------
(* Properties. *)

\* Type correctness, and what the window promises: the volume in memory and
\* the disk differ in the one table the window holds.
TypeOK ==
    /\ vol.win \in {"clean", "fat", "dir"}
    /\ vol.log = << >>
    /\ (vol.win # "fat" => vol.fat = vol.disk.fat) /\ (vol.win # "dir" => vol.dir = vol.disk.dir)
    /\ \A s \in Slots : slots[s].used \in BOOLEAN
    /\ \A fd \in Fds : fdTable[fd] \in Slots \union {NoFile}
    /\ orphans \subseteq Slots
    /\ \A a \in Apps : apps[a].pc \in {"idle", "write", "close"}

\* The disk is a sound volume at every moment, so after every power cut: the
\* chain of each entry is allocated, ends, covers the size in the entry, and
\* shares no cluster with another (the order of writes in f_open, f_write,
\* create_chain and f_sync).
VolumeSound ==
    LET d == vol.disk
        chain(i) == Chain(d.fat, d.dir[i].sclust)
        cells(i) == {chain(i)[k] : k \in DOMAIN chain(i)}
    IN  /\ \A i \in DOMAIN d.dir :
              /\ SectorUnits * Len(chain(i)) >= d.dir[i].size
              /\ chain(i) # << >> => d.fat[Last(chain(i))] = EOC
        /\ \A i, j \in DOMAIN d.dir : i # j => cells(i) \cap cells(j) = {}

\* Contents agree with what was written, wherever something was.
Agrees(text, want) ==
    Len(text) = Len(want) /\ \A j \in DOMAIN want : want[j] \in {Hole, text[j]}

\* What a close left in a file is what the disk holds, through power cuts,
\* until the file is opened for change again.
ClosedIsDurable ==
    \A n \in DOMAIN closed :
        \/ closed[n] = Unknown
        \/ \E s \in Held : ~slots[s].isDir /\ slots[s].name = n /\ slots[s].touched
        \/ \E i \in DOMAIN vol.disk.dir : /\ vol.disk.dir[i].name = n
                                         /\ Agrees(ContentOf(vol.disk, i), closed[n])

\* What a handle sees: its cached sector hides the one on the disk.
HandleView(h) ==
    LET chain == Chain(vol.fat, h.fil.sclust)
        cell(j) == chain[((j - 1) \div SectorUnits) + 1]
        sector(j) == IF h.fil.dirty /\ h.fil.sect = cell(j) THEN h.fil.buf
                     ELSE vol.disk.data[cell(j)]
    IN  [j \in 1 .. h.fil.fsize |-> sector(j)[(j - 1) % SectorUnits]]

\* A handle reads what was written through it, in whatever order it seeks, reads
\* and writes, and however much of it is still in the cached sector; a reader
\* stays inside the file (File.cpp, f_lseek(), f_write(), f_read()).
ReadsOwnWrites ==
    \A s \in Held : ~slots[s].isDir =>
        /\ ~slots[s].wrong
        /\ Agrees(HandleView(slots[s]), slots[s].want)
        /\ slots[s].short \/ slots[s].size = slots[s].fil.fsize
        /\ Writable(slots[s]) \/ slots[s].pos <= slots[s].size

\* Every open slot is the file of one descriptor or of one save under way, or
\* was left by a program that ended without closing it: no failure path of
\* OpenWithFlags() or sys_open() leaks one.
SlotsOwned ==
    LET users(s) == {<<"fd", fd>> : fd \in {f \in Fds : fdTable[f] = s}}
                    \union {<<"app", a>> : a \in {b \in Apps : apps[b].slot = s}}
                    \union (IF s \in orphans THEN {<<"orphan">>} ELSE {})
    IN  \A s \in Slots :
            IF slots[s].used THEN \E u \in users(s) : users(s) = {u} ELSE users(s) = {}

\* Whatever the sizes of the buffers, a directory is listed without gap or
\* repetition: the entries given are the ones before the position.
ListingExact ==
    \A s \in Held : slots[s].isDir =>
        /\ Len(slots[s].listed) <= Len(vol.dir)
        /\ \A k \in DOMAIN slots[s].listed : slots[s].listed[k] = vol.dir[k].name
        /\ slots[s].pos = Total(KernelLen, slots[s].listed)

\* Descriptors, slots and directory positions, over every failure of an open
\* and every buffer size.
HandlesSound == TypeOK /\ SlotsOwned /\ ListingExact

\* A boot takes the mode of the last save that reported success; when a save
\* was cut it takes the defaults or one of the modes in question, never the
\* width of one and the height of another (onSave(), f_sync(), SettingsLoad()).
BootsSavedMode ==
    [][budget'.cuts # budget.cuts =>
          /\ booted' \in {<<m, m>> : m \in Modes \union {DefaultMode}} \union {first}
          /\ saved' # NoMode => booted' = <<saved', saved'>>]_vars
=============================================================================

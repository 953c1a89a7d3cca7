----------------------------- MODULE FatVolume -----------------------------
(***************************************************************************)
(* The FAT32 volume as FatFs keeps it (core/filesystem/FatFs/ff.c), as     *)
(* operators on a volume record: the directory and the allocation table    *)
(* as the one-sector window over them shows them, and the disk below.      *)
(* The window holds one sector: at most one of the two tables differs      *)
(* from the disk, and turning the window to the other writes it back.      *)
(* Every sector write is appended to `log': a power cut in the middle of a *)
(* call leaves one of these images.                                        *)
(*                                                                         *)
(* A sector holds SectorUnits units of data and is a cluster; the table    *)
(* fits one sector, and so does the directory.  The FSInfo sector, the     *)
(* second copy of the table, sub-directories and device errors are left    *)
(* out.                                                                    *)
(***************************************************************************)
EXTENDS Naturals, Sequences, SequencesExt, TLC

CONSTANTS NClusters,    \* clusters of the volume, numbered from 1
          SectorUnits,  \* units of data in a sector
          NoData        \* what a sector never written holds

ASSUME VolumeAssumption == /\ NClusters \in Nat \ {0}
                           /\ SectorUnits \in Nat \ {0}

Clusters == 1 .. NClusters
EOC == NClusters + 1          \* end of a chain in the table
Free == 0
Offsets == 0 .. SectorUnits - 1
BlankSector == [o \in Offsets |-> NoData]

\* The larger and the smaller of two numbers.
Larger(a, b) == IF a > b THEN a ELSE b
Smaller(a, b) == IF a < b THEN a ELSE b

-----------------------------------------------------------------------------
(* Sectors and the window. *)

DiskWrite(S, image) == [S EXCEPT !.disk = image, !.log = Append(@, image)]

DataWrite(S, c, sector) == DiskWrite(S, [S.disk EXCEPT !.data[c] = sector])

sync_window(S) ==
    CASE S.win = "clean" -> S
      [] S.win = "fat"   -> [DiskWrite(S, [S.disk EXCEPT !.fat = S.fat]) EXCEPT !.win = "clean"]
      [] S.win = "dir"   -> [DiskWrite(S, [S.disk EXCEPT !.dir = S.dir]) EXCEPT !.win = "clean"]

move_window(S, sector) == IF S.win = sector THEN S ELSE sync_window(S)

put_fat(S, c, value) ==
    [move_window(S, "fat") EXCEPT !.fat[c] = value, !.win = "fat"]

\* Entry i of the directory; one past the last registers a new one.
put_entry(S, i, entry) ==
    [move_window(S, "dir") EXCEPT
        !.dir = IF i \in DOMAIN @ THEN [@ EXCEPT ![i] = entry] ELSE Append(@, entry),
        !.win = "dir"]

\* A chain with the cluster that follows it in the table, if one does.
Followed(fat, chain) ==
    IF chain = << >> \/ fat[Last(chain)] \notin Clusters THEN chain
    ELSE Append(chain, fat[Last(chain)])

\* The clusters of the chain that starts at c.
Chain(fat, c) ==
    LET walk[n \in 0 .. NClusters] ==
            IF n = 0 THEN IF c \in Clusters THEN << c >> ELSE << >>
            ELSE Followed(fat, walk[n-1])
    IN  walk[NClusters]

\* The first free cluster after scl, cyclically; 0 when there is none.
NextFree(fat, scl) ==
    LET at(k) == ((scl + k - 1) % NClusters) + 1
        hits == {k \in 1 .. NClusters : fat[at(k)] = Free}
    IN  IF hits = {} THEN 0 ELSE at(CHOOSE k \in hits : \A j \in hits : k <= j)

\* A free cluster for a chain that ends in c, or for a new one when c = 0:
\* preferably the one to the right of c; 0 when the disk is full.
FreeCluster(S, c) ==
    LET right == (c % NClusters) + 1
    IN  IF c = 0 THEN NextFree(S.fat, S.last)
        ELSE IF S.fat[right] = Free THEN right
        ELSE NextFree(S.fat, IF S.last = 0 THEN c ELSE S.last)

\* Marks ncl as the end of a chain, then links it to c.
Link(S, c, ncl) ==
    LET marked == put_fat(S, ncl, EOC)
    IN  IF ncl = 0 THEN [vol |-> S, ncl |-> 0]
        ELSE [vol |-> [(IF c = 0 THEN marked ELSE put_fat(marked, c, ncl)) EXCEPT !.last = ncl],
              ncl |-> ncl]

ChainIn(S, c) ==
    IF c # 0 /\ S.fat[c] \in Clusters THEN [vol |-> S, ncl |-> S.fat[c]]
    ELSE Link(S, c, FreeCluster(S, c))

\* The cluster after c: the next of its chain, or a new one.
create_chain(S, c) == ChainIn(move_window(S, "fat"), c)

remove_chain(S, c) ==
    LET chain == Chain(S.fat, c)
        freed[n \in 0 .. Len(chain)] ==
            IF n = 0 THEN move_window(S, "fat") ELSE put_fat(freed[n-1], chain[n], Free)
    IN  freed[Len(chain)]

-----------------------------------------------------------------------------
(* File objects: start cluster and size as cached when the file was        *)
(* opened, and one sector of data that is written back later.              *)

NameAt(S, name) == {i \in DOMAIN S.dir : S.dir[i].name = name}

\* follow_path() and f_stat(): the directory is read through the window.
Look(S) == move_window(S, "dir")

\* The file object of entry i.
Opened(S, i, reset) ==
    [ok |-> TRUE, vol |-> S,
     fil |-> [entry |-> i, sclust |-> S.dir[i].sclust, fsize |-> S.dir[i].size,
              fptr |-> 0, sect |-> 0, buf |-> BlankSector, dirty |-> FALSE, modified |-> reset]]

\* Mutant: the clusters become free before the entry is emptied.
FreedFirst(S, i, name, old) ==
    LET empty == [name |-> name, sclust |-> 0, size |-> 0]
    IN  put_entry(IF old = 0 THEN S ELSE Look(remove_chain(S, old)), i, empty)

\* The entry is emptied, and on disk, before its clusters old become free.
Emptied(S, i, name, old) ==
    LET T == put_entry(S, i, [name |-> name, sclust |-> 0, size |-> 0])
    IN  IF old = 0 THEN T ELSE [Look(remove_chain(T, old)) EXCEPT !.last = old - 1]

\* f_open() once the directory is in the window.
OpenIn(S, name, create, truncate, exclusive) ==
    LET found == NameAt(S, name) # {}
        i == IF found THEN CHOOSE j \in NameAt(S, name) : TRUE ELSE Len(S.dir) + 1
        old == IF found THEN S.dir[i].sclust ELSE 0
    IN  IF (found /\ exclusive) \/ (~found /\ ~create /\ ~truncate)
        THEN [ok |-> FALSE, vol |-> S]
        ELSE IF found /\ ~truncate THEN Opened(S, i, FALSE)
        ELSE Opened(Emptied(S, i, name, old), i, TRUE)

f_open(S, name, create, truncate, exclusive) ==
    OpenIn(Look(S), name, create, truncate, exclusive)

\* Writes back the cached sector.
flush_buf(S, F) ==
    IF F.dirty THEN [vol |-> DataWrite(S, F.sect, F.buf), fil |-> [F EXCEPT !.dirty = FALSE]]
    ELSE [vol |-> S, fil |-> F]

\* Mutant: the cached sector is replaced without being written back.
LoadOver(S, F, c) ==
    IF F.sect = c THEN [vol |-> S, fil |-> F]
    ELSE [vol |-> S, fil |-> [F EXCEPT !.sect = c, !.buf = S.disk.data[c], !.dirty = FALSE]]

\* Makes c the cached sector, with its contents from the disk.
load_buf(S, F, c) ==
    LET r == flush_buf(S, F)
    IN  IF F.sect = c THEN [vol |-> S, fil |-> F]
        ELSE [vol |-> r.vol, fil |-> [r.fil EXCEPT !.sect = c, !.buf = r.vol.disk.data[c]]]

\* The last cluster of a chain, 0 when it is empty.
ChainEnd(fat, sclust) == IF sclust = 0 THEN 0 ELSE Last(Chain(fat, sclust))

\* A cluster k was added to the chain, or the disk is full.
Stretched(r, k) ==
    IF k.ncl = 0 THEN [r EXCEPT !.vol = k.vol, !.full = TRUE]
    ELSE [r EXCEPT !.vol = k.vol, !.fil.sclust = IF @ = 0 THEN k.ncl ELSE @]

\* The position is reached: the size grows up to it, and the sector in which
\* it lies is cached.
Landed(S, F, reached) ==
    LET grown == [F EXCEPT !.fptr = reached, !.fsize = Larger(@, reached),
                           !.modified = @ \/ reached > F.fsize]
        c == Chain(S.fat, F.sclust)[(reached \div SectorUnits) + 1]
    IN  IF reached % SectorUnits = 0 THEN [vol |-> S, fil |-> grown] ELSE load_buf(S, grown, c)

SeekIn(S, F, target, write) ==
    Landed(S, F, Smaller(target, IF write THEN SectorUnits * Len(Chain(S.fat, F.sclust))
                                 ELSE F.fsize))

\* Whether the chain is followed, from the current cluster or from the first
\* one, to come to the target.
Follows(F, target) ==
    LET index(p) == (p - 1) \div SectorUnits
    IN  target > SectorUnits /\ ~(F.fptr > 0 /\ index(target) = index(F.fptr))

\* One cluster more for a chain that is too short.
Stretch(r, need) ==
    IF Len(Chain(r.vol.fat, r.fil.sclust)) >= need \/ r.full THEN r
    ELSE Stretched(r, create_chain(r.vol, ChainEnd(r.vol.fat, r.fil.sclust)))

StretchTo(start, need) ==
    LET run[n \in 0 .. need] == IF n = 0 THEN start ELSE Stretch(run[n-1], need)
    IN  run[need]

\* f_lseek(): a handle that may write stretches the file up to the target, as
\* far as there are clusters.
f_lseek(S, F, target, write) ==
    LET need == (target + SectorUnits - 1) \div SectorUnits
        start == [vol |-> IF Follows(F, target) THEN move_window(S, "fat") ELSE S,
                  fil |-> F, full |-> FALSE]
        seek(r) == SeekIn(r.vol, r.fil, target, write)
    IN  seek(IF write THEN StretchTo(start, need) ELSE start)

\* The pieces of sectors that n units from position from on touch.
Pieces(from, n) ==
    LET first == from \div SectorUnits
        last == (from + n - 1) \div SectorUnits
    IN  [j \in 1 .. last - first + 1 |->
            LET k == first + j - 1
            IN  [index |-> k,
                 lo |-> Larger(from, k * SectorUnits),
                 hi |-> Smaller(from + n, (k + 1) * SectorUnits)]]

\* The sector with piece p of the units, which begin at position from.
Merge(sector, p, from, units) ==
    [o \in Offsets |-> LET at == p.index * SectorUnits + o
                       IN  IF at \in p.lo .. p.hi - 1 THEN units[at - from + 1] ELSE sector[o]]

\* A piece inside the cached sector.
WriteCached(r, p, from, units) ==
    [r EXCEPT !.fil.buf = Merge(@, p, from, units), !.fil.dirty = TRUE, !.fil.fptr = p.hi,
              !.fil.fsize = Larger(@, p.hi), !.done = @ + p.hi - p.lo]

\* A piece from the start of cluster c on, once the cached sector is written
\* back: a whole sector goes to the disk, a part of one into the cache, which
\* is filled first unless it lies at the end of the file.
WriteCluster(r, b, c, p, from, units) ==
    LET grown == [b.fil EXCEPT !.fsize = Larger(@, p.hi), !.fptr = p.hi]
        whole == Merge(BlankSector, p, from, units)
        filled == IF b.fil.sect # c /\ p.lo < b.fil.fsize THEN b.vol.disk.data[c] ELSE b.fil.buf
    IN  IF p.hi - p.lo = SectorUnits
        THEN [r EXCEPT !.vol = DataWrite(b.vol, c, whole),
                       !.fil = [grown EXCEPT !.buf = IF b.fil.sect = c THEN whole ELSE @],
                       !.done = @ + SectorUnits]
        ELSE [r EXCEPT !.vol = b.vol,
                       !.fil = [grown EXCEPT !.sect = c, !.buf = Merge(filled, p, from, units),
                                             !.dirty = TRUE],
                       !.done = @ + p.hi - p.lo]

\* A piece that begins a cluster; k is the cluster with the volume.
WriteBoundary(r, k, p, from, units) ==
    IF k.ncl = 0 THEN [r EXCEPT !.full = TRUE, !.vol = k.vol]
    ELSE WriteCluster(r, flush_buf(k.vol, [r.fil EXCEPT !.sclust = IF @ = 0 THEN k.ncl ELSE @]),
                      k.ncl, p, from, units)

\* The cluster before the one piece p lies in.
Before(r, p) == IF p.lo = 0 THEN 0 ELSE Chain(r.vol.fat, r.fil.sclust)[p.index]

WritePiece(r, p, from, units) ==
    IF r.full THEN r
    ELSE IF p.lo % SectorUnits # 0 THEN WriteCached(r, p, from, units)
    ELSE IF p.lo = 0 /\ r.fil.sclust # 0
    THEN WriteBoundary(r, [vol |-> r.vol, ncl |-> r.fil.sclust], p, from, units)
    ELSE WriteBoundary(r, create_chain(r.vol, Before(r, p)), p, from, units)

WritePieces(start, pieces, from, units) ==
    LET run[n \in 0 .. Len(pieces)] ==
            IF n = 0 THEN start ELSE WritePiece(run[n-1], pieces[n], from, units)
    IN  run[Len(pieces)]

\* f_write(): on a full disk the count is short and there is no error.
f_write(S, F, units) ==
    WritePieces([vol |-> S, fil |-> [F EXCEPT !.modified = TRUE], done |-> 0, full |-> FALSE],
                Pieces(F.fptr, Len(units)), F.fptr, units)

\* A piece is read from the disk when it is a whole sector, which the cached
\* one overrides, and through the cache otherwise; a cluster after the first
\* is found in the table.
ReadPiece(r, p, c) ==
    LET whole == p.hi - p.lo = SectorUnits
        sector(b) == IF whole /\ ~(b.fil.dirty /\ b.fil.sect = c) THEN b.vol.disk.data[c]
                     ELSE b.fil.buf
        with(b) == [vol |-> b.vol, fil |-> [b.fil EXCEPT !.fptr = p.hi],
                    units |-> r.units \o [j \in 1 .. p.hi - p.lo |->
                                              sector(b)[(p.lo + j - 1) % SectorUnits]]]
        S == IF p.lo > 0 /\ p.lo % SectorUnits = 0 THEN move_window(r.vol, "fat") ELSE r.vol
    IN  IF whole THEN with([vol |-> S, fil |-> r.fil]) ELSE with(load_buf(S, r.fil, c))

ReadNext(r, p) == ReadPiece(r, p, Chain(r.vol.fat, r.fil.sclust)[p.index + 1])

ReadPieces(start, pieces) ==
    LET run[n \in 0 .. Len(pieces)] == IF n = 0 THEN start ELSE ReadNext(run[n-1], pieces[n])
    IN  run[Len(pieces)]

\* f_read(): n units from the position on, all below the cached size.
f_read(S, F, n) == ReadPieces([vol |-> S, fil |-> F, units |-> << >>], Pieces(F.fptr, n))

\* Mutant: the entry stays in the window.
CloseNoSync(S, F) ==
    LET entry(b) == [b.dir[F.entry] EXCEPT !.sclust = F.sclust, !.size = F.fsize]
        put(b) == put_entry(b, F.entry, entry(b))
    IN  IF F.modified THEN put(flush_buf(S, F).vol) ELSE S

\* Mutant: the directory entry is written before the data.
CloseEntryFirst(S, F) ==
    LET entry == [S.dir[F.entry] EXCEPT !.sclust = F.sclust, !.size = F.fsize]
    IN  IF F.modified THEN flush_buf(sync_window(put_entry(S, F.entry, entry)), F).vol ELSE S

\* f_close() with f_sync(): data first, the directory entry that names it last.
f_close(S, F) ==
    LET entry(b) == [b.dir[F.entry] EXCEPT !.sclust = F.sclust, !.size = F.fsize]
        sync(b) == sync_window(put_entry(b, F.entry, entry(b)))
    IN  IF F.modified THEN sync(flush_buf(S, F).vol) ELSE S

\* f_mount(): the tables are read again; nothing of the window is left.
f_mount(image) ==
    [dir |-> image.dir, fat |-> image.fat, win |-> "clean", last |-> 0,
     disk |-> image, log |-> << >>]

-----------------------------------------------------------------------------
\* The disk with the tables as the window shows them.
View(S) == [S.disk EXCEPT !.dir = S.dir, !.fat = S.fat]

\* What a reader of the whole file gets from an image of the disk.
ContentOf(image, i) ==
    LET chain == Chain(image.fat, image.dir[i].sclust)
    IN  [j \in 1 .. image.dir[i].size |->
            image.data[chain[((j - 1) \div SectorUnits) + 1]][(j - 1) % SectorUnits]]
=============================================================================

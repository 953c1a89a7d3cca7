----------------------------- MODULE MCStorage -----------------------------
(***************************************************************************)
(* Storage with one data file besides the settings file, sectors of two    *)
(* units and three clusters: the settings take two, so that the disk can   *)
(* be full in the middle of a save.                                        *)
(***************************************************************************)
EXTENDS Storage

MCKernelLen == [n \in {"log", "settings.json"} |-> IF n = "log" THEN 2 ELSE 3]
MCUserLen == [n \in {"log", "settings.json"} |-> IF n = "log" THEN 3 ELSE 4]

Flags(acc, creat, trunc, excl, append) ==
    [acc |-> acc, creat |-> creat, trunc |-> trunc, excl |-> excl, append |-> append]

CONSTANT OldMode    \* the mode on the disk at first

AppSymmetry == Permutations(Apps)

MCNoData == <<"nodata", 0>>
MCValues == {<<"x", 0>>}

\* The combinations programs use, and the two OpenWithFlags() refuses.
MCOpenFlags ==
    { Flags("r", FALSE, FALSE, FALSE, FALSE),
      Flags("rw", TRUE, FALSE, FALSE, FALSE),
      Flags("w", TRUE, TRUE, FALSE, FALSE),
      Flags("w", TRUE, FALSE, FALSE, TRUE),
      Flags("w", TRUE, FALSE, TRUE, FALSE),
      Flags("r", FALSE, TRUE, FALSE, FALSE),
      Flags("w", FALSE, FALSE, TRUE, FALSE) }

\* A disk whose files lie one after the other.
Image(files) ==
    LET need(f) == (Len(f.text) + SectorUnits - 1) \div SectorUnits
        start(i) == FoldLeft(LAMBDA t, f : t + need(f), 1, SubSeq(files, 1, i - 1))
        owner(c) == {i \in DOMAIN files : c \in start(i) .. start(i) + need(files[i]) - 1}
        of(c) == CHOOSE i \in owner(c) : TRUE
        unit(c, o) == LET j == (c - start(of(c))) * SectorUnits + o + 1
                      IN  IF j <= Len(files[of(c)].text) THEN files[of(c)].text[j] ELSE NoData
    IN  [dir |-> [i \in DOMAIN files |->
                    [name |-> files[i].name, size |-> Len(files[i].text),
                     sclust |-> IF files[i].text = << >> THEN 0 ELSE start(i)]],
         fat |-> [c \in Clusters |-> IF owner(c) = {} THEN Free
                                     ELSE IF c = start(of(c)) + need(files[of(c)]) - 1 THEN EOC
                                     ELSE c + 1],
         data |-> [c \in Clusters |-> IF owner(c) = {} THEN BlankSector
                                      ELSE [o \in Offsets |-> unit(c, o)]]]

SettingsFile(version, width, height) ==
    [name |-> "settings.json",
     text |-> << <<"version", version>>, <<"width", width>>, <<"height", height>> >>]

\* A new disk; one with settings and a log; settings with the height alone, without
\* version and width; settings of a later version.
MCInitialDisk ==
    { Image(<< >>),
      Image(<< [name |-> "log", text |-> << <<"old", 0>> >>], SettingsFile(1, OldMode, OldMode) >>),
      Image(<< SettingsFile(Missing, Missing, OldMode) >>),
      Image(<< SettingsFile(2, OldMode, OldMode) >>) }
=============================================================================

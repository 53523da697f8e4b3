------------------------------ MODULE SaveProofs ------------------------------
(***************************************************************************)
(* What save leaves on disk, for any number of threads that save and       *)
(* recover over one path, any files and snapshots and any number of        *)
(* crashes: a reader finds one whole snapshot or none, and a save that     *)
(* returned true undisturbed sticks.  Then which files parse accepts, for  *)
(* lists of any length.                                                    *)
(***************************************************************************)
EXTENDS FormatProperties, SaveFiles, FiniteSetTheorems, TLAPS

(* Every file there can be.                                                *)
AllFiles == Found \cup {Spoiled} \cup {Serialized(snap) : snap \in Offerable}

SaverRecord ==
    [pc : SavePoints \cup {"idle", "read"}, file : AllFiles,
     inode : Inodes \cup {0}, alone : BOOLEAN]

FilesTyped ==
    /\ names \in [path : Inodes \cup {0}, tmp : Inodes \cup {0}]
    /\ inodes \in [Inodes -> AllFiles]
    /\ saver \in [Savers -> SaverRecord]

(* A file that can be read holds something save was asked to keep, and so  *)
(* does what a save is about to write.                                     *)
NothingInvented ==
    /\ \A n \in Inodes : Readable(inodes[n]) => inodes[n].snap \in asked
    /\ \A s \in Saving :
          saver[s].file = Serialized(saver[s].file.snap) /\ saver[s].file.snap \in asked

(* The two names never lead to one inode.                                  *)
NamesApart == names.tmp # 0 => names.tmp # names.path

(* A save that thinks itself alone is.                                     *)
AloneIsAlone == \A s, u \in Saving : saver[s].alone => u = s

(* Such a save writes to the inode it finds under path.tmp afterwards.     *)
AloneWrites ==
    \A s \in Saving : saver[s].alone =>
        /\ saver[s].pc \in {"opened", "writing"} =>
              names.tmp # 0 /\ saver[s].inode = names.tmp
        /\ saver[s].pc \in {"written", "removed"} =>
              names.tmp # 0 /\ inodes[names.tmp] = saver[s].file

(* What is kept is at path, and nobody has that inode open for writing.    *)
KeptInPlace ==
    \A snap \in kept :
        /\ kept = {snap}
        /\ names.path # 0
        /\ inodes[names.path] = Serialized(snap)
        /\ \A u \in Savers :
              saver[u].pc \in {"opened", "writing"} => saver[u].inode # names.path

FilesInv ==
    /\ FilesTyped /\ NothingInvented /\ NamesApart
    /\ AloneIsAlone /\ AloneWrites /\ KeptInPlace

------------------------------------------------------------------------------
(* What parse makes of the files save writes.                              *)

(* Whatever stops a parse is reported as an error.                         *)
LEMMA FaultsAreErrors ==
    ASSUME NEW file, NEW part
    PROVE  FaultError(file, part) # "OK"
BY DEF FaultError

(* An empty, cut or mixed file is not accepted.                            *)
LEMMA SpoiledRefused == ~Readable(Spoiled)
<1>1. 4 \in DOMAIN Parts /\ Parts[4] = "checksum"
  BY DEF Parts
<1>2. StopsAt(Spoiled, "checksum")
  <2>1. <<"checksum", "wrong">> \in Spoiled.faults
    BY DEF Spoiled
  <2>2. <<"checksum", "wrong">>[1] = "checksum"
    OBVIOUS
  <2>. QED  BY <2>1, <2>2 DEF StopsAt
<1>3. {i \in DOMAIN Parts : StopsAt(Spoiled, Parts[i])} # {}
  BY <1>1, <1>2
<1>. QED  BY <1>3, FaultsAreErrors DEF Readable, Parse

(* A file as serialize makes it is accepted unless an id or a generation   *)
(* in it is impossible.                                                    *)
LEMMA SerializedAccepted ==
    ASSUME NEW snap, Acceptable(snap)
    PROVE  Readable(Serialized(snap))
<1>1. /\ Serialized(snap).faults = {} /\ Serialized(snap).odd = {}
      /\ Serialized(snap).snap = snap
  BY DEF Serialized
<1>2. \A part : ~StopsAt(Serialized(snap), part)
  BY <1>1 DEF StopsAt
<1>3. {i \in DOMAIN Parts : StopsAt(Serialized(snap), Parts[i])} = {}
  BY <1>2
<1>4. {i \in DOMAIN IdentityLists(snap) : IdentityErrors(IdentityLists(snap)[i]) # {}} = {}
  BY DEF Acceptable
<1>. QED  BY <1>1, <1>3, <1>4 DEF Readable, Parse

(* There is always a free inode for a temporary: at most one is the file   *)
(* at path and at most one is open in each thread.                         *)
LEMMA FreeInode ==
    ASSUME names.tmp = 0
    PROVE  \E n \in Inodes : n \notin InUse
<1>. DEFINE open == [u \in Savers |-> saver[u].inode]
            image == {saver[u].inode : u \in Savers}
            used == image \cup {names.path}
<1>1. IsFiniteSet(Savers) /\ Cardinality(Savers) \in Nat
  BY FilesAssumption, FS_CardinalityType DEF FilesAssumption
<1>2. open \in Surjection(Savers, image)
  BY DEF Surjection
<1>3. IsFiniteSet(image) /\ Cardinality(image) <= Cardinality(Savers)
  BY <1>1, <1>2, FS_Surjection
<1>4. IsFiniteSet(used) /\ Cardinality(used) <= Cardinality(Savers) + 1
  <2>1. Cardinality(image) \in Nat
    BY <1>3, FS_CardinalityType
  <2>2. IsFiniteSet(used)
        /\ Cardinality(used) =
              IF names.path \in image THEN Cardinality(image) ELSE Cardinality(image) + 1
    BY <1>3, FS_AddElement
  <2>. QED  BY <1>1, <1>3, <2>1, <2>2
<1>5. Cardinality(Inodes) = Cardinality(Savers) + 2
  BY <1>1, FS_Interval DEF Inodes
<1>6. ~(Inodes \subseteq used)
  <2>1. SUFFICES ASSUME Inodes \subseteq used PROVE FALSE
    OBVIOUS
  <2>2. Cardinality(Inodes) <= Cardinality(used)
    BY <1>4, <2>1, FS_Subset
  <2>3. Cardinality(used) \in Nat
    BY <1>4, FS_CardinalityType
  <2>. QED  BY <1>1, <1>4, <1>5, <2>2, <2>3
<1>7. 0 \notin Inodes
  BY DEF Inodes
<1>. QED  BY <1>6, <1>7 DEF InUse

------------------------------------------------------------------------------
(* Every step keeps the invariant.                                         *)

(* It holds at the start.                                                  *)
LEMMA InitKeeps == FilesInit => FilesInv
<1>. SUFFICES ASSUME FilesInit PROVE FilesInv
  OBVIOUS
<1>1. 1 \in Inodes
  BY FilesAssumption, FS_CardinalityType DEF Inodes, FilesAssumption
<1>2. Saving = {} /\ kept = {} /\ names.tmp = 0
  BY DEF FilesInit, Saving, SavePoints, NoSaver
<1>3. FilesTyped
  BY <1>1 DEF FilesInit, FilesTyped, SaverRecord, NoSaver, AllFiles
<1>4. \A n \in Inodes : Readable(inodes[n]) => inodes[n].snap \in asked
  <2>. SUFFICES ASSUME NEW n \in Inodes, Readable(inodes[n]) PROVE inodes[n].snap \in asked
    OBVIOUS
  <2>1. inodes[n] # Spoiled
    BY SpoiledRefused
  <2>2. names.path = 1 /\ n = 1
    BY <2>1 DEF FilesInit
  <2>. QED  BY <2>2 DEF FilesInit
<1>. QED
  BY <1>2, <1>3, <1>4
  DEF FilesInv, NothingInvented, NamesApart, AloneIsAlone, AloneWrites, KeptInPlace

(* The points of a save and of a recover are told apart.                   *)
LEMMA PointsApart == "idle" \notin SavePoints /\ "read" \notin SavePoints
BY DEF SavePoints

(* save has been given its snapshot: every other save is no longer alone.  *)
LEMMA CaptureKeeps ==
    ASSUME FilesInv, NEW s \in Savers, NEW snap \in Offerable, SaveCapture(s, snap)
    PROVE  FilesInv'
<1>. USE DEF FilesInv, SaveCapture
<1>1. /\ saver'[s] = [pc |-> "captured", file |-> Serialized(snap), inode |-> 0,
                      alone |-> Saving = {}]
      /\ \A u \in Saving :
            /\ u # s /\ u \in Savers
            /\ saver'[u] \in SaverRecord
            /\ saver'[u].pc = saver[u].pc /\ saver'[u].inode = saver[u].inode
            /\ saver'[u].file = saver[u].file /\ ~saver'[u].alone
      /\ \A u \in Savers : u # s /\ u \notin Saving => saver'[u] = saver[u]
  BY DEF FilesTyped, Saving, SavePoints, SaverRecord
<1>2. Saving' = Saving \cup {s}
  BY <1>1 DEF Saving, SavePoints, FilesTyped, SaverRecord
<1>3. FilesTyped'
  <2>1. saver'[s] \in SaverRecord
    BY <1>1 DEF SaverRecord, SavePoints, AllFiles
  <2>2. \A u \in Savers : saver'[u] \in SaverRecord
    BY <1>1, <2>1 DEF SaverRecord, FilesTyped
  <2>. QED  BY <2>2 DEF FilesTyped
<1>4. NothingInvented'
  <2>1. \A n \in Inodes : Readable(inodes'[n]) => inodes'[n].snap \in asked'
    BY DEF NothingInvented
  <2>2. \A u \in Saving : saver'[u].file = Serialized(saver'[u].file.snap)
                          /\ saver'[u].file.snap \in asked'
    <3>. SUFFICES ASSUME NEW u \in Saving
                  PROVE  saver'[u].file = Serialized(saver'[u].file.snap)
                         /\ saver'[u].file.snap \in asked'
      OBVIOUS
    <3>1. saver'[u].file = saver[u].file
      BY <1>1
    <3>2. saver[u].file = Serialized(saver[u].file.snap) /\ saver[u].file.snap \in asked
      BY DEF NothingInvented
    <3>3. asked \subseteq asked'
      OBVIOUS
    <3>. QED  BY ONLY <3>1, <3>2, <3>3
  <2>3. saver'[s].file = Serialized(saver'[s].file.snap) /\ saver'[s].file.snap \in asked'
    BY <1>1 DEF Serialized
  <2>. QED  BY <1>2, <2>1, <2>2, <2>3 DEF NothingInvented
<1>5. NamesApart'
  BY DEF NamesApart
<1>6. AloneIsAlone'
  BY <1>1, <1>2 DEF AloneIsAlone
<1>7. AloneWrites'
  BY <1>1, <1>2 DEF AloneWrites
<1>8. KeptInPlace'
  BY <1>1 DEF KeptInPlace, FilesTyped, SaverRecord, Saving
<1>. QED  BY <1>3, <1>4, <1>5, <1>6, <1>7, <1>8

(* A save or a recover is over, and has left the files as they were.       *)
LEMMA GiveUpKeeps ==
    ASSUME FilesInv, NEW s \in Savers, GiveUp(s)
    PROVE  FilesInv'
<1>. USE DEF FilesInv, GiveUp
<1>1. saver'[s] = NoSaver /\ \A u \in Savers : u # s => saver'[u] = saver[u]
  BY DEF FilesTyped
<1>2. Saving' = Saving \ {s}
  BY <1>1 DEF Saving, SavePoints, NoSaver
<1>3. FilesTyped'
  BY <1>1 DEF FilesTyped, SaverRecord, NoSaver, AllFiles
<1>4. NothingInvented' /\ NamesApart' /\ AloneIsAlone' /\ AloneWrites'
  BY <1>1, <1>2 DEF NothingInvented, NamesApart, AloneIsAlone, AloneWrites, Saving
<1>5. KeptInPlace'
  BY <1>1 DEF KeptInPlace, NoSaver
<1>. QED  BY <1>3, <1>4, <1>5

(* The temporary is opened.                                                *)
LEMMA OpenKeeps ==
    ASSUME FilesInv, NEW s \in Savers, SaveOpen(s)
    PROVE  FilesInv'
<1>. USE DEF FilesInv
<1>1. PICK n \in Inodes :
          /\ names.tmp # 0 => n = names.tmp
          /\ names.tmp = 0 => n \notin InUse
          /\ names' = [names EXCEPT !.tmp = n]
          /\ inodes' = [inodes EXCEPT ![n] = Spoiled]
          /\ saver' = [saver EXCEPT ![s].pc = "opened", ![s].inode = n]
  <2>1. CASE names.tmp # 0
    BY <2>1 DEF SaveOpen, FilesTyped
  <2>2. CASE names.tmp = 0
    <3>1. (CHOOSE free \in Inodes \ InUse : TRUE) \in Inodes \ InUse
      BY <2>2, FreeInode
    <3>. QED  BY <2>2, <3>1 DEF SaveOpen
  <2>. QED  BY <2>1, <2>2
<1>2. /\ saver'[s] \in SaverRecord
      /\ saver'[s].pc = "opened" /\ saver'[s].inode = n
      /\ saver'[s].file = saver[s].file /\ saver'[s].alone = saver[s].alone
      /\ \A u \in Savers : u # s => saver'[u] = saver[u]
      /\ saver[s].pc = "captured" /\ UNCHANGED <<asked, kept>>
  <2>1. saver[s] \in SaverRecord /\ saver \in [Savers -> SaverRecord]
    BY DEF FilesTyped
  <2>2. saver'[s] = [[saver[s] EXCEPT !.pc = "opened"] EXCEPT !.inode = n]
    BY <1>1, <2>1
  <2>3. /\ saver'[s] \in SaverRecord
        /\ saver'[s].pc = "opened" /\ saver'[s].inode = n
        /\ saver'[s].file = saver[s].file /\ saver'[s].alone = saver[s].alone
    BY <1>1, <2>1, <2>2 DEF SaverRecord, SavePoints
  <2>4. \A u \in Savers : u # s => saver'[u] = saver[u]
    BY <1>1, <2>1
  <2>. QED  BY <2>3, <2>4 DEF SaveOpen
<1>3. n # 0 /\ n # names.path
  BY <1>1 DEF InUse, Inodes, NamesApart
<1>4. Saving' = Saving
  BY <1>2 DEF Saving, SavePoints
<1>5. FilesTyped'
  BY <1>1, <1>2 DEF FilesTyped, AllFiles
<1>6. NothingInvented'
  BY <1>1, <1>2, <1>4, SpoiledRefused DEF NothingInvented, FilesTyped, Saving
<1>7. NamesApart'
  BY <1>1, <1>3 DEF NamesApart, FilesTyped
<1>8. AloneIsAlone'
  BY <1>2, <1>4 DEF AloneIsAlone, Saving
<1>9. AloneWrites'
  <2>. SUFFICES ASSUME NEW u \in Saving', saver'[u].alone
                PROVE  /\ saver'[u].pc \in {"opened", "writing"} =>
                              names'.tmp # 0 /\ saver'[u].inode = names'.tmp
                       /\ saver'[u].pc \in {"written", "removed"} =>
                              names'.tmp # 0 /\ inodes'[names'.tmp] = saver'[u].file
    BY DEF AloneWrites
  <2>1. s \in Saving' /\ u = s
    BY <1>2, <1>4, <1>8 DEF AloneIsAlone, Saving, SavePoints
  <2>. QED  BY <1>1, <1>2, <1>3, <2>1 DEF FilesTyped
<1>10. KeptInPlace'
  BY <1>1, <1>2, <1>3 DEF KeptInPlace, FilesTyped
<1>. QED  BY <1>5, <1>6, <1>7, <1>8, <1>9, <1>10

(* The thread moves on within its save.                                    *)
LEMMA MovedOn ==
    ASSUME FilesInv, NEW s \in Savers, NEW pc \in SavePoints, NEW inode \in Inodes \cup {0},
           saver' = [saver EXCEPT ![s].pc = pc, ![s].inode = inode]
    PROVE  /\ saver'[s] \in SaverRecord
           /\ saver'[s].pc = pc /\ saver'[s].inode = inode
           /\ saver'[s].file = saver[s].file /\ saver'[s].alone = saver[s].alone
           /\ \A u \in Savers : u # s => saver'[u] = saver[u]
           /\ saver' \in [Savers -> SaverRecord]
<1>1. saver[s] \in SaverRecord /\ saver \in [Savers -> SaverRecord]
  BY DEF FilesInv, FilesTyped
<1>2. saver'[s] = [[saver[s] EXCEPT !.pc = pc] EXCEPT !.inode = inode]
  BY <1>1
<1>3. /\ saver'[s] \in SaverRecord
      /\ saver'[s].pc = pc /\ saver'[s].inode = inode
      /\ saver'[s].file = saver[s].file /\ saver'[s].alone = saver[s].alone
  BY <1>1, <1>2 DEF SaverRecord
<1>4. \A u \in Savers : u # s => saver'[u] = saver[u]
  BY <1>1
<1>5. saver' \in [Savers -> SaverRecord]
  BY <1>1, <1>3, <1>4
<1>. QED  BY <1>3, <1>4, <1>5

(* Bytes go to the open inode, which is not the one at path.               *)
LEMMA WriteKeeps ==
    ASSUME FilesInv, NEW s \in Savers, SaveWrite(s)
    PROVE  FilesInv'
<1>. USE DEF FilesInv
<1>1. /\ saver[s].pc = "opened" /\ saver[s].inode \in Inodes \cup {0}
      /\ inodes' = [inodes EXCEPT ![saver[s].inode] = Spoiled]
      /\ UNCHANGED <<names, asked, kept>>
  BY DEF SaveWrite, FilesTyped, SaverRecord
<1>2. /\ saver'[s].pc = "writing" /\ saver'[s].inode = saver[s].inode
      /\ saver'[s].file = saver[s].file /\ saver'[s].alone = saver[s].alone
      /\ \A u \in Savers : u # s => saver'[u] = saver[u]
      /\ saver' \in [Savers -> SaverRecord]
  <2>1. saver' = [saver EXCEPT ![s].pc = "writing", ![s].inode = saver[s].inode]
    BY DEF SaveWrite, FilesTyped, SaverRecord
  <2>. QED  BY <1>1, <2>1, MovedOn DEF SavePoints
<1>3. Saving' = Saving
  BY <1>1, <1>2 DEF Saving, SavePoints
<1>4. FilesTyped'
  BY <1>1, <1>2 DEF FilesTyped, AllFiles
<1>5. NothingInvented' /\ NamesApart' /\ AloneIsAlone'
  BY <1>1, <1>2, <1>3, SpoiledRefused
  DEF NothingInvented, NamesApart, AloneIsAlone, FilesTyped, Saving
<1>6. AloneWrites'
  BY <1>1, <1>2, <1>3 DEF AloneWrites, AloneIsAlone, Saving, SavePoints
<1>7. KeptInPlace'
  BY <1>1, <1>2 DEF KeptInPlace, FilesTyped
<1>. QED  BY <1>4, <1>5, <1>6, <1>7

(* The temporary is closed, with the snapshot in it or a mixture.          *)
LEMMA WrittenKeeps ==
    ASSUME FilesInv, NEW s \in Savers, SaveWritten(s)
    PROVE  FilesInv'
<1>. USE DEF FilesInv
<1>1. PICK file \in WrittenFiles(s) : inodes' = [inodes EXCEPT ![saver[s].inode] = file]
  BY DEF SaveWritten
<1>2. /\ saver[s].pc = "writing" /\ saver[s].inode \in Inodes \cup {0} /\ s \in Saving
      /\ UNCHANGED <<names, asked, kept>>
  BY DEF SaveWritten, FilesTyped, SaverRecord, Saving, SavePoints
<1>3. /\ saver'[s].pc = "written"
      /\ saver'[s].file = saver[s].file /\ saver'[s].alone = saver[s].alone
      /\ \A u \in Savers : u # s => saver'[u] = saver[u]
      /\ saver' \in [Savers -> SaverRecord]
  BY MovedOn DEF SaveWritten, SavePoints
<1>4. Saving' = Saving
  BY <1>2, <1>3 DEF Saving, SavePoints
<1>5. /\ file \in AllFiles /\ (Readable(file) => file.snap \in asked)
      /\ saver[s].alone => file = saver[s].file
  BY <1>1, <1>2, SpoiledRefused
  DEF WrittenFiles, NothingInvented, FilesTyped, SaverRecord, AllFiles
<1>6. FilesTyped'
  BY <1>1, <1>2, <1>3, <1>5 DEF FilesTyped
<1>7. NothingInvented'
  <2>1. \A n \in Inodes : Readable(inodes'[n]) => inodes'[n].snap \in asked
    BY <1>1, <1>5 DEF NothingInvented, FilesTyped
  <2>2. \A u \in Savers : saver'[u].file = saver[u].file
    BY <1>3
  <2>. QED  BY <1>2, <1>4, <2>1, <2>2 DEF NothingInvented, Saving
<1>8. NamesApart' /\ AloneIsAlone'
  BY <1>2, <1>3, <1>4 DEF NamesApart, AloneIsAlone, Saving
<1>9. AloneWrites'
  <2>. SUFFICES ASSUME NEW u \in Saving', saver'[u].alone
                PROVE  /\ saver'[u].pc \in {"opened", "writing"} =>
                              names'.tmp # 0 /\ saver'[u].inode = names'.tmp
                       /\ saver'[u].pc \in {"written", "removed"} =>
                              names'.tmp # 0 /\ inodes'[names'.tmp] = saver'[u].file
    BY DEF AloneWrites
  <2>1. u = s
    BY <1>2, <1>4, <1>8 DEF AloneIsAlone
  <2>2. names.tmp # 0 /\ saver[s].inode = names.tmp /\ file = saver[s].file
    BY <1>2, <1>3, <1>5, <2>1 DEF AloneWrites
  <2>. QED  BY <1>1, <1>2, <1>3, <2>1, <2>2 DEF FilesTyped
<1>10. KeptInPlace'
  BY <1>1, <1>2, <1>3 DEF KeptInPlace, FilesTyped
<1>. QED  BY <1>6, <1>7, <1>8, <1>9, <1>10

(* path is removed, and with it what was kept.                             *)
LEMMA RemoveKeeps ==
    ASSUME FilesInv, NEW s \in Savers, SaveRemove(s)
    PROVE  FilesInv'
<1>. USE DEF FilesInv
<1>1. /\ saver[s].pc = "written" /\ saver[s].inode \in Inodes \cup {0}
      /\ names' = [names EXCEPT !.path = 0]
      /\ inodes' = [n \in Inodes |-> IF n = names.path THEN Spoiled ELSE inodes[n]]
      /\ kept' = {} /\ asked' = asked
  BY DEF SaveRemove, FilesTyped, SaverRecord
<1>2. /\ saver'[s].pc = "removed"
      /\ saver'[s].file = saver[s].file /\ saver'[s].alone = saver[s].alone
      /\ \A u \in Savers : u # s => saver'[u] = saver[u]
      /\ saver' \in [Savers -> SaverRecord]
  <2>1. saver' = [saver EXCEPT ![s].pc = "removed", ![s].inode = saver[s].inode]
    BY DEF SaveRemove, FilesTyped, SaverRecord
  <2>. QED  BY <1>1, <2>1, MovedOn DEF SavePoints
<1>3. Saving' = Saving
  BY <1>1, <1>2 DEF Saving, SavePoints
<1>4. FilesTyped'
  BY <1>1, <1>2 DEF FilesTyped, AllFiles
<1>5. NothingInvented'
  <2>1. \A n \in Inodes : Readable(inodes'[n]) => inodes'[n].snap \in asked
    BY <1>1, SpoiledRefused DEF NothingInvented
  <2>2. \A u \in Savers : saver'[u].file = saver[u].file
    BY <1>2
  <2>. QED  BY <1>1, <1>3, <2>1, <2>2 DEF NothingInvented, Saving
<1>6. NamesApart' /\ AloneIsAlone'
  BY <1>1, <1>2, <1>3 DEF NamesApart, AloneIsAlone, Saving, FilesTyped
<1>7. AloneWrites'
  BY <1>1, <1>2, <1>3 DEF AloneWrites, AloneIsAlone, NamesApart, Saving, FilesTyped
<1>8. KeptInPlace'
  BY <1>1 DEF KeptInPlace
<1>. QED  BY <1>4, <1>5, <1>6, <1>7, <1>8

(* path.tmp becomes path; a save that was alone has its snapshot there.    *)
LEMMA RenameKeeps ==
    ASSUME FilesInv, NEW s \in Savers, SaveRename(s)
    PROVE  FilesInv'
<1>. USE DEF FilesInv
<1>1. /\ saver[s].pc = "removed" /\ s \in Saving /\ names.tmp \in Inodes
      /\ names' = [path |-> names.tmp, tmp |-> 0]
      /\ inodes' = [n \in Inodes |-> IF n = names.path THEN Spoiled ELSE inodes[n]]
      /\ kept' = IF saver[s].alone THEN {saver[s].file.snap} ELSE {}
      /\ asked' = asked /\ names.path # names.tmp
  BY DEF SaveRename, FilesTyped, Saving, SavePoints, NamesApart
<1>2. saver'[s] = NoSaver /\ \A u \in Savers : u # s => saver'[u] = saver[u]
  BY DEF SaveRename, FilesTyped
<1>3. Saving' = Saving \ {s}
  BY <1>2 DEF Saving, SavePoints, NoSaver
<1>4. FilesTyped'
  <2>1. saver' \in [Savers -> SaverRecord]
    BY DEF SaveRename, FilesTyped, SaverRecord, NoSaver, AllFiles
  <2>. QED  BY <1>1, <2>1 DEF FilesTyped, AllFiles
<1>5. NothingInvented'
  <2>1. \A n \in Inodes : Readable(inodes'[n]) => inodes'[n].snap \in asked
    BY <1>1, SpoiledRefused DEF NothingInvented
  <2>. QED  BY <1>1, <1>2, <1>3, <2>1 DEF NothingInvented, Saving
<1>6. NamesApart' /\ AloneIsAlone'
  BY <1>1, <1>2, <1>3 DEF NamesApart, AloneIsAlone, Saving
<1>7. AloneWrites'
  BY <1>1, <1>2, <1>3 DEF AloneWrites, AloneIsAlone, Saving
<1>8. KeptInPlace'
  <2>. SUFFICES ASSUME saver[s].alone
                PROVE  /\ inodes'[names'.path] = Serialized(saver[s].file.snap)
                       /\ \A u \in Savers : saver'[u].pc \notin {"opened", "writing"}
    BY <1>1 DEF KeptInPlace, Inodes
  <2>1. inodes'[names'.path] = saver[s].file
    BY <1>1 DEF AloneWrites
  <2>2. Saving' = {}
    BY <1>1, <1>3 DEF AloneIsAlone
  <2>. QED  BY <1>1, <2>1, <2>2 DEF NothingInvented, Saving, SavePoints
<1>. QED  BY <1>4, <1>5, <1>6, <1>7, <1>8

(* recover reads the file at path into its thread.                         *)
LEMMA ReadKeeps ==
    ASSUME FilesInv, NEW s \in Savers, RecoverRead(s)
    PROVE  FilesInv'
<1>. USE DEF FilesInv
<1>1. /\ saver[s].pc = "idle" /\ names.path \in Inodes
      /\ saver' = [saver EXCEPT ![s].pc = "read", ![s].file = inodes[names.path]]
      /\ UNCHANGED <<names, inodes, asked, kept>>
  BY DEF RecoverRead, FilesTyped
<1>2. /\ saver'[s] \in SaverRecord /\ saver'[s].pc = "read"
      /\ \A u \in Savers : u # s => saver'[u] = saver[u]
  <2>1. saver[s] \in SaverRecord /\ inodes[names.path] \in AllFiles
    BY <1>1 DEF FilesTyped
  <2>2. saver'[s] = [[saver[s] EXCEPT !.pc = "read"] EXCEPT !.file = inodes[names.path]]
    BY <1>1 DEF FilesTyped
  <2>. QED  BY <1>1, <2>1, <2>2 DEF SaverRecord, FilesTyped
<1>3. Saving' = Saving /\ s \notin Saving
  BY <1>1, <1>2 DEF Saving, SavePoints
<1>4. FilesTyped'
  BY <1>1, <1>2 DEF FilesTyped
<1>5. \A u \in Saving : u \in Savers /\ saver'[u] = saver[u]
  BY <1>2, <1>3 DEF Saving
<1>6. NothingInvented' /\ NamesApart'
  <2>1. \A n \in Inodes : Readable(inodes'[n]) => inodes'[n].snap \in asked'
    BY <1>1 DEF NothingInvented
  <2>2. \A u \in Saving : saver'[u].file = Serialized(saver'[u].file.snap)
                          /\ saver'[u].file.snap \in asked'
    <3>. SUFFICES ASSUME NEW u \in Saving
                  PROVE  saver'[u].file = Serialized(saver'[u].file.snap)
                         /\ saver'[u].file.snap \in asked'
      OBVIOUS
    <3>1. saver[u].file = Serialized(saver[u].file.snap) /\ saver[u].file.snap \in asked
      BY DEF NothingInvented
    <3>2. saver'[u].file = saver[u].file
      BY <1>5
    <3>3. asked' = asked
      BY <1>1
    <3>. QED  BY ONLY <3>1, <3>2, <3>3
  <2>. QED  BY <1>1, <1>3, <2>1, <2>2 DEF NothingInvented, NamesApart
<1>7. AloneIsAlone' /\ AloneWrites'
  BY <1>1, <1>3, <1>5 DEF AloneIsAlone, AloneWrites
<1>8. KeptInPlace'
  BY <1>1, <1>2 DEF KeptInPlace
<1>. QED  BY <1>4, <1>6, <1>7, <1>8

(* The process dies with everything its threads were doing.                *)
LEMMA CrashKeeps ==
    ASSUME FilesInv, FilesCrash
    PROVE  FilesInv'
<1>. USE DEF FilesInv
<1>1. \A u \in Savers : saver'[u] = NoSaver
  BY DEF FilesCrash
<1>2. Saving' = {}
  BY <1>1 DEF Saving, SavePoints, NoSaver
<1>3. UNCHANGED <<names, inodes, asked, kept>>
  BY DEF FilesCrash
<1>4. FilesTyped'
  BY <1>3 DEF FilesCrash, FilesTyped, SaverRecord, NoSaver, AllFiles
<1>5. NothingInvented' /\ NamesApart' /\ AloneIsAlone' /\ AloneWrites'
  BY <1>2, <1>3 DEF NothingInvented, NamesApart, AloneIsAlone, AloneWrites
<1>6. KeptInPlace'
  BY <1>1, <1>3 DEF KeptInPlace, NoSaver
<1>. QED  BY <1>4, <1>5, <1>6

(* Every step of FilesNext.                                                *)
LEMMA NextKeeps ==
    ASSUME FilesInv, [FilesNext]_filesVars
    PROVE  FilesInv'
<1>1. CASE UNCHANGED filesVars
  BY <1>1 DEF filesVars, FilesInv, FilesTyped, NothingInvented, NamesApart,
              AloneIsAlone, AloneWrites, KeptInPlace, Saving
<1>2. ASSUME NEW s \in Savers, NEW snap \in Offerable, SaveCapture(s, snap)
      PROVE  FilesInv'
  BY <1>2, CaptureKeeps
<1>3. ASSUME NEW s \in Savers, FileStep(s) \/ RecoverAccepted(s)
      PROVE  FilesInv'
  <2>1. CASE GiveUp(s)
    BY <2>1, GiveUpKeeps
  <2>2. CASE UNCHANGED filesVars
    BY <1>1, <2>2
  <2>3. CASE SaveOpen(s) \/ SaveWrite(s) \/ SaveWritten(s) \/ SaveRemove(s)
             \/ SaveRename(s) \/ RecoverRead(s)
    BY <2>3, OpenKeeps, WriteKeeps, WrittenKeeps, RemoveKeeps, RenameKeeps, ReadKeeps
  <2>. QED
    BY <1>3, <2>1, <2>2, <2>3
    DEF FileStep, RecoverAccepted, SaveOpenFails, SaveWriteFails, SaveRenameFails,
        RecoverMissing, RecoverRefused
<1>4. CASE FilesCrash
  BY <1>4, CrashKeeps
<1>. QED  BY <1>1, <1>2, <1>3, <1>4 DEF FilesNext

(* The invariant the theorems rest on.                                     *)
LEMMA FilesInvariant == FilesSpec => []FilesInv
BY InitKeeps, NextKeeps, PTL DEF FilesSpec

------------------------------------------------------------------------------
(* What recover would find at path.                                        *)
LEMMA FoundAtPath ==
    ASSUME FilesInv
    PROVE  /\ StoredNow \subseteq asked
           /\ \A x, y \in StoredNow : x = y
<1>1. names.path # 0 => names.path \in Inodes
  BY DEF FilesInv, FilesTyped
<1>. QED  BY <1>1 DEF StoredNow, FilesInv, NothingInvented

(* A save that returned true undisturbed is what recover finds, until the  *)
(* next save removes it (registry.cpp:877-891), however many threads save  *)
(* and recover and however often the process dies.                         *)
THEOREM SavedSticks == FilesSpec => []SaveSticks
<1>1. FilesInv => SaveSticks
  <2>. SUFFICES ASSUME FilesInv, NEW snap \in kept, Acceptable(snap)
                PROVE  StoredNow = {snap}
    BY DEF SaveSticks
  <2>1. names.path # 0 /\ inodes[names.path] = Serialized(snap)
    BY DEF FilesInv, KeptInPlace
  <2>2. Readable(inodes[names.path]) /\ inodes[names.path].snap = snap
    BY <2>1, SerializedAccepted DEF Serialized
  <2>. QED  BY <2>1, <2>2 DEF StoredNow
<1>. QED  BY <1>1, FilesInvariant, PTL

(* Whatever saves overlap, fail or die, a reader finds nothing or exactly  *)
(* one state that a save set out to write (registry.cpp:869-923).          *)
THEOREM SaveImplementsStore == FilesSpec => ImplementsStore
<1>1. FilesInit => Store!StoreInit
  BY InitKeeps, FoundAtPath DEF Store!StoreInit
<1>2. ASSUME FilesInv, FilesInv', [FilesNext]_filesVars
      PROVE  [Store!Offer \/ Store!Replace \/ Store!Lose]_<<asked, StoredNow>>
  <2>1. StoredNow' \subseteq asked' /\ \A x, y \in StoredNow' : x = y
    <3>1. names'.path # 0 => names'.path \in Inodes
      BY <1>2 DEF FilesInv, FilesTyped
    <3>. QED  BY <1>2, <3>1 DEF StoredNow, FilesInv, NothingInvented
  <2>2. CASE asked' = asked
    <3>1. CASE StoredNow' = {}
      BY <2>2, <3>1 DEF Store!Lose
    <3>2. CASE StoredNow' # {}
      <4>1. PICK x \in StoredNow' : StoredNow' = {x}
        BY <2>1, <3>2
      <4>. QED  BY <2>1, <2>2, <4>1 DEF Store!Replace
    <3>. QED  BY <3>1, <3>2
  <2>3. CASE asked' # asked
    <3>1. PICK s \in Savers, snap \in Offerable : SaveCapture(s, snap)
      BY <1>2, <2>3
      DEF FilesNext, FileStep, RecoverAccepted, SaveOpenFails, SaveWriteFails,
          SaveRenameFails, RecoverMissing, RecoverRefused, GiveUp, SaveOpen, SaveWrite,
          SaveWritten, SaveRemove, SaveRename, RecoverRead, FilesCrash, filesVars
    <3>2. UNCHANGED <<names, inodes>> /\ asked \subseteq asked'
      BY <3>1 DEF SaveCapture
    <3>3. StoredNow' = StoredNow
      BY <3>2 DEF StoredNow
    <3>. QED  BY <3>2, <3>3 DEF Store!Offer
  <2>. QED  BY <2>2, <2>3
<1>. QED
  BY <1>1, <1>2, FilesInvariant, PTL DEF FilesSpec, ImplementsStore, Store!StoreSpec

------------------------------------------------------------------------------
(* Which files parse accepts.                                              *)

(* The errors of a list of identities: none when no id comes twice and     *)
(* every generation is positive.                                           *)
LEMMA ListErrors ==
    ASSUME NEW list, IsList(list)
    PROVE  IdentityErrors(list) = {} <=> Distinct(list) /\ Positive(list)
<1>1. PICK n \in Nat : n = Len(list) /\ DOMAIN list = 1 .. n
  BY DEF IsList
<1>. DEFINE ids == [i \in 1 .. n |-> list[i].id]
            image == {list[i].id : i \in DOMAIN list}
<1>2. IsFiniteSet(1 .. n) /\ Cardinality(1 .. n) = n
  BY FS_Interval
<1>3. ids \in Surjection(1 .. n, image)
  BY <1>1 DEF Surjection
<1>4. Cardinality(image) = n <=> ids \in Injection(1 .. n, image)
  BY <1>2, <1>3, FS_Surjection
<1>5. ids \in Injection(1 .. n, image)
         <=> \A i, j \in 1 .. n : list[i].id = list[j].id => i = j
  BY <1>3 DEF Injection, IsInjective, Surjection
<1>6. (\A i \in 1 .. n : ~RepeatsId(list, i))
         <=> \A i, j \in 1 .. n : list[i].id = list[j].id => i = j
  <2>1. ASSUME \A i \in 1 .. n : ~RepeatsId(list, i),
               NEW i \in 1 .. n, NEW j \in 1 .. n, list[i].id = list[j].id
        PROVE  i = j
    <3>1. ~(j \in 1 .. i - 1) /\ ~(i \in 1 .. j - 1)
      BY <2>1 DEF RepeatsId
    <3>. QED  BY <3>1
  <2>2. ASSUME \A i, j \in 1 .. n : list[i].id = list[j].id => i = j,
               NEW i \in 1 .. n
        PROVE  ~RepeatsId(list, i)
    BY <2>2 DEF RepeatsId
  <2>. QED  BY <2>1, <2>2
<1>7. IdentityErrors(list) = {}
         <=> (\A i \in 1 .. n : ~RepeatsId(list, i)) /\ (\A i \in 1 .. n : list[i].gen # 0)
  BY <1>1 DEF IdentityErrors
<1>. QED  BY <1>1, <1>4, <1>5, <1>6, <1>7 DEF Distinct, Positive

(* Domains are compared by id alone.                                       *)
LEMMA DomainErrors ==
    ASSUME NEW snap, IsList(snap.domains)
    PROVE  IdentityErrors(DomainList(snap)) = {}
              <=> Cardinality(Range(snap.domains)) = Len(snap.domains)
<1>1. PICK n \in Nat : n = Len(snap.domains) /\ DOMAIN snap.domains = 1 .. n
  BY DEF IsList
<1>2. DomainList(snap) = [i \in 1 .. n |-> [id |-> snap.domains[i], gen |-> 1]]
  BY <1>1 DEF DomainList
<1>3. Len(DomainList(snap)) = n /\ DOMAIN DomainList(snap) = 1 .. n
  BY <1>2
<1>4. /\ \A i \in 1 .. n : DomainList(snap)[i].gen = 1 /\ DomainList(snap)[i].id = snap.domains[i]
  BY <1>2
<1>5. {DomainList(snap)[i].id : i \in DOMAIN DomainList(snap)} = Range(snap.domains)
  BY <1>1, <1>3, <1>4 DEF Range
<1>6. Positive(DomainList(snap))
  BY <1>3, <1>4 DEF Positive
<1>. QED  BY <1>1, <1>3, <1>5, <1>6, ListErrors DEF IsList, Distinct

(* parse looks at every part a fault can be in.                            *)
LEMMA FaultsSeen ==
    ASSUME NEW f \in Faults
    PROVE  \E i \in DOMAIN Parts : Parts[i] = f[1]
BY DEF Faults, Range

(* The bytes that are let pass: the authority's provenance and what a      *)
(* backend can do.  All others are checked, in a part parse looks at.      *)
LEMMA OddSeen ==
    ASSUME NEW o \in Enumerated
    PROVE  /\ o \in Checked <=> ~(o[1] = "authority" \/ o[2] = "capabilities")
           /\ o \in Checked => \E i \in DOMAIN Parts : Parts[i] = o[1]
<1>1. ASSUME o \in Checked
      PROVE  /\ o[1] \in {"buffers", "registrations", "remote_keys", "local_keys", "backends"}
             /\ o[2] # "capabilities"
  BY <1>1 DEF Checked, In, CheckedOfRegistration, CheckedOfBackend
<1>2. ASSUME o \notin Checked
      PROVE  o[1] = "authority" \/ o[2] = "capabilities"
  BY <1>2
  DEF Enumerated, Checked, Dropped, In, EncodedOfDescriptor, CheckedOfDescriptor,
      EncodedOfKey, CheckedOfKey, EncodedOfRegistration, CheckedOfRegistration,
      EncodedOfBackend, CheckedOfBackend
<1>3. \A part \in {"buffers", "registrations", "remote_keys", "local_keys", "backends"} :
         \E i \in DOMAIN Parts : Parts[i] = part
  <2>1. DOMAIN Parts = 1 .. 14
    BY DEF Parts
  <2>2. /\ Parts[6] = "buffers" /\ Parts[7] = "registrations" /\ Parts[9] = "remote_keys"
        /\ Parts[10] = "local_keys" /\ Parts[13] = "backends"
    BY DEF Parts
  <2>. QED  BY <2>1, <2>2
<1>. QED  BY <1>1, <1>2, <1>3

(* parse accepts exactly the well-formed files, with lists of any length   *)
(* (persistence.cpp:342-458): nothing is let through that a later part     *)
(* would have refused, and nothing well-formed is refused.                 *)
THEOREM ParserExact == FormatSpec => []AcceptsExactlyWellFormed
<1>1. ASSUME NEW file \in FilesAsked
      PROVE  Parse(file) = "OK" <=>
                /\ file.faults = {}
                /\ \A o \in file.odd : o[1] = "authority" \/ o[2] = "capabilities"
                /\ Distinct(file.snap.buffers) /\ Positive(file.snap.buffers)
                /\ Distinct(file.snap.regs) /\ Positive(file.snap.regs)
                /\ Cardinality(Range(file.snap.domains)) = Len(file.snap.domains)
  <2>. DEFINE stops == {i \in DOMAIN Parts : StopsAt(file, Parts[i])}
              lists == IdentityLists(file.snap)
              faulty == {i \in DOMAIN lists : IdentityErrors(lists[i]) # {}}
  <2>1. Parse(file) = "OK" <=> stops = {} /\ faulty = {}
    <3>1. \A part : FaultError(file, part) # "OK"
      BY FaultsAreErrors
    <3>2. \A list : IdentityError(list) # "OK"
      BY DEF IdentityError
    <3>. QED  BY <3>1, <3>2, Zenon DEF Parse
  <2>2. stops = {} <=> /\ file.faults = {}
                       /\ \A o \in file.odd : o[1] = "authority" \/ o[2] = "capabilities"
    <3>1. file.faults \subseteq Faults /\ file.odd \subseteq Enumerated
      BY FormatAssumption DEF FormatAssumption
    <3>. QED  BY <3>1, FaultsSeen, OddSeen DEF StopsAt
  <2>3. faulty = {} <=> /\ IdentityErrors(file.snap.buffers) = {}
                        /\ IdentityErrors(file.snap.regs) = {}
                        /\ IdentityErrors(DomainList(file.snap)) = {}
    BY DEF IdentityLists
  <2>4. IsList(file.snap.buffers) /\ IsList(file.snap.regs) /\ IsList(file.snap.domains)
    BY FormatAssumption DEF FormatAssumption
  <2>. QED  BY <2>1, <2>2, <2>3, <2>4, ListErrors, DomainErrors
<1>2. parsed \subseteq FilesAsked => AcceptsExactlyWellFormed
  BY <1>1 DEF AcceptsExactlyWellFormed
<1>3. FormatSpec => [](parsed \subseteq FilesAsked)
  <2>1. FormatInit => parsed \subseteq FilesAsked
    BY DEF FormatInit
  <2>2. parsed \subseteq FilesAsked /\ [FormatNext]_parsed => (parsed \subseteq FilesAsked)'
    BY DEF FormatNext, AskParse, Parsed
  <2>. QED  BY <2>1, <2>2, PTL DEF FormatSpec
<1>. QED  BY <1>2, <1>3, PTL
==============================================================================

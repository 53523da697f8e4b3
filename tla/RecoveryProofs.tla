---------------------------- MODULE RecoveryProofs ----------------------------
(***************************************************************************)
(* What save and recover do to the registry, for any files, any number of  *)
(* savers and crashes: nothing comes back live, what comes back is what    *)
(* was saved, and the bytes of the buffers stay counted.                   *)
(***************************************************************************)
EXTENDS PersistenceProperties, SaveProofs, RegistryProofs

------------------------------------------------------------------------------
(* What save copies.                                                       *)

(* An order of a finite set names all of it.                               *)
LEMMA OrderNamesAll ==
    ASSUME NEW S, IsFiniteSet(S), NEW f \in SetToSeqs(S)
    PROVE  /\ DOMAIN f = 1 .. Cardinality(S) /\ Cardinality(S) \in Nat
           /\ \A i \in DOMAIN f : f[i] \in S
           /\ \A x \in S : \E i \in DOMAIN f : f[i] = x
<1>1. PICK n : n = Cardinality(S)
  OBVIOUS
<1>2. n \in Nat
  BY <1>1, FS_CardinalityType
<1>3. IsFiniteSet(1 .. n) /\ Cardinality(1 .. n) = n
  BY <1>2, FS_Interval
<1>4. f \in [1 .. n -> S] /\ \A i, j \in 1 .. n : i # j => f[i] # f[j]
  BY <1>1 DEF SetToSeqs
<1>5. f \in Injection(1 .. n, S)
  BY <1>4 DEF Injection, IsInjective
<1>6. f \in Surjection(1 .. n, S)
  BY <1>1, <1>3, <1>5, FS_Injection
<1>. QED  BY <1>1, <1>2, <1>4, <1>6 DEF Surjection

(* The tables hold as many entries as there are ids at most.               *)
LEMMA TablesFinite ==
    /\ IsFiniteSet({b \in BufIds : buffers[b].made})
    /\ IsFiniteSet({r \in RegIds : Present(r)})
    /\ IsFiniteSet({p \in DomainIds : domains[p] # "ABSENT"})
<1>1. IsFiniteSet(BufIds) /\ IsFiniteSet(RegIds) /\ IsFiniteSet(DomainIds)
  <2>1. \A a, b \in Int : IsFiniteSet(a .. b)
    BY FS_Interval
  <2>2. MaxBuffers \in Int /\ MaxRegs \in Int /\ MaxDomains \in Int /\ 0 \in Int /\ 1 \in Int
    BY RegistryAssumption DEF RegistryAssumption
  <2>. QED  BY <2>1, <2>2 DEF BufIds, RegIds, DomainIds
<1>2. /\ {b \in BufIds : buffers[b].made} \in SUBSET BufIds
      /\ {r \in RegIds : Present(r)} \in SUBSET RegIds
      /\ {p \in DomainIds : domains[p] # "ABSENT"} \in SUBSET DomainIds
  OBVIOUS
<1>. QED  BY ONLY <1>1, <1>2, FS_Subset

(* Every copy is made of one order of each table.                          *)
CopiedBy(snap, bufs, recs, doms) ==
    /\ bufs \in SetToSeqs({b \in BufIds : buffers[b].made})
    /\ recs \in SetToSeqs({r \in RegIds : Present(r)})
    /\ doms \in SetToSeqs({p \in DomainIds : domains[p] # "ABSENT"})
    /\ snap.authority = authority
    /\ snap.buffers = SavedBuffers(bufs)
    /\ snap.regs = SavedRegs(recs)
    /\ snap.domains = doms

LEMMA CopiesOrdered ==
    ASSUME NEW snap \in Captured
    PROVE  \E bufs, recs, doms : CopiedBy(snap, bufs, recs, doms)
<1>. DEFINE B == SetToSeqs({b \in BufIds : buffers[b].made})
            C == SetToSeqs({r \in RegIds : Present(r)})
            D == SetToSeqs({p \in DomainIds : domains[p] # "ABSENT"})
            Snap(bufs, recs, doms) ==
                [authority |-> authority, buffers |-> SavedBuffers(bufs),
                 regs |-> SavedRegs(recs), domains |-> doms]
<1>1. Captured = {Snap(bufs, recs, doms) : bufs \in B, recs \in C, doms \in D}
  BY DEF Captured
<1>2. \A bufs, recs, doms :
          /\ Snap(bufs, recs, doms).authority = authority
          /\ Snap(bufs, recs, doms).buffers = SavedBuffers(bufs)
          /\ Snap(bufs, recs, doms).regs = SavedRegs(recs)
          /\ Snap(bufs, recs, doms).domains = doms
  OBVIOUS
<1>. HIDE DEF B, C, D, Snap
<1>3. \E bufs \in B, recs \in C, doms \in D : snap = Snap(bufs, recs, doms)
  BY <1>1
<1>4. PICK bufs \in B, recs \in C, doms \in D : snap = Snap(bufs, recs, doms)
  BY <1>3
<1>5. CopiedBy(snap, bufs, recs, doms)
  BY <1>2, <1>4 DEF CopiedBy, B, C, D
<1>. QED  BY <1>5

(* A buffer is saved under the id inside its descriptor, which is an id of *)
(* the table too.                                                          *)
BuffersNamed == \A b \in BufIds : buffers[b].id \in BufIds

LEMMA LogicalAgain ==
    ASSUME NEW rec \in Record
    PROVE  /\ Logical(rec) \in Record
           /\ Logical(Logical(rec)) = Logical(rec)
           /\ Logical(rec).life = "REVALIDATION_REQUIRED"
BY DEF Logical, Record, Lifecycles, Freshnesses

LEMMA CopySaveable ==
    ASSUME TypeOK, BuffersNamed, NEW snap \in Captured
    PROVE  Saveable(snap)
<1>1. PICK bufs, recs, doms : CopiedBy(snap, bufs, recs, doms)
  BY CopiesOrdered
<1>2. \E n \in Nat : /\ DOMAIN bufs = 1 .. n
                     /\ \A i \in 1 .. n : bufs[i] \in BufIds
  <2>1. PICK S : S = {b \in BufIds : buffers[b].made}
    OBVIOUS
  <2>2. bufs \in SetToSeqs(S) /\ IsFiniteSet(S) /\ S \subseteq BufIds
    BY <1>1, <2>1, TablesFinite DEF CopiedBy
  <2>. QED  BY <2>2, OrderNamesAll
<1>3. \E n \in Nat : /\ DOMAIN recs = 1 .. n
                     /\ \A i \in 1 .. n : recs[i] \in RegIds
  <2>1. PICK S : S = {r \in RegIds : Present(r)}
    OBVIOUS
  <2>2. recs \in SetToSeqs(S) /\ IsFiniteSet(S) /\ S \subseteq RegIds
    BY <1>1, <2>1, TablesFinite DEF CopiedBy
  <2>. QED  BY <2>2, OrderNamesAll
<1>4. \E n \in Nat : /\ doms \in [1 .. n -> DomainIds]
  <2>1. PICK S : S = {p \in DomainIds : domains[p] # "ABSENT"}
    OBVIOUS
  <2>2. doms \in SetToSeqs(S) /\ IsFiniteSet(S) /\ S \subseteq DomainIds
    BY <1>1, <2>1, TablesFinite DEF CopiedBy
  <2>3. doms \in [1 .. Cardinality(S) -> S] /\ Cardinality(S) \in Nat
    BY <2>2, FS_CardinalityType DEF SetToSeqs
  <2>. QED  BY <2>2, <2>3
<1>5. snap.authority \in AuthorityFacts
  BY <1>1 DEF CopiedBy, TypeOK
<1>6. snap.buffers \in Seq([id : BufIds, gen : Nat, len : Nat])
  <2>1. PICK n \in Nat : DOMAIN bufs = 1 .. n /\ \A i \in 1 .. n : bufs[i] \in BufIds
    BY <1>2
  <2>2. \A b \in BufIds : [id |-> buffers[b].id, gen |-> buffers[b].gen, len |-> buffers[b].len]
                              \in [id : BufIds, gen : Nat, len : Nat]
    BY DEF TypeOK, BufferEntry, BuffersNamed
  <2>. DEFINE Saved(b) == [id |-> buffers[b].id, gen |-> buffers[b].gen, len |-> buffers[b].len]
              T == [id : BufIds, gen : Nat, len : Nat]
  <2>3. SavedBuffers(bufs) = [i \in 1 .. n |-> Saved(bufs[i])]
    BY <2>1, Zenon DEF SavedBuffers
  <2>. HIDE DEF Saved, T
  <2>4. \A i \in 1 .. n : Saved(bufs[i]) \in T
    BY <2>1, <2>2 DEF Saved, T
  <2>5. SavedBuffers(bufs) \in [1 .. n -> T]
    BY ONLY <2>3, <2>4
  <2>6. SavedBuffers(bufs) \in Seq(T)
    BY ONLY <2>5, n \in Nat
  <2>. QED  BY <1>1, <2>6 DEF CopiedBy, T
<1>7. /\ snap.regs \in Seq([id : RegIds, gen : {RegistrationGeneration}, rec : Record])
      /\ \A i \in DOMAIN snap.regs : Logical(snap.regs[i].rec) = snap.regs[i].rec
  <2>1. PICK n \in Nat : DOMAIN recs = 1 .. n /\ \A i \in 1 .. n : recs[i] \in RegIds
    BY <1>3
  <2>2. \A r \in RegIds : /\ Logical(regs[r]) \in Record
                          /\ Logical(Logical(regs[r])) = Logical(regs[r])
    BY LogicalAgain DEF TypeOK
  <2>. DEFINE Saved(r) == [id |-> r, gen |-> RegistrationGeneration, rec |-> Logical(regs[r])]
              T == [id : RegIds, gen : {RegistrationGeneration}, rec : Record]
  <2>3. SavedRegs(recs) = [i \in 1 .. n |-> Saved(recs[i])]
    BY <2>1, Zenon DEF SavedRegs
  <2>5. \A r \in RegIds : Saved(r) \in T /\ Saved(r).rec = Logical(regs[r])
    BY <2>2
  <2>. HIDE DEF Saved, T
  <2>6. \A i \in 1 .. n : Saved(recs[i]) \in T
    BY <2>1, <2>5
  <2>7. SavedRegs(recs) \in [1 .. n -> T]
    BY ONLY <2>3, <2>6
  <2>8. SavedRegs(recs) \in Seq(T)
    BY ONLY <2>7, n \in Nat
  <2>4. \A i \in DOMAIN SavedRegs(recs) : Logical(SavedRegs(recs)[i].rec) = SavedRegs(recs)[i].rec
    BY <2>1, <2>2, <2>3, <2>5
  <2>. QED  BY <1>1, <2>4, <2>8 DEF CopiedBy, T
<1>8. snap.domains \in Seq(DomainIds)
  BY <1>1, <1>4 DEF CopiedBy
<1>. QED  BY <1>5, <1>6, <1>7, <1>8 DEF Saveable

------------------------------------------------------------------------------
(* The files there are: each holds something that save could have written. *)

(* The files, whatever they hold: a set of files that only a capture adds  *)
(* to.                                                                     *)
FilesOver(F) ==
    /\ names \in [path : Inodes \cup {0}, tmp : Inodes \cup {0}]
    /\ inodes \in [Inodes -> F]
    /\ saver \in [Savers -> [pc : SavePoints \cup {"idle", "read"}, file : F,
                             inode : Inodes \cup {0}, alone : BOOLEAN]]

FilesWhole == \E F : FilesOver(F) /\ Spoiled \in F /\ \A file \in F : Saveable(file.snap)

LEMMA NothingSaveable == Saveable(NoSnapshot)
BY EmptyTyped DEF Saveable, NoSnapshot

LEMMA ReadSaveable ==
    ASSUME FilesWhole, NEW s \in Savers
    PROVE  Saveable(saver[s].file.snap)
BY DEF FilesWhole, FilesOver

(* A capture adds one file, whose content is that of the tables.           *)
LEMMA CaptureWhole ==
    ASSUME TypeOK, BuffersNamed, FilesWhole, NEW s \in Savers, NEW snap \in Captured,
           SaveCapture(s, snap)
    PROVE  FilesWhole'
<1>1. PICK F : FilesOver(F) /\ Spoiled \in F /\ \A file \in F : Saveable(file.snap)
  BY DEF FilesWhole
<1>2. PICK G : G = F \cup {Serialized(snap)}
  OBVIOUS
<1>3. Saveable(Serialized(snap).snap)
  BY CopySaveable DEF Serialized
<1>4. FilesOver(G)'
  <2>. DEFINE R == [pc : SavePoints \cup {"idle", "read"}, file : G,
                    inode : Inodes \cup {0}, alone : BOOLEAN]
  <2>1. saver \in [Savers -> R] /\ inodes \in [Inodes -> G]
    BY <1>1, <1>2 DEF FilesOver
  <2>2. [pc |-> "captured", file |-> Serialized(snap), inode |-> 0, alone |-> Saving = {}] \in R
    BY <1>2 DEF SavePoints
  <2>3. \A u \in Savers : [saver[u] EXCEPT !.alone = FALSE] \in R
    BY <2>1
  <2>4. saver' \in [Savers -> R]
    <3>. HIDE DEF R
    <3>. QED  BY <2>1, <2>2, <2>3 DEF SaveCapture
  <2>5. names' = names /\ inodes' = inodes
    BY DEF SaveCapture
  <2>. QED  BY <1>1, <2>1, <2>4, <2>5 DEF FilesOver
<1>5. Spoiled \in G /\ \A file \in G : Saveable(file.snap)
  BY <1>1, <1>2, <1>3
<1>. QED  BY <1>4, <1>5 DEF FilesWhole

(* No other step makes a file of its own.                                  *)
LEMMA FilesOverKept ==
    ASSUME NEW F, Spoiled \in F, FilesOver(F), NEW s \in Savers, FileStep(s) \/ GiveUp(s)
    PROVE  FilesOver(F)'
<1>. DEFINE R == [pc : SavePoints \cup {"idle", "read"}, file : F,
                  inode : Inodes \cup {0}, alone : BOOLEAN]
<1>0. /\ names \in [path : Inodes \cup {0}, tmp : Inodes \cup {0}]
      /\ inodes \in [Inodes -> F] /\ saver \in [Savers -> R] /\ saver[s] \in R
      /\ NoSaver \in R
  BY DEF FilesOver, NoSaver
<1>1. CASE GiveUp(s)
  BY <1>0, <1>1 DEF GiveUp, FilesOver
<1>2. CASE SaveOpen(s)
  <2>1. PICK n \in Inodes :
            /\ names' = [names EXCEPT !.tmp = n]
            /\ inodes' = [inodes EXCEPT ![n] = Spoiled]
            /\ saver' = [saver EXCEPT ![s].pc = "opened", ![s].inode = n]
    <3>1. CASE names.tmp # 0
      BY <1>0, <1>2, <3>1 DEF SaveOpen
    <3>2. CASE names.tmp = 0
      <4>1. (CHOOSE free \in Inodes \ InUse : TRUE) \in Inodes
        BY <3>2, FreeInode
      <4>. QED  BY <1>2, <3>2, <4>1 DEF SaveOpen
    <3>. QED  BY <3>1, <3>2
  <2>2. saver' \in [Savers -> R]
    BY <1>0, <2>1 DEF SavePoints
  <2>3. names' \in [path : Inodes \cup {0}, tmp : Inodes \cup {0}]
    BY <1>0, <2>1
  <2>4. inodes' \in [Inodes -> F]
    BY <1>0, <2>1
  <2>. QED  BY <2>2, <2>3, <2>4 DEF FilesOver
<1>3. CASE SaveWrite(s)
  BY <1>0, <1>3 DEF SaveWrite, FilesOver, SavePoints
<1>4. CASE SaveWritten(s)
  <2>1. PICK file \in F : inodes' = [inodes EXCEPT ![saver[s].inode] = file]
    BY <1>0, <1>4 DEF SaveWritten, WrittenFiles
  <2>2. saver' \in [Savers -> R]
    BY <1>0, <1>4 DEF SaveWritten, SavePoints
  <2>. QED  BY <1>0, <1>4, <2>1, <2>2 DEF SaveWritten, FilesOver
<1>5. CASE SaveRemove(s)
  BY <1>0, <1>5 DEF SaveRemove, FilesOver, SavePoints
<1>6. CASE SaveRename(s)
  BY <1>0, <1>6 DEF SaveRename, FilesOver
<1>7. CASE RecoverRead(s)
  <2>1. inodes[names.path] \in F
    BY <1>0, <1>7 DEF RecoverRead
  <2>. QED  BY <1>0, <1>7, <2>1 DEF RecoverRead, FilesOver
<1>8. CASE RecoverMissing(s)
  BY <1>8 DEF RecoverMissing, filesVars, FilesOver
<1>. QED
  BY <1>1, <1>2, <1>3, <1>4, <1>5, <1>6, <1>7, <1>8
  DEF FileStep, SaveOpenFails, SaveWriteFails, SaveRenameFails, RecoverRefused

LEMMA FilesWholeKept ==
    ASSUME FilesWhole, NEW s \in Savers, FileStep(s) \/ GiveUp(s)
    PROVE  FilesWhole'
<1>1. PICK F : FilesOver(F) /\ Spoiled \in F /\ \A file \in F : Saveable(file.snap)
  BY DEF FilesWhole
<1>2. FilesOver(F)'
  BY <1>1, FilesOverKept
<1>. QED  BY <1>1, <1>2 DEF FilesWhole

(* A crash closes the files and changes none.                              *)
LEMMA FilesWholeAfterCrash ==
    ASSUME FilesWhole, FilesCrash
    PROVE  FilesWhole'
<1>1. PICK F : FilesOver(F) /\ Spoiled \in F /\ \A file \in F : Saveable(file.snap)
  BY DEF FilesWhole
<1>2. FilesOver(F)'
  BY <1>1 DEF FilesCrash, FilesOver, NoSaver
<1>. QED  BY <1>1, <1>2 DEF FilesWhole

LEMMA FilesWholeInit == FilesInit => FilesWhole
<1>. SUFFICES ASSUME FilesInit PROVE FilesWhole
  OBVIOUS
<1>1. PICK F : F = Found \cup {Spoiled}
  OBVIOUS
<1>2. 1 \in Inodes
  BY FilesAssumption, FS_CardinalityType DEF Inodes, FilesAssumption
<1>3. FilesOver(F)
  BY <1>1, <1>2 DEF FilesInit, FilesOver, NoSaver
<1>4. \A file \in F : Saveable(file.snap)
  BY <1>1, RecoveryAssumption, NothingSaveable DEF RecoveryAssumption, Spoiled
<1>. QED  BY <1>1, <1>3, <1>4 DEF FilesWhole

------------------------------------------------------------------------------
(* What parse accepts, recover can install.                                *)

LEMMA ListDomain ==
    ASSUME NEW T, NEW list \in Seq(T)
    PROVE  \E n \in Nat : DOMAIN list = 1 .. n /\ \A i \in 1 .. n : list[i] \in T
OBVIOUS

NoRepeats(list) == \A i, j \in DOMAIN list : list[i].id = list[j].id => i = j

LEMMA AcceptedOnce ==
    ASSUME NEW file, Parse(file) = "OK", Saveable(file.snap)
    PROVE  NoRepeats(file.snap.buffers) /\ NoRepeats(file.snap.regs)
<1>. DEFINE stops == {i \in DOMAIN Parts : StopsAt(file, Parts[i])}
            lists == IdentityLists(file.snap)
            faulty == {i \in DOMAIN lists : IdentityErrors(lists[i]) # {}}
<1>1. stops = {} /\ faulty = {}
  <2>1. \A part : FaultError(file, part) # "OK"
    BY FaultsAreErrors
  <2>2. \A list : IdentityError(list) # "OK"
    BY DEF IdentityError
  <2>. QED  BY <2>1, <2>2, Zenon DEF Parse
<1>2. IdentityErrors(file.snap.buffers) = {} /\ IdentityErrors(file.snap.regs) = {}
  <2>1. DOMAIN lists = 1 .. 3 /\ lists[1] = file.snap.buffers /\ lists[2] = file.snap.regs
    BY DEF IdentityLists
  <2>. HIDE DEF lists
  <2>. QED  BY <1>1, <2>1
<1>3. ASSUME NEW T, NEW list \in Seq(T), IdentityErrors(list) = {}
      PROVE  NoRepeats(list)
  <2>1. PICK n \in Nat : DOMAIN list = 1 .. n
    OBVIOUS
  <2>2. \A i \in 1 .. n : ~RepeatsId(list, i)
    BY <1>3, <2>1 DEF IdentityErrors
  <2>3. ASSUME NEW i \in 1 .. n, NEW j \in 1 .. n, list[i].id = list[j].id
        PROVE  i = j
    <3>1. ~(j \in 1 .. i - 1) /\ ~(i \in 1 .. j - 1)
      BY <2>2, <2>3 DEF RepeatsId
    <3>. QED  BY <3>1
  <2>. QED  BY <2>1, <2>3 DEF NoRepeats
<1>4. \E T : file.snap.buffers \in Seq(T)
  BY DEF Saveable
<1>5. \E T : file.snap.regs \in Seq(T)
  BY DEF Saveable
<1>. HIDE DEF lists, stops, faulty
<1>. QED  BY <1>2, <1>3, <1>4, <1>5

(* What recover adds to the table of buffers, and to the gauges.           *)
BuffersRecovered(snap, I) ==
    /\ Saveable(snap) /\ NoRepeats(snap.buffers) /\ NoRepeats(snap.regs)
    /\ I \in SUBSET DOMAIN snap.buffers /\ IsFiniteSet(I)
    /\ \A i \in I : snap.buffers[i].id \in BufIds /\ ~buffers[snap.buffers[i].id].made
    /\ acct'.buffers = acct.buffers + Cardinality(I)
    /\ acct'.live = acct.live + TotalLen(snap.buffers, I)
    /\ DOMAIN buffers' = BufIds
    /\ \A b \in BufIds : (\A i \in I : snap.buffers[i].id # b) => buffers'[b] = buffers[b]
    /\ \A i \in I :
          buffers'[snap.buffers[i].id] =
              [made |-> TRUE, id |-> snap.buffers[i].id,
               gen |-> snap.buffers[i].gen, len |-> snap.buffers[i].len]

LEMMA RecoverAdds ==
    ASSUME TypeOK, FilesWhole, NEW s \in Savers, RecoverInstall(s)
    PROVE  BuffersRecovered(saver[s].file.snap, NewBuffers(saver[s].file.snap))
<1>. DEFINE snap == saver[s].file.snap
            I == NewBuffers(snap)
            LenOf(i) == snap.buffers[i].len
            At(b) == CHOOSE i \in I : snap.buffers[i].id = b
            Put(b) == [made |-> TRUE, id |-> b, gen |-> snap.buffers[At(b)].gen,
                       len |-> snap.buffers[At(b)].len]
<1>1. buffers' = [b \in BufIds |->
                    IF \E i \in I : snap.buffers[i].id = b THEN Put(b) ELSE buffers[b]]
  BY DEF RecoverInstall
<1>2. /\ acct'.buffers = acct.buffers + Cardinality(I)
      /\ acct'.live = acct.live + MapThenSumSet(LenOf, I)
  <2>1. /\ acct' = [acct EXCEPT !.buffers = @ + Cardinality(I),
                                !.live = @ + MapThenSumSet(LenOf, I),
                                !.domains = @ + Cardinality(NewDomains(snap))]
    BY DEF RecoverInstall
  <2>2. {"buffers", "live", "domains"} \subseteq DOMAIN acct
    BY DEF TypeOK, Gauges
  <2>. HIDE DEF I, LenOf, snap
  <2>. QED  BY <2>1, <2>2
<1>3. MapThenSumSet(LenOf, I) = TotalLen(snap.buffers, I)
  BY DEF TotalLen
<1>4. I \in SUBSET DOMAIN snap.buffers /\ \A i \in I : ~buffers[snap.buffers[i].id].made
  BY DEF NewBuffers
<1>5. Saveable(snap)
  BY ReadSaveable
<1>6. NoRepeats(snap.buffers) /\ NoRepeats(snap.regs)
  BY <1>5, AcceptedOnce DEF RecoverInstall, RecoverAccepted
<1>7. PICK n \in Nat : /\ DOMAIN snap.buffers = 1 .. n
                       /\ \A i \in 1 .. n : snap.buffers[i].id \in BufIds
  <2>1. PICK n \in Nat : /\ DOMAIN snap.buffers = 1 .. n
                         /\ \A i \in 1 .. n : snap.buffers[i] \in [id : BufIds, gen : Nat, len : Nat]
    BY <1>5, ListDomain DEF Saveable
  <2>. QED  BY <2>1
<1>8. IsFiniteSet(I)
  <2>1. IsFiniteSet(1 .. n)
    BY FS_Interval
  <2>. QED  BY <1>4, <1>7, <2>1, FS_Subset
<1>9. \A i \in I : At(snap.buffers[i].id) = i
  <2>. HIDE DEF I
  <2>. QED  BY <1>4, <1>6 DEF NoRepeats
<1>10. \A i \in I : Put(snap.buffers[i].id) =
                       [made |-> TRUE, id |-> snap.buffers[i].id,
                        gen |-> snap.buffers[i].gen, len |-> snap.buffers[i].len]
  BY <1>9
<1>11. \A i \in I : snap.buffers[i].id \in BufIds
  BY <1>4, <1>7
<1>. HIDE DEF Put, At, I, LenOf, snap
<1>12. \A i \in I : buffers'[snap.buffers[i].id] = Put(snap.buffers[i].id)
  BY <1>1, <1>11
<1>13. /\ DOMAIN buffers' = BufIds
       /\ \A b \in BufIds : (\A i \in I : snap.buffers[i].id # b) => buffers'[b] = buffers[b]
  BY <1>1
<1>14. BuffersRecovered(snap, I)
  BY <1>2, <1>3, <1>4, <1>5, <1>6, <1>8, <1>10, <1>11, <1>12, <1>13 DEF BuffersRecovered
<1>. QED  BY <1>14 DEF snap, I

(* The records it puts into the table, dead and to be revalidated.         *)
RegsRecovered(snap) ==
    /\ regs' \in [RegIds -> Record]
    /\ \A r \in RegIds : (\A i \in DOMAIN snap.regs : snap.regs[i].id # r) => regs'[r] = regs[r]
    /\ \A i \in DOMAIN snap.regs :
          /\ snap.regs[i] \in [id : RegIds, gen : {RegistrationGeneration}, rec : Record]
          /\ regs'[snap.regs[i].id] = Recovered(snap.regs[i].rec)

LEMMA RecoverReplaces ==
    ASSUME TypeOK, FilesWhole, NEW s \in Savers, RecoverInstall(s)
    PROVE  RegsRecovered(saver[s].file.snap)
<1>. DEFINE snap == saver[s].file.snap
            J == DOMAIN snap.regs
            At(r) == CHOOSE i \in J : snap.regs[i].id = r
            Put(r) == Recovered(snap.regs[At(r)].rec)
<1>1. regs' = [r \in RegIds |->
                  IF \E i \in J : snap.regs[i].id = r THEN Put(r) ELSE regs[r]]
  BY DEF RecoverInstall
<1>2. Saveable(snap)
  BY ReadSaveable
<1>3. NoRepeats(snap.regs)
  BY <1>2, AcceptedOnce DEF RecoverInstall, RecoverAccepted
<1>4. \A i \in J : snap.regs[i] \in [id : RegIds, gen : {RegistrationGeneration}, rec : Record]
  <2>. DEFINE T == [id : RegIds, gen : {RegistrationGeneration}, rec : Record]
  <2>1. snap.regs \in Seq(T)
    BY <1>2 DEF Saveable
  <2>. HIDE DEF T, snap
  <2>2. \A i \in J : snap.regs[i] \in T
    BY <2>1, ListDomain
  <2>. QED  BY <2>2 DEF T
<1>5. \A i \in J : At(snap.regs[i].id) = i
  BY <1>3 DEF NoRepeats
<1>6. \A i \in J : Put(snap.regs[i].id) = Recovered(snap.regs[i].rec)
  BY <1>5
<1>7. \A rec \in Record : Recovered(rec) \in Record
  BY LogicalAgain DEF Recovered, Record
<1>8. \A i \in J : snap.regs[i].id \in RegIds /\ snap.regs[i].rec \in Record
  BY <1>4
<1>9. \A r \in RegIds : (\E i \in J : snap.regs[i].id = r) => Put(r) \in Record
  <2>. HIDE DEF At
  <2>. QED  BY <1>5, <1>7, <1>8
<1>10. \A r \in RegIds : regs[r] \in Record
  BY DEF TypeOK
<1>11. DOMAIN snap.regs = J
  OBVIOUS
<1>. HIDE DEF Put, At, J, snap
<1>12. regs' \in [RegIds -> Record]
  BY <1>1, <1>9, <1>10
<1>13. \A i \in J : regs'[snap.regs[i].id] = Put(snap.regs[i].id)
  BY <1>1, <1>8
<1>14. \A r \in RegIds : (\A i \in J : snap.regs[i].id # r) => regs'[r] = regs[r]
  BY <1>1
<1>15. RegsRecovered(snap)
  BY <1>4, <1>6, <1>11, <1>12, <1>13, <1>14 DEF RegsRecovered
<1>. QED  BY <1>15 DEF snap

------------------------------------------------------------------------------
(* The types of the tables.                                                *)

TablesTyped == TypeOK /\ CallsInRange /\ BuffersNamed

(* Only create_buffer files a descriptor.                                  *)
LEMMA NamesKept ==
    ASSUME TablesTyped, [Next]_vars
    PROVE  BuffersNamed'
<1>1. buffers' = buffers => BuffersNamed'
  BY DEF TablesTyped, BuffersNamed
<1>2. ASSUME NEW d \in Descriptors, CreateBuffer(d) PROVE BuffersNamed'
  <2>1. d.buf \in BufIds
    BY RegistryAssumption DEF RegistryAssumption, Descriptor, BufIds
  <2>2. \/ buffers' = buffers
        \/ buffers' = [buffers EXCEPT ![ChosenId(d)] = EntryOf(d)]
    BY <1>2 DEF CreateBuffer, CreateNewBuffer, ReallocateBuffer, CreateRefused
  <2>3. EntryOf(d).id = d.buf
    BY DEF EntryOf
  <2>4. \A b \in BufIds : buffers'[b] = buffers[b] \/ buffers'[b] = EntryOf(d)
    BY <2>2 DEF TablesTyped, TypeOK
  <2>. QED  BY <2>1, <2>3, <2>4 DEF TablesTyped, BuffersNamed
<1>3. ASSUME NEW r, NEW mode, Revoke(r, mode) PROVE buffers' = buffers
  BY <1>3 DEF Revoke, HardRevoke, SoftRevoke
<1>4. CASE Operation
  BY <1>1, <1>2, <1>3, <1>4
  DEF Operation, SetAuthority, AdvanceEpoch, NoteParticipantRestart, AddBackend,
      CreateProtectionDomain, DestroyProtectionDomain, AcquireLease, ReleaseLease,
      RotateKey, RegisterBufferReuse, ValidateRemoteAccess
<1>5. ASSUME NEW t \in Threads, Begin(t) \/ Continue(t) PROVE buffers' = buffers
  BY <1>5
  DEF Begin, Continue, RegisterAdmit, DeregisterBegin, RegisterCommit, DeregisterFail,
      DeregisterFinish, Erase, BackendRefuses, BackendNumbers, BackendStores, BackendReleases,
      BackendReleaseFails
<1>6. DeviceEvent \/ UNCHANGED vars => buffers' = buffers
  BY DEF DeviceEvent, vars, registryVars
<1>. QED  BY <1>1, <1>4, <1>5, <1>6 DEF Next

LEMMA TablesStep ==
    ASSUME TablesTyped, [Next]_vars
    PROVE  TablesTyped'
BY TypeStep, CallsStep, NamesKept DEF TablesTyped

(* recover, whatever the file holds.                                       *)
LEMMA TablesRecovered ==
    ASSUME TablesTyped, FilesWhole, NEW s \in Savers, RecoverInstall(s)
    PROVE  TablesTyped'
<1>1. PICK snap, I : snap = saver[s].file.snap /\ I = NewBuffers(snap)
  OBVIOUS
<1>2. TypeOK /\ BuffersRecovered(snap, I) /\ RegsRecovered(snap)
  BY <1>1, RecoverAdds, RecoverReplaces DEF TablesTyped
<1>3. \A i \in DOMAIN snap.buffers : snap.buffers[i] \in [id : BufIds, gen : Nat, len : Nat]
  <2>. DEFINE T == [id : BufIds, gen : Nat, len : Nat]
  <2>1. snap.buffers \in Seq(T)
    BY <1>2 DEF BuffersRecovered, Saveable
  <2>. HIDE DEF T
  <2>2. \A i \in DOMAIN snap.buffers : snap.buffers[i] \in T
    BY <2>1, ListDomain
  <2>. QED  BY <2>2 DEF T
<1>4. \A b \in BufIds :
          \/ buffers'[b] = buffers[b]
          \/ \E i \in I : buffers'[b] = [made |-> TRUE, id |-> snap.buffers[i].id,
                                         gen |-> snap.buffers[i].gen,
                                         len |-> snap.buffers[i].len]
  BY <1>2 DEF BuffersRecovered
<1>5. \A i \in I : /\ snap.buffers[i].id \in BufIds /\ snap.buffers[i].gen \in Nat
                   /\ snap.buffers[i].len \in Nat
  BY <1>2, <1>3 DEF BuffersRecovered
<1>6. \A b \in BufIds : buffers'[b] \in BufferEntry /\ buffers'[b].id \in BufIds
  <2>1. ASSUME NEW b \in BufIds, NEW i \in I,
               buffers'[b] = [made |-> TRUE, id |-> snap.buffers[i].id,
                              gen |-> snap.buffers[i].gen, len |-> snap.buffers[i].len]
        PROVE  buffers'[b] \in BufferEntry /\ buffers'[b].id \in BufIds
    BY <1>5, <2>1 DEF BufferEntry, BufIds
  <2>2. \A b \in BufIds : buffers[b] \in BufferEntry /\ buffers[b].id \in BufIds
    BY DEF TablesTyped, TypeOK, BuffersNamed
  <2>. QED  BY <1>4, <2>1, <2>2
<1>7. buffers' \in [BufIds -> BufferEntry]
  <2>1. buffers' = [b \in BufIds |-> buffers'[b]]
    BY DEF RecoverInstall
  <2>. QED  BY <1>6, <2>1
<1>8. domains' \in [DomainIds -> DomainStates]
  BY <1>2 DEF RecoverInstall, TypeOK, DomainStates
<1>9. acct' \in Gauges
  <2>1. PICK n : n = Cardinality(NewDomains(snap))
    OBVIOUS
  <2>2. n \in Nat
    <3>1. NewDomains(snap) \in SUBSET DomainIds
      <4>1. \A i \in DOMAIN snap.domains : snap.domains[i] \in DomainIds
        BY <1>2, ListDomain DEF BuffersRecovered, Saveable
      <4>. QED  BY <4>1 DEF NewDomains, Range
    <3>2. IsFiniteSet(DomainIds)
      BY FS_Interval, RegistryAssumption DEF RegistryAssumption, DomainIds
    <3>. QED  BY <2>1, <3>1, <3>2, FS_Subset, FS_CardinalityType
  <2>3. acct'.buffers \in Nat /\ acct'.live \in Nat
    <3>1. Cardinality(I) \in Nat /\ TotalLen(snap.buffers, I) \in Nat
      BY <1>2, <1>5, FS_CardinalityType, TotalNat DEF BuffersRecovered
    <3>. QED  BY <1>2, <3>1 DEF BuffersRecovered, TypeOK, Gauges
  <2>4. PICK m, l : acct' = [acct EXCEPT !.buffers = m, !.live = l, !.domains = acct.domains + n]
    BY <1>1, <2>1 DEF RecoverInstall
  <2>5. acct \in Gauges
    BY <1>2 DEF TypeOK
  <2>6. m \in Nat /\ l \in Nat
    BY <2>3, <2>4, <2>5 DEF Gauges
  <2>7. acct.domains + n \in Nat
    BY <2>2, <2>5 DEF Gauges
  <2>. QED  BY <2>4, <2>5, <2>6, <2>7 DEF Gauges
<1>10. authority' \in AuthorityFacts
  BY <1>1, <1>2 DEF RecoverInstall, BuffersRecovered, Saveable
<1>11. TypeOK'
  BY <1>2, <1>7, <1>8, <1>9, <1>10, BackendUnchangedTyped
  DEF RecoverInstall, RegsRecovered, TypeOK
<1>12. CallsInRange'
  BY DEF RecoverInstall, TablesTyped, CallsInRange
<1>. QED  BY <1>6, <1>11, <1>12 DEF TablesTyped, BuffersNamed

(* A new process starts with what the old one started with.                *)
LEMMA TablesAfterCrash ==
    ASSUME TablesTyped, Crash
    PROVE  TablesTyped'
<1>1. CallsInRange' /\ BuffersNamed'
  BY RegistryAssumption
  DEF Crash, CallsInRange, BuffersNamed, NoCall, RegisterPoints, NoBuffer, BufIds,
      RegistryAssumption
<1>2. /\ TypeOK /\ acct \in Gauges /\ stats \in Counters /\ next \in NextIds
      /\ device \in DeviceGenerations
  BY DEF TablesTyped, TypeOK, BackendTypeOK
<1>3. acct' \in Gauges /\ stats' \in Counters /\ next' \in NextIds
  BY <1>2 DEF Crash, Gauges, Counters, NextIds
<1>4. BackendTypeOK'
  BY <1>2, EmptyTyped DEF Crash, BackendTypeOK, DeviceGenerations
<1>5. domains' \in [DomainIds -> DomainStates]
  BY DEF Crash, DomainStates
<1>6. TypeOK'
  BY <1>3, <1>4, <1>5, EmptyTyped DEF Crash, TypeOK
<1>. QED  BY <1>1, <1>6 DEF TablesTyped

------------------------------------------------------------------------------
(* The bytes of the buffers, across restarts.                              *)

LEMMA TypedBytes == TypeOK => BytesTyped
BY DEF TypeOK, BytesTyped, Gauges

(* What recover adds joins what is there: the ids are new and no two of    *)
(* them are equal.                                                         *)
LEMMA BytesRecovered ==
    ASSUME TablesTyped, FilesWhole, LiveBytesExact, NEW s \in Savers, RecoverInstall(s)
    PROVE  LiveBytesExact'
<1>1. PICK snap, I, M, more, all, tbl :
          /\ snap = saver[s].file.snap /\ I = NewBuffers(snap) /\ M = MadeBuffers
          /\ more = snap.buffers /\ all = buffers' /\ tbl = buffers
  OBVIOUS
<1>2. TypeOK /\ BuffersRecovered(snap, I)
  BY <1>1, RecoverAdds DEF TablesTyped
<1>3. /\ IsFiniteSet(M) /\ Cardinality(M) \in Nat
      /\ acct.buffers = Cardinality(M) /\ acct.live = TotalLen(tbl, M)
      /\ \A x \in M : tbl[x].len \in Nat
  BY <1>1, <1>2, TypedBytes, MadeFinite, LiveBytesAreTotal DEF BytesCounted
<1>4. /\ IsFiniteSet(I) /\ I \subseteq DOMAIN more
      /\ \A i \in I : more[i].id \in BufIds /\ more[i].id \notin M
      /\ \A b \in BufIds : (\A i \in I : more[i].id # b) => all[b] = tbl[b]
  BY <1>1, <1>2 DEF BuffersRecovered, MadeBuffers
<1>8. \A i \in I : all[more[i].id].made /\ all[more[i].id].len = more[i].len
  <2>1. \A i \in I : all[more[i].id] = [made |-> TRUE, id |-> more[i].id,
                                        gen |-> more[i].gen, len |-> more[i].len]
    BY <1>1, <1>2 DEF BuffersRecovered
  <2>2. ASSUME NEW i \in I
        PROVE  all[more[i].id].made /\ all[more[i].id].len = more[i].len
    <3>1. PICK e, m : e = all[more[i].id] /\ m = more[i]
      OBVIOUS
    <3>2. e = [made |-> TRUE, id |-> m.id, gen |-> m.gen, len |-> m.len]
      BY <2>1, <3>1
    <3>3. e.made /\ e.len = m.len
      BY ONLY <3>2
    <3>. QED  BY ONLY <3>1, <3>3
  <2>. QED  BY <2>2
<1>5. \A i, j \in I : more[i].id = more[j].id => i = j
  BY <1>1, <1>2, <1>4 DEF BuffersRecovered, NoRepeats
<1>6. \A i \in I : more[i].len \in Nat
  <2>. DEFINE T == [id : BufIds, gen : Nat, len : Nat]
  <2>1. more \in Seq(T)
    BY <1>1, <1>2 DEF BuffersRecovered, Saveable
  <2>2. \A x \in T : x.len \in Nat
    OBVIOUS
  <2>. HIDE DEF T
  <2>. QED  BY <1>4, <2>1, <2>2, ListDomain
<1>7. \A x \in M : tbl[x].len \in Nat /\ all[x].len = tbl[x].len
  <2>1. M \subseteq BufIds
    BY <1>1 DEF MadeBuffers
  <2>2. \A x \in M : all[x] = tbl[x]
    BY <1>4, <2>1
  <2>. QED  BY <1>3, <2>2
<1>9. /\ Cardinality(M \cup Filed(more, I)) = Cardinality(M) + Cardinality(I)
      /\ TotalLen(all, M \cup Filed(more, I)) = TotalLen(tbl, M) + TotalLen(more, I)
  <2>1. \A i \in I : /\ more[i].len \in Nat /\ all[more[i].id].len = more[i].len
                     /\ more[i].id \notin M
    BY <1>4, <1>6, <1>8
  <2>2. IsFiniteSet(M) /\ IsFiniteSet(I)
    BY <1>3, <1>4
  <2>3. Joinable(tbl, all, more, M, I)
    BY ONLY <1>5, <1>7, <2>1, <2>2 DEF Joinable
  <2>. QED  BY <2>3, TotalJoin
<1>10. MadeBuffers' = M \cup Filed(more, I)
  <2>1. M = {b \in BufIds : tbl[b].made} /\ MadeBuffers' = {b \in BufIds : all[b].made}
    BY <1>1 DEF MadeBuffers
  <2>2. ASSUME NEW b \in BufIds, NEW i \in I, more[i].id = b PROVE all[b].made
    BY <1>8, <2>2
  <2>3. ASSUME NEW b \in BufIds, \A i \in I : more[i].id # b
        PROVE  all[b].made <=> b \in M
    <3>1. all[b] = tbl[b]
      BY <1>4, <2>3
    <3>. QED  BY <2>1, <3>1
  <2>4. \A b \in BufIds : b \in M => all[b].made
    BY <1>4, <2>3
  <2>5. \A b \in BufIds : all[b].made <=> b \in M \/ b \in Filed(more, I)
    BY <2>2, <2>3, <2>4 DEF Filed
  <2>6. Filed(more, I) \subseteq BufIds
    BY <1>4 DEF Filed
  <2>. QED  BY <2>1, <2>5, <2>6
<1>11. acct'.buffers = acct.buffers + Cardinality(I) /\ acct'.live = acct.live + TotalLen(more, I)
  BY <1>1, <1>2 DEF BuffersRecovered
<1>12. BytesCounted'
  BY <1>1, <1>3, <1>9, <1>10, <1>11 DEF BytesCounted
<1>. QED  BY <1>12, LiveBytesNext

LEMMA BytesAfterCrash ==
    ASSUME TablesTyped, Crash
    PROVE  LiveBytesExact'
<1>1. MadeBuffers' = {}
  BY DEF Crash, MadeBuffers, NoBuffer
<1>2. acct'.buffers = 0 /\ acct'.live = 0
  BY DEF Crash, TablesTyped, TypeOK, Gauges
<1>3. TotalLen(buffers', {}) = 0
  BY TotalEmpty
<1>4. BytesCounted'
  BY <1>1, <1>2, <1>3, FS_EmptySet DEF BytesCounted
<1>. QED  BY <1>4, LiveBytesNext

(* What any number of threads keep.                                        *)
RestartInv == TablesTyped /\ FilesWhole /\ LiveBytesExact

LEMMA RestartInit == PersistenceInit => RestartInv
<1>. SUFFICES ASSUME PersistenceInit PROVE RestartInv
  OBVIOUS
<1>1. TypeOK /\ CallsInRange /\ FilesWhole
  BY InvInit, FilesWholeInit DEF PersistenceInit, Inv
<1>2. BuffersNamed
  BY RegistryAssumption
  DEF PersistenceInit, Init, BuffersNamed, NoBuffer, BufIds, RegistryAssumption
<1>3. LiveBytesExact
  <2>1. MadeBuffers = {} /\ acct.buffers = 0 /\ acct.live = 0
    BY DEF PersistenceInit, Init, MadeBuffers, NoBuffer
  <2>2. TotalLen(buffers, {}) = 0
    BY TotalEmpty
  <2>3. BytesCounted
    BY <2>1, <2>2, FS_EmptySet DEF BytesCounted
  <2>. QED  BY <2>3, LiveBytesAreTotal
<1>. QED  BY <1>1, <1>2, <1>3 DEF RestartInv, TablesTyped

LEMMA RestartStep ==
    ASSUME RestartInv, [PersistenceNext]_persistenceVars
    PROVE  RestartInv'
<1>0. TablesTyped /\ FilesWhole /\ LiveBytesExact /\ BytesTyped
  BY TypedBytes DEF RestartInv, TablesTyped
<1>1. ASSUME [Next]_vars PROVE TablesTyped' /\ LiveBytesExact'
  BY <1>0, <1>1, TablesStep, BytesStep
<1>2. UNCHANGED filesVars => FilesWhole'
  BY <1>0 DEF filesVars, FilesWhole, FilesOver
<1>3. ASSUME NEW s \in Savers, NEW snap \in Captured, SaveCapture(s, snap) PROVE FilesWhole'
  BY <1>0, <1>3, CaptureWhole DEF TablesTyped
<1>4. ASSUME NEW s \in Savers, FileStep(s) PROVE FilesWhole'
  BY <1>0, <1>4, FilesWholeKept
<1>5. ASSUME NEW s \in Savers, RecoverInstall(s) PROVE RestartInv'
  <2>1. GiveUp(s)
    BY <1>5 DEF RecoverInstall, RecoverAccepted
  <2>2. FilesWhole'
    BY <1>0, <2>1, FilesWholeKept
  <2>. QED  BY <1>0, <1>5, <2>2, TablesRecovered, BytesRecovered DEF RestartInv
<1>6. CASE Crash
  <2>1. FilesWhole'
    BY <1>0, <1>6, FilesWholeAfterCrash DEF Crash
  <2>. QED  BY <1>0, <1>6, <2>1, TablesAfterCrash, BytesAfterCrash DEF RestartInv
<1>. QED
  BY <1>1, <1>2, <1>3, <1>4, <1>5, <1>6 DEF PersistenceNext, persistenceVars, RestartInv

THEOREM RestartInvHolds == PersistenceSpec => []RestartInv
<1>. QED  BY RestartInit, RestartStep, PTL DEF PersistenceSpec

(* Whatever a file brings back, wherever the process died before, the      *)
(* tables hold values of their types: what parse accepts is fit to install *)
(* (registry.cpp:916-959).                                                 *)
THEOREM TypedAcrossRestarts == PersistenceSpec => []TypeOK
<1>1. RestartInv => TypeOK
  BY DEF RestartInv, TablesTyped
<1>. QED  BY <1>1, RestartInvHolds, PTL

(* live_buffer_bytes stays the sum of the lengths of the buffers there are *)
(* when recover adds those of a file to those of the table, several times  *)
(* or with others registering meanwhile: a buffer that is there already is *)
(* not counted again, and no file that parse accepts names one twice       *)
(* (registry.cpp:917-925, persistence.cpp:419-425).                        *)
THEOREM BytesExactAcrossRestarts == PersistenceSpec => []LiveBytesExact
<1>1. RestartInv => LiveBytesExact
  BY DEF RestartInv
<1>. QED  BY <1>1, RestartInvHolds, PTL

------------------------------------------------------------------------------
(* What recover brings back.                                               *)

(* What is in force, and what a call is about to bring into force, has a   *)
(* handle that the backend of this process has issued.                     *)
RecordFieldsThere == \A r \in RegIds : {"life", "handle"} \subseteq DOMAIN regs[r]

CallsNumbered ==
    /\ DOMAIN call = Threads
    /\ \A t \in Threads : {"pc", "handle"} \subseteq DOMAIN call[t]
    /\ \A t \in Threads : call[t].pc = "numbered" => call[t].handle = nextSeq
    /\ \A t \in Threads : call[t].pc = "stored" => call[t].handle \in 1 .. nextSeq - 1

HandlesIssued ==
    /\ nextSeq \in Nat \ {0}
    /\ DOMAIN regs = RegIds /\ RecordFieldsThere
    /\ CallsNumbered
    /\ NothingLiveRecovered

(* No step but a commit brings a record into force or changes a handle of  *)
(* one that is.                                                            *)
Lowered(old, new) ==
    /\ {"life", "handle"} \subseteq DOMAIN new
    /\ new.life \in {"ACTIVE", "REGISTERED"} =>
          old.life \in {"ACTIVE", "REGISTERED"} /\ new.handle = old.handle

LEMMA Lowerings ==
    ASSUME NEW rec, {"life", "handle"} \subseteq DOMAIN rec
    PROVE  /\ Lowered(rec, rec) /\ Lowered(rec, NoRecord)
           /\ \A l : l \notin {"ACTIVE", "REGISTERED"} =>
                 /\ Lowered(rec, [rec EXCEPT !.life = l])
                 /\ \A f : Lowered(rec, [rec EXCEPT !.life = l, !.fresh = f])
           /\ \A k, v : Lowered(rec, [rec EXCEPT !.keyGen = k, !.keyRevoked = v])
           /\ \A n : Lowered(rec, [rec EXCEPT !.leases = n])
           /\ Lowered(rec, Revoked(rec))
<1>1. Lowered(rec, rec) /\ Lowered(rec, NoRecord)
  BY DEF Lowered, NoRecord
<1>2. ASSUME NEW l, l \notin {"ACTIVE", "REGISTERED"}
      PROVE  /\ Lowered(rec, [rec EXCEPT !.life = l])
             /\ \A f : Lowered(rec, [rec EXCEPT !.life = l, !.fresh = f])
  BY <1>2 DEF Lowered
<1>3. \A k, v : Lowered(rec, [rec EXCEPT !.keyGen = k, !.keyRevoked = v])
  BY DEF Lowered
<1>4. \A n : Lowered(rec, [rec EXCEPT !.leases = n])
  BY DEF Lowered
<1>5. Lowered(rec, Revoked(rec))
  BY DEF Lowered, Revoked
<1>. QED  BY <1>1, <1>2, <1>3, <1>4, <1>5

(* Records that are lowered stay numbered as the calls are.                *)
LEMMA LoweredKeeps ==
    ASSUME HandlesIssued, DOMAIN regs' = RegIds, nextSeq' = nextSeq, CallsNumbered',
           \A r \in RegIds : Lowered(regs[r], regs'[r])
    PROVE  HandlesIssued'
BY DEF HandlesIssued, RecordFieldsThere, NothingLiveRecovered, InForce, Lowered

(* One record is changed.                                                  *)
LEMMA OneLowered ==
    ASSUME HandlesIssued, NEW n, NEW new, regs' = [regs EXCEPT ![n] = new],
           n \in RegIds => Lowered(regs[n], new)
    PROVE  DOMAIN regs' = RegIds /\ \A r \in RegIds : Lowered(regs[r], regs'[r])
<1>1. DOMAIN regs = RegIds /\ \A r \in RegIds : Lowered(regs[r], regs[r])
  BY Lowerings DEF HandlesIssued, RecordFieldsThere
<1>2. DOMAIN regs' = RegIds /\ \A r \in RegIds : r # n => regs'[r] = regs[r]
  BY <1>1
<1>3. n \in RegIds => regs'[n] = new
  BY <1>1
<1>. QED  BY ONLY <1>1, <1>2, <1>3, n \in RegIds => Lowered(regs[n], new)

(* An operation of one critical section issues no handle.                  *)
LEMMA OperationIssues ==
    ASSUME HandlesIssued, Operation
    PROVE  HandlesIssued'
<1>0. DOMAIN regs = RegIds /\ \A r \in RegIds : {"life", "handle"} \subseteq DOMAIN regs[r]
  BY DEF HandlesIssued, RecordFieldsThere
<1>1. nextSeq' = nextSeq /\ call' = call
  BY DEF Operation, SetAuthority, AdvanceEpoch, NoteParticipantRestart, AddBackend,
         CreateProtectionDomain, DestroyProtectionDomain, CreateBuffer, CreateNewBuffer,
         ReallocateBuffer, CreateRefused, AcquireLease, ReleaseLease, Revoke, HardRevoke,
         SoftRevoke, RotateKey, BackendRotate, RegisterBufferReuse, ValidateRemoteAccess,
         backendVars
<1>2. CallsNumbered'
  BY <1>1 DEF HandlesIssued, CallsNumbered
<1>3. ASSUME DOMAIN regs' = RegIds, \A r \in RegIds : Lowered(regs[r], regs'[r])
      PROVE  HandlesIssued'
  BY <1>1, <1>2, <1>3, LoweredKeeps
<1>4. UNCHANGED regs => HandlesIssued'
  BY <1>0, <1>3, Lowerings
<1>5. ASSUME NEW p \in DomainIds, DestroyProtectionDomain(p) PROVE HandlesIssued'
  <2>1. /\ DOMAIN regs' = RegIds
        /\ \A r \in RegIds :
              \/ regs'[r] = regs[r]
              \/ regs'[r] = [regs[r] EXCEPT !.life = "REVOKED", !.fresh = "STALE"]
    BY <1>5 DEF DestroyProtectionDomain
  <2>2. \A r \in RegIds :
            /\ Lowered(regs[r], regs[r])
            /\ Lowered(regs[r], [regs[r] EXCEPT !.life = "REVOKED", !.fresh = "STALE"])
    BY <1>0, Lowerings
  <2>3. \A r \in RegIds : Lowered(regs[r], regs'[r])
    BY ONLY <2>1, <2>2
  <2>. QED  BY <1>3, <2>1, <2>3
<1>6. ASSUME NEW d \in Descriptors, CreateBuffer(d) PROVE HandlesIssued'
  <2>1. CASE ReallocateBuffer(d)
    <3>1. /\ DOMAIN regs' = RegIds
          /\ \A r \in RegIds :
                \/ regs'[r] = regs[r]
                \/ regs'[r] = [regs[r] EXCEPT !.life = "STALE", !.fresh = "STALE"]
      BY <2>1 DEF ReallocateBuffer
    <3>2. \A r \in RegIds :
              /\ Lowered(regs[r], regs[r])
              /\ Lowered(regs[r], [regs[r] EXCEPT !.life = "STALE", !.fresh = "STALE"])
      BY <1>0, Lowerings
    <3>3. \A r \in RegIds : Lowered(regs[r], regs'[r])
      BY ONLY <3>1, <3>2
    <3>. QED  BY <1>3, <3>1, <3>3
  <2>2. CASE CreateNewBuffer(d) \/ CreateRefused(d)
    BY <1>4, <2>2 DEF CreateNewBuffer, CreateRefused
  <2>. QED  BY <1>6, <2>1, <2>2 DEF CreateBuffer
<1>7. ASSUME NEW r \in RegIds, NEW new, regs' = [regs EXCEPT ![r] = new],
             Lowered(regs[r], new)
      PROVE  HandlesIssued'
  BY <1>3, <1>7, OneLowered
<1>8. ASSUME NEW r \in RegIds, NEW env \in Envelopes, NEW m \in LeaseMasks,
             AcquireLease(r, env, m)
      PROVE  HandlesIssued'
  <2>1. regs' = [regs EXCEPT ![r] = [regs[r] EXCEPT !.leases = regs[r].leases + 1]]
    BY <1>8 DEF AcquireLease
  <2>. QED  BY <1>0, <1>7, <2>1, Lowerings
<1>9. ASSUME NEW l \in LeaseIds, ReleaseLease(l) PROVE HandlesIssued'
  <2>1. PICK r : r = leases[l].reg
    OBVIOUS
  <2>2. CASE ~Present(r)
    BY <1>4, <1>9, <2>1, <2>2 DEF ReleaseLease
  <2>3. CASE Present(r)
    <3>1. r \in RegIds
      BY <2>3 DEF Present
    <3>2. regs' = [regs EXCEPT ![r] = [regs[r] EXCEPT !.leases = Decrement(regs[r].leases, 1)]]
      BY <1>9, <2>1, <2>3 DEF ReleaseLease
    <3>. QED  BY <1>0, <1>7, <3>1, <3>2, Lowerings
  <2>. QED  BY <2>2, <2>3
<1>10. ASSUME NEW r \in RegIds, NEW mode \in RevocationModes, Revoke(r, mode)
       PROVE  HandlesIssued'
  <2>1. CASE HardRevoke(r)
    <3>1. regs' = [regs EXCEPT ![r] = Revoked(regs[r])]
      BY <2>1 DEF HardRevoke
    <3>. QED  BY <1>0, <1>7, <3>1, Lowerings
  <2>2. CASE SoftRevoke(r)
    <3>1. PICK l \in {"REVOKED", "REVOKING"} :
             regs' = [regs EXCEPT ![r] = [regs[r] EXCEPT !.life = l, !.fresh = "STALE"]]
      BY <2>2 DEF SoftRevoke
    <3>. QED  BY <1>0, <1>7, <3>1, Lowerings
  <2>. QED  BY <1>10, <2>1, <2>2 DEF Revoke
<1>11. ASSUME NEW r \in RegIds, RotateKey(r) PROVE HandlesIssued'
  <2>1. regs' = [regs EXCEPT ![r] =
                    [regs[r] EXCEPT !.keyGen = regs[r].keyGen + 1, !.keyRevoked = FALSE]]
    BY <1>0, <1>11 DEF RotateKey
  <2>. QED  BY <1>0, <1>7, <2>1, Lowerings
<1>12. \/ \E s \in Snapshots : SetAuthority(s)
       \/ AdvanceEpoch
       \/ NoteParticipantRestart
       \/ AddBackend
       \/ CreateProtectionDomain
       \/ \E d \in Descriptors, p \in DomainIds, env \in Envelopes :
              RegisterBufferReuse(d, p, env)
       \/ \E q \in Requests : ValidateRemoteAccess(q)
       => UNCHANGED regs
  BY DEF SetAuthority, AdvanceEpoch, NoteParticipantRestart, AddBackend,
         CreateProtectionDomain, RegisterBufferReuse, ValidateRemoteAccess
<1>. QED  BY <1>4, <1>5, <1>6, <1>8, <1>9, <1>10, <1>11, <1>12 DEF Operation

(* With one caller the number a call has read is the one it stores: the    *)
(* handle it publishes has been issued, and no later one.                  *)
LEMMA CallIssues ==
    ASSUME \A t, u \in Threads : t = u, HandlesIssued, NEW t \in Threads,
           Begin(t) \/ Continue(t)
    PROVE  HandlesIssued'
<1>0. /\ DOMAIN regs = RegIds /\ \A r \in RegIds : {"life", "handle"} \subseteq DOMAIN regs[r]
      /\ DOMAIN call = Threads /\ {"pc", "handle"} \subseteq DOMAIN call[t]
      /\ nextSeq \in Nat \ {0}
      /\ \A u \in Threads : u = t
      /\ call[t].pc = "numbered" => call[t].handle = nextSeq
      /\ call[t].pc = "stored" => call[t].handle \in 1 .. nextSeq - 1
      /\ NothingLiveRecovered
  BY DEF HandlesIssued, CallsNumbered, RecordFieldsThere
<1>1. ASSUME NEW c, call' = [call EXCEPT ![t] = c], {"pc", "handle"} \subseteq DOMAIN c,
             c.pc = "numbered" => c.handle = nextSeq',
             c.pc = "stored" => c.handle \in 1 .. nextSeq' - 1
      PROVE  CallsNumbered'
  <2>1. DOMAIN call' = Threads /\ call'[t] = c
    BY <1>0, <1>1
  <2>. QED  BY <1>0, <1>1, <2>1 DEF CallsNumbered
<1>2. ASSUME nextSeq' = nextSeq, NEW c, call' = [call EXCEPT ![t] = c],
             {"pc", "handle"} \subseteq DOMAIN c, c.pc \notin {"numbered", "stored"},
             DOMAIN regs' = RegIds, \A r \in RegIds : Lowered(regs[r], regs'[r])
      PROVE  HandlesIssued'
  BY <1>1, <1>2, LoweredKeeps
<1>3. {"pc", "handle"} \subseteq DOMAIN NoCall /\ NoCall.pc = "idle"
  BY DEF NoCall
<1>4. DOMAIN regs = RegIds /\ \A r \in RegIds : Lowered(regs[r], regs[r])
  BY <1>0, Lowerings
<1>5. ASSUME NEW d \in Descriptors, NEW p \in DomainIds, NEW env \in Envelopes,
             RegisterAdmit(t, d, p, env)
      PROVE  HandlesIssued'
  <2>1. PICK c : c = [pc |-> "admitted", reg |-> next.reg, desc |-> d, dom |-> p,
                      bgen |-> device.backend, boot |-> env.boot,
                      epoch |-> authority.epoch, handle |-> 0]
    OBVIOUS
  <2>2. {"pc", "handle"} \subseteq DOMAIN c /\ c.pc = "admitted"
    BY <2>1
  <2>3. call' = [call EXCEPT ![t] = c] /\ nextSeq' = nextSeq /\ regs' = regs
    BY <1>5, <2>1 DEF RegisterAdmit, backendVars
  <2>. QED  BY <1>2, <1>4, <2>2, <2>3
<1>6. CASE BackendRefuses(t)
  <2>1. call' = [call EXCEPT ![t] = NoCall] /\ nextSeq' = nextSeq /\ regs' = regs
    BY <1>6 DEF BackendRefuses, backendVars
  <2>. QED  BY <1>2, <1>3, <1>4, <2>1
<1>7. CASE BackendNumbers(t)
  <2>1. PICK c : c = [call[t] EXCEPT !.pc = "numbered", !.handle = nextSeq]
    OBVIOUS
  <2>2. {"pc", "handle"} \subseteq DOMAIN c /\ c.pc = "numbered" /\ c.handle = nextSeq
    BY <1>0, <2>1
  <2>3. call' = [call EXCEPT ![t] = c] /\ nextSeq' = nextSeq /\ regs' = regs
    BY <1>0, <1>7, <2>1 DEF BackendNumbers, backendVars
  <2>4. CallsNumbered'
    BY <1>1, <2>2, <2>3
  <2>. QED  BY <1>4, <2>3, <2>4, LoweredKeeps
<1>8. CASE BackendStores(t)
  <2>1. PICK c : c = [call[t] EXCEPT !.pc = "stored"]
    OBVIOUS
  <2>2. /\ {"pc", "handle"} \subseteq DOMAIN c /\ c.pc = "stored" /\ c.handle = call[t].handle
        /\ call' = [call EXCEPT ![t] = c] /\ regs' = regs /\ nextSeq' = nextSeq + 1
        /\ c.handle = nextSeq
    BY <1>0, <1>8, <2>1 DEF BackendStores, BackendStore
  <2>3. nextSeq' \in Nat \ {0} /\ c.handle \in 1 .. nextSeq' - 1
    BY <1>0, <2>2
  <2>4. CallsNumbered'
    BY <1>1, <2>2, <2>3
  <2>5. NothingLiveRecovered'
    BY <1>0, <2>2 DEF NothingLiveRecovered, InForce
  <2>. QED  BY <1>0, <2>2, <2>3, <2>4, <2>5 DEF HandlesIssued, RecordFieldsThere
<1>9. CASE RegisterCommit(t)
  <2>1. /\ call' = [call EXCEPT ![t] = NoCall] /\ nextSeq' = nextSeq
        /\ call[t].pc = "stored"
    BY <1>9 DEF RegisterCommit, backendVars
  <2>2. PICK n, rec :
            /\ regs' = [regs EXCEPT ![n] = rec]
            /\ {"life", "handle"} \subseteq DOMAIN rec /\ rec.handle = call[t].handle
    <3>1. PICK c, rec1 :
              /\ c = call[t]
              /\ rec1 = [life |-> "ACTIVE", fresh |-> "VALID", desc |-> c.desc,
                         dom |-> c.dom, bgen |-> c.bgen, handle |-> c.handle,
                         keyGen |-> 1, keyRevoked |-> FALSE, boot |-> c.boot,
                         epoch |-> c.epoch, leases |-> 0]
      OBVIOUS
    <3>2. regs' = [regs EXCEPT ![c.reg] = rec1]
      BY <1>9, <3>1 DEF RegisterCommit
    <3>3. {"life", "handle"} \subseteq DOMAIN rec1 /\ rec1.handle = call[t].handle
      BY <3>1
    <3>. QED  BY ONLY <3>2, <3>3, Zenon
  <2>3. CallsNumbered'
    BY <1>1, <1>3, <2>1
  <2>4. /\ DOMAIN regs' = RegIds
        /\ \A r \in RegIds : regs'[r] = rec \/ regs'[r] = regs[r]
    BY <1>0, <2>2
  <2>5. NothingLiveRecovered'
    BY <1>0, <2>1, <2>2, <2>4 DEF NothingLiveRecovered, InForce
  <2>. QED  BY <1>0, <2>1, <2>2, <2>3, <2>4, <2>5 DEF HandlesIssued, RecordFieldsThere
<1>10. ASSUME NEW r \in RegIds, DeregisterBegin(t, r) PROVE HandlesIssued'
  <2>1. PICK c : c = [NoCall EXCEPT !.pc = "deregistering", !.reg = r,
                                    !.handle = regs[r].handle]
    OBVIOUS
  <2>2. {"pc", "handle"} \subseteq DOMAIN c /\ c.pc = "deregistering"
    BY <2>1 DEF NoCall
  <2>3. /\ call' = [call EXCEPT ![t] = c] /\ nextSeq' = nextSeq
        /\ regs' = [regs EXCEPT ![r] = [regs[r] EXCEPT !.life = "DEREGISTERING"]]
    BY <1>10, <2>1 DEF DeregisterBegin, backendVars
  <2>4. DOMAIN regs' = RegIds /\ \A q \in RegIds : Lowered(regs[q], regs'[q])
    BY <1>0, <2>3, OneLowered, Lowerings
  <2>. QED  BY <1>2, <2>2, <2>3, <2>4
<1>11. CASE BackendReleases(t) \/ BackendReleaseFails(t)
  <2>1. PICK l \in {"released", "refused"} : call' = [call EXCEPT ![t].pc = l]
    BY <1>11 DEF BackendReleases, BackendReleaseFails
  <2>2. PICK c : c = [call[t] EXCEPT !.pc = l]
    OBVIOUS
  <2>3. {"pc", "handle"} \subseteq DOMAIN c /\ c.pc = l
    BY <1>0, <2>2
  <2>4. call' = [call EXCEPT ![t] = c] /\ nextSeq' = nextSeq /\ regs' = regs
    BY <1>11, <2>1, <2>2 DEF BackendReleases, BackendReleaseFails, BackendDrop, backendVars
  <2>. QED  BY <1>2, <1>4, <2>3, <2>4
<1>12. CASE DeregisterFail(t)
  <2>1. call' = [call EXCEPT ![t] = NoCall] /\ nextSeq' = nextSeq
    BY <1>12 DEF DeregisterFail, backendVars
  <2>2. PICK n : n = call[t].reg
    OBVIOUS
  <2>3. regs' = regs \/ regs' = [regs EXCEPT ![n] = [regs[n] EXCEPT !.life = "FAILED"]]
    BY <1>12, <2>2 DEF DeregisterFail
  <2>4. DOMAIN regs' = RegIds /\ \A q \in RegIds : Lowered(regs[q], regs'[q])
    BY <1>0, <1>4, <2>3, OneLowered, Lowerings
  <2>. QED  BY <1>2, <1>3, <2>1, <2>4
<1>13. CASE DeregisterFinish(t)
  <2>1. /\ call' = [call EXCEPT ![t] = NoCall] /\ nextSeq' = nextSeq
        /\ regs' = [regs EXCEPT ![call[t].reg] = NoRecord] \/ regs' = regs
    BY <1>13 DEF DeregisterFinish, Erase, backendVars
  <2>2. DOMAIN regs' = RegIds /\ \A q \in RegIds : Lowered(regs[q], regs'[q])
    BY <1>0, <2>1, OneLowered, Lowerings
  <2>. QED  BY <1>2, <1>3, <2>1, <2>2
<1>. QED  BY <1>5, <1>6, <1>7, <1>8, <1>9, <1>10, <1>11, <1>12, <1>13 DEF Begin, Continue

(* recover installs no record that is in force.                            *)
LEMMA RecoverIssues ==
    ASSUME HandlesIssued, TypeOK, FilesWhole, NEW s \in Savers, RecoverInstall(s)
    PROVE  HandlesIssued'
<1>1. PICK snap : snap = saver[s].file.snap
  OBVIOUS
<1>2. RegsRecovered(snap)
  BY <1>1, RecoverReplaces
<1>3. nextSeq' = nextSeq /\ call' = call
  BY DEF RecoverInstall, backendVars
<1>4. CallsNumbered'
  BY <1>3 DEF HandlesIssued, CallsNumbered
<1>5. \A rec \in Record : /\ {"life", "handle"} \subseteq DOMAIN Recovered(rec)
                          /\ Recovered(rec).life = "REVALIDATION_REQUIRED"
  BY DEF Recovered, Logical, Record
<1>6. ASSUME NEW r \in RegIds PROVE Lowered(regs[r], regs'[r])
  <2>1. CASE \E i \in DOMAIN snap.regs : snap.regs[i].id = r
    <3>1. PICK i \in DOMAIN snap.regs :
             /\ snap.regs[i] \in [id : RegIds, gen : {RegistrationGeneration}, rec : Record]
             /\ regs'[r] = Recovered(snap.regs[i].rec)
      BY <1>2, <2>1 DEF RegsRecovered
    <3>2. snap.regs[i].rec \in Record
      BY <3>1
    <3>. QED  BY <1>5, <3>1, <3>2 DEF Lowered
  <2>2. CASE ~\E i \in DOMAIN snap.regs : snap.regs[i].id = r
    <3>1. regs'[r] = regs[r]
      BY <1>2, <2>2 DEF RegsRecovered
    <3>. QED  BY <3>1, Lowerings DEF HandlesIssued, RecordFieldsThere
  <2>. QED  BY <2>1, <2>2
<1>7. DOMAIN regs' = RegIds
  BY <1>2 DEF RegsRecovered
<1>. QED  BY <1>3, <1>4, <1>6, <1>7, LoweredKeeps

(* An empty table and a backend that has issued nothing.                   *)
Empty ==
    /\ nextSeq = 1 /\ regs = [r \in RegIds |-> NoRecord]
    /\ call = [t \in Threads |-> NoCall]

LEMMA EmptyIssues == Empty => HandlesIssued
BY DEF Empty, HandlesIssued, RecordFieldsThere, CallsNumbered, NothingLiveRecovered,
       InForce, NoRecord, NoCall

LEMMA IssuedStep ==
    ASSUME \A t, u \in Threads : t = u, RestartInv, HandlesIssued,
           [PersistenceNext]_persistenceVars
    PROVE  HandlesIssued'
<1>1. UNCHANGED vars => HandlesIssued'
  BY DEF vars, registryVars, backendVars, HandlesIssued, RecordFieldsThere,
         CallsNumbered, NothingLiveRecovered, InForce
<1>2. CASE Next
  <2>1. ASSUME DeviceEvent PROVE HandlesIssued'
    <3>1. nextSeq' = nextSeq /\ regs' = regs /\ call' = call
      BY <2>1 DEF DeviceEvent, registryVars, BackendEvent, BackendRevalidate,
                  RolloverBackend, RolloverTransport, RolloverNic, RestartBackend,
                  NumbersAfterRestart, Configure
    <3>. QED  BY <3>1 DEF HandlesIssued, RecordFieldsThere, CallsNumbered,
                          NothingLiveRecovered, InForce
  <2>. QED  BY <1>2, <2>1, OperationIssues, CallIssues DEF Next
<1>3. ASSUME NEW s \in Savers, RecoverInstall(s) PROVE HandlesIssued'
  BY <1>3, RecoverIssues DEF RestartInv, TablesTyped
<1>4. CASE Crash
  <2>1. /\ nextSeq' = 1 /\ regs' = [r \in RegIds |-> NoRecord]
        /\ call' = [t \in Threads |-> NoCall]
    BY <1>4 DEF Crash
  <2>. QED  BY <2>1 DEF HandlesIssued, RecordFieldsThere, CallsNumbered, NothingLiveRecovered,
                        InForce, NoRecord, NoCall
<1>. QED  BY <1>1, <1>2, <1>3, <1>4 DEF PersistenceNext, persistenceVars

(* Whatever a file says, whenever it is recovered and wherever the process *)
(* died before, no record of it grants anything: what is in force was      *)
(* registered with the backend of this very process (registry.cpp:849-863, *)
(* 930-952).  With a second caller the counter of the backend may go back, *)
(* below a handle that has been issued.                                    *)
THEOREM NothingComesBackLive ==
    ASSUME \A t, u \in Threads : t = u
    PROVE  PersistenceSpec => []NothingLiveRecovered
<1>1. PersistenceInit => HandlesIssued
  BY EmptyIssues DEF Empty, PersistenceInit, Init, BackendInit
<1>2. RestartInv /\ HandlesIssued /\ [PersistenceNext]_persistenceVars => HandlesIssued'
  BY IssuedStep
<1>3. HandlesIssued => NothingLiveRecovered
  BY DEF HandlesIssued
<1>. QED  BY <1>1, <1>2, <1>3, RestartInvHolds, PTL DEF PersistenceSpec

------------------------------------------------------------------------------
(* What recover installs is what save would copy again.                    *)

(* What any copy of the tables holds, but for the order of its lists and   *)
(* whether a key is dead.                                                  *)
Dead(item) == [item EXCEPT !.rec.keyRevoked = TRUE]

BufferCopy(b) == [id |-> buffers[b].id, gen |-> buffers[b].gen, len |-> buffers[b].len]
RegCopy(r) ==
    [id |-> r, gen |-> RegistrationGeneration,
     rec |-> [Logical(regs[r]) EXCEPT !.keyRevoked = TRUE]]

EssenceIs(e) ==
    /\ e.authority = authority
    /\ \A x : x \in e.buffers <=> \E b \in BufIds : buffers[b].made /\ x = BufferCopy(b)
    /\ \A x : x \in e.domains <=> x \in DomainIds /\ domains[x] # "ABSENT"
    /\ \A x : x \in e.regs <=> \E r \in RegIds : Present(r) /\ x = RegCopy(r)

LEMMA EssenceFields ==
    ASSUME NEW snap
    PROVE  /\ Essence(snap) = [authority |-> Essence(snap).authority,
                               buffers |-> Essence(snap).buffers,
                               domains |-> Essence(snap).domains,
                               regs |-> Essence(snap).regs]
           /\ Essence(snap).authority = snap.authority
           /\ \A x : x \in Essence(snap).buffers <=> \E i \in DOMAIN snap.buffers : x = snap.buffers[i]
           /\ \A x : x \in Essence(snap).domains <=> \E i \in DOMAIN snap.domains : x = snap.domains[i]
           /\ \A x : x \in Essence(snap).regs <=> \E i \in DOMAIN snap.regs : x = Dead(snap.regs[i])
BY DEF Essence, Range, Dead

(* Two such sets of lists are the same but for the order.                  *)
LEMMA EssenceOne ==
    \A one, two : EssenceIs(Essence(one)) /\ EssenceIs(Essence(two)) => Essence(one) = Essence(two)
<1>. SUFFICES ASSUME NEW one, NEW two, EssenceIs(Essence(one)), EssenceIs(Essence(two))
              PROVE  Essence(one) = Essence(two)
  OBVIOUS
<1>1. PICK e, f : e = Essence(one) /\ f = Essence(two)
  OBVIOUS
<1>2. EssenceIs(e) /\ EssenceIs(f)
  BY <1>1
<1>3. e.buffers = f.buffers /\ e.domains = f.domains /\ e.regs = f.regs
  <2>1. /\ \A x : x \in e.buffers <=> x \in f.buffers
        /\ \A x : x \in e.domains <=> x \in f.domains
        /\ \A x : x \in e.regs <=> x \in f.regs
    BY <1>2, Zenon DEF EssenceIs
  <2>. DEFINE Same(S, T) == \A x : x \in S <=> x \in T
  <2>2. \A S, T : Same(S, T) => S = T
    OBVIOUS
  <2>3. Same(e.buffers, f.buffers) /\ Same(e.domains, f.domains) /\ Same(e.regs, f.regs)
    BY <2>1
  <2>. HIDE DEF Same
  <2>. QED  BY <2>2, <2>3
<1>4. e.authority = f.authority
  BY <1>2 DEF EssenceIs
<1>5. /\ e = [authority |-> e.authority, buffers |-> e.buffers, domains |-> e.domains,
              regs |-> e.regs]
      /\ f = [authority |-> f.authority, buffers |-> f.buffers, domains |-> f.domains,
              regs |-> f.regs]
  BY <1>1, EssenceFields
<1>. QED  BY ONLY <1>1, <1>3, <1>4, <1>5

(* A record of the file with its key declared dead.                        *)
LEMMA DeadItem ==
    ASSUME NEW id, NEW rec \in Record
    PROVE  Dead([id |-> id, gen |-> RegistrationGeneration, rec |-> rec]) =
               [id |-> id, gen |-> RegistrationGeneration,
                rec |-> [rec EXCEPT !.keyRevoked = TRUE]]
<1>1. PICK item : item = [id |-> id, gen |-> RegistrationGeneration, rec |-> rec]
  OBVIOUS
<1>2. Dead(item) = [item EXCEPT !["rec"] = [item.rec EXCEPT !.keyRevoked = TRUE]]
  BY DEF Dead
<1>3. item.rec = rec /\ item.id = id /\ item.gen = RegistrationGeneration
  BY <1>1
<1>. QED  BY <1>1, <1>2, <1>3

LEMMA CopyEssence == TypeOK => \A snap \in Captured : EssenceIs(Essence(snap))
<1>. SUFFICES ASSUME TypeOK, NEW snap \in Captured PROVE EssenceIs(Essence(snap))
  OBVIOUS
<1>1. PICK bufs, recs, doms : CopiedBy(snap, bufs, recs, doms)
  BY CopiesOrdered
<1>2. ASSUME NEW S, IsFiniteSet(S), NEW f \in SetToSeqs(S)
      PROVE  \A x : x \in S <=> \E i \in DOMAIN f : x = f[i]
  BY <1>2, OrderNamesAll
<1>3. PICK B, R, D : /\ B = {b \in BufIds : buffers[b].made}
                     /\ R = {r \in RegIds : Present(r)}
                     /\ D = {p \in DomainIds : domains[p] # "ABSENT"}
  OBVIOUS
<1>4. /\ \A x : x \in B <=> \E i \in DOMAIN bufs : x = bufs[i]
      /\ \A x : x \in R <=> \E i \in DOMAIN recs : x = recs[i]
      /\ \A x : x \in D <=> \E i \in DOMAIN doms : x = doms[i]
  <2>1. /\ IsFiniteSet(B) /\ IsFiniteSet(R) /\ IsFiniteSet(D)
        /\ bufs \in SetToSeqs(B) /\ recs \in SetToSeqs(R) /\ doms \in SetToSeqs(D)
    BY <1>1, <1>3, TablesFinite DEF CopiedBy
  <2>. QED  BY <1>2, <2>1
<1>5. \A x : x \in Essence(snap).buffers <=> \E b \in BufIds : buffers[b].made /\ x = BufferCopy(b)
  <2>1. /\ DOMAIN snap.buffers = DOMAIN bufs
        /\ \A i \in DOMAIN bufs : snap.buffers[i] = BufferCopy(bufs[i])
    BY <1>1 DEF CopiedBy, SavedBuffers, BufferCopy
  <2>2. \A b : b \in B <=> b \in BufIds /\ buffers[b].made
    BY <1>3
  <2>3. \A x : x \in Essence(snap).buffers <=> \E i \in DOMAIN bufs : x = BufferCopy(bufs[i])
    <3>1. \A x : x \in Essence(snap).buffers <=> \E i \in DOMAIN snap.buffers : x = snap.buffers[i]
      BY EssenceFields
    <3>. QED  BY ONLY <2>1, <3>1
  <2>. QED  BY <1>4, <2>2, <2>3
<1>6. \A x : x \in Essence(snap).regs <=> \E r \in RegIds : Present(r) /\ x = RegCopy(r)
  <2>1. /\ DOMAIN snap.regs = DOMAIN recs
        /\ \A i \in DOMAIN recs : snap.regs[i] =
              [id |-> recs[i], gen |-> RegistrationGeneration, rec |-> Logical(regs[recs[i]])]
    BY <1>1 DEF CopiedBy, SavedRegs
  <2>2. \A r : r \in R <=> r \in RegIds /\ Present(r)
    BY <1>3
  <2>3. \A i \in DOMAIN recs : Logical(regs[recs[i]]) \in Record
    <3>1. \A i \in DOMAIN recs : recs[i] \in RegIds
      BY <1>4, <2>2
    <3>. QED  BY <3>1, LogicalAgain DEF TypeOK
  <2>4. \A i \in DOMAIN recs : Dead(snap.regs[i]) = RegCopy(recs[i])
    BY <2>1, <2>3, DeadItem DEF RegCopy
  <2>5. \A x : x \in Essence(snap).regs <=> \E i \in DOMAIN recs : x = RegCopy(recs[i])
    <3>1. \A x : x \in Essence(snap).regs <=> \E i \in DOMAIN snap.regs : x = Dead(snap.regs[i])
      BY EssenceFields
    <3>. QED  BY ONLY <2>1, <2>4, <3>1
  <2>. QED  BY <1>4, <2>2, <2>5
<1>7. \A x : x \in Essence(snap).domains <=> x \in DomainIds /\ domains[x] # "ABSENT"
  <2>1. \A x : x \in Essence(snap).domains <=> x \in D
    BY <1>1, <1>4, EssenceFields DEF CopiedBy
  <2>. QED  BY <1>3, <2>1
<1>8. Essence(snap).authority = authority
  BY <1>1, EssenceFields DEF CopiedBy
<1>. QED  BY <1>5, <1>6, <1>7, <1>8 DEF EssenceIs

LEMMA CopiesAlike ==
    TypeOK => \A snap \in Captured : \A other :
                  EssenceIs(Essence(other)) => Essence(snap) = Essence(other)
BY CopyEssence, EssenceOne

LEMMA CopiesAlikeNext ==
    (TypeOK => \A snap \in Captured : \A other :
                   EssenceIs(Essence(other)) => Essence(snap) = Essence(other))'
BY CopiesAlike, PTL

(* Into empty tables recover puts all of the file and nothing else.        *)
LEMMA RecoverRestores ==
    ASSUME TypeOK, FilesWhole, NEW s \in Savers, RecoverInstall(s), NothingYet
    PROVE  \E snap : snap = saver[s].file.snap /\ EssenceIs(Essence(snap))'
<1>1. PICK snap, I, J : /\ snap = saver[s].file.snap /\ I = NewBuffers(snap)
                        /\ J = DOMAIN snap.regs
  OBVIOUS
<1>2. BuffersRecovered(snap, I) /\ RegsRecovered(snap)
  BY <1>1, RecoverAdds, RecoverReplaces
<1>3. \A i \in DOMAIN snap.buffers :
          /\ snap.buffers[i] \in [id : BufIds, gen : Nat, len : Nat]
          /\ snap.buffers[i].id \in BufIds
  <2>. DEFINE T == [id : BufIds, gen : Nat, len : Nat]
  <2>1. snap.buffers \in Seq(T)
    BY <1>2 DEF BuffersRecovered, Saveable
  <2>2. \A x \in T : x.id \in BufIds
    OBVIOUS
  <2>. HIDE DEF T
  <2>3. \A i \in DOMAIN snap.buffers : snap.buffers[i] \in T
    BY <2>1, ListDomain
  <2>. QED  BY <2>2, <2>3 DEF T
<1>4. I = DOMAIN snap.buffers
  BY <1>1, <1>3 DEF NothingYet, NewBuffers
<1>5. \A x : x \in Essence(snap).buffers
                <=> \E b \in BufIds : buffers'[b].made /\ x = BufferCopy(b)'
  <2>1. ASSUME NEW i \in I
        PROVE  /\ buffers'[snap.buffers[i].id].made
               /\ BufferCopy(snap.buffers[i].id)' = snap.buffers[i]
    <3>1. PICK e, m : e = buffers'[snap.buffers[i].id] /\ m = snap.buffers[i]
      OBVIOUS
    <3>2. e = [made |-> TRUE, id |-> m.id, gen |-> m.gen, len |-> m.len]
      BY <1>2, <3>1 DEF BuffersRecovered
    <3>3. e.made /\ [id |-> e.id, gen |-> e.gen, len |-> e.len] = [id |-> m.id, gen |-> m.gen, len |-> m.len]
      BY ONLY <3>2
    <3>4. m = [id |-> m.id, gen |-> m.gen, len |-> m.len]
      <4>1. m \in [id : BufIds, gen : Nat, len : Nat]
        BY <1>3, <1>4, <3>1
      <4>. QED  BY ONLY <4>1
    <3>5. BufferCopy(snap.buffers[i].id)' = [id |-> e.id, gen |-> e.gen, len |-> e.len]
      BY <3>1 DEF BufferCopy
    <3>. QED  BY ONLY <3>1, <3>3, <3>4, <3>5
  <2>2. \A b \in BufIds : buffers'[b].made => \E i \in I : snap.buffers[i].id = b
    <3>1. \A b \in BufIds : (\A i \in I : snap.buffers[i].id # b) => buffers'[b] = buffers[b]
      BY <1>2 DEF BuffersRecovered
    <3>. QED  BY <3>1 DEF NothingYet
  <2>3. \A x : (\E i \in I : x = snap.buffers[i])
                  <=> \E b \in BufIds : buffers'[b].made /\ x = BufferCopy(b)'
    BY <1>3, <1>4, <2>1, <2>2
  <2>4. \A x : x \in Essence(snap).buffers <=> \E i \in DOMAIN snap.buffers : x = snap.buffers[i]
    BY EssenceFields
  <2>. QED  BY <1>4, <2>3, <2>4
<1>6. \A x : x \in Essence(snap).regs
                <=> \E r \in RegIds : Present(r)' /\ x = RegCopy(r)'
  <2>1. \A i \in J : /\ snap.regs[i] \in [id : RegIds, gen : {RegistrationGeneration}, rec : Record]
                     /\ regs'[snap.regs[i].id] = Recovered(snap.regs[i].rec)
                     /\ Logical(snap.regs[i].rec) = snap.regs[i].rec
    BY <1>1, <1>2 DEF RegsRecovered, BuffersRecovered, Saveable
  <2>2. ASSUME NEW i \in J
        PROVE  /\ snap.regs[i].id \in RegIds
               /\ regs'[snap.regs[i].id].life # "UNREGISTERED"
               /\ RegCopy(snap.regs[i].id)' = Dead(snap.regs[i])
    <3>1. PICK e, m, rec : e = regs'[snap.regs[i].id] /\ m = snap.regs[i] /\ rec = m.rec
      OBVIOUS
    <3>2. m \in [id : RegIds, gen : {RegistrationGeneration}, rec : Record]
      BY <2>1, <3>1
    <3>3. m.id \in RegIds /\ rec \in Record
          /\ m = [id |-> m.id, gen |-> RegistrationGeneration, rec |-> rec]
      BY <3>1, <3>2
    <3>4. e = Recovered(rec) /\ Logical(rec) = rec
      BY <2>1, <3>1
    <3>5. e = [rec EXCEPT !.keyRevoked = TRUE] /\ rec.life = "REVALIDATION_REQUIRED"
      BY <3>3, <3>4, LogicalAgain DEF Recovered
    <3>6. e.life # "UNREGISTERED"
      BY <3>3, <3>5 DEF Record
    <3>7. [Logical(e) EXCEPT !.keyRevoked = TRUE] = e
      BY <3>3, <3>4, <3>5 DEF Logical, Record
    <3>8. Dead(m) = [id |-> m.id, gen |-> RegistrationGeneration, rec |-> e]
      BY <3>3, <3>5, DeadItem
    <3>9. RegCopy(m.id)' = [id |-> m.id, gen |-> RegistrationGeneration,
                            rec |-> [Logical(e) EXCEPT !.keyRevoked = TRUE]]
      BY <3>1 DEF RegCopy, Logical
    <3>10. RegCopy(m.id)' = Dead(m)
      BY ONLY <3>7, <3>8, <3>9
    <3>. QED  BY <3>1, <3>3, <3>6, <3>10
  <2>3. \A r \in RegIds : Present(r)' => \E i \in J : snap.regs[i].id = r
    <3>1. \A r \in RegIds : (\A i \in J : snap.regs[i].id # r) => regs'[r] = regs[r]
      BY <1>1, <1>2 DEF RegsRecovered
    <3>. QED  BY <3>1 DEF NothingYet, Present
  <2>4. \A i \in J : Present(snap.regs[i].id)'
    BY <2>2 DEF Present
  <2>5. \A x : (\E i \in J : x = Dead(snap.regs[i]))
                  <=> \E r \in RegIds : Present(r)' /\ x = RegCopy(r)'
    BY <2>2, <2>3, <2>4
  <2>6. \A x : x \in Essence(snap).regs <=> \E i \in DOMAIN snap.regs : x = Dead(snap.regs[i])
    BY EssenceFields
  <2>. QED  BY <1>1, <2>5, <2>6
<1>7. \A x : x \in Essence(snap).domains <=> x \in DomainIds /\ domains'[x] # "ABSENT"
  <2>1. PICK N : N = {snap.domains[i] : i \in DOMAIN snap.domains}
    OBVIOUS
  <2>2. N \subseteq DomainIds
    BY <1>2, <2>1, ListDomain DEF BuffersRecovered, Saveable
  <2>3. NewDomains(snap) = N
    BY <2>1, <2>2 DEF NewDomains, NothingYet, Range
  <2>4. domains' = [p \in DomainIds |-> IF p \in N THEN "ACTIVE" ELSE domains[p]]
    BY <1>1, <2>3 DEF RecoverInstall
  <2>5. \A x : x \in N <=> x \in DomainIds /\ domains'[x] # "ABSENT"
    BY <2>2, <2>4 DEF NothingYet
  <2>6. \A x : x \in Essence(snap).domains <=> x \in N
    BY <2>1, EssenceFields
  <2>. QED  BY <2>5, <2>6
<1>8. Essence(snap).authority = authority'
  BY <1>1, EssenceFields DEF RecoverInstall
<1>9. EssenceIs(Essence(snap))'
  BY <1>5, <1>6, <1>7, <1>8 DEF EssenceIs
<1>. QED  BY <1>1, <1>9

(* Nothing but the installation of a file ends a recover that way.         *)
Tallied == tally \in [saves : Nat, crashes : Nat]

LEMMA TallyStep ==
    ASSUME Tallied, [PersistenceNext]_persistenceVars
    PROVE  Tallied'
<1>1. ASSUME NEW s \in Savers, FileStep(s) \/ RecoverAccepted(s) PROVE tally' = tally
  BY <1>1
  DEF FileStep, SaveOpen, SaveOpenFails, SaveWrite, SaveWritten, SaveWriteFails, SaveRemove,
      SaveRename, SaveRenameFails, RecoverMissing, RecoverRead, RecoverRefused,
      RecoverAccepted, GiveUp, filesVars
<1>2. ASSUME NEW s \in Savers, NEW snap, SaveCapture(s, snap) PROVE Tallied'
  BY <1>2 DEF SaveCapture, Tallied
<1>3. Crash => Tallied'
  BY DEF Crash, FilesCrash, Tallied
<1>4. UNCHANGED filesVars => tally' = tally
  BY DEF filesVars
<1>5. tally' = tally => Tallied'
  BY DEF Tallied
<1>. QED
  BY <1>1, <1>2, <1>3, <1>4, <1>5 DEF PersistenceNext, persistenceVars, RecoverInstall

LEMMA OnlyInstallAccepts ==
    ASSUME Tallied, FilesWhole, [PersistenceNext]_persistenceVars,
           NEW s \in Savers, RecoverAccepted(s)
    PROVE  RecoverInstall(s)
<1>1. /\ DOMAIN saver = Savers /\ saver[s].pc = "read" /\ Parse(saver[s].file) = "OK"
      /\ saver' = [saver EXCEPT ![s] = NoSaver] /\ tally' = tally
  BY DEF FilesWhole, FilesOver, RecoverAccepted, GiveUp
<1>2. saver'[s] # saver[s] /\ saver'[s].pc = "idle" /\ \A u \in Savers \ {s} : saver'[u] = saver[u]
  <2>1. saver'[s] = NoSaver /\ \A u \in Savers \ {s} : saver'[u] = saver[u]
    BY <1>1
  <2>2. NoSaver.pc = "idle"
    BY DEF NoSaver
  <2>. QED  BY <1>1, <2>1, <2>2
<1>3. ~UNCHANGED filesVars
  BY <1>2 DEF filesVars
<1>4. ~Crash
  BY <1>1 DEF Crash, FilesCrash, Tallied
<1>5. ASSUME NEW u \in Savers, NEW snap, SaveCapture(u, snap) PROVE FALSE
  <2>1. saver[u].pc = "idle" /\ saver'[u].pc = "captured"
    BY <1>1, <1>5 DEF SaveCapture
  <2>. QED  BY <1>1, <1>2, <2>1
<1>6. ASSUME NEW u \in Savers, u # s, FileStep(u) \/ RecoverAccepted(u) PROVE FALSE
  <2>1. saver'[s] = saver[s]
    BY <1>1, <1>6
    DEF FileStep, SaveOpen, SaveOpenFails, SaveWrite, SaveWritten, SaveWriteFails, SaveRemove,
        SaveRename, SaveRenameFails, RecoverMissing, RecoverRead, RecoverRefused,
        RecoverAccepted, GiveUp, filesVars
  <2>. QED  BY <1>2, <2>1
<1>7. ~FileStep(s)
  BY <1>1
  DEF FileStep, SaveOpen, SaveOpenFails, SaveWrite, SaveWritten, SaveWriteFails, SaveRemove,
      SaveRename, SaveRenameFails, RecoverMissing, RecoverRead, RecoverRefused
<1>8. \A u \in Savers : RecoverInstall(u) => RecoverAccepted(u)
  BY DEF RecoverInstall
<1>9. UNCHANGED persistenceVars => UNCHANGED filesVars
  BY DEF persistenceVars
<1>10. PersistenceNext
  BY <1>3, <1>9
<1>11. ~\E u \in Savers, snap \in Captured : SaveCapture(u, snap)
  BY <1>5
<1>12. \A u \in Savers : FileStep(u) \/ RecoverInstall(u) => u = s
  BY <1>6, <1>8
<1>. QED  BY <1>3, <1>4, <1>7, <1>10, <1>11, <1>12, Zenon DEF PersistenceNext

(* A process with empty tables that recovers a file would save the same    *)
(* authority, buffers, domain ids and registrations again, but for the     *)
(* order of the lists and the keys it has declared dead: nothing of these  *)
(* four parts is dropped, doubled or altered on the way in, whatever file  *)
(* parse accepts (registry.cpp:849-874, 916-959).                          *)
THEOREM RestoredAsSaved == PersistenceSpec => TablesRoundTrip
<1>1. PersistenceInit => Tallied
  BY DEF PersistenceInit, FilesInit, Tallied
<1>2. Tallied /\ [PersistenceNext]_persistenceVars => Tallied'
  BY TallyStep
<1>3. ASSUME RestartInv, RestartInv', Tallied, [PersistenceNext]_persistenceVars,
             NEW s \in Savers, RecoverAccepted(s), NothingYet, NEW again \in Captured'
      PROVE  Essence(again) = Essence(saver[s].file.snap)
  <2>1. RecoverInstall(s)
    BY <1>3, OnlyInstallAccepts DEF RestartInv
  <2>2. PICK snap : snap = saver[s].file.snap /\ EssenceIs(Essence(snap))'
    BY <1>3, <2>1, RecoverRestores DEF RestartInv, TablesTyped
  <2>3. (\A other : EssenceIs(Essence(other)) => Essence(again) = Essence(other))'
    <3>1. TypeOK'
      BY <1>3 DEF RestartInv, TablesTyped
    <3>. QED  BY <1>3, <3>1, CopiesAlikeNext
  <2>. QED  BY <2>2, <2>3
<1>4. RestartInv /\ RestartInv' /\ Tallied /\ [PersistenceNext]_persistenceVars
          => [\A s \in Savers : RecoverAccepted(s) /\ NothingYet =>
                 \A again \in Captured' : Essence(again) = Essence(saver[s].file.snap)
             ]_persistenceVars
  BY <1>3
<1>. QED  BY <1>1, <1>2, <1>4, RestartInvHolds, PTL DEF PersistenceSpec, TablesRoundTrip
==============================================================================

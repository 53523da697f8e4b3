----------------------------- MODULE Persistence -----------------------------
(***************************************************************************)
(* save and recover (src/registry.cpp) of a registry whose process may die *)
(* at any moment: what save copies out of the tables under the mutex, what *)
(* recover puts into them, and the files in between (SaveFiles).           *)
(***************************************************************************)
EXTENDS Registry, SaveFiles

CONSTANT
    MaxRecycled      \* bound: deregistrations after which no more is recovered

VARIABLE
    buried           \* history: (registration, key generation) recover has
                     \* invalidated in this process

persistenceVars == <<vars, filesVars, buried>>

PersistenceInit == Init /\ FilesInit /\ buried = {}

------------------------------------------------------------------------------
(* The snapshot.                                                           *)

(* A record is saved without handle and secrets, as one to be revalidated; *)
(* its lease count and the state of its key are saved as they are.         *)
Logical(rec) ==
    [rec EXCEPT !.life = "REVALIDATION_REQUIRED", !.fresh = "REVALIDATION_REQUIRED",
                !.handle = 0]

(* What save copies, each table in any order its hash map yields.  Every   *)
(* domain is copied, a destroyed one too, and as its id alone.             *)
SavedRegs(order) ==
    [i \in DOMAIN order |->
        [id |-> order[i], gen |-> RegistrationGeneration, rec |-> Logical(regs[order[i]])]]

SavedBuffers(order) ==
    [i \in DOMAIN order |-> [id |-> buffers[order[i]].id, gen |-> buffers[order[i]].gen,
                             len |-> buffers[order[i]].len]]

(* The four parts of PersistableState that recover installs.  save also    *)
(* writes the accounting summary, the backend summaries, the histories of  *)
(* keys and revocations and the policy generation (registry.cpp:865-873).  *)
(* They are no part of the snapshot: recover reads past them (918-951), so *)
(* no state of a registry ever depends on them.                            *)
Captured ==
    {[authority |-> authority, buffers |-> SavedBuffers(bufs), regs |-> SavedRegs(recs),
      domains |-> doms] :
        bufs \in SetToSeqs({b \in BufIds : buffers[b].made}),
        recs \in SetToSeqs({r \in RegIds : Present(r)}),
        doms \in SetToSeqs({p \in DomainIds : domains[p] # "ABSENT"})}

(* The files of earlier lives were saved by this program too, from tables  *)
(* within the same bounds; what has become of their bytes is left open.    *)
Saveable(snap) ==
    /\ snap.authority \in AuthorityFacts
    /\ snap.buffers \in Seq([id : BufIds, gen : Nat, len : Nat])
    /\ snap.regs \in Seq([id : RegIds, gen : {RegistrationGeneration}, rec : Record])
    /\ \A i \in DOMAIN snap.regs : Logical(snap.regs[i].rec) = snap.regs[i].rec
    /\ snap.domains \in Seq(DomainIds)

ASSUME RecoveryAssumption ==
    /\ MaxRecycled \in Nat
    /\ \A file \in Found : Saveable(file.snap)

------------------------------------------------------------------------------
(* recover.                                                                *)

(* A recovered record is to be revalidated and its key is dead.            *)
RecoveredAsSaved(rec) == [rec EXCEPT !.life = "ACTIVE"]    \* mutant: live again
RecoveredAnew(rec) ==                              \* mutant: key generation forgotten
    [Logical(rec) EXCEPT !.keyRevoked = TRUE, !.keyGen = 1]
Recovered(rec) == [Logical(rec) EXCEPT !.keyRevoked = TRUE]

(* The buffers of the snapshot that are not in the table already.          *)
EveryBuffer(snap) == DOMAIN snap.buffers           \* mutant: present ones as well
NewBuffers(snap) == {i \in DOMAIN snap.buffers : ~buffers[snap.buffers[i].id].made}
NewDomains(snap) == {p \in Range(snap.domains) : domains[p] = "ABSENT"}

(* Buffers and domains are added only where there is none of that id; a    *)
(* record replaces the one of its id, whatever that one is doing.  The     *)
(* authority becomes the saved one.  The single-flight slots, the leases,  *)
(* the next ids and the gauges of registrations stay as they are.          *)
RecoverInstall(s) ==
    LET snap == saver[s].file.snap
        LenOf(i) == snap.buffers[i].len
    IN  /\ RecoverAccepted(s)
        /\ stats.deregistrations < MaxRecycled
        /\ buffers' =
              [b \in BufIds |->
                  IF \E i \in NewBuffers(snap) : snap.buffers[i].id = b
                  THEN LET i == CHOOSE i \in NewBuffers(snap) : snap.buffers[i].id = b
                       IN  [made |-> TRUE, id |-> b, gen |-> snap.buffers[i].gen,
                            len |-> snap.buffers[i].len]
                  ELSE buffers[b]]
        /\ domains' = [p \in DomainIds |->
                          IF p \in NewDomains(snap) THEN "ACTIVE" ELSE domains[p]]
        /\ acct' = [acct EXCEPT !.buffers = @ + Cardinality(NewBuffers(snap)),
                                !.live = @ + MapThenSumSet(LenOf, NewBuffers(snap)),
                                !.domains = @ + Cardinality(NewDomains(snap))]
        /\ regs' =
              [r \in RegIds |->
                  IF \E i \in DOMAIN snap.regs : snap.regs[i].id = r
                  THEN LET i == CHOOSE i \in DOMAIN snap.regs : snap.regs[i].id = r
                       IN  Recovered(snap.regs[i].rec)
                  ELSE regs[r]]
        /\ authority' = snap.authority
        /\ buried' = buried \cup {<<snap.regs[i].id, snap.regs[i].rec.keyGen>> :
                                     i \in DOMAIN snap.regs}
        /\ UNCHANGED <<attached, slot, leases, stats, next, call, backendVars>>

------------------------------------------------------------------------------
(* The process dies and is started again with empty tables and a backend   *)
(* of its own.                                                             *)
Crash ==
    /\ FilesCrash
    /\ attached' = FALSE
    /\ authority' = NoAuthority
    /\ domains' = [p \in DomainIds |-> "ABSENT"]
    /\ buffers' = [b \in BufIds |-> NoBuffer]
    /\ regs' = [r \in RegIds |-> NoRecord]
    /\ slot' = [b \in BufIds |-> 0]
    /\ leases' = [l \in LeaseIds |-> NoLease]
    /\ acct' = [g \in DOMAIN acct |-> 0]
    /\ stats' = [c \in DOMAIN stats |-> 0]
    /\ next' = [i \in DOMAIN next |-> 1]
    /\ call' = [t \in Threads |-> NoCall]
    /\ profile' \in Profiles
    /\ device' = [g \in DOMAIN device |-> 1]
    /\ nextSeq' = 1
    /\ entries' = [h \in Handles |-> NoEntry]
    /\ buried' = {}

PersistenceNext ==
    \/ Next /\ UNCHANGED <<filesVars, buried>>
    \/ \E s \in Savers :
          \/ \E snap \in Captured : SaveCapture(s, snap) /\ UNCHANGED <<vars, buried>>
          \/ FileStep(s) /\ UNCHANGED <<vars, buried>>
          \/ RecoverInstall(s)
    \/ Crash

PersistenceSpec == PersistenceInit /\ [][PersistenceNext]_persistenceVars
==============================================================================

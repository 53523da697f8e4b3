----------------------------- MODULE AuthorityProofs -----------------------------
(***************************************************************************)
(* The lifecycle of a registration, its entry in the backend and the       *)
(* gauges that count it, for every value of the constants of Registry and  *)
(* every interleaving of its callers; and the refinement of KeyAuthority.  *)
(***************************************************************************)
EXTENDS RegistryProofs

USE DEF Handles, RegIds, BufIds, DomainIds, LeaseIds

------------------------------------------------------------------------------
(* Records.                                                                *)

(* The lifecycles a record in the table is ever in.  REGISTERING lives     *)
(* only among the locals of a call, REGISTERED and the rest are never      *)
(* assigned.                                                               *)
LivesReached == {"ACTIVE", "REVOKING", "REVOKED", "DEREGISTERING", "FAILED", "STALE"}

(* A record in the table is in one of them, and of a record that is not in *)
(* the table nothing is left.                                              *)
RecordsKnown ==
    \A r \in RegIds : IF Present(r) THEN regs[r].life \in LivesReached
                                    ELSE regs[r] = NoRecord

(* The edges of can_transition the critical sections move along.           *)
LEMMA Edges ==
    /\ \A to \in {"REVOKING", "STALE", "DEREGISTERING"} : CanTransition("ACTIVE", to)
    /\ Via("ACTIVE", "REVOKING", "REVOKED")
    /\ \A from \in {"REVOKED", "STALE"} : CanTransition(from, "DEREGISTERING")
    /\ Via("UNREGISTERED", "REGISTERING", "ACTIVE")
    /\ CanTransition("DEREGISTERING", "FAILED")
    /\ CanTransition("DEREGISTERING", "DEREGISTERED")
<1>1. /\ Successors["ACTIVE"] =
            {"REVOKING", "DEREGISTERING", "STALE", "REVALIDATION_REQUIRED"}
      /\ Successors["REVOKING"] = {"REVOKED", "DEREGISTERING", "DEREGISTERED", "FAILED"}
      /\ Successors["REVOKED"] = {"DEREGISTERING", "DEREGISTERED"}
      /\ Successors["STALE"] = {"REVALIDATION_REQUIRED", "DEREGISTERING", "DEREGISTERED"}
      /\ Successors["UNREGISTERED"] = {"REGISTERING"}
      /\ Successors["REGISTERING"] = {"REGISTERED", "ACTIVE", "FAILED", "UNREGISTERED"}
      /\ Successors["DEREGISTERING"] = {"DEREGISTERED", "FAILED"}
  BY DEF Successors, Lifecycles
<1>. QED  BY <1>1 DEF Via, CanTransition

(* How a record in the table goes from one lifecycle to another.           *)
Route(r) ==
    \/ CanTransition(regs[r].life, regs'[r].life)
    \/ RevokedNow(r) /\ Via(regs[r].life, "REVOKING", regs'[r].life)
    \/ DestroyedWithDomain(r)

(* What one step does to the record of r, other than publish or erase it.  *)
MovesAlong(r) ==
    /\ Present(r)' <=> Present(r)
    /\ Present(r) =>
          /\ regs'[r].life \in LivesReached
          /\ regs[r].life # regs'[r].life => Route(r)
    /\ ~Present(r) => regs'[r] = regs[r]

(* An operation of one critical section changes the lifecycle of records   *)
(* in force only: it makes them STALE, revokes them, or ends their domain. *)
Changes(r) ==
    \/ /\ regs'[r].life = regs[r].life
       /\ ~Present(r) => regs'[r] = regs[r]
    \/ /\ InForce(r)
       /\ \/ regs'[r].life = "STALE"
          \/ regs'[r].life \in {"REVOKED", "REVOKING"} /\ RevokedNow(r)
          \/ regs'[r].life = "REVOKED" /\ DestroyedWithDomain(r)

LEMMA OperationChanges ==
    ASSUME TypeOK, RecordsKnown, Operation
    PROVE  \A r \in RegIds : Changes(r)
<1>. SUFFICES ASSUME NEW r \in RegIds PROVE Changes(r)
  OBVIOUS
<1>0. /\ regs \in [RegIds -> Record] /\ regs[r] \in Record
      /\ Present(r) <=> regs[r].life # "UNREGISTERED"
      /\ Present(r)' <=> regs'[r].life # "UNREGISTERED"
      /\ Present(r) => regs[r].life \in LivesReached
      /\ InForce(r) => regs[r].life = "ACTIVE"
  BY DEF TypeOK, RecordsKnown, Present, InForce, LivesReached, NoRecord
<1>s. regs'[r].life = regs[r].life /\ (~Present(r) => regs'[r] = regs[r]) => Changes(r)
  BY DEF Changes
<1>t. InForce(r) /\ regs'[r].life = "STALE" => Changes(r)
  BY DEF Changes
<1>1. ASSUME NEW p \in DomainIds, DestroyProtectionDomain(p) PROVE Changes(r)
  <2>1. CASE r \in RegsOfDomain(p)
    <3>1. InForce(r) /\ regs'[r].life = "REVOKED"
      BY <1>0, <1>1, <2>1 DEF DestroyProtectionDomain, RegsOfDomain, Record
    <3>2. DestroyedWithDomain(r)
      BY <1>1, <2>1, <3>1 DEF DestroyedWithDomain
    <3>. QED  BY <3>1, <3>2 DEF Changes
  <2>2. CASE r \notin RegsOfDomain(p)
    BY <1>0, <1>1, <1>s, <2>2 DEF DestroyProtectionDomain
  <2>. QED  BY <2>1, <2>2
<1>2. ASSUME NEW d \in Descriptors, CreateBuffer(d) PROVE Changes(r)
  <2>1. CASE ReallocateBuffer(d)
    <3>1. PICK b : b = ChosenId(d)
      OBVIOUS
    <3>2. CASE r \in RegsOfBuffer(b)
      <4>1. InForce(r)
        BY <1>0, <3>2 DEF RegsOfBuffer, LivesReached
      <4>2. regs'[r].life = "STALE"
        BY <1>0, <2>1, <3>1, <3>2 DEF ReallocateBuffer, Record
      <4>. QED  BY <1>t, <4>1, <4>2
    <3>3. CASE r \notin RegsOfBuffer(b)
      BY <1>0, <1>s, <2>1, <3>1, <3>3 DEF ReallocateBuffer
    <3>. QED  BY <3>2, <3>3
  <2>2. CASE CreateNewBuffer(d) \/ CreateRefused(d)
    BY <1>s, <2>2 DEF CreateNewBuffer, CreateRefused
  <2>. QED  BY <1>2, <2>1, <2>2 DEF CreateBuffer
<1>3. ASSUME SomeLease PROVE Changes(r)
  <2>1. PICK q \in RegIds : InForce(q) /\ regs' = [regs EXCEPT ![q].leases = @ + 1]
    BY <1>3 DEF SomeLease, AcquireLease, Leasable
  <2>2. regs'[r].life = regs[r].life /\ (~Present(r) => regs'[r] = regs[r])
    BY <1>0, <2>1 DEF Record
  <2>. QED  BY <1>s, <2>2
<1>4. ASSUME NEW l \in LeaseIds, ReleaseLease(l) PROVE Changes(r)
  <2>1. regs'[r].life = regs[r].life /\ (~Present(r) => regs'[r] = regs[r])
    BY <1>0, <1>4 DEF ReleaseLease, Record
  <2>. QED  BY <1>s, <2>1
<1>5. ASSUME NEW q \in RegIds, HardRevoke(q) \/ SoftRevoke(q) PROVE Changes(r)
  <2>1. CASE q = r
    <3>1. CASE HardRevoke(r)
      <4>1. InForce(r) /\ regs' = [regs EXCEPT ![r] = Revoked(regs[r])]
        BY <3>1 DEF HardRevoke
      <4>2. regs'[r].life = "REVOKED"
        BY <1>0, <4>1 DEF Revoked, Record
      <4>3. RevokedNow(r)
        BY <3>1 DEF RevokedNow, Revoke, RevocationModes
      <4>. QED  BY <4>1, <4>2, <4>3 DEF Changes
    <3>2. CASE SoftRevoke(r)
      <4>1. InForce(r)
        BY <3>2 DEF SoftRevoke
      <4>2. regs'[r].life \in {"REVOKED", "REVOKING"}
        BY <1>0, <3>2 DEF SoftRevoke, Record
      <4>3. RevokedNow(r)
        BY <3>2 DEF RevokedNow, Revoke, RevocationModes
      <4>. QED  BY <4>1, <4>2, <4>3 DEF Changes
    <3>. QED  BY <1>5, <2>1, <3>1, <3>2
  <2>2. CASE q # r
    BY <1>0, <1>5, <1>s, <2>2 DEF HardRevoke, SoftRevoke
  <2>. QED  BY <2>1, <2>2
<1>6. ASSUME NEW q \in RegIds, RotateKey(q) PROVE Changes(r)
  <2>1. regs'[r].life = regs[r].life /\ (~Present(r) => regs'[r] = regs[r])
    BY <1>0, <1>6 DEF RotateKey, Rotatable, Record
  <2>. QED  BY <1>s, <2>1
<1>7. \/ \E s \in Snapshots : SetAuthority(s)
      \/ AdvanceEpoch
      \/ NoteParticipantRestart
      \/ AddBackend
      \/ CreateProtectionDomain
      \/ \E d \in Descriptors, p \in DomainIds, env \in Envelopes :
             RegisterBufferReuse(d, p, env)
      \/ \E q \in Requests : ValidateRemoteAccess(q)
      => Changes(r)
  BY <1>s DEF SetAuthority, AdvanceEpoch, NoteParticipantRestart, AddBackend,
              CreateProtectionDomain, RegisterBufferReuse, ValidateRemoteAccess
<1>. QED  BY <1>1, <1>2, <1>3, <1>4, <1>5, <1>6, <1>7 DEF Operation, SomeLease, Revoke

(* So it moves every record along.                                         *)
LEMMA OperationMoves ==
    ASSUME TypeOK, RecordsKnown, Operation
    PROVE  \A r \in RegIds : MovesAlong(r)
<1>. SUFFICES ASSUME NEW r \in RegIds PROVE MovesAlong(r)
  OBVIOUS
<1>1. /\ Present(r) <=> regs[r].life # "UNREGISTERED"
      /\ Present(r)' <=> regs'[r].life # "UNREGISTERED"
      /\ Present(r) => regs[r].life \in LivesReached
      /\ InForce(r) => regs[r].life = "ACTIVE"
  BY DEF TypeOK, RecordsKnown, Present, InForce, LivesReached, NoRecord
<1>2. Changes(r)
  BY OperationChanges
<1>. QED  BY <1>1, <1>2, Edges DEF Changes, MovesAlong, Route, LivesReached

(* What OnlyDestructionUnguarded says of one step.                         *)
Guarded ==
    \A r \in RegIds : regs[r].life # regs'[r].life =>
        GuardedMove(r) \/ DestroyedWithDomain(r)

(* Records that move along stay known, and were permitted to.              *)
LEMMA MovesKeepRecords ==
    ASSUME RecordsKnown, \A r \in RegIds : MovesAlong(r)
    PROVE  RecordsKnown' /\ Guarded
<1>. SUFFICES ASSUME NEW r \in RegIds
              PROVE  /\ IF Present(r)' THEN regs'[r].life \in LivesReached
                                       ELSE regs'[r] = NoRecord
                     /\ regs[r].life # regs'[r].life =>
                            GuardedMove(r) \/ DestroyedWithDomain(r)
  BY DEF RecordsKnown, Guarded
<1>1. MovesAlong(r)
  OBVIOUS
<1>2. CASE Present(r)
  <2>1. Route(r) => GuardedMove(r) \/ DestroyedWithDomain(r)
    BY <1>1, <1>2 DEF Route, MovesAlong, GuardedMove
  <2>. QED  BY <1>1, <1>2, <2>1 DEF MovesAlong
<1>3. CASE ~Present(r)
  BY <1>1, <1>3 DEF MovesAlong, RecordsKnown
<1>. QED  BY <1>2, <1>3

(* Every step keeps the records known and moves them along can_transition: *)
(* the calls in flight as well, because nothing else moves a record while  *)
(* it is DEREGISTERING.                                                    *)
LEMMA RecordsStep ==
    ASSUME LeaseInv, RecordsKnown, [Next]_vars
    PROVE  RecordsKnown' /\ Guarded
<1>0. /\ TypeOK /\ regs \in [RegIds -> Record] /\ call \in [Threads -> Call]
      /\ CallsInRange /\ CommitNeverOverwrites /\ TeardownExclusive
  BY DEF LeaseInv, Inv, TypeOK
<1>u. ASSUME UNCHANGED regs PROVE RecordsKnown' /\ Guarded
  BY <1>u DEF RecordsKnown, Guarded, Present
<1>1. CASE Operation
  BY <1>0, <1>1, OperationMoves, MovesKeepRecords
<1>2. ASSUME NEW t \in Threads, NEW r \in RegIds, DeregisterBegin(t, r)
      PROVE  RecordsKnown' /\ Guarded
  <2>1. /\ regs[r].life \in {"ACTIVE", "REVOKED", "STALE"} /\ Present(r)
    BY <1>2 DEF DeregisterBegin, Deregisterable, MayDeregister, RecordsKnown,
                LivesReached, Present
  <2>2. /\ regs'[r].life = "DEREGISTERING"
        /\ \A q \in RegIds : q # r => regs'[q] = regs[q]
    BY <1>0, <1>2 DEF DeregisterBegin, Record
  <2>3. ASSUME NEW q \in RegIds PROVE MovesAlong(q)
    <3>1. CASE q = r
      BY <2>1, <2>2, <3>1, Edges DEF MovesAlong, Route, Present, LivesReached
    <3>2. CASE q # r
      BY <2>2, <3>2 DEF MovesAlong, Present, RecordsKnown
    <3>. QED  BY <3>1, <3>2
  <2>. QED  BY <2>3, MovesKeepRecords
<1>3. ASSUME NEW t \in Threads, RegisterCommit(t) PROVE RecordsKnown' /\ Guarded
  <2>0. PICK n : n = call[t].reg
    OBVIOUS
  <2>1. n \in RegIds /\ ~Present(n)
    BY <2>0, <1>0, <1>3 DEF RegisterCommit, RegisterPoints, Registering, CallsInRange,
                      CommitNeverOverwrites
  <2>2. /\ regs'[n].life = "ACTIVE"
        /\ \A q \in RegIds : q # n => regs'[q] = regs[q]
    BY <1>0, <1>3, <2>0, <2>1 DEF RegisterCommit
  <2>3. regs[n].life = "UNREGISTERED" /\ Present(n)'
    BY <2>1, <2>2 DEF Present
  <2>4. RecordsKnown'
    BY <2>1, <2>2, <2>3 DEF RecordsKnown, Present, LivesReached
  <2>5. GuardedMove(n)
    BY <2>1, <2>2, <2>3, Edges DEF GuardedMove
  <2>. QED  BY <2>2, <2>4, <2>5 DEF Guarded
<1>4. ASSUME NEW t \in Threads, DeregisterFail(t) PROVE RecordsKnown' /\ Guarded
  <2>0. PICK r : r = call[t].reg
    OBVIOUS
  <2>1. r \in RegIds /\ regs[r].life = "DEREGISTERING" /\ Present(r)
    BY <2>0, <1>0, <1>4 DEF DeregisterFail, Deregistering, DeregisterPoints, TeardownExclusive,
                      Present
  <2>2. /\ regs'[r].life = "FAILED"
        /\ \A q \in RegIds : q # r => regs'[q] = regs[q]
    BY <1>0, <1>4, <2>0, <2>1 DEF DeregisterFail, Record
  <2>3. ASSUME NEW q \in RegIds PROVE MovesAlong(q)
    <3>1. CASE q = r
      BY <2>1, <2>2, <3>1, Edges DEF MovesAlong, Route, Present, LivesReached
    <3>2. CASE q # r
      BY <2>2, <3>2 DEF MovesAlong, Present, RecordsKnown
    <3>. QED  BY <3>1, <3>2
  <2>. QED  BY <2>3, MovesKeepRecords
<1>5. ASSUME NEW t \in Threads, DeregisterFinish(t) PROVE RecordsKnown' /\ Guarded
  <2>0. PICK r : r = call[t].reg
    OBVIOUS
  <2>1. r \in RegIds /\ regs[r].life = "DEREGISTERING"
    BY <2>0, <1>0, <1>5 DEF DeregisterFinish, Deregistering, DeregisterPoints, TeardownExclusive
  <2>2. /\ regs'[r] = NoRecord
        /\ \A q \in RegIds : q # r => regs'[q] = regs[q]
    BY <1>0, <1>5, <2>0, <2>1 DEF DeregisterFinish, Erase, Present
  <2>3. ~Present(r)'
    BY <2>2 DEF Present, NoRecord
  <2>4. RecordsKnown'
    BY <2>2, <2>3 DEF RecordsKnown, Present
  <2>5. GuardedMove(r)
    BY <2>1, <2>3, Edges DEF GuardedMove, Present
  <2>. QED  BY <2>2, <2>4, <2>5 DEF Guarded
<1>6. ASSUME NEW t \in Threads,
             \/ \E d \in Descriptors, p \in DomainIds, env \in Envelopes :
                    RegisterAdmit(t, d, p, env)
             \/ BackendRefuses(t) \/ BackendNumbers(t) \/ BackendStores(t)
             \/ BackendReleases(t) \/ BackendReleaseFails(t)
      PROVE  RecordsKnown' /\ Guarded
  BY <1>u, <1>6 DEF RegisterAdmit, BackendRefuses, BackendNumbers, BackendStores,
                    BackendReleases, BackendReleaseFails
<1>7. CASE DeviceEvent \/ UNCHANGED vars
  BY <1>u, <1>7 DEF DeviceEvent, vars, registryVars
<1>. QED  BY <1>1, <1>2, <1>3, <1>4, <1>5, <1>6, <1>7 DEF Next, Begin, Continue

------------------------------------------------------------------------------
(* Entries.                                                                *)

(* The backend has dropped the entry of r, and r is about to be erased.    *)
Surrendered(r) ==
    \E t \in Threads : call[t].pc = "released" /\ call[t].reg = r

(* A call that deregisters gives back the handle of its record; nothing is *)
(* registered before the backend is attached; and a live entry is that of  *)
(* a record which has not been surrendered, or of a registration about to  *)
(* be published.                                                           *)
HandlesFollowed ==
    \A t \in Deregistering : call[t].handle = regs[call[t].reg].handle

NothingUnattached == ~attached => PresentRegs = {} /\ Registering = {}

Owned(h) ==
    \/ \E r \in PresentRegs : regs[r].handle = h /\ ~Surrendered(r)
    \/ \E t \in Threads : call[t].pc = "stored" /\ call[t].handle = h

EntriesOwned ==
    HandlesFollowed /\ NothingUnattached /\ \A h \in Handles : LiveEntry(h) => Owned(h)

(* A step after which every call is where it was, no record is published,  *)
(* erased or given another handle, and no entry has come to life, keeps    *)
(* the entries owned.                                                      *)
LEMMA OwnedKept ==
    ASSUME EntriesOwned, TeardownExclusive, call' = call,
           attached => attached',
           \A r \in RegIds : /\ Present(r)' <=> Present(r)
                             /\ regs'[r].handle = regs[r].handle,
           \A h \in Handles : LiveEntry(h)' => LiveEntry(h)
    PROVE  EntriesOwned'
<1>1. /\ PresentRegs' = PresentRegs /\ Registering' = Registering
      /\ Deregistering' = Deregistering
  BY DEF PresentRegs, Registering, Deregistering
<1>2. HandlesFollowed'
  BY <1>1 DEF EntriesOwned, HandlesFollowed, TeardownExclusive
<1>3. NothingUnattached'
  BY <1>1 DEF EntriesOwned, NothingUnattached
<1>4. \A r : Surrendered(r)' <=> Surrendered(r)
  BY DEF Surrendered
<1>5. ASSUME NEW h \in Handles, LiveEntry(h)' PROVE Owned(h)'
  <2>1. Owned(h)
    BY <1>5 DEF EntriesOwned
  <2>2. ASSUME NEW r \in PresentRegs, regs[r].handle = h, ~Surrendered(r) PROVE Owned(h)'
    BY <1>1, <1>4, <2>2 DEF Owned, PresentRegs
  <2>3. ASSUME NEW t \in Threads, call[t].pc = "stored" /\ call[t].handle = h
        PROVE  Owned(h)'
    BY <2>3 DEF Owned
  <2>. QED  BY <2>1, <2>2, <2>3 DEF Owned
<1>. QED  BY <1>2, <1>3, <1>5 DEF EntriesOwned

(* Operations attach the backend and never detach it, and rotate the key   *)
(* of an entry without bringing one to life; that is all they do to it.    *)
LEMMA OperationEntries ==
    ASSUME TypeOK, Operation
    PROVE  /\ attached => attached'
           /\ \A h \in Handles : LiveEntry(h)' <=> LiveEntry(h)
           /\ device' = device /\ nextSeq' = nextSeq
           /\ entries' = entries \/ \E r \in RegIds : RotateKey(r)
<1>0. \A r \in RegIds : RotateKey(r) => device' = device /\ nextSeq' = nextSeq
  BY DEF RotateKey, BackendRotate
<1>1. ASSUME NEW r \in RegIds, RotateKey(r)
      PROVE  attached' = attached /\ \A h \in Handles : LiveEntry(h)' <=> LiveEntry(h)
  BY <1>1 DEF RotateKey, BackendRotate, RotatedEntries, LiveEntry, TypeOK, BackendTypeOK, Entry
<1>2. UNCHANGED backendVars
      => /\ \A h \in Handles : LiveEntry(h)' <=> LiveEntry(h)
         /\ device' = device /\ nextSeq' = nextSeq /\ entries' = entries
  BY DEF backendVars, LiveEntry
<1>3. \/ \E d \in Descriptors : CreateBuffer(d)
      \/ \E r \in RegIds, mode \in RevocationModes : Revoke(r, mode)
      => UNCHANGED backendVars /\ attached' = attached
  BY DEF CreateBuffer, CreateNewBuffer, ReallocateBuffer, CreateRefused, Revoke,
         HardRevoke, SoftRevoke
<1>4. \/ SomeLease
      \/ \E l \in LeaseIds : ReleaseLease(l)
      \/ \E d \in Descriptors, p \in DomainIds, env \in Envelopes :
             RegisterBufferReuse(d, p, env)
      \/ \E q \in Requests : ValidateRemoteAccess(q)
      => UNCHANGED backendVars /\ attached' = attached
  BY DEF SomeLease, AcquireLease, ReleaseLease, RegisterBufferReuse, ValidateRemoteAccess
<1>5. \/ \E s \in Snapshots : SetAuthority(s)
      \/ AdvanceEpoch
      \/ NoteParticipantRestart
      \/ CreateProtectionDomain
      \/ \E p \in DomainIds : DestroyProtectionDomain(p)
      => UNCHANGED backendVars /\ attached' = attached
  BY DEF SetAuthority, AdvanceEpoch, NoteParticipantRestart, CreateProtectionDomain,
         DestroyProtectionDomain
<1>6. AddBackend => UNCHANGED backendVars /\ attached'
  BY DEF AddBackend
<1>. QED  BY <1>0, <1>1, <1>2, <1>3, <1>4, <1>5, <1>6 DEF Operation, SomeLease

(* Device events bring no entry to life.                                   *)
LEMMA DeviceEntries ==
    ASSUME TypeOK, DeviceEvent
    PROVE  \A h \in Handles : LiveEntry(h)' => LiveEntry(h)
<1>1. BackendEvent /\ entries \in [Handles -> Entry]
  BY DEF DeviceEvent, TypeOK, BackendTypeOK
<1>2. CASE RolloverTransport
  BY <1>1, <1>2 DEF RolloverTransport, Rolled, LiveEntry, Entry
<1>3. CASE RestartBackend
  BY <1>3 DEF RestartBackend, LiveEntry, NoEntry
<1>4. CASE entries' = entries
  BY <1>4 DEF LiveEntry
<1>5. CASE \E h \in Handles : BackendRevalidate(h)
  BY <1>1, <1>5 DEF BackendRevalidate, LiveEntry, Entry
<1>. QED  BY <1>1, <1>2, <1>3, <1>4, <1>5 DEF BackendEvent, RolloverBackend, RolloverNic, Configure

(* The steps of register_buffer keep the entries owned: an entry has an    *)
(* owner from the moment it is stored, and publishing hands it over.       *)
LEMMA RegisteringOwned ==
    ASSUME LeaseInv, EntriesOwned, NEW t \in Threads,
           \/ \E d \in Descriptors, p \in DomainIds, env \in Envelopes :
                  RegisterAdmit(t, d, p, env)
           \/ BackendRefuses(t) \/ BackendNumbers(t) \/ BackendStores(t)
           \/ RegisterCommit(t)
    PROVE  EntriesOwned'
<1>0. /\ TypeOK /\ regs \in [RegIds -> Record] /\ call \in [Threads -> Call]
      /\ entries \in [Handles -> Entry]
      /\ CallsInRange /\ CommitNeverOverwrites /\ TeardownExclusive
      /\ HandlesFollowed /\ NothingUnattached /\ \A h \in Handles : LiveEntry(h) => Owned(h)
  BY DEF LeaseInv, Inv, TypeOK, BackendTypeOK, EntriesOwned
<1>1. /\ \A u \in Threads : u # t => call'[u] = call[u]
      /\ call[t].pc \notin DeregisterPoints /\ call'[t].pc \notin DeregisterPoints
      /\ attached' = attached
      /\ attached \/ t \in Registering
      /\ call[t].pc = "stored" => RegisterCommit(t)
  BY <1>0 DEF RegisterAdmit, Admissible, BackendRefuses, BackendNumbers, BackendStores, RegisterCommit,
              DeregisterPoints, RegisterPoints, Registering, Idle, NoCall, Call
<1>2. attached'
  BY <1>0, <1>1 DEF NothingUnattached
<1>3. NothingUnattached'
  BY <1>2 DEF NothingUnattached
<1>4. Deregistering' = Deregistering /\ t \notin Deregistering
  BY <1>1 DEF Deregistering
<1>5. \A r : Surrendered(r)' <=> Surrendered(r)
  BY <1>1 DEF Surrendered, DeregisterPoints
<1>6. CASE RegisterCommit(t)
  <2>0. PICK n : n = call[t].reg
    OBVIOUS
  <2>1. n \in RegIds /\ ~Present(n)
    BY <1>0, <1>6, <2>0 DEF RegisterCommit, RegisterPoints, Registering, CallsInRange,
                            CommitNeverOverwrites
  <2>2. /\ regs'[n].life = "ACTIVE" /\ regs'[n].handle = call[t].handle
        /\ \A q \in RegIds : q # n => regs'[q] = regs[q]
        /\ entries' = entries /\ call[t].pc = "stored"
    BY <1>0, <1>6, <2>0, <2>1 DEF RegisterCommit, backendVars
  <2>3. \A u \in Deregistering : Present(call[u].reg)
    BY <1>0 DEF TeardownExclusive, Present
  <2>4. HandlesFollowed'
    <3>1. \A u \in Deregistering : /\ call'[u] = call[u] /\ call[u].reg \in RegIds
                                   /\ call[u].reg # n
      BY <1>0, <1>1, <1>4, <2>1, <2>3 DEF TeardownExclusive, Deregistering
    <3>. QED  BY <1>0, <1>4, <2>2, <3>1 DEF HandlesFollowed
  <2>5. ~Surrendered(n)'
    <3>1. ~Surrendered(n)
      BY <2>1, <2>3 DEF Surrendered, Deregistering, DeregisterPoints
    <3>. QED  BY <1>5, <3>1
  <2>6. ASSUME NEW h \in Handles, LiveEntry(h)' PROVE Owned(h)'
    <3>1. Owned(h)
      BY <1>0, <2>2, <2>6 DEF LiveEntry
    <3>2. ASSUME NEW r \in PresentRegs, regs[r].handle = h, ~Surrendered(r) PROVE Owned(h)'
      BY <1>5, <2>1, <2>2, <3>2 DEF Owned, PresentRegs, Present
    <3>3. CASE call[t].handle = h
      <4>1. n \in PresentRegs'
        BY <2>1, <2>2 DEF PresentRegs, Present
      <4>. QED  BY <2>2, <2>5, <3>3, <4>1 DEF Owned
    <3>4. ASSUME NEW u \in Threads, u # t, call[u].pc = "stored" /\ call[u].handle = h
          PROVE  Owned(h)'
      BY <1>1, <3>4 DEF Owned
    <3>. QED  BY <3>1, <3>2, <3>3, <3>4 DEF Owned
  <2>. QED  BY <1>3, <2>4, <2>6 DEF EntriesOwned
<1>7. CASE ~RegisterCommit(t)
  <2>1. /\ regs' = regs /\ call[t].pc # "stored"
        /\ \/ entries' = entries
           \/ /\ call'[t].pc = "stored" /\ call'[t].handle = call[t].handle
              /\ \A h \in Handles : h # call[t].handle => entries'[h] = entries[h]
    BY <1>0, <1>1, <1>7 DEF RegisterAdmit, BackendRefuses, BackendNumbers, BackendStores,
                            BackendStore, backendVars, Call
  <2>2. HandlesFollowed'
    BY <1>0, <1>1, <1>4, <2>1 DEF HandlesFollowed, Deregistering
  <2>3. PresentRegs' = PresentRegs
    BY <2>1 DEF PresentRegs, Present
  <2>4. ASSUME NEW h \in Handles, LiveEntry(h)' PROVE Owned(h)'
    <3>1. CASE call'[t].pc = "stored" /\ call'[t].handle = h
      BY <3>1 DEF Owned
    <3>2. CASE entries'[h] = entries[h]
      <4>1. Owned(h)
        BY <1>0, <2>4, <3>2 DEF LiveEntry
      <4>2. \A u \in Threads : call[u].pc = "stored" => call'[u] = call[u]
        BY <1>1, <2>1
      <4>. QED  BY <1>5, <2>1, <2>3, <4>1, <4>2 DEF Owned
    <3>. QED  BY <2>1, <3>1, <3>2
  <2>. QED  BY <1>3, <2>2, <2>4 DEF EntriesOwned
<1>. QED  BY <1>6, <1>7

(* The steps of deregister keep the entries owned: a record is surrendered *)
(* only with its entry, and erased only after it was surrendered.          *)
LEMMA DeregisteringOwned ==
    ASSUME LeaseInv, EntriesOwned, NEW t \in Threads,
           \/ \E r \in RegIds : DeregisterBegin(t, r)
           \/ BackendReleases(t) \/ BackendReleaseFails(t)
           \/ DeregisterFail(t) \/ DeregisterFinish(t)
    PROVE  EntriesOwned'
<1>0. /\ TypeOK /\ regs \in [RegIds -> Record] /\ call \in [Threads -> Call]
      /\ entries \in [Handles -> Entry] /\ TeardownExclusive
      /\ HandlesFollowed /\ NothingUnattached /\ \A h \in Handles : LiveEntry(h) => Owned(h)
  BY DEF LeaseInv, Inv, TypeOK, BackendTypeOK, EntriesOwned
<1>1. /\ \A u \in Threads : u # t => call'[u] = call[u]
      /\ call[t].pc \notin RegisterPoints /\ call'[t].pc \notin RegisterPoints
      /\ attached' = attached
  <2>. DEFINE Goal == /\ \A u \in Threads : u # t => call'[u] = call[u]
                      /\ call[t].pc \notin RegisterPoints
                      /\ call'[t].pc \notin RegisterPoints
                      /\ attached' = attached
  <2>1. ASSUME NEW r \in RegIds, DeregisterBegin(t, r) PROVE Goal
    <3>1. call'[t].pc = "deregistering" /\ \A u \in Threads : u # t => call'[u] = call[u]
      BY <1>0, <2>1 DEF DeregisterBegin, NoCall
    <3>. QED  BY <2>1, <3>1 DEF DeregisterBegin, RegisterPoints, Idle
  <2>2. BackendReleases(t) \/ BackendReleaseFails(t) => Goal
    BY <1>0 DEF BackendReleases, BackendReleaseFails, RegisterPoints, Call
  <2>3. DeregisterFail(t) \/ DeregisterFinish(t) => Goal
    BY <1>0 DEF DeregisterFail, DeregisterFinish, RegisterPoints, NoCall
  <2>. QED  BY <2>1, <2>2, <2>3
<1>2. \A u \in Threads : call[u].pc = "stored" => call'[u] = call[u]
  BY <1>1 DEF RegisterPoints
<1>3. \A q \in RegIds : Present(q)' => Present(q)
  BY <1>0 DEF DeregisterBegin, BackendReleases, BackendReleaseFails, DeregisterFail,
              DeregisterFinish, Erase, Deregisterable, MayDeregister, Present, NoRecord
<1>4. NothingUnattached'
  <2>1. Registering' = Registering /\ PresentRegs' \subseteq PresentRegs
    BY <1>1, <1>3 DEF Registering, PresentRegs
  <2>. QED  BY <1>0, <1>1, <2>1 DEF NothingUnattached
<1>5. CASE \E r \in RegIds : DeregisterBegin(t, r)
  <2>1. PICK r \in RegIds : DeregisterBegin(t, r)
    BY <1>5
  <2>2. /\ call[t].pc = "idle"
        /\ call'[t].pc = "deregistering" /\ call'[t].reg = r /\ call'[t].handle = regs[r].handle
        /\ \A q \in RegIds : regs'[q].handle = regs[q].handle
        /\ \A q \in RegIds : Present(q)' <=> Present(q)
        /\ entries' = entries
    BY <1>0, <2>1 DEF DeregisterBegin, Deregisterable, MayDeregister, Idle, NoCall, Present,
                      Record, backendVars
  <2>3. HandlesFollowed'
    BY <1>0, <1>1, <2>2 DEF HandlesFollowed, TeardownExclusive, Deregistering
  <2>4. \A q : Surrendered(q)' <=> Surrendered(q)
    BY <1>1, <2>2 DEF Surrendered
  <2>5. ASSUME NEW h \in Handles, LiveEntry(h)' PROVE Owned(h)'
    <3>1. Owned(h)
      BY <1>0, <2>2, <2>5 DEF LiveEntry
    <3>. QED  BY <1>2, <2>2, <2>4, <3>1 DEF Owned, PresentRegs
  <2>. QED  BY <1>4, <2>3, <2>5 DEF EntriesOwned
<1>6. CASE BackendReleaseFails(t)
  <2>1. /\ regs' = regs /\ entries' = entries
        /\ call'[t].pc = "refused" /\ call[t].pc = "deregistering"
        /\ call'[t].reg = call[t].reg /\ call'[t].handle = call[t].handle
    BY <1>0, <1>6 DEF BackendReleaseFails, backendVars, Call
  <2>2. Deregistering' = Deregistering /\ PresentRegs' = PresentRegs
    BY <1>1, <2>1 DEF Deregistering, DeregisterPoints, PresentRegs, Present
  <2>3. HandlesFollowed'
    BY <1>0, <1>1, <2>1, <2>2 DEF HandlesFollowed, Deregistering
  <2>4. \A q : Surrendered(q)' <=> Surrendered(q)
    BY <1>1, <2>1 DEF Surrendered
  <2>5. ASSUME NEW h \in Handles, LiveEntry(h)' PROVE Owned(h)'
    <3>1. Owned(h)
      BY <1>0, <2>1, <2>5 DEF LiveEntry
    <3>. QED  BY <1>2, <2>1, <2>2, <2>4, <3>1 DEF Owned
  <2>. QED  BY <1>4, <2>3, <2>5 DEF EntriesOwned
<1>7. CASE BackendReleases(t)
  <2>1. /\ regs' = regs
        /\ call'[t].pc = "released" /\ call[t].pc = "deregistering"
        /\ call'[t].reg = call[t].reg /\ call'[t].handle = call[t].handle
        /\ t \in Deregistering
    BY <1>0, <1>7 DEF BackendReleases, Call, Deregistering, DeregisterPoints
  <2>2. Deregistering' = Deregistering /\ PresentRegs' = PresentRegs
    BY <1>1, <2>1 DEF Deregistering, DeregisterPoints, PresentRegs, Present
  <2>3. HandlesFollowed'
    BY <1>0, <1>1, <2>1, <2>2 DEF HandlesFollowed, Deregistering
  <2>4. /\ call[t].handle = regs[call[t].reg].handle /\ call[t].reg \in PresentRegs
    BY <1>0, <2>1 DEF HandlesFollowed, TeardownExclusive, PresentRegs, Present
  <2>5. attached /\ entries' = [entries EXCEPT ![call[t].handle] = NoEntry]
    BY <1>0, <1>7, <2>4 DEF BackendReleases, BackendDrop, NothingUnattached
  <2>6. ASSUME NEW h \in Handles, LiveEntry(h)' PROVE Owned(h)'
    <3>1. h # call[t].handle /\ LiveEntry(h)
      BY <1>0, <2>5, <2>6 DEF LiveEntry, NoEntry
    <3>2. Owned(h)
      BY <1>0, <3>1
    <3>3. ASSUME NEW r \in PresentRegs, regs[r].handle = h, ~Surrendered(r) PROVE Owned(h)'
      <4>1. r # call[t].reg
        BY <2>4, <3>1, <3>3
      <4>2. ~Surrendered(r)'
        BY <1>1, <2>1, <3>3, <4>1 DEF Surrendered
      <4>. QED  BY <2>1, <2>2, <3>3, <4>2 DEF Owned
    <3>4. ASSUME NEW u \in Threads, call[u].pc = "stored" /\ call[u].handle = h
          PROVE  Owned(h)'
      BY <1>2, <3>4 DEF Owned
    <3>. QED  BY <3>2, <3>3, <3>4 DEF Owned
  <2>. QED  BY <1>4, <2>3, <2>6 DEF EntriesOwned
<1>8. CASE DeregisterFail(t) \/ DeregisterFinish(t)
  <2>0. PICK r : r = call[t].reg
    OBVIOUS
  <2>1. /\ call'[t].pc = "idle" /\ entries' = entries /\ t \in Deregistering
        /\ \A q \in RegIds : q # r => regs'[q] = regs[q]
        /\ DeregisterFail(t) => regs'[r].handle = regs[r].handle /\ Present(r)'
        /\ DeregisterFinish(t) => Surrendered(r)
    <3>1. t \in Deregistering
      BY <1>8 DEF DeregisterFail, DeregisterFinish, Deregistering, DeregisterPoints
    <3>2. r \in RegIds /\ Present(r)
      BY <1>0, <2>0, <3>1 DEF TeardownExclusive, Present
    <3>3. CASE DeregisterFail(t)
      <4>1. /\ call' = [call EXCEPT ![t] = NoCall] /\ entries' = entries
            /\ regs' = [regs EXCEPT ![r].life = "FAILED"]
            /\ call[t].pc = "refused"
        BY <2>0, <3>2, <3>3 DEF DeregisterFail, backendVars
      <4>2. regs'[r].handle = regs[r].handle /\ regs'[r].life = "FAILED"
        BY <1>0, <3>2, <4>1 DEF Record
      <4>3. ~DeregisterFinish(t)
        BY <4>1 DEF DeregisterFinish
      <4>. QED  BY <1>0, <3>1, <3>2, <4>1, <4>2, <4>3 DEF Present, NoCall
    <3>4. CASE DeregisterFinish(t)
      <4>1. /\ call' = [call EXCEPT ![t] = NoCall] /\ entries' = entries
            /\ regs' = [regs EXCEPT ![r] = NoRecord]
            /\ call[t].pc = "released"
        BY <2>0, <3>2, <3>4 DEF DeregisterFinish, Erase, backendVars
      <4>2. ~DeregisterFail(t) /\ Surrendered(r)
        BY <2>0, <4>1 DEF DeregisterFail, Surrendered
      <4>. QED  BY <1>0, <3>1, <4>1, <4>2 DEF NoCall
    <3>. QED  BY <1>8, <3>3, <3>4
  <2>2. \A u \in Deregistering' : u \in Deregistering /\ u # t /\ call'[u] = call[u]
                                /\ call[u].reg # r
    BY <1>0, <1>1, <2>0, <2>1 DEF Deregistering, DeregisterPoints, TeardownExclusive
  <2>3. HandlesFollowed'
    BY <1>0, <2>1, <2>2 DEF HandlesFollowed, TeardownExclusive
  <2>4. \A q : Surrendered(q)' => Surrendered(q)
    BY <1>1, <2>1 DEF Surrendered
  <2>5. ASSUME NEW h \in Handles, LiveEntry(h)' PROVE Owned(h)'
    <3>1. Owned(h)
      BY <1>0, <2>1, <2>5 DEF LiveEntry
    <3>2. ASSUME NEW q \in PresentRegs, regs[q].handle = h, ~Surrendered(q) PROVE Owned(h)'
      <4>1. regs'[q].handle = h /\ q \in PresentRegs'
        BY <1>8, <2>1, <3>2 DEF PresentRegs, Present
      <4>. QED  BY <2>4, <3>2, <4>1 DEF Owned
    <3>3. ASSUME NEW u \in Threads, call[u].pc = "stored" /\ call[u].handle = h
          PROVE  Owned(h)'
      BY <1>2, <3>3 DEF Owned
    <3>. QED  BY <3>1, <3>2, <3>3 DEF Owned
  <2>. QED  BY <1>4, <2>3, <2>5 DEF EntriesOwned
<1>. QED  BY <1>5, <1>6, <1>7, <1>8

(* Every step keeps the entries owned.                                     *)
LEMMA EntriesStep ==
    ASSUME LeaseInv, EntriesOwned, [Next]_vars
    PROVE  EntriesOwned'
<1>0. TypeOK /\ TeardownExclusive
  BY DEF LeaseInv, Inv
<1>1. CASE Operation
  <2>1. \A r \in RegIds : /\ Present(r)' <=> Present(r)
                          /\ regs'[r].handle = regs[r].handle
    BY <1>0, <1>1, OperationAdvances DEF Advances, Present
  <2>. QED  BY <1>0, <1>1, <2>1, OperationFrame, OperationEntries, OwnedKept
<1>2. CASE DeviceEvent
  <2>1. UNCHANGED registryVars
    BY <1>2 DEF DeviceEvent
  <2>. QED  BY <1>0, <1>2, <2>1, DeviceEntries, OwnedKept DEF registryVars, Present
<1>3. CASE UNCHANGED vars
  BY <1>0, <1>3, OwnedKept DEF vars, registryVars, backendVars, Present, LiveEntry
<1>. QED  BY <1>1, <1>2, <1>3, RegisteringOwned, DeregisteringOwned
          DEF Next, Begin, Continue

------------------------------------------------------------------------------
(* Gauges.                                                                 *)

(* Taking the records of S out of the accounting lowers the gauge of       *)
(* registrations by their number, to zero at the least, and leaves the     *)
(* gauge of leases alone.                                                  *)
LEMMA InvalidationLowers ==
    ASSUME NEW a \in Gauges, NEW S \in SUBSET RegIds, NEW x \in AfterInvalidation(a, S)
    PROVE  /\ x \in Gauges
           /\ x.regs = FewerBy(a.regs, Cardinality(S))
           /\ x.regs <= a.regs
           /\ x.leases = a.leases
<1>1. x \in Gauges
  BY InvalidationTyped
<1>2. PICK w \in Remainders(a, S) :
          x = [a EXCEPT !.regs = FewerBy(@, Cardinality(S)), !.bytes = w[1], !.pinned = w[2]]
  BY DEF AfterInvalidation
<1>3. x.regs = FewerBy(a.regs, Cardinality(S)) /\ x.leases = a.leases
  BY <1>2 DEF Gauges
<1>4. Cardinality(S) \in Nat /\ a.regs \in Nat
  BY RegSetsFinite DEF Gauges
<1>5. FewerBy(a.regs, Cardinality(S)) <= a.regs
  BY <1>4 DEF FewerBy
<1>. QED  BY <1>1, <1>3, <1>5

(* The sets the gauges are compared with can be counted.                   *)
LEMMA TablesFinite ==
    /\ IsFiniteSet(PresentRegs) /\ Cardinality(PresentRegs) \in Nat
    /\ IsFiniteSet(ActiveLeases) /\ Cardinality(ActiveLeases) \in Nat
<1>1. PresentRegs \in SUBSET RegIds /\ ActiveLeases \in SUBSET LeaseIds
  BY DEF PresentRegs, ActiveLeases
<1>. QED  BY <1>1, RegSetsFinite, LeaseSetsFinite

(* A step that raises neither gauge and shrinks neither table.             *)
LEMMA GaugesKept ==
    ASSUME TypeOK, GaugesNeverOverstate,
           PresentRegs' = PresentRegs, ActiveLeases' = ActiveLeases,
           acct' \in Gauges, acct'.regs <= acct.regs, acct'.leases <= acct.leases
    PROVE  GaugesNeverOverstate'
BY TablesFinite DEF GaugesNeverOverstate, TypeOK, Gauges

(* A lease is granted: one more on the gauge, one more ACTIVE.             *)
LEMMA GrantGauged ==
    ASSUME TypeOK, LeasesKnown, GaugesNeverOverstate, PresentRegs' = PresentRegs, SomeLease
    PROVE  GaugesNeverOverstate'
<1>1. PICK n : n = next.lease
  OBVIOUS
<1>2. /\ n \in LeaseIds
      /\ \A l \in LeaseIds : l # n => leases'[l] = leases[l]
      /\ leases'[n].state = "ACTIVE"
      /\ acct' = [acct EXCEPT !.leases = @ + 1]
  BY <1>1 DEF SomeLease, AcquireLease, TypeOK
<1>3. n \notin ActiveLeases
  BY <1>1 DEF LeasesKnown, ActiveLeases
<1>4. ActiveLeases' = ActiveLeases \cup {n}
  BY <1>2 DEF ActiveLeases
<1>5. Cardinality(ActiveLeases') = Cardinality(ActiveLeases) + 1
  BY <1>3, <1>4, TablesFinite, FS_AddElement
<1>6. acct'.regs = acct.regs /\ acct'.leases = acct.leases + 1 /\ acct.leases \in Nat
  BY <1>2 DEF TypeOK, Gauges
<1>. QED  BY <1>5, <1>6, TablesFinite DEF GaugesNeverOverstate

(* A lease is returned: one less on the gauge, unless it is at zero, and   *)
(* at most one less ACTIVE.                                                *)
LEMMA ReturnGauged ==
    ASSUME TypeOK, GaugesNeverOverstate, PresentRegs' = PresentRegs,
           NEW n \in LeaseIds, ReleaseLease(n)
    PROVE  GaugesNeverOverstate'
<1>1. /\ \A l \in LeaseIds : l # n => leases'[l] = leases[l]
      /\ leases'[n].state = "RELEASED"
      /\ acct' = [acct EXCEPT !.leases = Decrement(@, 1)]
  BY DEF ReleaseLease, TypeOK, Lease
<1>2. ActiveLeases' = ActiveLeases \ {n}
  BY <1>1 DEF ActiveLeases
<1>3. /\ Cardinality(ActiveLeases') \in {Cardinality(ActiveLeases), Cardinality(ActiveLeases) - 1}
      /\ Cardinality(ActiveLeases') \in Nat
  <2>1. /\ IsFiniteSet(ActiveLeases \ {n})
        /\ Cardinality(ActiveLeases \ {n}) =
              IF n \in ActiveLeases THEN Cardinality(ActiveLeases) - 1
              ELSE Cardinality(ActiveLeases)
    BY TablesFinite, FS_RemoveElement
  <2>2. Cardinality(ActiveLeases \ {n}) \in Nat
    BY <2>1, FS_CardinalityType
  <2>. QED  BY <1>2, <2>1, <2>2
<1>4. /\ acct'.regs = acct.regs /\ acct'.leases = Decrement(acct.leases, 1)
      /\ acct.leases \in Nat
  BY <1>1 DEF TypeOK, Gauges
<1>5. acct'.leases <= Cardinality(ActiveLeases')
  <2>1. acct.leases <= Cardinality(ActiveLeases) /\ Cardinality(ActiveLeases) \in Nat
    BY TablesFinite DEF GaugesNeverOverstate
  <2>. QED  BY <1>3, <1>4, <2>1 DEF Decrement
<1>. QED  BY <1>4, <1>5 DEF GaugesNeverOverstate

(* A hard revocation closes the ACTIVE leases of the record and takes as   *)
(* many off the gauge.                                                     *)
LEMMA RevocationGauged ==
    ASSUME TypeOK, GaugesNeverOverstate, PresentRegs' = PresentRegs,
           NEW r \in RegIds, HardRevoke(r)
    PROVE  GaugesNeverOverstate'
<1>. DEFINE S == LeasesOn(r, {"ACTIVE"})
            k == Cardinality(S)
<1>1. /\ leases' = LeasesRevoked(r)
      /\ acct' = [acct EXCEPT !.leases = FewerBy(@, k)]
  BY DEF HardRevoke
<1>2. S \subseteq ActiveLeases /\ S \in SUBSET LeaseIds
  BY DEF LeasesOn, ActiveLeases
<1>3. \A l \in LeaseIds : leases'[l].state = "ACTIVE" <=>
          leases[l].state = "ACTIVE" /\ l \notin S
  BY <1>1 DEF LeasesRevoked, TypeOK, Lease
<1>. HIDE DEF S
<1>4. ActiveLeases' = ActiveLeases \ S
  BY <1>3 DEF ActiveLeases
<1>5. ActiveLeases \cap S = S
  BY <1>2
<1>6. Cardinality(ActiveLeases') = Cardinality(ActiveLeases) - k
  <2>1. Cardinality(ActiveLeases \ S) =
            Cardinality(ActiveLeases) - Cardinality(ActiveLeases \cap S)
    BY TablesFinite, FS_Difference
  <2>. QED  BY <1>4, <1>5, <2>1
<1>7. k \in Nat /\ k <= Cardinality(ActiveLeases)
  BY <1>2, LeaseSetsFinite, TablesFinite, FS_Subset
<1>. HIDE DEF k
<1>8. /\ acct'.regs = acct.regs /\ acct'.leases = FewerBy(acct.leases, k)
      /\ acct.leases \in Nat
  BY <1>1 DEF TypeOK, Gauges
<1>9. acct'.leases <= Cardinality(ActiveLeases')
  BY <1>6, <1>7, <1>8, TablesFinite DEF GaugesNeverOverstate, FewerBy
<1>. QED  BY <1>8, <1>9 DEF GaugesNeverOverstate

(* Every operation keeps the gauges below what there is.                   *)
LEMMA OperationGauged ==
    ASSUME LeaseInv, GaugesNeverOverstate, Operation
    PROVE  GaugesNeverOverstate'
<1>0. /\ TypeOK /\ acct \in Gauges /\ acct.regs \in Nat /\ acct.leases \in Nat
      /\ LeasesKnown
  BY DEF LeaseInv, Inv, TypeOK, Gauges
<1>1. PresentRegs' = PresentRegs
  BY <1>0, OperationAdvances DEF Advances, Present, PresentRegs
<1>2. acct' \in Gauges
  BY <1>0, OperationTyped DEF TypeOK
<1>3. ASSUME leases' = leases, acct'.regs <= acct.regs, acct'.leases = acct.leases
      PROVE  GaugesNeverOverstate'
  BY <1>0, <1>1, <1>2, <1>3, GaugesKept DEF ActiveLeases
<1>4. ASSUME leases' = leases, acct' = acct PROVE GaugesNeverOverstate'
  BY <1>0, <1>3, <1>4
<1>5. ASSUME NEW p \in DomainIds, DestroyProtectionDomain(p) PROVE GaugesNeverOverstate'
  <2>1. PICK a \in AfterInvalidation(acct, RegsOfDomain(p)) :
            acct' = [a EXCEPT !.domains = Decrement(@, 1)]
    BY <1>5 DEF DestroyProtectionDomain
  <2>2. /\ a \in Gauges /\ a.regs <= acct.regs /\ a.leases = acct.leases
    BY <1>0, <2>1, InvalidationLowers DEF RegsOfDomain
  <2>3. acct'.regs <= acct.regs /\ acct'.leases = acct.leases
    BY <2>1, <2>2 DEF Gauges
  <2>. QED  BY <1>3, <1>5, <2>3 DEF DestroyProtectionDomain
<1>6. ASSUME NEW d \in Descriptors, CreateBuffer(d) PROVE GaugesNeverOverstate'
  <2>1. CASE ReallocateBuffer(d)
    <3>1. PICK b : b = ChosenId(d)
      OBVIOUS
    <3>2. PICK a \in AfterInvalidation(acct, RegsOfBuffer(b)) :
              acct' = [a EXCEPT !.live = LiveBytesAfter(d, buffers[b].len)]
      BY <2>1, <3>1 DEF ReallocateBuffer
    <3>3. /\ a \in Gauges /\ a.regs <= acct.regs /\ a.leases = acct.leases
      BY <1>0, <3>2, InvalidationLowers DEF RegsOfBuffer
    <3>4. acct'.regs <= acct.regs /\ acct'.leases = acct.leases
      BY <3>2, <3>3 DEF Gauges
    <3>. QED  BY <1>3, <2>1, <3>4 DEF ReallocateBuffer
  <2>2. CASE CreateNewBuffer(d)
    <3>1. acct'.regs = acct.regs /\ acct'.leases = acct.leases /\ leases' = leases
      BY <1>0, <2>2 DEF CreateNewBuffer, Gauges
    <3>. QED  BY <1>0, <1>3, <3>1
  <2>3. CASE CreateRefused(d)
    BY <1>4, <2>3 DEF CreateRefused
  <2>. QED  BY <1>6, <2>1, <2>2, <2>3 DEF CreateBuffer
<1>7. CASE CreateProtectionDomain
  <2>1. acct'.regs = acct.regs /\ acct'.leases = acct.leases /\ leases' = leases
    BY <1>0, <1>7 DEF CreateProtectionDomain, Gauges
  <2>. QED  BY <1>0, <1>3, <2>1
<1>8. SomeLease => GaugesNeverOverstate'
  BY <1>0, <1>1, GrantGauged
<1>9. (\E l \in LeaseIds : ReleaseLease(l)) => GaugesNeverOverstate'
  BY <1>0, <1>1, ReturnGauged
<1>10. ASSUME NEW r \in RegIds, NEW mode \in RevocationModes, Revoke(r, mode)
       PROVE  GaugesNeverOverstate'
  BY <1>0, <1>1, <1>4, <1>10, RevocationGauged DEF Revoke, SoftRevoke
<1>11. \/ \E s \in Snapshots : SetAuthority(s)
       \/ AdvanceEpoch
       \/ NoteParticipantRestart
       \/ AddBackend
       \/ \E r \in RegIds : RotateKey(r)
       \/ \E d \in Descriptors, p \in DomainIds, env \in Envelopes :
              RegisterBufferReuse(d, p, env)
       \/ \E q \in Requests : ValidateRemoteAccess(q)
       => leases' = leases /\ acct' = acct
  BY DEF SetAuthority, AdvanceEpoch, NoteParticipantRestart, AddBackend, RotateKey,
         RegisterBufferReuse, ValidateRemoteAccess
<1>. QED  BY <1>4, <1>5, <1>6, <1>7, <1>8, <1>9, <1>10, <1>11 DEF Operation, SomeLease

(* Publishing a record raises the gauge of registrations with the table.   *)
LEMMA CommitGauged ==
    ASSUME LeaseInv, GaugesNeverOverstate, NEW t \in Threads, RegisterCommit(t)
    PROVE  GaugesNeverOverstate'
<1>0. /\ regs \in [RegIds -> Record] /\ acct \in Gauges
      /\ CallsInRange /\ CommitNeverOverwrites
  BY DEF LeaseInv, Inv, TypeOK
<1>1. PICK n : n = call[t].reg
  OBVIOUS
<1>2. n \in RegIds /\ n \notin PresentRegs
  BY <1>0, <1>1 DEF RegisterCommit, RegisterPoints, Registering, CallsInRange,
                    CommitNeverOverwrites, PresentRegs
<1>3. /\ \A q \in RegIds : q # n => regs'[q] = regs[q]
      /\ regs'[n].life = "ACTIVE" /\ leases' = leases
      /\ acct' = AfterCommit(acct, call[t].desc)
  BY <1>0, <1>1, <1>2 DEF RegisterCommit
<1>4. PresentRegs' = PresentRegs \cup {n} /\ ActiveLeases' = ActiveLeases
  BY <1>2, <1>3 DEF PresentRegs, Present, ActiveLeases
<1>5. Cardinality(PresentRegs') = Cardinality(PresentRegs) + 1
  BY <1>2, <1>4, TablesFinite, FS_AddElement
<1>6. acct'.regs = acct.regs + 1 /\ acct'.leases = acct.leases /\ acct.regs \in Nat
  BY <1>0, <1>3 DEF AfterCommit, Gauges
<1>. QED  BY <1>4, <1>5, <1>6, TablesFinite DEF GaugesNeverOverstate

(* Erasing a record lowers it with the table; no ACTIVE lease goes along,  *)
(* because nobody holds a record that is being deregistered.               *)
LEMMA EraseGauged ==
    ASSUME LeaseInv, GaugesNeverOverstate, NEW t \in Threads, DeregisterFinish(t)
    PROVE  GaugesNeverOverstate'
<1>0. /\ regs \in [RegIds -> Record] /\ acct \in Gauges /\ leases \in [LeaseIds -> Lease]
      /\ LeaseCountExact /\ TeardownExclusive
  BY DEF LeaseInv, Inv, TypeOK
<1>1. PICK r : r = call[t].reg
  OBVIOUS
<1>2. r \in RegIds /\ r \in PresentRegs /\ regs[r].leases = 0
  BY <1>0, <1>1 DEF DeregisterFinish, Deregistering, DeregisterPoints, TeardownExclusive,
                    PresentRegs, Present
<1>3. /\ \A q \in RegIds : q # r => regs'[q] = regs[q]
      /\ regs'[r] = NoRecord
      /\ leases' = [l \in LeaseIds |-> IF leases[l].reg = r THEN NoLease ELSE leases[l]]
      /\ acct' \in AfterInvalidation(acct, {r})
  BY <1>0, <1>1, <1>2 DEF DeregisterFinish, Erase, PresentRegs
<1>4. Held(r) = {}
  BY <1>0, <1>2, HeldFinite DEF LeaseCountExact, Held
<1>5. ActiveLeases' = ActiveLeases
  BY <1>3, <1>4 DEF ActiveLeases, Held, LeasesOn, Outstanding, NoLease
<1>6. PresentRegs' = PresentRegs \ {r}
  BY <1>3 DEF PresentRegs, Present, NoRecord
<1>7. Cardinality(PresentRegs') = Cardinality(PresentRegs) - 1
  BY <1>2, <1>6, TablesFinite, FS_RemoveElement
<1>8. Cardinality(PresentRegs') \in Nat
  BY <1>6, TablesFinite, FS_RemoveElement, FS_CardinalityType
<1>9. acct'.regs = FewerBy(acct.regs, 1) /\ acct'.leases = acct.leases /\ acct.regs \in Nat
  <2>1. Cardinality({r}) = 1
    BY FS_Singleton
  <2>. QED  BY <1>0, <1>2, <1>3, <2>1, InvalidationLowers DEF Gauges
<1>10. acct'.regs <= Cardinality(PresentRegs')
  BY <1>7, <1>8, <1>9, TablesFinite DEF GaugesNeverOverstate, FewerBy
<1>. QED  BY <1>5, <1>9, <1>10 DEF GaugesNeverOverstate

(* Every step keeps the gauges below what there is.                        *)
LEMMA GaugesStep ==
    ASSUME LeaseInv, GaugesNeverOverstate, [Next]_vars
    PROVE  GaugesNeverOverstate'
<1>0. /\ TypeOK /\ regs \in [RegIds -> Record] /\ acct \in Gauges
      /\ acct.regs \in Nat /\ acct.leases \in Nat
  BY DEF LeaseInv, Inv, TypeOK, Gauges
<1>1. ASSUME PresentRegs' = PresentRegs, leases' = leases, acct' = acct
      PROVE  GaugesNeverOverstate'
  BY <1>0, <1>1, GaugesKept DEF ActiveLeases
<1>2. ASSUME NEW t \in Threads,
             (\E r \in RegIds : DeregisterBegin(t, r)) \/ DeregisterFail(t)
      PROVE  GaugesNeverOverstate'
  <2>1. \A q \in RegIds : Present(q)' <=> Present(q)
    <3>1. ASSUME NEW r \in RegIds, DeregisterBegin(t, r)
          PROVE  \A q \in RegIds : Present(q)' <=> Present(q)
      BY <1>0, <3>1 DEF DeregisterBegin, Deregisterable, MayDeregister, Present
    <3>2. DeregisterFail(t) => \A q \in RegIds : Present(q)' <=> Present(q)
      BY <1>0 DEF DeregisterFail, Present
    <3>. QED  BY <1>2, <3>1, <3>2
  <2>2. PresentRegs' = PresentRegs
    BY <2>1 DEF PresentRegs
  <2>. QED  BY <1>1, <1>2, <2>2 DEF DeregisterBegin, DeregisterFail
<1>3. ASSUME UNCHANGED <<regs, leases, acct>> PROVE GaugesNeverOverstate'
  BY <1>1, <1>3 DEF PresentRegs, Present
<1>4. ASSUME NEW t \in Threads,
             \/ \E d \in Descriptors, p \in DomainIds, env \in Envelopes :
                    RegisterAdmit(t, d, p, env)
             \/ BackendRefuses(t) \/ BackendNumbers(t) \/ BackendStores(t)
             \/ BackendReleases(t) \/ BackendReleaseFails(t)
      PROVE  GaugesNeverOverstate'
  BY <1>3, <1>4 DEF RegisterAdmit, BackendRefuses, BackendNumbers, BackendStores,
                    BackendReleases, BackendReleaseFails
<1>5. CASE DeviceEvent \/ UNCHANGED vars
  BY <1>3, <1>5 DEF DeviceEvent, vars, registryVars
<1>. QED  BY <1>2, <1>4, <1>5, OperationGauged, CommitGauged, EraseGauged
          DEF Next, Begin, Continue

------------------------------------------------------------------------------
(* Theorems.                                                               *)

AuthorityInv == LeaseInv /\ RecordsKnown /\ EntriesOwned /\ GaugesNeverOverstate

(* The invariant holds at the start.                                       *)
LEMMA AuthorityInvInit == Init => AuthorityInv
<1>. SUFFICES ASSUME Init PROVE AuthorityInv
  OBVIOUS
<1>1. RecordsKnown
  BY DEF Init, RecordsKnown, Present, NoRecord
<1>2. /\ PresentRegs = {} /\ Registering = {} /\ Deregistering = {} /\ ActiveLeases = {}
      /\ \A h \in Handles : ~LiveEntry(h)
  BY DEF Init, BackendInit, PresentRegs, Present, NoRecord, Registering, Deregistering,
         NoCall, RegisterPoints, DeregisterPoints, ActiveLeases, NoLease, LiveEntry, NoEntry
<1>3. EntriesOwned
  BY <1>2 DEF EntriesOwned, HandlesFollowed, NothingUnattached
<1>4. GaugesNeverOverstate
  BY <1>2, FS_EmptySet DEF Init, GaugesNeverOverstate
<1>. QED  BY <1>1, <1>3, <1>4, LeaseInvInit DEF AuthorityInv

(* Every step keeps it.                                                    *)
LEMMA AuthorityInvStep == AuthorityInv /\ [Next]_vars => AuthorityInv'
BY LeaseInvStep, RecordsStep, EntriesStep, GaugesStep DEF AuthorityInv

(* The invariant behind the theorems below.                                *)
THEOREM AuthorityInvHolds == Spec => []AuthorityInv
<1>. QED  BY AuthorityInvInit, AuthorityInvStep, PTL DEF Spec

(* Every live entry of the backend belongs to a record in the table or to  *)
(* a call in progress, in every interleaving (registry.cpp:311-352,        *)
(* 752-790).                                                               *)
THEOREM NoEntryLeaked == Spec => []NoOrphanEntry
<1>1. AuthorityInv => NoOrphanEntry
  BY DEF AuthorityInv, EntriesOwned, Owned, NoOrphanEntry
<1>. QED  BY <1>1, AuthorityInvHolds, PTL

(* The gauges of registrations and of leases never count more than there   *)
(* is, whatever several operations take out of the accounting twice        *)
(* (registry.cpp:144, 172, 484, 501, 678, 781).                            *)
THEOREM GaugesBounded == Spec => []GaugesNeverOverstate
<1>1. AuthorityInv => GaugesNeverOverstate
  BY DEF AuthorityInv
<1>. QED  BY <1>1, AuthorityInvHolds, PTL

(* Every assignment of a lifecycle is along an edge of can_transition, but *)
(* the one of destroy_protection_domain, although none asks it             *)
(* (registration.hpp:63-108, registry.cpp:141, 169, 293, 349, 666-691,     *)
(* 752, 765, 779).                                                         *)
THEOREM LifecycleGuarded == Spec => OnlyDestructionUnguarded
<1>1. AuthorityInv /\ [Next]_vars => [Guarded]_vars
  BY RecordsStep DEF AuthorityInv
<1>2. [][Guarded]_vars => OnlyDestructionUnguarded
  BY PTL DEF OnlyDestructionUnguarded, Guarded
<1>. QED  BY <1>1, <1>2, AuthorityInvHolds, PTL DEF Spec

------------------------------------------------------------------------------
(* The refinement of KeyAuthority.                                         *)

(* What a step leaves alone of the abstract state.                         *)
SamePhases == \A r \in RegIds : PhaseOf(r)' = PhaseOf(r)
SameKeys == \A r \in RegIds : regs'[r].keyGen = regs[r].keyGen
SameHolders == \A r \in RegIds : LeasesOn(r, Outstanding)' = LeasesOn(r, Outstanding)
SameIssued == next'.lease = next.lease

(* A step that leaves all of it alone is a stuttering step of the promise. *)
LEMMA PromiseStutters ==
    ASSUME SamePhases, SameKeys, SameHolders, SameIssued
    PROVE  UNCHANGED Promise!authorityVars
BY DEF SamePhases, SameKeys, SameHolders, SameIssued, Promise!authorityVars

(* Registrations that stop being in force together are closed together.    *)
LEMMA PromiseCloses ==
    ASSUME NEW S \in SUBSET RegIds, NEW bumped \in SUBSET S, SameHolders, SameIssued,
           \A r \in S : PhaseOf(r) = "open",
           \A r \in RegIds : PhaseOf(r)' = IF r \in S THEN "closed" ELSE PhaseOf(r),
           \A r \in RegIds : regs'[r].keyGen = IF r \in bumped THEN regs[r].keyGen + 1
                                               ELSE regs[r].keyGen
    PROVE  [Promise!Next]_(Promise!authorityVars)
<1>1. CASE S = {}
  <2>1. SamePhases /\ SameKeys
    BY <1>1 DEF SamePhases, SameKeys
  <2>. QED  BY <2>1, PromiseStutters
<1>2. CASE S # {}
  <2>1. Promise!Close(S)
    BY <1>2 DEF Promise!Close, SameHolders, SameIssued
  <2>. QED  BY <2>1 DEF Promise!Next
<1>. QED  BY <1>1, <1>2

(* The same of a step that moves no key on.                                *)
LEMMA PromiseClosesOnly ==
    ASSUME NEW S \in SUBSET RegIds, SameKeys, SameHolders, SameIssued,
           \A r \in S : PhaseOf(r) = "open",
           \A r \in RegIds : PhaseOf(r)' = IF r \in S THEN "closed" ELSE PhaseOf(r)
    PROVE  [Promise!Next]_(Promise!authorityVars)
<1>1. PICK bumped \in SUBSET S : bumped = {}
  OBVIOUS
<1>2. \A r \in RegIds : regs'[r].keyGen = IF r \in bumped THEN regs[r].keyGen + 1
                                          ELSE regs[r].keyGen
  BY <1>1 DEF SameKeys
<1>. QED  BY <1>2, PromiseCloses

(* Operations open nothing and forget nothing: the phase of a registration *)
(* changes only when it stops being in force.                              *)
LEMMA OperationPhases ==
    ASSUME TypeOK, Operation, NEW r \in RegIds
    PROVE  /\ PhaseOf(r) = "open" <=> InForce(r)
           /\ InForce(r)' => InForce(r)
           /\ PhaseOf(r)' = IF InForce(r) /\ ~InForce(r)' THEN "closed" ELSE PhaseOf(r)
<1>1. /\ Present(r)' <=> Present(r)
      /\ InForce(r)' => InForce(r)
      /\ InForce(r) => Present(r)
  BY OperationAdvances DEF Advances, Present, InForce
<1>2. (\A t \in Registering : call[t].reg # r)' <=> \A t \in Registering : call[t].reg # r
  BY OperationFrame DEF Registering
<1>3. next'.reg = next.reg
  BY OperationFrame
<1>4. PhaseOf(r) = "open" <=> InForce(r)
  BY <1>1 DEF PhaseOf
<1>5. PhaseOf(r)' = IF InForce(r) /\ ~InForce(r)' THEN "closed" ELSE PhaseOf(r)
  BY <1>1, <1>2, <1>3 DEF PhaseOf
<1>. QED  BY <1>1, <1>4, <1>5

(* Key generations move in a rotation and in a hard revocation.            *)
LEMMA OperationKeys ==
    ASSUME TypeOK, Operation
    PROVE  \/ SameKeys
           \/ \E r \in RegIds : HardRevoke(r) \/ RotateKey(r)
<1>0. regs \in [RegIds -> Record]
  BY DEF TypeOK
<1>1. regs' = regs => SameKeys
  BY DEF SameKeys
<1>2. ASSUME NEW p \in DomainIds, DestroyProtectionDomain(p) PROVE SameKeys
  BY <1>0, <1>2 DEF DestroyProtectionDomain, SameKeys, Record
<1>3. ASSUME NEW d \in Descriptors, CreateBuffer(d) PROVE SameKeys
  <2>1. CASE ReallocateBuffer(d)
    BY <1>0, <2>1 DEF ReallocateBuffer, SameKeys, Record
  <2>2. CASE CreateNewBuffer(d) \/ CreateRefused(d)
    BY <1>1, <2>2 DEF CreateNewBuffer, CreateRefused
  <2>. QED  BY <1>3, <2>1, <2>2 DEF CreateBuffer
<1>4. SomeLease => SameKeys
  BY <1>0 DEF SomeLease, AcquireLease, SameKeys, Record
<1>5. ASSUME NEW l \in LeaseIds, ReleaseLease(l) PROVE SameKeys
  BY <1>0, <1>5 DEF ReleaseLease, SameKeys, Record
<1>6. ASSUME NEW r \in RegIds, SoftRevoke(r) PROVE SameKeys
  BY <1>0, <1>6 DEF SoftRevoke, SameKeys, Record
<1>7. ASSUME NEW r \in RegIds, NEW mode \in RevocationModes, Revoke(r, mode)
      PROVE  HardRevoke(r) \/ SameKeys
  BY <1>6, <1>7 DEF Revoke
<1>8. \/ \E s \in Snapshots : SetAuthority(s)
      \/ AdvanceEpoch
      \/ NoteParticipantRestart
      \/ AddBackend
      \/ CreateProtectionDomain
      \/ \E d \in Descriptors, p \in DomainIds, env \in Envelopes :
             RegisterBufferReuse(d, p, env)
      \/ \E q \in Requests : ValidateRemoteAccess(q)
      => SameKeys
  BY <1>1 DEF SetAuthority, AdvanceEpoch, NoteParticipantRestart, AddBackend,
              CreateProtectionDomain, RegisterBufferReuse, ValidateRemoteAccess
<1>. QED  BY <1>2, <1>3, <1>4, <1>5, <1>7, <1>8 DEF Operation, SomeLease

(* A grant takes a holder, a return gives it up, a rotation moves the key  *)
(* on, and every other operation closes what it takes out of force.        *)
LEMMA OperationKeepsPromise ==
    ASSUME LeaseInv, Operation
    PROVE  [Promise!Next]_(Promise!authorityVars)
<1>0. /\ TypeOK /\ regs \in [RegIds -> Record] /\ leases \in [LeaseIds -> Lease]
      /\ next \in NextIds /\ LeasesKnown
  BY DEF LeaseInv, Inv, TypeOK
<1>1. \A r \in RegIds :
          /\ PhaseOf(r) = "open" <=> InForce(r)
          /\ InForce(r)' => InForce(r)
          /\ PhaseOf(r)' = IF InForce(r) /\ ~InForce(r)' THEN "closed" ELSE PhaseOf(r)
  BY <1>0, OperationPhases
<1>2. ASSUME SomeLease PROVE [Promise!Next]_(Promise!authorityVars)
  <2>1. PICK r \in RegIds, env \in Envelopes, m \in LeaseMasks : AcquireLease(r, env, m)
    BY <1>2 DEF SomeLease
  <2>2. PICK n : n = next.lease
    OBVIOUS
  <2>3. /\ InForce(r) /\ n \in LeaseIds
        /\ \A l \in LeaseIds : l # n => leases'[l] = leases[l]
        /\ leases'[n].state = "ACTIVE" /\ leases'[n].reg = r
        /\ regs' = [regs EXCEPT ![r].leases = @ + 1]
        /\ next'.lease = n + 1
    BY <1>0, <2>1, <2>2 DEF AcquireLease, Leasable, NextIds
  <2>4. \A q \in RegIds : regs'[q].life = regs[q].life /\ regs'[q].keyGen = regs[q].keyGen
    BY <1>0, <2>3 DEF Record
  <2>5. SamePhases /\ SameKeys
    BY <1>1, <2>4 DEF SamePhases, SameKeys, InForce
  <2>6. leases[n].state = "ABSENT"
    BY <1>0, <2>2, <2>3 DEF LeasesKnown
  <2>7. \A q \in RegIds : LeasesOn(q, Outstanding)' =
            IF q = r THEN LeasesOn(q, Outstanding) \cup {n} ELSE LeasesOn(q, Outstanding)
    BY <2>3, <2>6 DEF LeasesOn, Outstanding
  <2>8. {l \in LeaseIds : l < next'.lease} = {l \in LeaseIds : l < next.lease} \cup {n}
    BY <2>2, <2>3
  <2>9. n \notin {l \in LeaseIds : l < next.lease}
    BY <2>2, <2>3
  <2>10. PhaseOf(r) = "open"
    BY <1>1, <2>3
  <2>11. Promise!Hold(r, n)
    BY ONLY <2>5, <2>7, <2>8, <2>9, <2>10
       DEF Promise!Hold, SamePhases, SameKeys
  <2>. QED  BY <2>3, <2>11 DEF Promise!Next
<1>3. ASSUME NEW n \in LeaseIds, ReleaseLease(n)
      PROVE  [Promise!Next]_(Promise!authorityVars)
  <2>1. PICK r : r = leases[n].reg
    OBVIOUS
  <2>2. r \in RegIds /\ Present(r) /\ leases[n].state \in Outstanding
    BY <1>0, <1>3, <2>1 DEF LeasesKnown, ReleaseLease
  <2>3. /\ \A l \in LeaseIds : l # n => leases'[l] = leases[l]
        /\ leases'[n].state = "RELEASED" /\ leases'[n].reg = r
        /\ next' = next
        /\ regs' = [regs EXCEPT ![r].leases = Decrement(@, 1)]
    BY <1>0, <1>3, <2>1, <2>2 DEF ReleaseLease, Lease
  <2>4. \A q \in RegIds : regs'[q].life = regs[q].life /\ regs'[q].keyGen = regs[q].keyGen
    BY <1>0, <2>3 DEF Record
  <2>5. SamePhases /\ SameKeys /\ SameIssued
    BY <1>1, <2>3, <2>4 DEF SamePhases, SameKeys, SameIssued, InForce
  <2>6. \A q \in RegIds : LeasesOn(q, Outstanding)' =
            IF q = r THEN LeasesOn(q, Outstanding) \ {n} ELSE LeasesOn(q, Outstanding)
    BY <2>1, <2>3 DEF LeasesOn, Outstanding
  <2>7. n \in LeasesOn(r, Outstanding)
    BY <2>1, <2>2 DEF LeasesOn
  <2>8. Promise!Release(r, n)
    BY ONLY <2>2, <2>5, <2>6, <2>7
       DEF Promise!Release, SamePhases, SameKeys, SameIssued
  <2>. QED  BY <2>2, <2>8 DEF Promise!Next
<1>4. ASSUME NEW q \in RegIds, HardRevoke(q) PROVE [Promise!Next]_(Promise!authorityVars)
  <2>1. /\ InForce(q) /\ regs' = [regs EXCEPT ![q] = Revoked(regs[q])]
        /\ leases' = LeasesRevoked(q) /\ next' = next
    BY <1>4 DEF HardRevoke
  <2>2. /\ regs'[q].life = "REVOKED" /\ regs'[q].keyGen = regs[q].keyGen + 1
        /\ \A r \in RegIds : r # q => regs'[r] = regs[r]
    BY <1>0, <2>1 DEF Revoked, Record
  <2>3. SameHolders /\ SameIssued
    BY <1>0, <2>1 DEF SameHolders, SameIssued, LeasesOn, LeasesRevoked, Lease, Outstanding
  <2>4. \A r \in RegIds : PhaseOf(r)' = IF r \in {q} THEN "closed" ELSE PhaseOf(r)
    BY <1>1, <2>1, <2>2 DEF InForce
  <2>5. \A r \in RegIds : regs'[r].keyGen = IF r \in {q} THEN regs[r].keyGen + 1
                                            ELSE regs[r].keyGen
    BY <2>2
  <2>6. \A r \in {q} : PhaseOf(r) = "open"
    BY <1>1, <2>1
  <2>. QED  BY <2>3, <2>4, <2>5, <2>6, PromiseCloses
<1>5. ASSUME NEW q \in RegIds, RotateKey(q) PROVE [Promise!Next]_(Promise!authorityVars)
  <2>1. /\ InForce(q) /\ leases' = leases /\ next' = next
        /\ regs' = [regs EXCEPT ![q].keyGen = @ + 1, ![q].keyRevoked = FALSE]
    BY <1>5 DEF RotateKey, Rotatable
  <2>2. /\ \A r \in RegIds : regs'[r].life = regs[r].life
        /\ \A r \in RegIds : regs'[r].keyGen = IF r = q THEN regs[r].keyGen + 1
                                                ELSE regs[r].keyGen
    BY <1>0, <2>1 DEF Record
  <2>3. SamePhases /\ SameHolders /\ SameIssued
    BY <1>1, <2>1, <2>2 DEF SamePhases, SameHolders, SameIssued, InForce, LeasesOn
  <2>4. PhaseOf(q) = "open"
    BY <1>1, <2>1
  <2>5. Promise!Rotate(q)
    BY ONLY <2>2, <2>3, <2>4
       DEF Promise!Rotate, SamePhases, SameHolders, SameIssued
  <2>. QED  BY <2>5 DEF Promise!Next
<1>6. ASSUME SameKeys, leases' = leases, next'.lease = next.lease
      PROVE  [Promise!Next]_(Promise!authorityVars)
  <2>0. PICK S : S = {r \in RegIds : InForce(r) /\ ~InForce(r)'}
    OBVIOUS
  <2>1. SameHolders /\ SameIssued
    BY <1>6 DEF SameHolders, SameIssued, LeasesOn
  <2>2. \A r \in RegIds : PhaseOf(r)' = IF r \in S THEN "closed" ELSE PhaseOf(r)
    BY <1>1, <2>0
  <2>3. S \in SUBSET RegIds /\ \A r \in S : PhaseOf(r) = "open"
    BY <1>1, <2>0
  <2>. QED  BY <1>6, <2>1, <2>2, <2>3, PromiseClosesOnly
<1>. QED  BY <1>0, <1>2, <1>3, <1>4, <1>5, <1>6, OperationLeases, OperationKeys

(* register_buffer publishes a registration it drew the id of, or loses    *)
(* the id; in between nothing shows.                                       *)
LEMMA RegisteringKeepsPromise ==
    ASSUME LeaseInv, RecordsKnown, NEW t \in Threads,
           \/ \E d \in Descriptors, p \in DomainIds, env \in Envelopes :
                  RegisterAdmit(t, d, p, env)
           \/ BackendRefuses(t) \/ BackendNumbers(t) \/ BackendStores(t)
           \/ RegisterCommit(t)
    PROVE  [Promise!Next]_(Promise!authorityVars)
<1>0. /\ TypeOK /\ regs \in [RegIds -> Record] /\ call \in [Threads -> Call]
      /\ next \in NextIds /\ next.reg \in Nat
      /\ CallsInRange /\ CommitNeverOverwrites
  BY DEF LeaseInv, Inv, TypeOK, NextIds
<1>1. CASE \E d \in Descriptors, p \in DomainIds, env \in Envelopes :
               RegisterAdmit(t, d, p, env)
  <2>1. PICK d \in Descriptors, p \in DomainIds, env \in Envelopes :
            RegisterAdmit(t, d, p, env)
    BY <1>1
  <2>2. /\ call'[t].pc = "admitted" /\ call'[t].reg = next.reg /\ call[t].pc = "idle"
        /\ \A u \in Threads : u # t => call'[u] = call[u]
        /\ next'.reg = next.reg + 1 /\ next'.lease = next.lease
        /\ regs' = regs /\ leases' = leases
    BY <1>0, <2>1 DEF RegisterAdmit, NextAfterAdmit, NextIds, Idle
  <2>3. Registering' = Registering \cup {t} /\ t \notin Registering
    BY <2>2 DEF Registering, RegisterPoints
  <2>4. ASSUME NEW r \in RegIds PROVE PhaseOf(r)' = PhaseOf(r)
    <3>1. Present(r)' <=> Present(r)
      BY <2>2 DEF Present
    <3>2. InForce(r)' <=> InForce(r)
      BY <2>2 DEF InForce
    <3>3. (r < next.reg /\ \A u \in Registering : call[u].reg # r)'
              <=> (r < next.reg /\ \A u \in Registering : call[u].reg # r)
      <4>1. \A u \in Registering : call'[u].reg = call[u].reg
        BY <2>2, <2>3 DEF Registering
      <4>2. (\A u \in Registering : call[u].reg # r)'
                <=> next.reg # r /\ \A u \in Registering : call[u].reg # r
        BY <2>2, <2>3, <4>1
      <4>3. r < next.reg + 1 <=> (r < next.reg \/ r = next.reg)
        BY <1>0
      <4>. QED  BY <1>0, <2>2, <4>2, <4>3
    <3>. QED  BY <3>1, <3>2, <3>3 DEF PhaseOf
  <2>5. SamePhases /\ SameKeys /\ SameHolders /\ SameIssued
    BY <2>2, <2>4 DEF SamePhases, SameKeys, SameHolders, SameIssued, LeasesOn
  <2>. QED  BY <2>5, PromiseStutters
<1>2. CASE BackendNumbers(t) \/ BackendStores(t)
  <2>1. /\ call[t].pc \in RegisterPoints /\ call'[t].pc \in RegisterPoints
        /\ call'[t].reg = call[t].reg
        /\ \A u \in Threads : u # t => call'[u] = call[u]
        /\ regs' = regs /\ leases' = leases /\ next' = next
    BY <1>0, <1>2 DEF BackendNumbers, BackendStores, RegisterPoints, Call
  <2>2. Registering' = Registering /\ \A u \in Registering : call'[u].reg = call[u].reg
    BY <2>1 DEF Registering
  <2>3. \A r \in RegIds : PhaseOf(r)' = PhaseOf(r)
    BY <2>1, <2>2 DEF PhaseOf, Present, InForce
  <2>4. SamePhases /\ SameKeys /\ SameHolders /\ SameIssued
    BY <2>1, <2>3 DEF SamePhases, SameKeys, SameHolders, SameIssued, LeasesOn
  <2>. QED  BY <2>4, PromiseStutters
<1>3. CASE BackendRefuses(t) \/ RegisterCommit(t)
  <2>0. PICK n : n = call[t].reg
    OBVIOUS
  <2>1. /\ t \in Registering /\ n \in RegIds /\ ~Present(n) /\ n < next.reg
        /\ regs[n] = NoRecord
    BY <1>0, <1>3, <2>0 DEF BackendRefuses, RegisterCommit, RegisterPoints, Registering,
                            CallsInRange, CommitNeverOverwrites, RecordsKnown
  <2>2. /\ call'[t].pc = "idle"
        /\ \A u \in Threads : u # t => call'[u] = call[u]
        /\ leases' = leases /\ next' = next
    BY <1>0, <1>3 DEF BackendRefuses, RegisterCommit, NoCall
  <2>3. Registering' = Registering \ {t}
    BY <2>1, <2>2 DEF Registering, RegisterPoints
  <2>4. \A u \in Registering' : call'[u] = call[u] /\ call[u].reg # n
    BY <1>0, <2>0, <2>1, <2>2, <2>3 DEF CommitNeverOverwrites, Registering
  <2>5. \A r \in RegIds : r # n =>
            ((\A u \in Registering : call[u].reg # r)'
                <=> \A u \in Registering : call[u].reg # r)
    BY <2>0, <2>1, <2>3, <2>4
  <2>6. PhaseOf(n) = "none"
    BY <2>0, <2>1 DEF PhaseOf
  <2>7. SameHolders /\ SameIssued
    BY <2>2 DEF SameHolders, SameIssued, LeasesOn
  <2>8. CASE BackendRefuses(t)
    <3>1. regs' = regs
      BY <2>8 DEF BackendRefuses
    <3>2. PhaseOf(n)' = "gone"
      BY <2>1, <2>2, <2>4, <3>1 DEF PhaseOf, Present
    <3>3. \A r \in RegIds : r # n => PhaseOf(r)' = PhaseOf(r)
      BY <2>2, <2>5, <3>1 DEF PhaseOf, Present, InForce
    <3>4. SameKeys
      BY <3>1 DEF SameKeys
    <3>5. Promise!Abandon(n)
      BY ONLY <2>1, <2>6, <2>7, <3>2, <3>3, <3>4
         DEF Promise!Abandon, SameKeys, SameHolders, SameIssued
    <3>. QED  BY <2>1, <3>5 DEF Promise!Next
  <2>9. CASE RegisterCommit(t)
    <3>1. /\ regs'[n].life = "ACTIVE" /\ regs'[n].keyGen = 1
          /\ \A r \in RegIds : r # n => regs'[r] = regs[r]
      BY <1>0, <2>0, <2>1, <2>9 DEF RegisterCommit
    <3>2. PhaseOf(n)' = "open"
      BY <2>1, <3>1 DEF PhaseOf, Present, InForce
    <3>3. \A r \in RegIds : r # n => PhaseOf(r)' = PhaseOf(r)
      BY <2>2, <2>5, <3>1 DEF PhaseOf, Present, InForce
    <3>4. \A r \in RegIds : r # n => regs'[r].keyGen = regs[r].keyGen
      BY <3>1
    <3>5. Promise!Publish(n)
      BY ONLY <2>1, <2>6, <2>7, <3>1, <3>2, <3>3, <3>4
         DEF Promise!Publish, SameHolders, SameIssued
    <3>. QED  BY <2>1, <3>5 DEF Promise!Next
  <2>. QED  BY <1>3, <2>8, <2>9
<1>. QED  BY <1>1, <1>2, <1>3

(* deregister closes a registration that was still in force, and forgets   *)
(* it when nobody holds it.                                                *)
LEMMA DeregisteringKeepsPromise ==
    ASSUME LeaseInv, NEW t \in Threads,
           \/ \E r \in RegIds : DeregisterBegin(t, r)
           \/ BackendReleases(t) \/ BackendReleaseFails(t)
           \/ DeregisterFail(t) \/ DeregisterFinish(t)
    PROVE  [Promise!Next]_(Promise!authorityVars)
<1>0. /\ TypeOK /\ regs \in [RegIds -> Record] /\ call \in [Threads -> Call]
      /\ next.reg \in Nat /\ CallsInRange /\ CommitNeverOverwrites
      /\ TeardownExclusive /\ LeaseCountExact
  BY DEF LeaseInv, Inv, TypeOK, NextIds
<1>1. /\ \A u \in Threads : u # t => call'[u] = call[u]
      /\ call[t].pc \notin RegisterPoints /\ call'[t].pc \notin RegisterPoints
      /\ next' = next
  <2>. DEFINE Goal == /\ \A u \in Threads : u # t => call'[u] = call[u]
                      /\ call[t].pc \notin RegisterPoints
                      /\ call'[t].pc \notin RegisterPoints
                      /\ next' = next
  <2>1. ASSUME NEW r \in RegIds, DeregisterBegin(t, r) PROVE Goal
    <3>1. call'[t].pc = "deregistering" /\ \A u \in Threads : u # t => call'[u] = call[u]
      BY <1>0, <2>1 DEF DeregisterBegin, NoCall
    <3>. QED  BY <2>1, <3>1 DEF DeregisterBegin, RegisterPoints, Idle
  <2>2. BackendReleases(t) \/ BackendReleaseFails(t) => Goal
    BY <1>0 DEF BackendReleases, BackendReleaseFails, RegisterPoints, Call
  <2>3. DeregisterFail(t) \/ DeregisterFinish(t) => Goal
    BY <1>0 DEF DeregisterFail, DeregisterFinish, RegisterPoints, NoCall
  <2>. QED  BY <2>1, <2>2, <2>3
<1>2. Registering' = Registering /\ \A u \in Registering : call'[u] = call[u]
  BY <1>1 DEF Registering
<1>3. ASSUME NEW r \in RegIds, regs'[r].life = regs[r].life PROVE PhaseOf(r)' = PhaseOf(r)
  BY <1>1, <1>2, <1>3 DEF PhaseOf, Present, InForce
<1>4. SameIssued
  BY <1>1 DEF SameIssued
<1>5. CASE \E r \in RegIds : DeregisterBegin(t, r)
  <2>1. PICK r \in RegIds : DeregisterBegin(t, r)
    BY <1>5
  <2>2. /\ Present(r) /\ regs' = [regs EXCEPT ![r].life = "DEREGISTERING"]
        /\ leases' = leases
    BY <2>1 DEF DeregisterBegin, Deregisterable, MayDeregister, Present
  <2>3. /\ regs'[r].life = "DEREGISTERING"
        /\ \A q \in RegIds : q # r => regs'[q].life = regs[q].life
        /\ SameKeys /\ SameHolders
    BY <1>0, <2>2 DEF Record, SameKeys, SameHolders, LeasesOn
  <2>4. PhaseOf(r)' = "closed" /\ PhaseOf(r) \in {"open", "closed"}
    BY <2>2, <2>3 DEF PhaseOf, Present, InForce
  <2>5. CASE PhaseOf(r) = "open"
    <3>1. \A q \in RegIds : PhaseOf(q)' = IF q \in {r} THEN "closed" ELSE PhaseOf(q)
      BY <1>3, <2>3, <2>4
    <3>2. \A q \in {r} : PhaseOf(q) = "open"
      BY <2>5
    <3>. QED  BY <1>4, <2>3, <3>1, <3>2, PromiseClosesOnly
  <2>6. CASE PhaseOf(r) = "closed"
    <3>1. SamePhases
      BY <1>3, <2>3, <2>4, <2>6 DEF SamePhases
    <3>. QED  BY <1>4, <2>3, <3>1, PromiseStutters
  <2>. QED  BY <2>4, <2>5, <2>6
<1>6. CASE BackendReleases(t) \/ BackendReleaseFails(t)
  <2>1. regs' = regs /\ leases' = leases
    BY <1>6 DEF BackendReleases, BackendReleaseFails
  <2>2. SamePhases /\ SameKeys /\ SameHolders
    BY <1>3, <2>1 DEF SamePhases, SameKeys, SameHolders, LeasesOn
  <2>. QED  BY <1>4, <2>2, PromiseStutters
<1>7. CASE DeregisterFail(t) \/ DeregisterFinish(t)
  <2>0. PICK r : r = call[t].reg
    OBVIOUS
  <2>1. t \in Deregistering
    BY <1>7 DEF DeregisterFail, DeregisterFinish, Deregistering, DeregisterPoints
  <2>2. /\ r \in RegIds /\ Present(r) /\ regs[r].life = "DEREGISTERING"
        /\ regs[r].leases = 0 /\ r < next.reg
    BY <1>0, <2>0, <2>1 DEF TeardownExclusive, Present, CommitNeverOverwrites, PresentRegs
  <2>3. PhaseOf(r) = "closed"
    BY <2>2 DEF PhaseOf, InForce
  <2>4. CASE DeregisterFail(t)
    <3>1. regs' = [regs EXCEPT ![r].life = "FAILED"] /\ leases' = leases
      BY <2>0, <2>2, <2>4 DEF DeregisterFail
    <3>2. /\ regs'[r].life = "FAILED"
          /\ \A q \in RegIds : q # r => regs'[q].life = regs[q].life
          /\ SameKeys /\ SameHolders
      BY <1>0, <2>2, <3>1 DEF Record, SameKeys, SameHolders, LeasesOn
    <3>3. PhaseOf(r)' = "closed"
      BY <2>2, <3>2 DEF PhaseOf, Present, InForce
    <3>4. SamePhases
      BY <1>3, <2>3, <3>2, <3>3 DEF SamePhases
    <3>. QED  BY <1>4, <3>2, <3>4, PromiseStutters
  <2>5. CASE DeregisterFinish(t)
    <3>1. /\ regs' = [regs EXCEPT ![r] = NoRecord]
          /\ leases' = [l \in LeaseIds |-> IF leases[l].reg = r THEN NoLease ELSE leases[l]]
      BY <2>0, <2>2, <2>5 DEF DeregisterFinish, Erase
    <3>2. /\ regs'[r].life = "UNREGISTERED" /\ regs'[r].keyGen = 0
          /\ \A q \in RegIds : q # r => regs'[q] = regs[q]
      BY <1>0, <2>2, <3>1 DEF NoRecord
    <3>3. LeasesOn(r, Outstanding) = {}
      BY <1>0, <2>2, HeldFinite DEF LeaseCountExact, Held, PresentRegs
    <3>4. SameHolders
      BY <3>1, <3>3 DEF SameHolders, LeasesOn, Outstanding, NoLease
    <3>5. \A u \in Registering' : call'[u].reg # r
      BY <1>0, <1>2, <2>2 DEF CommitNeverOverwrites
    <3>6. PhaseOf(r)' = "gone"
      BY <1>1, <2>2, <3>2, <3>5 DEF PhaseOf, Present
    <3>7. \A q \in RegIds : q # r => PhaseOf(q)' = PhaseOf(q)
                                    /\ regs'[q].keyGen = regs[q].keyGen
      BY <1>3, <3>2
    <3>8. Promise!Forget(r)
      BY ONLY <1>4, <2>2, <2>3, <3>2, <3>3, <3>4, <3>6, <3>7
         DEF Promise!Forget, SameHolders, SameIssued
    <3>. QED  BY <2>2, <3>8 DEF Promise!Next
  <2>. QED  BY <1>7, <2>4, <2>5
<1>. QED  BY <1>5, <1>6, <1>7

(* The registry starts as the promise does.                                *)
LEMMA PromiseInit == Init => Promise!Init
<1>. SUFFICES ASSUME Init PROVE Promise!Init
  OBVIOUS
<1>1. \A r \in RegIds : PhaseOf(r) = "none"
  BY DEF Init, PhaseOf, Present, NoRecord
<1>2. \A r \in RegIds : regs[r].keyGen = 0 /\ LeasesOn(r, Outstanding) = {}
  BY DEF Init, NoRecord, LeasesOn, NoLease, Outstanding
<1>3. {l \in LeaseIds : l < next.lease} = {}
  BY DEF Init
<1>. QED  BY ONLY <1>1, <1>2, <1>3 DEF Promise!Init

(* Every step of the registry is a step of the promise or leaves it alone. *)
LEMMA PromiseStep ==
    AuthorityInv /\ [Next]_vars => [Promise!Next]_(Promise!authorityVars)
<1>. SUFFICES ASSUME AuthorityInv, [Next]_vars
              PROVE  [Promise!Next]_(Promise!authorityVars)
  OBVIOUS
<1>1. LeaseInv /\ RecordsKnown
  BY DEF AuthorityInv
<1>2. CASE DeviceEvent \/ UNCHANGED vars
  <2>1. UNCHANGED registryVars
    BY <1>2 DEF DeviceEvent, vars
  <2>2. SamePhases /\ SameKeys /\ SameHolders /\ SameIssued
    BY <2>1 DEF registryVars, SamePhases, SameKeys, SameHolders, SameIssued, PhaseOf,
                Present, InForce, Registering, LeasesOn
  <2>. QED  BY <2>2, PromiseStutters
<1>. QED  BY <1>1, <1>2, OperationKeepsPromise, RegisteringKeepsPromise,
             DeregisteringKeepsPromise
          DEF Next, Begin, Continue

(* The registry, with its calls split at the mutex, its device and any     *)
(* number of callers, implements KeyAuthority: registrations move only     *)
(* forward, only an open one takes a holder, no lease is issued twice, and *)
(* none is forgotten while it is held (registry.cpp, all operations).      *)
THEOREM RegistryKeepsPromise == Spec => ImplementsKeyAuthority
<1>. QED  BY PromiseInit, PromiseStep, AuthorityInvHolds, PTL
          DEF Spec, ImplementsKeyAuthority, Promise!Spec
==============================================================================

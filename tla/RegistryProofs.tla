---------------------------- MODULE RegistryProofs ----------------------------
(***************************************************************************)
(* The tables of the registry, its leases and its bytes, for every value   *)
(* of the constants of Registry and every interleaving of its callers:     *)
(* types, identities, slots, keys, the lease count and the bytes of the    *)
(* buffers.                                                                *)
(***************************************************************************)
EXTENDS RegistryProperties, ArithmeticProofs

USE DEF Handles, RegIds, BufIds, DomainIds, LeaseIds

(* Sets of registrations are finite, so the accounting can count them.     *)
LEMMA RegSetsFinite ==
    ASSUME NEW S \in SUBSET RegIds
    PROVE  IsFiniteSet(S) /\ Cardinality(S) \in Nat
<1>1. IsFiniteSet(1 .. MaxRegs)
  BY FS_Interval, RegistryAssumption DEF RegistryAssumption
<1>2. IsFiniteSet(S)
  BY <1>1, FS_Subset
<1>. QED  BY <1>2, FS_CardinalityType

(* The same of sets of leases.                                             *)
LEMMA LeaseSetsFinite ==
    ASSUME NEW S \in SUBSET LeaseIds
    PROVE  IsFiniteSet(S) /\ Cardinality(S) \in Nat
<1>1. IsFiniteSet(1 .. MaxLeases)
  BY FS_Interval, RegistryAssumption DEF RegistryAssumption
<1>2. IsFiniteSet(S)
  BY <1>1, FS_Subset
<1>. QED  BY <1>2, FS_CardinalityType

(* Taking records out of the accounting leaves every gauge a natural       *)
(* number: a decrement that would go below zero is refused.                *)
LEMMA InvalidationTyped ==
    ASSUME NEW a \in Gauges, NEW S \in SUBSET RegIds, NEW x \in AfterInvalidation(a, S)
    PROVE  x \in Gauges
<1>1. PICK w \in Remainders(a, S) :
          x = [a EXCEPT !.regs = FewerBy(@, Cardinality(S)), !.bytes = w[1], !.pinned = w[2]]
  BY DEF AfterInvalidation
<1>2. w \in (0 .. a.bytes) \X (0 .. a.pinned)
  BY <1>1 DEF Remainders
<1>3. w[1] \in Nat /\ w[2] \in Nat
  BY <1>2 DEF Gauges
<1>4. FewerBy(a.regs, Cardinality(S)) \in Nat
  BY RegSetsFinite DEF FewerBy, Gauges
<1>. QED  BY <1>1, <1>3, <1>4 DEF Gauges

------------------------------------------------------------------------------
(* Type correctness.                                                       *)

(* The empty values are of their types.                                    *)
LEMMA EmptyTyped ==
    /\ NoAuthority \in AuthorityFacts
    /\ NoDescriptor \in Descriptor
    /\ NoRecord \in Record
    /\ NoBuffer \in BufferEntry
    /\ NoLease \in Lease
    /\ NoCall \in Call
    /\ NoEntry \in Entry
<1>1. NoDescriptor \in Descriptor
  BY DEF NoDescriptor, Descriptor, MemoryDomains
<1>2. NoRecord \in Record
  BY <1>1 DEF NoRecord, Record, Lifecycles, Freshnesses
<1>3. NoCall \in Call
  BY <1>1 DEF NoCall, Call, Points
<1>4. NoLease \in Lease
  BY DEF NoLease, Lease, LeaseStates
<1>5. NoAuthority \in AuthorityFacts
  BY DEF NoAuthority, AuthorityFacts
<1>6. NoBuffer \in BufferEntry
  BY DEF NoBuffer, BufferEntry
<1>7. NoEntry \in Entry
  BY DEF NoEntry, Entry
<1>. QED  BY <1>1, <1>2, <1>3, <1>4, <1>5, <1>6, <1>7

(* Every table starts empty and every gauge at zero.                       *)
LEMMA TypeInit == Init => TypeOK
<1>. SUFFICES ASSUME Init PROVE TypeOK
  OBVIOUS
<1>1. BackendTypeOK
  BY EmptyTyped DEF Init, BackendInit, BackendTypeOK, DeviceGenerations
<1>2. acct \in Gauges /\ stats \in Counters
  BY DEF Init, Gauges, Counters
<1>3. domains \in [DomainIds -> DomainStates]
  BY DEF Init, DomainStates
<1>4. next \in NextIds
  BY DEF Init, NextIds
<1>. QED  BY <1>1, <1>2, <1>3, <1>4, EmptyTyped DEF Init, TypeOK

(* A device event leaves the backend well typed.                           *)
LEMMA DeviceTyped == BackendTypeOK /\ BackendEvent => BackendTypeOK'
<1>. SUFFICES ASSUME BackendTypeOK, BackendEvent PROVE BackendTypeOK'
  OBVIOUS
<1>1. CASE RolloverBackend
  BY <1>1 DEF RolloverBackend, BackendTypeOK, DeviceGenerations
<1>2. CASE RolloverTransport
  <2>1. ASSUME NEW e \in Entry PROVE Rolled(e) \in Entry
    <3>1. e.keyGen + 1 \in Nat
      BY DEF Entry
    <3>. QED  BY <3>1 DEF Rolled, Entry
  <2>2. entries' \in [Handles -> Entry]
    BY <1>2, <2>1 DEF RolloverTransport, BackendTypeOK
  <2>. QED  BY <1>2, <2>2 DEF RolloverTransport, BackendTypeOK, DeviceGenerations
<1>3. CASE RolloverNic
  BY <1>3 DEF RolloverNic, BackendTypeOK, DeviceGenerations
<1>4. CASE RestartBackend
  BY <1>4, EmptyTyped DEF RestartBackend, NumbersAfterRestart, BackendTypeOK, DeviceGenerations
<1>5. CASE \E p \in Profiles : Configure(p)
  BY <1>5 DEF Configure, BackendTypeOK
<1>6. CASE \E h \in Handles : BackendRevalidate(h)
  <2>1. ASSUME NEW e \in Entry PROVE [e EXCEPT !.revalidate = FALSE] \in Entry
    BY DEF Entry
  <2>2. entries' \in [Handles -> Entry]
    BY <1>6, <2>1 DEF BackendRevalidate, BackendTypeOK
  <2>. QED  BY <1>6, <2>2 DEF BackendRevalidate, BackendTypeOK
<1>. QED  BY <1>1, <1>2, <1>3, <1>4, <1>5, <1>6 DEF BackendEvent

(* An operation that leaves the backend alone leaves it well typed.        *)
LEMMA BackendUnchangedTyped ==
    BackendTypeOK /\ UNCHANGED backendVars => BackendTypeOK'
BY DEF BackendTypeOK, backendVars

(* Every change the operations make to a record, a lease, a buffer or a    *)
(* call keeps it well typed.                                               *)
LEMMA RecordUpdates ==
    ASSUME NEW rec \in Record
    PROVE  /\ [rec EXCEPT !.life = "REVOKED", !.fresh = "STALE"] \in Record
           /\ [rec EXCEPT !.life = "REVOKING", !.fresh = "STALE"] \in Record
           /\ [rec EXCEPT !.life = "STALE", !.fresh = "STALE"] \in Record
           /\ Revoked(rec) \in Record
           /\ [rec EXCEPT !.keyGen = @ + 1, !.keyRevoked = FALSE] \in Record
           /\ [rec EXCEPT !.leases = @ + 1] \in Record
           /\ [rec EXCEPT !.leases = Decrement(@, 1)] \in Record
           /\ [rec EXCEPT !.life = "DEREGISTERING"] \in Record
           /\ [rec EXCEPT !.life = "FAILED"] \in Record
<1>1. [rec EXCEPT !.life = "REVOKED", !.fresh = "STALE"] \in Record
  BY DEF Record, Lifecycles, Freshnesses
<1>2. [rec EXCEPT !.life = "REVOKING", !.fresh = "STALE"] \in Record
  BY DEF Record, Lifecycles, Freshnesses
<1>3. [rec EXCEPT !.life = "STALE", !.fresh = "STALE"] \in Record
  BY DEF Record, Lifecycles, Freshnesses
<1>a. rec.keyGen + 1 \in Nat
  BY DEF Record
<1>4. Revoked(rec) \in Record
  BY <1>a DEF Record, Lifecycles, Freshnesses, Revoked
<1>5. [rec EXCEPT !.keyGen = @ + 1, !.keyRevoked = FALSE] \in Record
  BY <1>a DEF Record
<1>6. [rec EXCEPT !.leases = @ + 1] \in Record
  BY DEF Record
<1>7. [rec EXCEPT !.leases = Decrement(@, 1)] \in Record
  BY DEF Record, Decrement
<1>8. [rec EXCEPT !.life = "DEREGISTERING"] \in Record
  BY DEF Record, Lifecycles
<1>9. [rec EXCEPT !.life = "FAILED"] \in Record
  BY DEF Record, Lifecycles
<1>. QED  BY <1>1, <1>2, <1>3, <1>4, <1>5, <1>6, <1>7, <1>8, <1>9

(* The same of a lease that is released or revoked.                        *)
LEMMA LeaseUpdates ==
    ASSUME NEW ls \in Lease
    PROVE  /\ [ls EXCEPT !.state = "RELEASED"] \in Lease
           /\ [ls EXCEPT !.state = "REVOKED"] \in Lease
BY DEF Lease, LeaseStates

(* A decrement, refused or not, yields a natural number.                   *)
LEMMA DecrementTyped ==
    ASSUME NEW v \in Nat, NEW k \in Nat
    PROVE  Decrement(v, k) \in Nat /\ FewerBy(v, k) \in Nat
BY DEF Decrement, FewerBy

(* A counter that is raised and a gauge that is set stay natural numbers.  *)
LEMMA CounterUpdates ==
    ASSUME NEW c \in Counters, NEW n \in Nat
    PROVE  /\ [c EXCEPT !.restarts = @ + n] \in Counters
           /\ [c EXCEPT !.revocations = @ + n] \in Counters
           /\ [c EXCEPT !.deregistrations = @ + n] \in Counters
           /\ [c EXCEPT !.hits = @ + n] \in Counters
           /\ [c EXCEPT !.misses = @ + n] \in Counters
           /\ [c EXCEPT !.read = @ + n] \in Counters
           /\ [c EXCEPT !.written = @ + n] \in Counters
           /\ [c EXCEPT !.atomics = @ + n] \in Counters
           /\ [c EXCEPT !.failed = @ + n] \in Counters
           /\ [c EXCEPT !.stale = @ + n] \in Counters
<1>1. [c EXCEPT !.restarts = @ + n] \in Counters
  <2>1. c.restarts + n \in Nat
    BY DEF Counters
  <2>. QED  BY <2>1 DEF Counters
<1>2. [c EXCEPT !.revocations = @ + n] \in Counters
  <2>1. c.revocations + n \in Nat
    BY DEF Counters
  <2>. QED  BY <2>1 DEF Counters
<1>3. [c EXCEPT !.deregistrations = @ + n] \in Counters
  <2>1. c.deregistrations + n \in Nat
    BY DEF Counters
  <2>. QED  BY <2>1 DEF Counters
<1>4. [c EXCEPT !.hits = @ + n] \in Counters
  <2>1. c.hits + n \in Nat
    BY DEF Counters
  <2>. QED  BY <2>1 DEF Counters
<1>5. [c EXCEPT !.misses = @ + n] \in Counters
  <2>1. c.misses + n \in Nat
    BY DEF Counters
  <2>. QED  BY <2>1 DEF Counters
<1>6. [c EXCEPT !.read = @ + n] \in Counters
  <2>1. c.read + n \in Nat
    BY DEF Counters
  <2>. QED  BY <2>1 DEF Counters
<1>7. [c EXCEPT !.written = @ + n] \in Counters
  <2>1. c.written + n \in Nat
    BY DEF Counters
  <2>. QED  BY <2>1 DEF Counters
<1>8. [c EXCEPT !.atomics = @ + n] \in Counters
  <2>1. c.atomics + n \in Nat
    BY DEF Counters
  <2>. QED  BY <2>1 DEF Counters
<1>9. [c EXCEPT !.failed = @ + n] \in Counters
  <2>1. c.failed + n \in Nat
    BY DEF Counters
  <2>. QED  BY <2>1 DEF Counters
<1>10. [c EXCEPT !.stale = @ + n] \in Counters
  <2>1. c.stale + n \in Nat
    BY DEF Counters
  <2>. QED  BY <2>1 DEF Counters
<1>. QED  BY <1>1, <1>2, <1>3, <1>4, <1>5, <1>6, <1>7, <1>8, <1>9, <1>10

(* A gauge that is raised or set stays a natural number.                   *)
LEMMA GaugeUpdates ==
    ASSUME NEW a \in Gauges, NEW n \in Nat
    PROVE  /\ [a EXCEPT !.domains = n] \in Gauges
           /\ [a EXCEPT !.leases = n] \in Gauges
           /\ [a EXCEPT !.live = n] \in Gauges
           /\ [a EXCEPT !.buffers = @ + 1, !.live = @ + n] \in Gauges
           /\ [a EXCEPT !.leases = @ + 1] \in Gauges
           /\ [a EXCEPT !.domains = @ + 1] \in Gauges
<1>1. a.buffers + 1 \in Nat /\ a.live + n \in Nat /\ a.leases + 1 \in Nat /\ a.domains + 1 \in Nat
  BY DEF Gauges
<1>. QED  BY <1>1 DEF Gauges

(* Id generators only count up.                                            *)
LEMMA NextUpdates ==
    ASSUME NEW n \in NextIds
    PROVE  /\ [n EXCEPT !.buf = @ + 1] \in NextIds
           /\ [n EXCEPT !.reg = @ + 1] \in NextIds
           /\ [n EXCEPT !.dom = @ + 1] \in NextIds
           /\ [n EXCEPT !.lease = @ + 1] \in NextIds
<1>1. n.buf + 1 \in Nat /\ n.reg + 1 \in Nat /\ n.dom + 1 \in Nat /\ n.lease + 1 \in Nat
  BY DEF NextIds
<1>. QED  BY <1>1 DEF NextIds

(* An operation with a single critical section.                            *)
LEMMA OperationTyped ==
    ASSUME TypeOK, Operation
    PROVE  TypeOK'
<1>0. UNCHANGED backendVars => BackendTypeOK'
  BY BackendUnchangedTyped DEF TypeOK
<1>1. ASSUME NEW s \in Snapshots, SetAuthority(s) PROVE TypeOK'
  <2>1. authority' \in AuthorityFacts
    BY <1>1, RegistryAssumption DEF SetAuthority, RegistryAssumption
  <2>. QED  BY <1>0, <1>1, <2>1 DEF SetAuthority, TypeOK
<1>2. CASE AdvanceEpoch
  <2>1. authority' \in AuthorityFacts
    BY <1>2 DEF AdvanceEpoch, TypeOK, AuthorityFacts
  <2>. QED  BY <1>0, <1>2, <2>1 DEF AdvanceEpoch, TypeOK
<1>3. CASE NoteParticipantRestart
  <2>1. authority.epoch + 1 \in Nat /\ authority.boot + 1 \in Nat
    BY DEF TypeOK, AuthorityFacts
  <2>2. authority' \in AuthorityFacts
    BY <1>3, <2>1 DEF NoteParticipantRestart, TypeOK, AuthorityFacts
  <2>3. stats' \in Counters
    BY <1>3, CounterUpdates DEF NoteParticipantRestart, TypeOK
  <2>. QED  BY <1>0, <1>3, <2>2, <2>3 DEF NoteParticipantRestart, TypeOK
<1>4. CASE AddBackend
  <2>. QED  BY <1>0, <1>4 DEF AddBackend, TypeOK
<1>5. CASE CreateProtectionDomain
  <2>1. domains' \in [DomainIds -> DomainStates]
    BY <1>5 DEF CreateProtectionDomain, TypeOK, DomainStates
  <2>2. next' \in NextIds
    BY <1>5, NextUpdates DEF CreateProtectionDomain, TypeOK
  <2>3. acct' \in Gauges
    BY <1>5, GaugeUpdates DEF CreateProtectionDomain, TypeOK
  <2>. QED  BY <1>0, <1>5, <2>1, <2>2, <2>3 DEF CreateProtectionDomain, TypeOK
<1>6. ASSUME NEW p \in DomainIds, DestroyProtectionDomain(p) PROVE TypeOK'
  <2>1. regs' \in [RegIds -> Record]
    BY <1>6, RecordUpdates DEF DestroyProtectionDomain, TypeOK
  <2>2. domains' \in [DomainIds -> DomainStates]
    BY <1>6 DEF DestroyProtectionDomain, TypeOK, DomainStates
  <2>3. acct' \in Gauges
    <3>1. RegsOfDomain(p) \in SUBSET RegIds
      BY DEF RegsOfDomain
    <3>2. PICK a \in AfterInvalidation(acct, RegsOfDomain(p)) :
              acct' = [a EXCEPT !.domains = Decrement(@, 1)]
      BY <1>6 DEF DestroyProtectionDomain
    <3>3. a \in Gauges
      BY <3>1, InvalidationTyped DEF TypeOK
    <3>4. Decrement(a.domains, 1) \in Nat
      BY <3>3, DecrementTyped DEF Gauges
    <3>. QED  BY <3>2, <3>3, <3>4, GaugeUpdates
  <2>. QED  BY <1>0, <1>6, <2>1, <2>2, <2>3 DEF DestroyProtectionDomain, TypeOK
<1>7. ASSUME NEW d \in Descriptors, CreateNewBuffer(d) PROVE TypeOK'
  <2>1. d \in Descriptor
    BY RegistryAssumption DEF RegistryAssumption
  <2>2. buffers' \in [BufIds -> BufferEntry]
    BY <1>7, <2>1 DEF CreateNewBuffer, EntryOf, TypeOK, BufferEntry, Descriptor
  <2>3. next' \in NextIds
    BY <1>7, NextUpdates DEF CreateNewBuffer, NextAfterCreate, TypeOK
  <2>4. acct' \in Gauges
    BY <1>7, <2>1, GaugeUpdates DEF CreateNewBuffer, TypeOK, Descriptor
  <2>. QED  BY <1>0, <1>7, <2>1, <2>2, <2>3, <2>4 DEF CreateNewBuffer, TypeOK
<1>8. ASSUME NEW d \in Descriptors, ReallocateBuffer(d) PROVE TypeOK'
  <2>1. d \in Descriptor
    BY RegistryAssumption DEF RegistryAssumption
  <2>2. buffers' \in [BufIds -> BufferEntry]
    BY <1>8, <2>1 DEF ReallocateBuffer, EntryOf, TypeOK, BufferEntry, Descriptor
  <2>3. next' \in NextIds
    BY <1>8, NextUpdates DEF ReallocateBuffer, NextAfterCreate, TypeOK
  <2>4. regs' \in [RegIds -> Record]
    BY <1>8, RecordUpdates DEF ReallocateBuffer, TypeOK
  <2>5. acct' \in Gauges
    <3>. DEFINE b == ChosenId(d)
    <3>1. RegsOfBuffer(b) \in SUBSET RegIds
      BY DEF RegsOfBuffer
    <3>2. PICK a \in AfterInvalidation(acct, RegsOfBuffer(b)) :
              acct' = [a EXCEPT !.live = LiveBytesAfter(d, buffers[b].len)]
      BY <1>8 DEF ReallocateBuffer
    <3>3. a \in Gauges
      BY <3>1, InvalidationTyped DEF TypeOK
    <3>4. buffers[b].len \in Nat /\ d.len \in Nat /\ acct.live \in Nat
      BY <1>8, <2>1 DEF ReallocateBuffer, TypeOK, BufferEntry, Descriptor, Gauges
    <3>5. LiveBytesAfter(d, buffers[b].len) \in Nat
      BY <3>4 DEF LiveBytesAfter, Decrement
    <3>. QED  BY <3>2, <3>3, <3>5, GaugeUpdates
  <2>. QED  BY <1>0, <1>8, <2>1, <2>2, <2>3, <2>4, <2>5 DEF ReallocateBuffer, TypeOK
<1>9. ASSUME NEW d \in Descriptors, CreateRefused(d) PROVE TypeOK'
  <2>1. next' \in NextIds
    BY <1>9, NextUpdates DEF CreateRefused, NextAfterCreate, TypeOK
  <2>. QED  BY <1>0, <1>9, <2>1 DEF CreateRefused, TypeOK
<1>10. ASSUME NEW r \in RegIds, NEW env \in Envelopes, NEW m \in LeaseMasks,
             AcquireLease(r, env, m)
      PROVE  TypeOK'
  <2>1. m \in SUBSET AccessRights /\ regs[r].leases + 1 \in Nat
    <3>1. m \in SUBSET AccessRights
      BY RegistryAssumption DEF RegistryAssumption
    <3>2. regs[r].leases + 1 \in Nat
      BY DEF TypeOK, Record
    <3>. QED  BY <3>1, <3>2
  <2>2. [state |-> "ACTIVE", reg |-> r, gen |-> regs[r].leases + 1, access |-> m] \in Lease
    BY <2>1 DEF Lease, LeaseStates
  <2>3. leases' \in [LeaseIds -> Lease]
    BY <1>10, <2>2 DEF AcquireLease, TypeOK
  <2>4. regs' \in [RegIds -> Record]
    BY <1>10, RecordUpdates DEF AcquireLease, TypeOK
  <2>5. next' \in NextIds
    BY <1>10, NextUpdates DEF AcquireLease, TypeOK
  <2>6. acct' \in Gauges
    BY <1>10, GaugeUpdates DEF AcquireLease, TypeOK
  <2>. QED  BY <1>0, <1>10, <2>1, <2>2, <2>3, <2>4, <2>5, <2>6 DEF AcquireLease, TypeOK
<1>11. ASSUME NEW l \in LeaseIds, ReleaseLease(l) PROVE TypeOK'
  <2>1. leases' \in [LeaseIds -> Lease]
    BY <1>11, LeaseUpdates DEF ReleaseLease, TypeOK
  <2>2. regs' \in [RegIds -> Record]
    BY <1>11, RecordUpdates DEF ReleaseLease, TypeOK, Present
  <2>3. Decrement(acct.leases, 1) \in Nat
    BY DecrementTyped DEF TypeOK, Gauges
  <2>4. acct' \in Gauges
    BY <1>11, <2>3, GaugeUpdates DEF ReleaseLease, TypeOK
  <2>. QED  BY <1>0, <1>11, <2>1, <2>2, <2>3, <2>4 DEF ReleaseLease, TypeOK
<1>12. ASSUME NEW r \in RegIds, HardRevoke(r) PROVE TypeOK'
  <2>1. leases' \in [LeaseIds -> Lease]
    BY <1>12, LeaseUpdates DEF HardRevoke, LeasesRevoked, TypeOK
  <2>2. regs' \in [RegIds -> Record]
    BY <1>12, RecordUpdates DEF HardRevoke, TypeOK
  <2>3. FewerBy(acct.leases, Cardinality(LeasesOn(r, {"ACTIVE"}))) \in Nat
    BY LeaseSetsFinite, DecrementTyped DEF TypeOK, Gauges, LeasesOn
  <2>4. acct' \in Gauges
    BY <1>12, <2>3, GaugeUpdates DEF HardRevoke, TypeOK
  <2>5. slot' \in [BufIds -> RegIds \cup {0}]
    BY <1>12 DEF HardRevoke, TypeOK
  <2>6. stats' \in Counters
    BY <1>12, CounterUpdates DEF HardRevoke, TypeOK
  <2>. QED  BY <1>0, <1>12, <2>1, <2>2, <2>3, <2>4, <2>5, <2>6 DEF HardRevoke, TypeOK
<1>13. ASSUME NEW r \in RegIds, SoftRevoke(r) PROVE TypeOK'
  <2>1. regs' \in [RegIds -> Record]
    BY <1>13, RecordUpdates DEF SoftRevoke, TypeOK
  <2>2. stats' \in Counters
    BY <1>13, CounterUpdates DEF SoftRevoke, TypeOK
  <2>. QED  BY <1>0, <1>13, <2>1, <2>2 DEF SoftRevoke, TypeOK
<1>14. ASSUME NEW r \in RegIds, RotateKey(r) PROVE TypeOK'
  <2>1. regs' \in [RegIds -> Record]
    BY <1>14, RecordUpdates DEF RotateKey, TypeOK
  <2>2. regs[r].keyGen + 1 \in Nat
    BY DEF TypeOK, Record
  <2>3. entries' \in [Handles -> Entry]
    <3>1. PICK h, k : h = regs[r].handle /\ k = regs[r].keyGen + 1 /\ k \in Nat
      BY <2>2
    <3>2. entries \in [Handles -> Entry] /\ entries' = RotatedEntries(h, k)
      BY <1>14, <3>1 DEF RotateKey, BackendRotate, TypeOK, BackendTypeOK
    <3>. QED  BY ONLY <3>1, <3>2 DEF RotatedEntries, LiveEntry, Entry
  <2>4. BackendTypeOK'
    BY <1>14, <2>3 DEF RotateKey, BackendRotate, TypeOK, BackendTypeOK
  <2>. QED  BY <1>0, <1>14, <2>1, <2>2, <2>3, <2>4 DEF RotateKey, BackendRotate, TypeOK
<1>15. ASSUME NEW d \in Descriptors, NEW p \in DomainIds, NEW env \in Envelopes,
             RegisterBufferReuse(d, p, env)
      PROVE  TypeOK'
  <2>1. stats' \in Counters
    BY <1>15, CounterUpdates DEF RegisterBufferReuse, TypeOK
  <2>. QED  BY <1>0, <1>15, <2>1 DEF RegisterBufferReuse, TypeOK
<1>16. ASSUME NEW q \in Requests, ValidateRemoteAccess(q) PROVE TypeOK'
  <2>1. q.length \in Nat
    BY RegistryAssumption, WordAssumption DEF RegistryAssumption, WordAssumption, Word
  <2>2. CountedAllow(q) \in Counters
    BY <2>1, CounterUpdates DEF CountedAllow, TypeOK
  <2>3. ASSUME NEW o PROVE CountedRejection(o) \in Counters
    <3>1. /\ stats.failed + 1 \in Nat
          /\ (IF o \in StaleOutcomes THEN stats.stale + 1 ELSE stats.stale) \in Nat
      BY DEF TypeOK, Counters
    <3>. QED  BY <3>1 DEF CountedRejection, TypeOK, Counters
  <2>4. stats' \in Counters
    BY <1>16, <2>2, <2>3 DEF ValidateRemoteAccess
  <2>. QED  BY <1>0, <1>16, <2>4 DEF ValidateRemoteAccess, TypeOK
<1>17. ASSUME NEW d \in Descriptors, CreateBuffer(d) PROVE TypeOK'
  BY <1>7, <1>8, <1>9, <1>17 DEF CreateBuffer
<1>18. ASSUME NEW r \in RegIds, NEW mode \in RevocationModes, Revoke(r, mode) PROVE TypeOK'
  BY <1>12, <1>13, <1>18 DEF Revoke
<1>. QED  BY <1>1, <1>2, <1>3, <1>4, <1>5, <1>6, <1>10, <1>11, <1>14, <1>15, <1>16, <1>17, <1>18
          DEF Operation

(* The first critical section of a call.                                   *)
LEMMA BeginTyped ==
    ASSUME TypeOK, NEW t \in Threads, Begin(t)
    PROVE  TypeOK'
<1>0. UNCHANGED backendVars => BackendTypeOK'
  BY BackendUnchangedTyped DEF TypeOK
<1>1. ASSUME NEW d \in Descriptors, NEW p \in DomainIds, NEW env \in Envelopes,
             RegisterAdmit(t, d, p, env)
      PROVE  TypeOK'
  <2>. DEFINE c == [pc |-> "admitted", reg |-> next.reg, desc |-> d, dom |-> p,
                    bgen |-> device.backend, boot |-> env.boot,
                    epoch |-> authority.epoch, handle |-> 0]
  <2>1. d \in Descriptor /\ env.boot \in Nat
    BY RegistryAssumption DEF RegistryAssumption, AuthorityFacts
  <2>2. /\ next.reg \in Nat /\ p \in Nat
        /\ device.backend \in Nat /\ authority.epoch \in Nat
    BY DEF TypeOK, NextIds, BackendTypeOK, DeviceGenerations, AuthorityFacts
  <2>3. c \in Call
    BY <2>1, <2>2 DEF Call, Points, RegisterPoints
  <2>4. call' \in [Threads -> Call]
    BY <1>1, <2>3 DEF RegisterAdmit, TypeOK
  <2>5. next' \in NextIds
    BY <1>1, NextUpdates DEF RegisterAdmit, NextAfterAdmit, TypeOK
  <2>. QED  BY <1>0, <1>1, <2>4, <2>5 DEF RegisterAdmit, TypeOK
<1>2. ASSUME NEW r \in RegIds, DeregisterBegin(t, r) PROVE TypeOK'
  <2>1. regs[r].handle \in Nat /\ r \in Nat
    BY DEF TypeOK, Record
  <2>2. [NoCall EXCEPT !.pc = "deregistering", !.reg = r, !.handle = regs[r].handle] \in Call
    BY <2>1, EmptyTyped DEF Call, Points, DeregisterPoints
  <2>3. call' \in [Threads -> Call]
    BY <1>2, <2>2 DEF DeregisterBegin, TypeOK
  <2>4. regs' \in [RegIds -> Record]
    BY <1>2, RecordUpdates DEF DeregisterBegin, TypeOK
  <2>. QED  BY <1>0, <1>2, <2>3, <2>4 DEF DeregisterBegin, TypeOK
<1>. QED  BY <1>1, <1>2 DEF Begin

(* A call that is still registering drew its id from the table's range and *)
(* carries a handle once the backend has numbered it.  The type invariant  *)
(* alone does not say so, and RegisterCommit needs it to leave slot typed. *)
CallsInRange ==
    \A t \in Threads :
        call[t].pc \in RegisterPoints =>
            /\ call[t].reg \in RegIds
            /\ call[t].desc \in Descriptors
            /\ call[t].desc.buf \in BufIds

(* A call that moves to its next control point stays well typed.           *)
LEMMA CallUpdates ==
    ASSUME NEW c \in Call, NEW h \in Nat
    PROVE  /\ [c EXCEPT !.pc = "numbered", !.handle = h] \in Call
           /\ [c EXCEPT !.pc = "stored"] \in Call
           /\ [c EXCEPT !.pc = "released"] \in Call
           /\ [c EXCEPT !.pc = "refused"] \in Call
BY DEF Call, Points, RegisterPoints, DeregisterPoints

(* The rest of a call.                                                     *)
LEMMA ContinueTyped ==
    ASSUME TypeOK, CallsInRange, NEW t \in Threads, Continue(t)
    PROVE  TypeOK'
<1>0. UNCHANGED backendVars => BackendTypeOK'
  BY BackendUnchangedTyped DEF TypeOK
<1>1. CASE BackendRefuses(t)
  <2>1. call' \in [Threads -> Call]
    BY <1>1, EmptyTyped DEF BackendRefuses, TypeOK
  <2>. QED  BY <1>0, <1>1, <2>1 DEF BackendRefuses, TypeOK
<1>2. CASE BackendNumbers(t)
  <2>1. nextSeq \in Nat
    BY DEF TypeOK, BackendTypeOK
  <2>2. call' \in [Threads -> Call]
    BY <1>2, <2>1, CallUpdates DEF BackendNumbers, TypeOK
  <2>. QED  BY <1>0, <1>2, <2>2 DEF BackendNumbers, TypeOK
<1>3. CASE BackendStores(t)
  <2>1. call' \in [Threads -> Call]
    BY <1>3, CallUpdates DEF BackendStores, TypeOK
  <2>2. call[t].desc \in Descriptor /\ call[t].handle \in Nat
    BY DEF TypeOK, Call
  <2>3. EntryFor(call[t].desc) \in Entry
    BY <2>2 DEF EntryFor, Entry, Descriptor
  <2>4. entries' \in [Handles -> Entry]
    BY <1>3, <2>3 DEF BackendStores, BackendStore, TypeOK, BackendTypeOK
  <2>5. nextSeq' \in Nat \ {0}
    BY <1>3, <2>2 DEF BackendStores, BackendStore, TypeOK, BackendTypeOK
  <2>6. BackendTypeOK'
    BY <1>3, <2>4, <2>5 DEF BackendStores, BackendStore, TypeOK, BackendTypeOK
  <2>. QED  BY <1>3, <2>1, <2>6 DEF BackendStores, TypeOK
<1>4. CASE RegisterCommit(t)
  <2>. DEFINE c == call[t]
              rec == [life |-> "ACTIVE", fresh |-> "VALID", desc |-> c.desc,
                      dom |-> c.dom, bgen |-> c.bgen, handle |-> c.handle,
                      keyGen |-> 1, keyRevoked |-> FALSE, boot |-> c.boot,
                      epoch |-> c.epoch, leases |-> 0]
  <2>1. c \in Call /\ c.pc = "stored"
    BY <1>4 DEF RegisterCommit, TypeOK
  <2>2. c.reg \in RegIds /\ c.desc.buf \in BufIds /\ c.desc \in Descriptor
    BY <2>1, RegistryAssumption DEF CallsInRange, RegisterPoints, RegistryAssumption
  <2>3. rec \in Record
    BY <2>1 DEF Call, Record, Lifecycles, Freshnesses
  <2>4. regs' \in [RegIds -> Record]
    BY <1>4, <2>3 DEF RegisterCommit, TypeOK
  <2>5. slot' \in [BufIds -> RegIds \cup {0}]
    BY <1>4, <2>2 DEF RegisterCommit, TypeOK
  <2>6. call' \in [Threads -> Call]
    BY <1>4, EmptyTyped DEF RegisterCommit, TypeOK
  <2>7. /\ acct.regs + 1 \in Nat
        /\ acct.bytes + c.desc.len \in Nat
        /\ acct.pinned + PinnedLen(c.desc) \in Nat
    <3>1. c.desc.len \in Nat /\ PinnedLen(c.desc) \in Nat
      BY <2>2 DEF PinnedLen, Descriptor
    <3>2. acct.regs \in Nat /\ acct.bytes \in Nat /\ acct.pinned \in Nat
      BY DEF TypeOK, Gauges
    <3>. QED  BY <3>1, <3>2
  <2>8. acct' \in Gauges
    BY <1>4, <2>7 DEF RegisterCommit, AfterCommit, TypeOK, Gauges
  <2>. QED  BY <1>0, <1>4, <2>4, <2>5, <2>6, <2>8 DEF RegisterCommit, TypeOK
<1>5. CASE BackendReleases(t)
  <2>1. call' \in [Threads -> Call]
    BY <1>5, CallUpdates DEF BackendReleases, TypeOK
  <2>2. CASE attached
    <3>1. BackendTypeOK'
      BY <1>5, <2>2, EmptyTyped DEF BackendReleases, BackendDrop, TypeOK, BackendTypeOK
    <3>. QED  BY <1>5, <2>1, <3>1 DEF BackendReleases, TypeOK
  <2>3. CASE ~attached
    BY <1>0, <1>5, <2>1, <2>3 DEF BackendReleases, TypeOK
  <2>. QED  BY <2>2, <2>3
<1>6. CASE BackendReleaseFails(t)
  <2>1. call' \in [Threads -> Call]
    BY <1>6, CallUpdates DEF BackendReleaseFails, TypeOK
  <2>. QED  BY <1>0, <1>6, <2>1 DEF BackendReleaseFails, TypeOK
<1>7. CASE DeregisterFail(t)
  <2>1. call' \in [Threads -> Call]
    BY <1>7, EmptyTyped DEF DeregisterFail, TypeOK
  <2>2. regs' \in [RegIds -> Record]
    BY <1>7, RecordUpdates DEF DeregisterFail, Present, TypeOK
  <2>. QED  BY <1>0, <1>7, <2>1, <2>2 DEF DeregisterFail, TypeOK
<1>8. CASE DeregisterFinish(t)
  <2>1. call' \in [Threads -> Call]
    BY <1>8, EmptyTyped DEF DeregisterFinish, TypeOK
  <2>2. CASE Present(call[t].reg)
    <3>. DEFINE r == call[t].reg
    <3>1. Erase(r)
      BY <1>8, <2>2 DEF DeregisterFinish
    <3>2. acct' \in Gauges
      BY <2>2, <3>1, InvalidationTyped DEF Erase, Present, TypeOK
    <3>3. regs' \in [RegIds -> Record]
      BY <3>1, EmptyTyped DEF Erase, TypeOK
    <3>4. slot' \in [BufIds -> RegIds \cup {0}]
      BY <3>1 DEF Erase, SlotsWithout, TypeOK
    <3>5. leases' \in [LeaseIds -> Lease]
      BY <3>1, EmptyTyped DEF Erase, TypeOK
    <3>6. stats' \in Counters
      BY <3>1, CounterUpdates DEF Erase, TypeOK
    <3>. QED
      BY <1>0, <1>8, <2>1, <3>2, <3>3, <3>4, <3>5, <3>6 DEF DeregisterFinish, TypeOK
  <2>3. CASE ~Present(call[t].reg)
    BY <1>0, <1>8, <2>1, <2>3 DEF DeregisterFinish, TypeOK
  <2>. QED  BY <2>2, <2>3
<1>. QED  BY <1>1, <1>2, <1>3, <1>4, <1>5, <1>6, <1>7, <1>8 DEF Continue

(* Every step; the two parts are inductive together.                       *)
LEMMA TypeStep ==
    ASSUME TypeOK, CallsInRange, [Next]_vars
    PROVE  TypeOK'
<1>1. UNCHANGED registryVars /\ BackendTypeOK' => TypeOK'
  BY DEF TypeOK, registryVars
<1>2. CASE DeviceEvent
  BY <1>1, <1>2, DeviceTyped DEF DeviceEvent, TypeOK
<1>3. CASE UNCHANGED vars
  BY <1>1, <1>3, BackendUnchangedTyped DEF vars, TypeOK
<1>. QED  BY <1>2, <1>3, OperationTyped, BeginTyped, ContinueTyped DEF Next

------------------------------------------------------------------------------
(* How a step changes the table of registrations.                          *)

(* A record that stays in the table, or stays out of it, changes only in   *)
(* these ways.                                                             *)
Advances(old, new) ==
    /\ new.life = "UNREGISTERED" <=> old.life = "UNREGISTERED"
    /\ new.desc = old.desc /\ new.dom = old.dom /\ new.boot = old.boot
    /\ new.bgen = old.bgen /\ new.handle = old.handle
    /\ new.life \in {"ACTIVE", "REGISTERED"} => old.life \in {"ACTIVE", "REGISTERED"}
    /\ old.keyGen <= new.keyGen
    /\ \/ new.keyRevoked = old.keyRevoked
       \/ new.keyRevoked /\ new.life = "REVOKED"
       \/ ~new.keyRevoked /\ old.life \in {"ACTIVE", "REGISTERED"}
    /\ old.fresh # "VALID" => new.fresh # "VALID"
    /\ new.life \in {"ACTIVE", "REGISTERED"} => new.fresh = old.fresh
    /\ new.fresh = "VALID" => new.life \in {old.life, "DEREGISTERING", "FAILED"}

(* Every change an operation makes to a record in the table is one of      *)
(* them, provided the record was in a lifecycle the operation asks for.    *)
LEMMA RecordAdvances ==
    ASSUME NEW rec \in Record
    PROVE  /\ Advances(rec, rec)
           /\ rec.life # "UNREGISTERED" =>
                 /\ Advances(rec, [rec EXCEPT !.life = "REVOKED", !.fresh = "STALE"])
                 /\ Advances(rec, [rec EXCEPT !.life = "REVOKING", !.fresh = "STALE"])
                 /\ Advances(rec, [rec EXCEPT !.life = "STALE", !.fresh = "STALE"])
                 /\ Advances(rec, Revoked(rec))
                 /\ Advances(rec, [rec EXCEPT !.life = "DEREGISTERING"])
                 /\ Advances(rec, [rec EXCEPT !.life = "FAILED"])
           /\ rec.life \in {"ACTIVE", "REGISTERED"} =>
                 Advances(rec, [rec EXCEPT !.keyGen = @ + 1, !.keyRevoked = FALSE])
           /\ Advances(rec, [rec EXCEPT !.leases = @ + 1])
           /\ Advances(rec, [rec EXCEPT !.leases = Decrement(@, 1)])
<1>1. rec.keyGen \in Nat
  BY DEF Record
<1>2. Advances(rec, rec)
  BY <1>1 DEF Advances
<1>3. rec.life # "UNREGISTERED" =>
          /\ Advances(rec, [rec EXCEPT !.life = "REVOKED", !.fresh = "STALE"])
          /\ Advances(rec, [rec EXCEPT !.life = "REVOKING", !.fresh = "STALE"])
          /\ Advances(rec, [rec EXCEPT !.life = "STALE", !.fresh = "STALE"])
  BY <1>1 DEF Advances, Record
<1>4. rec.life # "UNREGISTERED" =>
          /\ Advances(rec, [rec EXCEPT !.life = "DEREGISTERING"])
          /\ Advances(rec, [rec EXCEPT !.life = "FAILED"])
  BY <1>1 DEF Advances, Record
<1>5. rec.life # "UNREGISTERED" => Advances(rec, Revoked(rec))
  BY <1>1 DEF Advances, Record, Revoked
<1>6. rec.life \in {"ACTIVE", "REGISTERED"} =>
          Advances(rec, [rec EXCEPT !.keyGen = @ + 1, !.keyRevoked = FALSE])
  <2>. DEFINE new == [rec EXCEPT !.keyGen = @ + 1, !.keyRevoked = FALSE]
  <2>1. rec.keyGen <= rec.keyGen + 1
    BY <1>1
  <2>2. /\ new.life = rec.life /\ new.desc = rec.desc /\ new.fresh = rec.fresh
        /\ new.keyGen = rec.keyGen + 1 /\ new.keyRevoked = FALSE
        /\ new.dom = rec.dom /\ new.boot = rec.boot
        /\ new.bgen = rec.bgen /\ new.handle = rec.handle
    BY DEF Record
  <2>. HIDE DEF new
  <2>3. rec.life \in {"ACTIVE", "REGISTERED"} => Advances(rec, new)
    BY <2>1, <2>2 DEF Advances
  <2>. QED  BY <2>3 DEF new
<1>7. Advances(rec, [rec EXCEPT !.leases = @ + 1])
  BY <1>1 DEF Advances, Record
<1>8. Advances(rec, [rec EXCEPT !.leases = Decrement(@, 1)])
  BY <1>1 DEF Advances, Record
<1>. QED  BY <1>2, <1>3, <1>4, <1>5, <1>6, <1>7, <1>8

(* Every record advances in an operation of one critical section.          *)
LEMMA OperationAdvances ==
    ASSUME TypeOK, Operation
    PROVE  \A r \in RegIds : Advances(regs[r], regs'[r])
<1>. SUFFICES ASSUME NEW r \in RegIds PROVE Advances(regs[r], regs'[r])
  OBVIOUS
<1>0. regs \in [RegIds -> Record] /\ regs[r] \in Record
  BY DEF TypeOK
<1>1. UNCHANGED regs => Advances(regs[r], regs'[r])
  BY <1>0, RecordAdvances
<1>2. ASSUME NEW p \in DomainIds, DestroyProtectionDomain(p)
      PROVE  Advances(regs[r], regs'[r])
  BY <1>0, <1>2, RecordAdvances DEF DestroyProtectionDomain, RegsOfDomain, InForce
<1>3. ASSUME NEW d \in Descriptors, CreateBuffer(d)
      PROVE  Advances(regs[r], regs'[r])
  <2>1. CASE ReallocateBuffer(d)
    BY <1>0, <2>1, RecordAdvances DEF ReallocateBuffer, RegsOfBuffer, InForce
  <2>2. CASE CreateNewBuffer(d) \/ CreateRefused(d)
    BY <1>1, <2>2 DEF CreateNewBuffer, CreateRefused
  <2>. QED  BY <1>3, <2>1, <2>2 DEF CreateBuffer
<1>4. ASSUME NEW q \in RegIds, NEW env \in Envelopes, NEW m \in LeaseMasks,
             AcquireLease(q, env, m)
      PROVE  Advances(regs[r], regs'[r])
  BY <1>0, <1>4, RecordAdvances DEF AcquireLease
<1>5. ASSUME NEW l \in LeaseIds, ReleaseLease(l) PROVE Advances(regs[r], regs'[r])
  BY <1>0, <1>5, RecordAdvances DEF ReleaseLease, Present
<1>6. ASSUME NEW q \in RegIds, HardRevoke(q) PROVE Advances(regs[r], regs'[r])
  BY <1>0, <1>6, RecordAdvances DEF HardRevoke, InForce
<1>7. ASSUME NEW q \in RegIds, SoftRevoke(q) PROVE Advances(regs[r], regs'[r])
  BY <1>0, <1>7, RecordAdvances DEF SoftRevoke, InForce
<1>8. ASSUME NEW q \in RegIds, RotateKey(q) PROVE Advances(regs[r], regs'[r])
  BY <1>0, <1>8, RecordAdvances DEF RotateKey, Rotatable, InForce
<1>9. ASSUME NEW q \in RegIds, NEW mode \in RevocationModes, Revoke(q, mode)
      PROVE  Advances(regs[r], regs'[r])
  BY <1>6, <1>7, <1>9 DEF Revoke
<1>10. CASE UNCHANGED regs
  BY <1>1, <1>10
<1>11. \/ \E s \in Snapshots : SetAuthority(s)
       \/ AdvanceEpoch
       \/ NoteParticipantRestart
       \/ AddBackend
       \/ CreateProtectionDomain
       \/ \E d \in Descriptors, p \in DomainIds, env \in Envelopes :
              RegisterBufferReuse(d, p, env)
       \/ \E q \in Requests : ValidateRemoteAccess(q)
       => UNCHANGED regs
  BY DEF SetAuthority, AdvanceEpoch, NoteParticipantRestart, AddBackend,
         CreateProtectionDomain, RegisterBufferReuse, ValidateRemoteAccess
<1>. QED  BY <1>2, <1>3, <1>4, <1>5, <1>8, <1>9, <1>10, <1>11 DEF Operation

(* What an operation of one critical section leaves alone, unless it is a  *)
(* hard revocation or the grant of a lease: the slots stay, no key dies    *)
(* and no lease becomes ACTIVE.                                            *)
Quiet ==
    /\ slot' = slot
    /\ \A r \in RegIds : regs'[r].keyRevoked => regs[r].keyRevoked
    /\ \A l \in LeaseIds : leases'[l].state = "ACTIVE" =>
          leases[l].state = "ACTIVE" /\ leases'[l].reg = leases[l].reg

(* A lease is granted to somebody.                                         *)
SomeLease ==
    \E r \in RegIds, env \in Envelopes, m \in LeaseMasks : AcquireLease(r, env, m)

(* Operations neither touch a call in flight nor draw a registration id.   *)
LEMMA OperationFrame ==
    ASSUME TypeOK, Operation
    PROVE  call' = call /\ next'.reg = next.reg
<1>1. next \in NextIds
  BY DEF TypeOK
<1>2. ASSUME NEW d \in Descriptors, CreateBuffer(d)
      PROVE  call' = call /\ next'.reg = next.reg
  BY <1>1, <1>2 DEF CreateBuffer, CreateNewBuffer, ReallocateBuffer, CreateRefused,
                    NextAfterCreate, NextIds
<1>3. ASSUME NEW r \in RegIds, NEW mode \in RevocationModes, Revoke(r, mode)
      PROVE  call' = call /\ next'.reg = next.reg
  BY <1>3 DEF Revoke, HardRevoke, SoftRevoke
<1>4. SomeLease \/ CreateProtectionDomain => call' = call /\ next'.reg = next.reg
  BY <1>1 DEF SomeLease, AcquireLease, CreateProtectionDomain, NextIds
<1>5. \/ \E s \in Snapshots : SetAuthority(s)
      \/ AdvanceEpoch
      \/ NoteParticipantRestart
      \/ AddBackend
      \/ \E p \in DomainIds : DestroyProtectionDomain(p)
      \/ \E l \in LeaseIds : ReleaseLease(l)
      \/ \E r \in RegIds : RotateKey(r)
      \/ \E d \in Descriptors, p \in DomainIds, env \in Envelopes :
             RegisterBufferReuse(d, p, env)
      \/ \E q \in Requests : ValidateRemoteAccess(q)
      => call' = call /\ next' = next
  BY DEF SetAuthority, AdvanceEpoch, NoteParticipantRestart, AddBackend,
         DestroyProtectionDomain, ReleaseLease, RotateKey, RegisterBufferReuse,
         ValidateRemoteAccess
<1>. QED  BY <1>2, <1>3, <1>4, <1>5 DEF Operation, SomeLease

(* Every operation is quiet, a hard revocation or a grant.                 *)
LEMMA OperationQuiet ==
    ASSUME TypeOK, Operation
    PROVE  Quiet \/ SomeLease \/ \E r \in RegIds : HardRevoke(r)
<1>0. regs \in [RegIds -> Record] /\ leases \in [LeaseIds -> Lease]
  BY DEF TypeOK
<1>1. UNCHANGED <<slot, regs, leases>> => Quiet
  BY DEF Quiet
<1>2. ASSUME NEW p \in DomainIds, DestroyProtectionDomain(p) PROVE Quiet
  BY <1>0, <1>2 DEF DestroyProtectionDomain, Quiet, Record
<1>3. ASSUME NEW d \in Descriptors, CreateBuffer(d) PROVE Quiet
  <2>1. CASE ReallocateBuffer(d)
    BY <1>0, <2>1 DEF ReallocateBuffer, Quiet, Record
  <2>2. CASE CreateNewBuffer(d) \/ CreateRefused(d)
    BY <1>1, <2>2 DEF CreateNewBuffer, CreateRefused
  <2>. QED  BY <1>3, <2>1, <2>2 DEF CreateBuffer
<1>4. ASSUME NEW l \in LeaseIds, ReleaseLease(l) PROVE Quiet
  BY <1>0, <1>4 DEF ReleaseLease, Quiet, Record, Lease
<1>5. ASSUME NEW r \in RegIds, SoftRevoke(r) PROVE Quiet
  BY <1>0, <1>5 DEF SoftRevoke, Quiet, Record
<1>6. ASSUME NEW r \in RegIds, RotateKey(r) PROVE Quiet
  BY <1>0, <1>6 DEF RotateKey, Quiet, Record
<1>7. ASSUME NEW r \in RegIds, NEW mode \in RevocationModes, Revoke(r, mode)
      PROVE  Quiet \/ HardRevoke(r)
  BY <1>5, <1>7 DEF Revoke
<1>8. \/ \E s \in Snapshots : SetAuthority(s)
      \/ AdvanceEpoch
      \/ NoteParticipantRestart
      \/ AddBackend
      \/ CreateProtectionDomain
      \/ \E d \in Descriptors, p \in DomainIds, env \in Envelopes :
             RegisterBufferReuse(d, p, env)
      \/ \E q \in Requests : ValidateRemoteAccess(q)
      => UNCHANGED <<slot, regs, leases>>
  BY DEF SetAuthority, AdvanceEpoch, NoteParticipantRestart, AddBackend,
         CreateProtectionDomain, RegisterBufferReuse, ValidateRemoteAccess
<1>. QED  BY <1>1, <1>2, <1>3, <1>4, <1>6, <1>7, <1>8 DEF Operation, SomeLease

------------------------------------------------------------------------------
(* Registration ids.                                                       *)

(* A step that publishes nothing, draws no id and starts no registration   *)
(* keeps what is known of the ids in use.                                  *)
LEMMA IdsKept ==
    ASSUME CallsInRange, CommitNeverOverwrites,
           next'.reg = next.reg,
           \A r \in RegIds : Present(r)' => Present(r),
           \A u \in Threads : call'[u].pc \in RegisterPoints =>
               /\ call[u].pc \in RegisterPoints
               /\ call'[u].reg = call[u].reg
               /\ call'[u].desc = call[u].desc
    PROVE  CallsInRange' /\ CommitNeverOverwrites'
<1>1. CallsInRange'
  BY DEF CallsInRange
<1>2. \A r \in PresentRegs' : r \in PresentRegs
  BY DEF PresentRegs
<1>3. \A u \in Registering' : u \in Registering /\ call'[u].reg = call[u].reg
  BY DEF Registering
<1>4. \A u \in Registering' : call'[u].reg \in RegIds
  BY <1>1 DEF CallsInRange, Registering
<1>. QED  BY <1>1, <1>2, <1>3, <1>4 DEF CommitNeverOverwrites

(* A call under way keeps the id and the descriptor it was admitted with.  *)
LEMMA CallsStep ==
    ASSUME TypeOK, CallsInRange, [Next]_vars
    PROVE  CallsInRange'
<1>0. call \in [Threads -> Call]
  BY DEF TypeOK
<1>1. CASE Operation \/ UNCHANGED registryVars
  <2>1. call' = call
    BY <1>1, OperationFrame DEF registryVars
  <2>. QED  BY <2>1 DEF CallsInRange
<1>2. ASSUME NEW t \in Threads, NEW d \in Descriptors, NEW p \in DomainIds,
             NEW env \in Envelopes, RegisterAdmit(t, d, p, env)
      PROVE  CallsInRange'
  <2>1. /\ call'[t].reg = next.reg /\ call'[t].desc = d
        /\ \A u \in Threads : u # t => call'[u] = call[u]
        /\ next.reg \in RegIds /\ d.buf \in BufIds
    BY <1>0, <1>2 DEF RegisterAdmit, Admissible
  <2>. QED  BY <2>1 DEF CallsInRange
<1>3. ASSUME NEW t \in Threads, Continue(t) \/ \E r \in RegIds : DeregisterBegin(t, r)
      PROVE  CallsInRange'
  <2>1. call'[t].pc \in RegisterPoints =>
            /\ call[t].pc \in RegisterPoints
            /\ call'[t].reg = call[t].reg /\ call'[t].desc = call[t].desc
    <3>1. BackendNumbers(t) \/ BackendStores(t) =>
              /\ call[t].pc \in RegisterPoints
              /\ call'[t].reg = call[t].reg /\ call'[t].desc = call[t].desc
      BY <1>0 DEF BackendNumbers, BackendStores, RegisterPoints, Call
    <3>2. BackendReleases(t) \/ BackendReleaseFails(t) => call'[t].pc \notin RegisterPoints
      BY <1>0 DEF BackendReleases, BackendReleaseFails, RegisterPoints, Call
    <3>3. ASSUME \/ BackendRefuses(t) \/ RegisterCommit(t) \/ DeregisterFail(t)
                 \/ DeregisterFinish(t)
          PROVE  call'[t] = NoCall
      BY <1>0, <3>3 DEF BackendRefuses, RegisterCommit, DeregisterFail, DeregisterFinish
    <3>4. ASSUME NEW r \in RegIds, DeregisterBegin(t, r) PROVE call'[t].pc \notin RegisterPoints
      BY <1>0, <3>4 DEF DeregisterBegin, RegisterPoints, NoCall
    <3>5. NoCall.pc \notin RegisterPoints
      BY DEF NoCall, RegisterPoints
    <3>. QED  BY <1>3, <3>1, <3>2, <3>3, <3>4, <3>5 DEF Continue
  <2>2. \A u \in Threads : u # t => call'[u] = call[u]
    BY <1>0, <1>3 DEF Continue, BackendRefuses, BackendNumbers, BackendStores, BackendReleases,
                      BackendReleaseFails, DeregisterBegin, DeregisterFail, DeregisterFinish,
                      RegisterCommit
  <2>. QED  BY <2>1, <2>2 DEF CallsInRange
<1>. QED  BY <1>1, <1>2, <1>3 DEF Next, Begin, DeviceEvent, vars

(* The id drawn by register_buffer is new, and the id it publishes is the  *)
(* one it drew.                                                            *)
LEMMA IdsStep ==
    ASSUME TypeOK, CallsInRange, CommitNeverOverwrites, [Next]_vars
    PROVE  CallsInRange' /\ CommitNeverOverwrites'
<1>0. /\ regs \in [RegIds -> Record] /\ call \in [Threads -> Call]
      /\ next \in NextIds /\ next.reg \in Nat
  BY DEF TypeOK, NextIds
<1>1. CASE Operation
  <2>1. \A r \in RegIds : Present(r)' => Present(r)
    BY <1>1, OperationAdvances DEF Advances, Present
  <2>. QED  BY <1>1, <2>1, OperationFrame, IdsKept
<1>2. ASSUME UNCHANGED registryVars PROVE CallsInRange' /\ CommitNeverOverwrites'
  BY <1>2, IdsKept DEF registryVars, Present
<1>3. ASSUME NEW t \in Threads, NEW d \in Descriptors, NEW p \in DomainIds,
             NEW env \in Envelopes, RegisterAdmit(t, d, p, env)
      PROVE  CallsInRange' /\ CommitNeverOverwrites'
  <2>1. /\ call'[t].pc = "admitted" /\ call'[t].reg = next.reg /\ call'[t].desc = d
        /\ \A u \in Threads : u # t => call'[u] = call[u]
        /\ next'.reg = next.reg + 1
        /\ regs' = regs
        /\ next.reg \in RegIds /\ d.buf \in BufIds
    BY <1>0, <1>3 DEF RegisterAdmit, Admissible, NextAfterAdmit, NextIds
  <2>2. CallsInRange'
    BY <2>1 DEF CallsInRange
  <2>3. PresentRegs' = PresentRegs /\ \A r : Present(r)' <=> Present(r)
    BY <2>1 DEF PresentRegs, Present
  <2>4. \A u \in Registering' : u = t \/ (u \in Registering /\ call'[u] = call[u])
    BY <2>1 DEF Registering
  <2>5. ~Present(next.reg)
    BY <1>0 DEF CommitNeverOverwrites, PresentRegs, Present
  <2>6. \A u \in Registering : call[u].reg < next.reg /\ call[u].reg \in Nat
    BY <1>0 DEF CommitNeverOverwrites, CallsInRange, Registering
  <2>7. \A r \in PresentRegs' : r < next'.reg
    BY <1>0, <2>1, <2>3 DEF CommitNeverOverwrites, PresentRegs
  <2>8. \A u \in Registering' : call'[u].reg < next'.reg /\ ~Present(call[u].reg)'
    BY <1>0, <2>1, <2>3, <2>4, <2>5, <2>6 DEF CommitNeverOverwrites
  <2>9. \A u, v \in Registering' : (call[u].reg = call[v].reg)' => u = v
    BY <1>0, <2>1, <2>4, <2>6 DEF CommitNeverOverwrites
  <2>. QED  BY <2>2, <2>7, <2>8, <2>9 DEF CommitNeverOverwrites
<1>4. ASSUME NEW t \in Threads, NEW r \in RegIds, DeregisterBegin(t, r)
      PROVE  CallsInRange' /\ CommitNeverOverwrites'
  <2>1. \A q \in RegIds : Present(q)' => Present(q)
    BY <1>0, <1>4 DEF DeregisterBegin, Deregisterable, MayDeregister, Present
  <2>2. call'[t].pc \notin RegisterPoints /\ \A u \in Threads : u # t => call'[u] = call[u]
    BY <1>0, <1>4 DEF DeregisterBegin, RegisterPoints, NoCall
  <2>. QED  BY <1>4, <2>1, <2>2, IdsKept DEF DeregisterBegin
<1>5. ASSUME NEW t \in Threads,
             \/ BackendRefuses(t) \/ BackendReleaseFails(t) \/ BackendReleases(t)
      PROVE  CallsInRange' /\ CommitNeverOverwrites'
  <2>1. call'[t].pc \notin RegisterPoints /\ \A u \in Threads : u # t => call'[u] = call[u]
    BY <1>0, <1>5 DEF BackendRefuses, BackendReleaseFails, BackendReleases,
                      RegisterPoints, NoCall, Call
  <2>2. regs' = regs /\ next' = next
    BY <1>5 DEF BackendRefuses, BackendReleaseFails, BackendReleases
  <2>. QED  BY <2>1, <2>2, IdsKept DEF Present
<1>6. ASSUME NEW t \in Threads, BackendNumbers(t) \/ BackendStores(t)
      PROVE  CallsInRange' /\ CommitNeverOverwrites'
  <2>1. /\ call[t].pc \in RegisterPoints
        /\ call'[t].reg = call[t].reg /\ call'[t].desc = call[t].desc
        /\ \A u \in Threads : u # t => call'[u] = call[u]
    BY <1>0, <1>6 DEF BackendNumbers, BackendStores, RegisterPoints, Call
  <2>2. regs' = regs /\ next' = next
    BY <1>6 DEF BackendNumbers, BackendStores
  <2>. QED  BY <2>1, <2>2, IdsKept DEF Present
<1>7. ASSUME NEW t \in Threads, DeregisterFail(t) \/ DeregisterFinish(t)
      PROVE  CallsInRange' /\ CommitNeverOverwrites'
  <2>1. call'[t].pc \notin RegisterPoints /\ \A u \in Threads : u # t => call'[u] = call[u]
    BY <1>0, <1>7 DEF DeregisterFail, DeregisterFinish, RegisterPoints, NoCall
  <2>2. \A q \in RegIds : Present(q)' => Present(q)
    BY <1>0, <1>7 DEF DeregisterFail, DeregisterFinish, Erase, Present, NoRecord
  <2>. QED  BY <1>7, <2>1, <2>2, IdsKept DEF DeregisterFail, DeregisterFinish
<1>8. ASSUME NEW t \in Threads, RegisterCommit(t)
      PROVE  CallsInRange' /\ CommitNeverOverwrites'
  <2>1. t \in Registering /\ call[t].reg \in RegIds
    BY <1>8 DEF RegisterCommit, RegisterPoints, Registering, CallsInRange
  <2>2. /\ call'[t].pc \notin RegisterPoints
        /\ \A u \in Threads : u # t => call'[u] = call[u]
        /\ next' = next
        /\ \A q \in RegIds : q # call[t].reg => regs'[q] = regs[q]
    BY <1>0, <1>8 DEF RegisterCommit, RegisterPoints, NoCall
  <2>3. CallsInRange'
    BY <2>2 DEF CallsInRange
  <2>4. \A q \in PresentRegs' : q \in PresentRegs \/ q = call[t].reg
    BY <2>2 DEF PresentRegs, Present
  <2>5. \A u \in Registering' :
            u \in Registering /\ u # t /\ call'[u] = call[u] /\ call[u].reg \in RegIds
    BY <2>2 DEF Registering, CallsInRange
  <2>6. \A u \in Registering' : ~Present(call[u].reg)'
    BY <2>1, <2>2, <2>5 DEF CommitNeverOverwrites, Present
  <2>. QED  BY <2>1, <2>2, <2>3, <2>4, <2>5, <2>6 DEF CommitNeverOverwrites
<1>9. CASE DeviceEvent
  BY <1>2, <1>9 DEF DeviceEvent
<1>10. CASE UNCHANGED vars
  BY <1>2, <1>10 DEF vars
<1>. QED  BY <1>1, <1>3, <1>4, <1>5, <1>6, <1>7, <1>8, <1>9, <1>10
          DEF Next, Begin, Continue

------------------------------------------------------------------------------
(* Dead keys.                                                              *)

(* An ACTIVE lease is on a registration id; with it the three statements   *)
(* about revoked keys are kept by every step, and none of them is kept     *)
(* without the others: a slot is safe because only a hard revocation kills *)
(* a key, and a lease because it is only granted on a key alive.           *)
LeasesNamed == \A l \in ActiveLeases : leases[l].reg \in RegIds

KeysSafe ==
    InForceKeyAlive /\ SlotNeverDangles /\ LeasesNamed /\ NoActiveLeaseUnderRevokedKey

(* Quiet steps that move no record backwards keep it.                      *)
LEMMA QuietKeepsKeys ==
    ASSUME TypeOK, KeysSafe, Quiet, \A r \in RegIds : Advances(regs[r], regs'[r])
    PROVE  KeysSafe'
<1>1. InForceKeyAlive'
  BY DEF KeysSafe, InForceKeyAlive, InForce, Advances
<1>2. ASSUME NEW b \in BufIds, slot'[b] # 0
      PROVE  Present(slot[b])' /\ regs'[slot'[b]].desc.buf = b /\ ~regs'[slot'[b]].keyRevoked
  <2>1. slot'[b] = slot[b] /\ slot[b] \in RegIds
    BY <1>2 DEF Quiet, TypeOK
  <2>2. Present(slot[b]) /\ regs[slot[b]].desc.buf = b /\ ~regs[slot[b]].keyRevoked
    BY <1>2, <2>1 DEF KeysSafe, SlotNeverDangles
  <2>. QED  BY <2>1, <2>2 DEF Quiet, Advances, Present
<1>3. SlotNeverDangles'
  BY <1>2 DEF SlotNeverDangles
<1>4. LeasesNamed' /\ NoActiveLeaseUnderRevokedKey'
  BY DEF KeysSafe, LeasesNamed, NoActiveLeaseUnderRevokedKey, ActiveLeases, Quiet
<1>. QED  BY <1>1, <1>3, <1>4 DEF KeysSafe

(* Every step keeps dead keys dead, unslotted and unleased.                *)
LEMMA KeysStep ==
    ASSUME TypeOK, CallsInRange, CommitNeverOverwrites, KeysSafe, [Next]_vars
    PROVE  KeysSafe'
<1>0. /\ regs \in [RegIds -> Record] /\ call \in [Threads -> Call]
      /\ slot \in [BufIds -> RegIds \cup {0}] /\ leases \in [LeaseIds -> Lease]
  BY DEF TypeOK
<1>u. ASSUME UNCHANGED <<regs, slot, leases>> PROVE KeysSafe'
  <2>1. Quiet /\ \A r \in RegIds : Advances(regs[r], regs'[r])
    BY <1>0, <1>u, RecordAdvances DEF Quiet
  <2>. QED  BY <2>1, QuietKeepsKeys
<1>1. ASSUME NEW r \in RegIds, HardRevoke(r) PROVE KeysSafe'
  <2>1. /\ \A q \in RegIds : q # r => regs'[q] = regs[q]
        /\ regs'[r].life = "REVOKED" /\ regs'[r].desc = regs[r].desc
        /\ slot' = [slot EXCEPT ![regs[r].desc.buf] = 0]
        /\ leases' = LeasesRevoked(r)
    BY <1>0, <1>1 DEF HardRevoke, Revoked, Record
  <2>2. InForceKeyAlive'
    BY <2>1 DEF KeysSafe, InForceKeyAlive, InForce
  <2>3. \A b \in BufIds : slot'[b] # 0 =>
            /\ slot'[b] = slot[b] /\ slot[b] \in RegIds /\ slot[b] # r
            /\ Present(slot[b]) /\ regs[slot[b]].desc.buf = b
            /\ ~regs[slot[b]].keyRevoked
    BY <1>0, <2>1 DEF KeysSafe, SlotNeverDangles
  <2>4. SlotNeverDangles'
    BY <2>1, <2>3 DEF SlotNeverDangles, Present
  <2>5. \A l \in LeaseIds : leases'[l].state = "ACTIVE" =>
            /\ leases[l].state = "ACTIVE" /\ leases'[l] = leases[l]
            /\ leases[l].reg # r
    BY <1>0, <2>1 DEF LeasesRevoked, LeasesOn, Lease
  <2>6. LeasesNamed' /\ NoActiveLeaseUnderRevokedKey'
    BY <2>1, <2>5 DEF KeysSafe, LeasesNamed, NoActiveLeaseUnderRevokedKey, ActiveLeases
  <2>. QED  BY <2>2, <2>4, <2>6 DEF KeysSafe
<1>2. ASSUME SomeLease PROVE KeysSafe'
  <2>1. PICK r \in RegIds, env \in Envelopes, m \in LeaseMasks : AcquireLease(r, env, m)
    BY <1>2 DEF SomeLease
  <2>2. /\ InForce(r)
        /\ slot' = slot
        /\ regs' = [regs EXCEPT ![r].leases = @ + 1]
        /\ next.lease \in LeaseIds
        /\ \A l \in LeaseIds : l # next.lease => leases'[l] = leases[l]
        /\ leases'[next.lease].reg = r
    BY <1>0, <2>1 DEF AcquireLease, Leasable
  <2>3. \A q \in RegIds : regs'[q].life = regs[q].life
                         /\ regs'[q].desc = regs[q].desc
                         /\ regs'[q].keyRevoked = regs[q].keyRevoked
    BY <1>0, <2>2 DEF Record
  <2>4. InForceKeyAlive' /\ SlotNeverDangles'
    BY <1>0, <2>2, <2>3 DEF KeysSafe, InForceKeyAlive, SlotNeverDangles, InForce, Present
  <2>5. LeasesNamed' /\ NoActiveLeaseUnderRevokedKey'
    BY <2>2, <2>3 DEF KeysSafe, InForceKeyAlive, LeasesNamed, NoActiveLeaseUnderRevokedKey,
                      ActiveLeases
  <2>. QED  BY <2>4, <2>5 DEF KeysSafe
<1>3. CASE Operation
  BY <1>1, <1>2, <1>3, OperationQuiet, OperationAdvances, QuietKeepsKeys
<1>4. ASSUME NEW t \in Threads, Begin(t) PROVE KeysSafe'
  <2>1. ASSUME NEW r \in RegIds, DeregisterBegin(t, r) PROVE KeysSafe'
    <3>1. Quiet
      BY <1>0, <2>1 DEF DeregisterBegin, Quiet, Record
    <3>2. \A q \in RegIds : Advances(regs[q], regs'[q])
      BY <1>0, <2>1, RecordAdvances DEF DeregisterBegin, Deregisterable, MayDeregister
    <3>. QED  BY <3>1, <3>2, QuietKeepsKeys
  <2>2. (\E d \in Descriptors, p \in DomainIds, env \in Envelopes :
            RegisterAdmit(t, d, p, env)) => UNCHANGED <<regs, slot, leases>>
    BY DEF RegisterAdmit
  <2>. QED  BY <1>4, <1>u, <2>1, <2>2 DEF Begin
<1>5. ASSUME NEW t \in Threads, RegisterCommit(t) PROVE KeysSafe'
  <2>. DEFINE n == call[t].reg
              b == call[t].desc.buf
  <2>1. t \in Registering /\ n \in RegIds /\ b \in BufIds
    BY <1>5 DEF RegisterCommit, RegisterPoints, Registering, CallsInRange
  <2>2. ~Present(n)
    BY <2>1 DEF CommitNeverOverwrites
  <2>3. /\ \A q \in RegIds : q # n => regs'[q] = regs[q]
        /\ regs'[n].life = "ACTIVE" /\ regs'[n].desc.buf = b /\ ~regs'[n].keyRevoked
        /\ slot' = [slot EXCEPT ![b] = n]
        /\ leases' = leases
    BY <1>0, <1>5, <2>1 DEF RegisterCommit
  <2>. HIDE DEF n, b
  <2>4. InForceKeyAlive'
    BY <2>3 DEF KeysSafe, InForceKeyAlive, InForce
  <2>5. ASSUME NEW c \in BufIds, slot'[c] # 0
        PROVE  /\ Present(slot[c])' /\ regs'[slot'[c]].desc.buf = c
               /\ ~regs'[slot'[c]].keyRevoked
    <3>1. CASE c = b
      BY <1>0, <2>1, <2>3, <3>1 DEF Present
    <3>2. CASE c # b
      <4>1. slot'[c] = slot[c] /\ slot[c] \in RegIds
        BY <1>0, <2>3, <2>5, <3>2
      <4>2. /\ Present(slot[c]) /\ regs[slot[c]].desc.buf = c
            /\ ~regs[slot[c]].keyRevoked
        BY <2>5, <4>1 DEF KeysSafe, SlotNeverDangles
      <4>3. slot[c] # n
        BY <2>2, <4>2
      <4>. QED  BY <2>3, <4>1, <4>2, <4>3 DEF Present
    <3>. QED  BY <3>1, <3>2
  <2>6. SlotNeverDangles'
    BY <2>5 DEF SlotNeverDangles
  <2>7. LeasesNamed' /\ NoActiveLeaseUnderRevokedKey'
    BY <2>3 DEF KeysSafe, LeasesNamed, NoActiveLeaseUnderRevokedKey, ActiveLeases
  <2>. QED  BY <2>4, <2>6, <2>7 DEF KeysSafe
<1>6. ASSUME NEW t \in Threads, DeregisterFinish(t), Present(call[t].reg) PROVE KeysSafe'
  <2>. DEFINE r == call[t].reg
  <2>1. /\ r \in RegIds
        /\ \A q \in RegIds : q # r => regs'[q] = regs[q]
        /\ regs'[r] = NoRecord
        /\ slot' = SlotsWithout(r)
        /\ leases' = [l \in LeaseIds |-> IF leases[l].reg = r THEN NoLease ELSE leases[l]]
    BY <1>0, <1>6 DEF DeregisterFinish, Erase, Present
  <2>. HIDE DEF r
  <2>2. InForceKeyAlive'
    BY <2>1 DEF KeysSafe, InForceKeyAlive, InForce, NoRecord
  <2>3. \A b \in BufIds : slot'[b] # 0 =>
            /\ slot'[b] = slot[b] /\ slot[b] \in RegIds /\ slot[b] # r
            /\ Present(slot[b]) /\ regs[slot[b]].desc.buf = b
            /\ ~regs[slot[b]].keyRevoked
    BY <1>0, <2>1 DEF SlotsWithout, KeysSafe, SlotNeverDangles
  <2>4. SlotNeverDangles'
    BY <2>1, <2>3 DEF SlotNeverDangles, Present
  <2>5. \A l \in LeaseIds : leases'[l].state = "ACTIVE" =>
            leases'[l] = leases[l] /\ leases[l].reg # r
    BY <2>1 DEF NoLease
  <2>6. LeasesNamed' /\ NoActiveLeaseUnderRevokedKey'
    BY <2>1, <2>5 DEF KeysSafe, LeasesNamed, NoActiveLeaseUnderRevokedKey, ActiveLeases
  <2>. QED  BY <2>2, <2>4, <2>6 DEF KeysSafe
<1>7. ASSUME NEW t \in Threads, DeregisterFail(t) PROVE KeysSafe'
  <2>1. Quiet
    BY <1>0, <1>7 DEF DeregisterFail, Quiet, Present, Record
  <2>2. \A q \in RegIds : Advances(regs[q], regs'[q])
    BY <1>0, <1>7, RecordAdvances DEF DeregisterFail, Present
  <2>. QED  BY <2>1, <2>2, QuietKeepsKeys
<1>8. ASSUME NEW t \in Threads,
             \/ BackendRefuses(t) \/ BackendNumbers(t) \/ BackendStores(t)
             \/ BackendReleases(t) \/ BackendReleaseFails(t)
             \/ DeregisterFinish(t) /\ ~Present(call[t].reg)
      PROVE  KeysSafe'
  BY <1>8, <1>u DEF BackendRefuses, BackendNumbers, BackendStores, BackendReleases,
                    BackendReleaseFails, DeregisterFinish
<1>9. CASE DeviceEvent \/ UNCHANGED vars
  BY <1>9, <1>u DEF DeviceEvent, vars, registryVars
<1>. QED  BY <1>3, <1>4, <1>5, <1>6, <1>7, <1>8, <1>9 DEF Next, Continue

------------------------------------------------------------------------------
(* The inductive invariant and the theorems.                               *)

(* Each part uses the others: typing a commit takes CallsInRange, keeping  *)
(* keys safe across a commit takes CommitNeverOverwrites.                  *)
Inv == TypeOK /\ CallsInRange /\ CommitNeverOverwrites /\ KeysSafe

(* The invariant holds at the start.                                       *)
LEMMA InvInit == Init => Inv
<1>. SUFFICES ASSUME Init PROVE Inv
  OBVIOUS
<1>1. Registering = {} /\ PresentRegs = {}
  BY DEF Init, Registering, PresentRegs, Present, NoCall, NoRecord, RegisterPoints
<1>2. CallsInRange
  BY DEF Init, CallsInRange, NoCall, RegisterPoints
<1>3. CommitNeverOverwrites
  BY <1>1 DEF CommitNeverOverwrites
<1>4. ActiveLeases = {}
  BY DEF Init, ActiveLeases, NoLease
<1>5. KeysSafe
  BY <1>4 DEF Init, KeysSafe, InForceKeyAlive, InForce, SlotNeverDangles, LeasesNamed,
              NoActiveLeaseUnderRevokedKey, NoRecord
<1>. QED  BY <1>2, <1>3, <1>5, TypeInit DEF Inv

(* Every step keeps the invariant.                                         *)
LEMMA InvStep == Inv /\ [Next]_vars => Inv'
<1>. SUFFICES ASSUME Inv, [Next]_vars PROVE Inv'
  OBVIOUS
<1>1. TypeOK'
  BY TypeStep DEF Inv
<1>2. CallsInRange' /\ CommitNeverOverwrites'
  BY IdsStep DEF Inv
<1>3. KeysSafe'
  BY KeysStep DEF Inv
<1>. QED  BY <1>1, <1>2, <1>3 DEF Inv

(* The conjunction above is an invariant of the registry for every number  *)
(* of threads, buffers, registrations, domains, leases and descriptors.    *)
THEOREM InvHolds == Spec => []Inv
<1>. QED  BY InvInit, InvStep, PTL DEF Spec

(* Every variable keeps its type; in particular no gauge ever goes below   *)
(* zero, because Counter::decrement refuses (accounting.hpp:17-28).        *)
THEOREM TypeCorrect == Spec => []TypeOK
<1>1. Inv => TypeOK
  BY DEF Inv
<1>. QED  BY <1>1, InvHolds, PTL

(* Two calls never publish under one id and no record is overwritten: the  *)
(* id drawn before the backend call is still free after it                 *)
(* (registry.cpp:274, 351).                                                *)
THEOREM IdsNeverReused == Spec => []CommitNeverOverwrites
<1>1. Inv => CommitNeverOverwrites
  BY DEF Inv
<1>. QED  BY <1>1, InvHolds, PTL

(* The single-flight slot never names a record that is gone, of another    *)
(* buffer, or whose key is revoked, in any interleaving                    *)
(* (registry.cpp:259, 352, 683, 785).                                      *)
THEOREM SlotSafe == Spec => []SlotNeverDangles
<1>1. Inv => SlotNeverDangles
  BY DEF Inv, KeysSafe
<1>. QED  BY <1>1, InvHolds, PTL

(* No lease is ACTIVE on a record whose key a hard revocation killed       *)
(* (registry.cpp:453, 668-684).                                            *)
THEOREM NoLeaseOnDeadKey == Spec => []NoActiveLeaseUnderRevokedKey
<1>1. Inv => NoActiveLeaseUnderRevokedKey
  BY DEF Inv, KeysSafe
<1>. QED  BY <1>1, InvHolds, PTL

(* What NeverRevives says of one step.                                     *)
KeepsDead ==
    \A r \in RegIds :
        Present(r) /\ Present(r)' =>
            /\ InForce(r)' => InForce(r)
            /\ regs[r].keyGen <= regs'[r].keyGen
            /\ regs[r].keyRevoked => regs'[r].keyRevoked
            /\ regs[r].fresh # "VALID" => regs'[r].fresh # "VALID"

(* A step from a state of the invariant revives nothing.                   *)
LEMMA KeepsDeadStep == Inv /\ [Next]_vars => KeepsDead
<1>. SUFFICES ASSUME Inv, [Next]_vars PROVE KeepsDead
  OBVIOUS
<1>0. /\ regs \in [RegIds -> Record] /\ InForceKeyAlive
      /\ TypeOK /\ CallsInRange /\ CommitNeverOverwrites
  BY DEF Inv, TypeOK, KeysSafe
<1>1. ASSUME \A r \in RegIds : Advances(regs[r], regs'[r]) PROVE KeepsDead
  BY <1>0, <1>1 DEF KeepsDead, InForce, InForceKeyAlive, Advances
<1>2. ASSUME UNCHANGED regs PROVE KeepsDead
  BY <1>0, <1>1, <1>2, RecordAdvances
<1>3. CASE Operation
  BY <1>0, <1>1, <1>3, OperationAdvances
<1>4. ASSUME NEW t \in Threads, Begin(t) PROVE KeepsDead
  <2>1. ASSUME NEW r \in RegIds, DeregisterBegin(t, r) PROVE KeepsDead
    BY <1>0, <1>1, <2>1, RecordAdvances DEF DeregisterBegin, Deregisterable, MayDeregister
  <2>2. (\E d \in Descriptors, p \in DomainIds, env \in Envelopes :
            RegisterAdmit(t, d, p, env)) => UNCHANGED regs
    BY DEF RegisterAdmit
  <2>. QED  BY <1>2, <1>4, <2>1, <2>2 DEF Begin
<1>5. ASSUME NEW t \in Threads, RegisterCommit(t) PROVE KeepsDead
  <2>. DEFINE n == call[t].reg
  <2>1. ~Present(n)
    BY <1>0, <1>5 DEF RegisterCommit, RegisterPoints, Registering, CommitNeverOverwrites
  <2>2. \A q \in RegIds : q # n => regs'[q] = regs[q]
    BY <1>0, <1>5 DEF RegisterCommit
  <2>. HIDE DEF n
  <2>3. \A q \in RegIds : Present(q) => regs'[q] = regs[q] /\ regs[q].keyGen \in Nat
    BY <1>0, <2>1, <2>2 DEF Record
  <2>. QED  BY <2>3 DEF KeepsDead, InForce
<1>6. ASSUME NEW t \in Threads, DeregisterFinish(t) PROVE KeepsDead
  <2>1. \A q \in RegIds : Present(q)' => regs'[q] = regs[q] /\ regs[q].keyGen \in Nat
    <3>1. \A q \in RegIds : regs'[q] = regs[q] \/ regs'[q] = NoRecord
      BY <1>0, <1>6 DEF DeregisterFinish, Erase
    <3>. QED  BY <1>0, <3>1 DEF Present, NoRecord, Record
  <2>. QED  BY <2>1 DEF KeepsDead, InForce
<1>7. ASSUME NEW t \in Threads, DeregisterFail(t) PROVE KeepsDead
  BY <1>0, <1>1, <1>7, RecordAdvances DEF DeregisterFail, Present
<1>8. ASSUME NEW t \in Threads,
             \/ BackendRefuses(t) \/ BackendNumbers(t) \/ BackendStores(t)
             \/ BackendReleases(t) \/ BackendReleaseFails(t)
      PROVE  KeepsDead
  BY <1>2, <1>8 DEF BackendRefuses, BackendNumbers, BackendStores, BackendReleases,
                    BackendReleaseFails
<1>9. CASE DeviceEvent \/ UNCHANGED vars
  BY <1>2, <1>9 DEF DeviceEvent, vars, registryVars
<1>. QED  BY <1>3, <1>4, <1>5, <1>6, <1>7, <1>8, <1>9 DEF Next, Continue

(* Nothing revives a record that stopped granting access: not a release,   *)
(* a rotation, a reallocation, a failed deregistration or a step of another *)
(* call (registry.cpp, all writers of lifecycle, freshness and key).       *)
THEOREM DeadStaysDead == Spec => NeverRevives
<1>1. KeepsDead => [KeepsDead]_vars
  OBVIOUS
<1>2. Inv /\ [Next]_vars => [KeepsDead]_vars
  BY KeepsDeadStep
<1>3. [][KeepsDead]_vars => NeverRevives
  BY PTL DEF NeverRevives, KeepsDead
<1>. QED  BY <1>2, <1>3, InvHolds, PTL DEF Spec

------------------------------------------------------------------------------
(* Leases: lease_count is exact, and a registration is never deregistered  *)
(* from under a lease.                                                     *)

(* A lease in the table was drawn from next_lease_ and is on a record in   *)
(* the table: deregister erases the two together (registry.cpp:782-791).   *)
LeasesKnown ==
    \A l \in LeaseIds : leases[l].state # "ABSENT" =>
        /\ leases[l].state \in Outstanding \cup {"RELEASED"}
        /\ leases[l].reg \in RegIds
        /\ Present(leases[l].reg)
        /\ l < next.lease

(* Between the critical sections of deregister the record waits in         *)
(* DEREGISTERING, nobody holds it and no other call deregisters it.        *)
Deregistering == {t \in Threads : call[t].pc \in DeregisterPoints}

TeardownExclusive ==
    /\ \A t \in Deregistering :
          /\ call[t].reg \in RegIds
          /\ regs[call[t].reg].life = "DEREGISTERING"
          /\ regs[call[t].reg].leases = 0
    /\ \A t, u \in Deregistering : call[t].reg = call[u].reg => t = u

(* The invariant of RegistryProofs, with the counts.                       *)
LeaseInv == Inv /\ LeasesKnown /\ LeaseCountExact /\ TeardownExclusive

------------------------------------------------------------------------------
(* Sets of leases, before and after.                                       *)

(* The leases on r that were granted and not released.                     *)
Held(r) == LeasesOn(r, Outstanding)

(* They can be counted, and the count is zero only if there are none.      *)
LEMMA HeldFinite ==
    ASSUME NEW r
    PROVE  /\ IsFiniteSet(Held(r)) /\ Cardinality(Held(r)) \in Nat
           /\ Cardinality(Held(r)) = 0 <=> Held(r) = {}
<1>1. Held(r) \in SUBSET LeaseIds
  BY DEF Held, LeasesOn
<1>2. IsFiniteSet(Held(r)) /\ Cardinality(Held(r)) \in Nat
  BY <1>1, LeaseSetsFinite
<1>. QED  BY <1>2, FS_EmptySet

(* What a step that grants and returns no lease looks like.                *)
CountsAlone ==
    /\ next'.lease = next.lease
    /\ \A r \in RegIds : /\ Present(r)' <=> Present(r)
                         /\ regs'[r].leases = regs[r].leases
    /\ \A l \in LeaseIds :
          /\ leases'[l].reg = leases[l].reg
          /\ leases'[l].state \in Outstanding <=> leases[l].state \in Outstanding
          /\ leases'[l].state = "ABSENT" <=> leases[l].state = "ABSENT"
          /\ leases'[l].state = "RELEASED" <=> leases[l].state = "RELEASED"

(* It keeps the counts.                                                    *)
LEMMA CountsKept ==
    ASSUME LeasesKnown, LeaseCountExact, CountsAlone
    PROVE  LeasesKnown' /\ LeaseCountExact'
<1>1. LeasesKnown'
  <2>. SUFFICES ASSUME NEW l \in LeaseIds, leases'[l].state # "ABSENT"
                PROVE  /\ leases'[l].state \in Outstanding \cup {"RELEASED"}
                       /\ leases'[l].reg \in RegIds
                       /\ Present(leases[l].reg)'
                       /\ l < next'.lease
    BY DEF LeasesKnown
  <2>1. /\ leases[l].state \in Outstanding \cup {"RELEASED"}
        /\ leases[l].reg \in RegIds /\ Present(leases[l].reg) /\ l < next.lease
        /\ leases'[l].reg = leases[l].reg
    BY DEF LeasesKnown, CountsAlone
  <2>2. Present(leases[l].reg)'
    <3>1. \A r \in RegIds : Present(r)' <=> Present(r)
      BY DEF CountsAlone
    <3>. QED  BY <2>1, <3>1 DEF Present
  <2>. QED  BY <2>1, <2>2 DEF CountsAlone
<1>2. ASSUME NEW r PROVE LeasesOn(r, Outstanding)' = LeasesOn(r, Outstanding)
  BY DEF LeasesOn, CountsAlone, Outstanding
<1>3. PresentRegs' = PresentRegs
  BY DEF PresentRegs, CountsAlone
<1>4. LeaseCountExact'
  BY <1>2, <1>3 DEF LeaseCountExact, CountsAlone, PresentRegs
<1>. QED  BY <1>1, <1>4

------------------------------------------------------------------------------
(* Operations of one critical section.                                     *)

(* Only a grant, a release and a hard revocation look at leases at all.    *)
LEMMA OperationLeases ==
    ASSUME TypeOK, Operation
    PROVE  \/ SomeLease
           \/ \E l \in LeaseIds : ReleaseLease(l)
           \/ \E r \in RegIds : HardRevoke(r)
           \/ /\ leases' = leases
              /\ next'.lease = next.lease
              /\ \A r \in RegIds : regs'[r].leases = regs[r].leases
<1>. DEFINE Untouched == /\ leases' = leases
                         /\ next'.lease = next.lease
                         /\ \A r \in RegIds : regs'[r].leases = regs[r].leases
<1>0. regs \in [RegIds -> Record] /\ next \in NextIds
  BY DEF TypeOK
<1>1. ASSUME NEW p \in DomainIds, DestroyProtectionDomain(p) PROVE Untouched
  BY <1>0, <1>1 DEF DestroyProtectionDomain, Record
<1>2. ASSUME NEW d \in Descriptors, CreateBuffer(d) PROVE Untouched
  <2>1. NextAfterCreate(d).lease = next.lease
    BY <1>0 DEF NextAfterCreate, NextIds
  <2>2. CASE ReallocateBuffer(d)
    BY <1>0, <2>1, <2>2 DEF ReallocateBuffer, Record
  <2>3. CASE CreateNewBuffer(d) \/ CreateRefused(d)
    BY <2>1, <2>3 DEF CreateNewBuffer, CreateRefused
  <2>. QED  BY <1>2, <2>2, <2>3 DEF CreateBuffer
<1>3. ASSUME NEW r \in RegIds, NEW mode \in RevocationModes, Revoke(r, mode)
      PROVE  HardRevoke(r) \/ Untouched
  <2>1. SoftRevoke(r) => Untouched
    BY <1>0 DEF SoftRevoke, Record
  <2>. QED  BY <1>3, <2>1 DEF Revoke
<1>4. ASSUME NEW r \in RegIds, RotateKey(r) PROVE Untouched
  BY <1>0, <1>4 DEF RotateKey, Record
<1>5. CreateProtectionDomain => Untouched
  BY <1>0 DEF CreateProtectionDomain, NextIds
<1>6. \/ \E s \in Snapshots : SetAuthority(s)
      \/ AdvanceEpoch
      \/ NoteParticipantRestart
      \/ AddBackend
      \/ \E d \in Descriptors, p \in DomainIds, env \in Envelopes :
             RegisterBufferReuse(d, p, env)
      \/ \E q \in Requests : ValidateRemoteAccess(q)
      => Untouched
  BY DEF SetAuthority, AdvanceEpoch, NoteParticipantRestart, AddBackend,
         RegisterBufferReuse, ValidateRemoteAccess
<1>. QED  BY <1>1, <1>2, <1>3, <1>4, <1>5, <1>6 DEF Operation, SomeLease

(* No operation touches a record that is being deregistered, or that could *)
(* not be: only a record in force takes a lease, is revoked, superseded or *)
(* torn down, and a count of no leases cannot be decremented.              *)
LEMMA OperationSpares ==
    ASSUME TypeOK, Operation, NEW r \in RegIds,
           regs[r].life \in {"DEREGISTERING", "FAILED"}, regs[r].leases = 0
    PROVE  regs'[r].life = regs[r].life /\ regs'[r].leases = 0
<1>. DEFINE Spared == regs'[r].life = regs[r].life /\ regs'[r].leases = 0
<1>0. regs \in [RegIds -> Record] /\ regs[r] \in Record
  BY DEF TypeOK
<1>1. ASSUME NEW p \in DomainIds, DestroyProtectionDomain(p) PROVE Spared
  BY <1>0, <1>1 DEF DestroyProtectionDomain, RegsOfDomain, InForce
<1>2. ASSUME NEW d \in Descriptors, CreateBuffer(d) PROVE Spared
  BY <1>0, <1>2 DEF CreateBuffer, ReallocateBuffer, RegsOfBuffer, InForce,
                    CreateNewBuffer, CreateRefused
<1>3. SomeLease => Spared
  BY <1>0 DEF SomeLease, AcquireLease, Leasable, InForce
<1>4. ASSUME NEW l \in LeaseIds, ReleaseLease(l) PROVE Spared
  <2>1. Decrement(0, 1) = 0
    BY DEF Decrement
  <2>. QED  BY <1>0, <1>4, <2>1 DEF ReleaseLease, Record
<1>5. ASSUME NEW q \in RegIds, NEW mode \in RevocationModes, Revoke(q, mode) PROVE Spared
  BY <1>0, <1>5 DEF Revoke, HardRevoke, SoftRevoke, InForce
<1>6. ASSUME NEW q \in RegIds, RotateKey(q) PROVE Spared
  BY <1>0, <1>6 DEF RotateKey, Rotatable, InForce
<1>7. \/ \E s \in Snapshots : SetAuthority(s)
      \/ AdvanceEpoch
      \/ NoteParticipantRestart
      \/ AddBackend
      \/ CreateProtectionDomain
      \/ \E d \in Descriptors, p \in DomainIds, env \in Envelopes :
             RegisterBufferReuse(d, p, env)
      \/ \E q \in Requests : ValidateRemoteAccess(q)
      => Spared
  BY DEF SetAuthority, AdvanceEpoch, NoteParticipantRestart, AddBackend,
         CreateProtectionDomain, RegisterBufferReuse, ValidateRemoteAccess
<1>. QED  BY <1>1, <1>2, <1>3, <1>4, <1>5, <1>6, <1>7 DEF Operation, SomeLease

------------------------------------------------------------------------------
(* Leases granted and returned.                                            *)

(* acquire_lease puts one new lease on the record and counts it.           *)
LEMMA GrantCounted ==
    ASSUME TypeOK, LeasesKnown, LeaseCountExact, SomeLease
    PROVE  LeasesKnown' /\ LeaseCountExact'
<1>. DEFINE n == next.lease
<1>1. PICK r \in RegIds, env \in Envelopes, m \in LeaseMasks : AcquireLease(r, env, m)
  BY DEF SomeLease
<1>2. /\ Present(r)
      /\ n \in LeaseIds /\ next'.lease = n + 1
      /\ \A l \in LeaseIds : l # n => leases'[l] = leases[l]
      /\ leases'[n].state = "ACTIVE" /\ leases'[n].reg = r
      /\ \A q \in RegIds : regs'[q].life = regs[q].life
      /\ \A q \in RegIds : q # r => regs'[q] = regs[q]
      /\ regs'[r].leases = regs[r].leases + 1
  BY <1>1 DEF AcquireLease, Leasable, InForce, Present, TypeOK, Record, NextIds
<1>3. leases[n].state = "ABSENT"
  BY <1>2 DEF LeasesKnown
<1>. HIDE DEF n
<1>4. \A q \in RegIds : Present(q)' <=> Present(q)
  BY <1>2 DEF Present
<1>5. LeasesKnown'
  <2>. SUFFICES ASSUME NEW l \in LeaseIds, leases'[l].state # "ABSENT"
                PROVE  /\ leases'[l].state \in Outstanding \cup {"RELEASED"}
                       /\ leases'[l].reg \in RegIds
                       /\ Present(leases[l].reg)'
                       /\ l < next'.lease
    BY DEF LeasesKnown
  <2>1. CASE l = n
    BY <1>2, <1>4, <2>1 DEF Outstanding, Present
  <2>2. CASE l # n
    <3>1. leases'[l] = leases[l]
      BY <1>2, <2>2
    <3>2. /\ leases[l].state \in Outstanding \cup {"RELEASED"}
          /\ leases[l].reg \in RegIds /\ Present(leases[l].reg) /\ l < next.lease
      BY <3>1 DEF LeasesKnown
    <3>3. Present(leases[l].reg)'
      BY <1>4, <3>1, <3>2 DEF Present
    <3>4. l < next'.lease
      BY <1>2, <3>2 DEF n
    <3>. QED  BY <3>1, <3>2, <3>3, <3>4
  <2>. QED  BY <2>1, <2>2
<1>6. Held(r)' = Held(r) \cup {n} /\ n \notin Held(r)
  BY <1>2, <1>3 DEF Held, LeasesOn, Outstanding
<1>7. \A q \in RegIds : q # r => Held(q)' = Held(q)
  BY <1>2, <1>3 DEF Held, LeasesOn, Outstanding
<1>8. Cardinality(Held(r)') = Cardinality(Held(r)) + 1
  BY <1>6, HeldFinite, FS_AddElement
<1>9. \A q \in PresentRegs : regs[q].leases = Cardinality(Held(q))
  BY DEF LeaseCountExact, Held
<1>10. ASSUME NEW q \in PresentRegs' PROVE regs'[q].leases = Cardinality(Held(q)')
  <2>1. q \in RegIds /\ q \in PresentRegs
    BY <1>4 DEF PresentRegs
  <2>. QED  BY <1>2, <1>7, <1>8, <1>9, <2>1
<1>11. LeaseCountExact'
  BY <1>10 DEF LeaseCountExact, Held
<1>. QED  BY <1>5, <1>11

(* release_lease takes one lease off the record and off its count, which   *)
(* is not zero, so that the decrement is not refused.                      *)
LEMMA ReturnCounted ==
    ASSUME TypeOK, LeasesKnown, LeaseCountExact, NEW n \in LeaseIds, ReleaseLease(n)
    PROVE  LeasesKnown' /\ LeaseCountExact'
<1>0. PICK r : r = leases[n].reg
  OBVIOUS
<1>1. /\ leases[n].state \in Outstanding /\ r \in RegIds /\ Present(r)
  BY <1>0 DEF ReleaseLease, LeasesKnown
<1>2. /\ next' = next
      /\ \A l \in LeaseIds : l # n => leases'[l] = leases[l]
      /\ leases'[n].state = "RELEASED" /\ leases'[n].reg = r
      /\ \A q \in RegIds : regs'[q].life = regs[q].life
      /\ \A q \in RegIds : q # r => regs'[q] = regs[q]
      /\ regs'[r].leases = Decrement(regs[r].leases, 1)
      /\ regs[r].leases \in Nat
  BY <1>0, <1>1 DEF ReleaseLease, TypeOK, Record, Lease
<1>3. n \in Held(r)
  BY <1>0, <1>1 DEF Held, LeasesOn
<1>4. \A q \in RegIds : Present(q)' <=> Present(q)
  BY <1>2 DEF Present
<1>5. LeasesKnown'
  <2>. SUFFICES ASSUME NEW l \in LeaseIds, leases'[l].state # "ABSENT"
                PROVE  /\ leases'[l].state \in Outstanding \cup {"RELEASED"}
                       /\ leases'[l].reg \in RegIds
                       /\ Present(leases[l].reg)'
                       /\ l < next'.lease
    BY DEF LeasesKnown
  <2>1. leases[l].state # "ABSENT" /\ leases'[l].reg = leases[l].reg
    BY <1>0, <1>1, <1>2 DEF Outstanding
  <2>2. /\ leases[l].state \in Outstanding \cup {"RELEASED"}
        /\ leases[l].reg \in RegIds /\ Present(leases[l].reg) /\ l < next.lease
    BY <2>1 DEF LeasesKnown
  <2>3. Present(leases[l].reg)'
    BY <1>4, <2>1, <2>2 DEF Present
  <2>. QED  BY <1>2, <2>1, <2>2, <2>3
<1>6. Held(r)' = Held(r) \ {n}
  BY <1>2 DEF Held, LeasesOn, Outstanding
<1>7. \A q \in RegIds : q # r => Held(q)' = Held(q)
  BY <1>0, <1>2 DEF Held, LeasesOn, Outstanding
<1>8. Cardinality(Held(r)') = Cardinality(Held(r)) - 1
  BY <1>3, <1>6, HeldFinite, FS_RemoveElement
<1>9. \A q \in PresentRegs : regs[q].leases = Cardinality(Held(q))
  BY DEF LeaseCountExact, Held
<1>10. Cardinality(Held(r)) \in Nat /\ Cardinality(Held(r)) # 0
  BY <1>3, HeldFinite
<1>11. regs'[r].leases = Cardinality(Held(r)')
  BY <1>1, <1>2, <1>8, <1>9, <1>10 DEF Decrement, PresentRegs
<1>12. ASSUME NEW q \in PresentRegs' PROVE regs'[q].leases = Cardinality(Held(q)')
  <2>1. q \in RegIds /\ q \in PresentRegs
    BY <1>4 DEF PresentRegs
  <2>. QED  BY <1>2, <1>7, <1>9, <1>11, <2>1
<1>13. LeaseCountExact'
  BY <1>12 DEF LeaseCountExact, Held
<1>. QED  BY <1>5, <1>13

------------------------------------------------------------------------------
(* Steps of register_buffer and deregister.                                *)

(* A record that is published is held by nobody.                           *)
LEMMA CommitCounted ==
    ASSUME Inv, LeasesKnown, LeaseCountExact, NEW t \in Threads, RegisterCommit(t)
    PROVE  LeasesKnown' /\ LeaseCountExact'
<1>0. /\ TypeOK /\ CallsInRange /\ CommitNeverOverwrites
      /\ regs \in [RegIds -> Record] /\ call \in [Threads -> Call]
  BY DEF Inv, TypeOK
<1>1. PICK n : n = call[t].reg
  OBVIOUS
<1>2. n \in RegIds /\ ~Present(n)
  BY <1>0, <1>1 DEF RegisterCommit, RegisterPoints, Registering, CallsInRange,
                    CommitNeverOverwrites
<1>3. /\ leases' = leases /\ next' = next
      /\ \A q \in RegIds : q # n => regs'[q] = regs[q]
      /\ regs'[n].life = "ACTIVE" /\ regs'[n].leases = 0
  BY <1>0, <1>1, <1>2 DEF RegisterCommit
<1>4. \A q : Held(q)' = Held(q)
  BY <1>3 DEF Held, LeasesOn
<1>5. Held(n) = {}
  BY <1>2 DEF Held, LeasesOn, LeasesKnown, Outstanding
<1>6. \A q \in RegIds : Present(q) => Present(q)'
  BY <1>3 DEF Present
<1>7. LeasesKnown'
  BY <1>3, <1>6 DEF LeasesKnown
<1>8. \A q \in PresentRegs : regs[q].leases = Cardinality(Held(q))
  BY DEF LeaseCountExact, Held
<1>9. ASSUME NEW q \in PresentRegs' PROVE regs'[q].leases = Cardinality(Held(q)')
  <2>1. q \in RegIds /\ (q # n => q \in PresentRegs)
    BY <1>3 DEF PresentRegs, Present
  <2>2. Cardinality(Held(n)) = 0
    BY <1>5, HeldFinite
  <2>. QED  BY <1>3, <1>4, <1>8, <2>1, <2>2
<1>10. LeaseCountExact'
  BY <1>9 DEF LeaseCountExact, Held
<1>. QED  BY <1>7, <1>10

(* The record that deregister erases takes its leases along, and no other  *)
(* record loses one.                                                       *)
LEMMA EraseCounted ==
    ASSUME TypeOK, LeasesKnown, LeaseCountExact, NEW t \in Threads, DeregisterFinish(t),
           Present(call[t].reg)
    PROVE  LeasesKnown' /\ LeaseCountExact'
<1>0. PICK r : r = call[t].reg
  OBVIOUS
<1>1. /\ r \in RegIds /\ next' = next
      /\ \A q \in RegIds : q # r => regs'[q] = regs[q]
      /\ ~Present(r)'
      /\ \A l \in LeaseIds : leases'[l] = IF leases[l].reg = r THEN NoLease ELSE leases[l]
  <2>1. r \in RegIds /\ next' = next /\ Erase(r)
    BY <1>0 DEF DeregisterFinish, Present
  <2>2. /\ regs' = [regs EXCEPT ![r] = NoRecord]
        /\ leases' = [l \in LeaseIds |-> IF leases[l].reg = r THEN NoLease ELSE leases[l]]
    BY <2>1 DEF Erase
  <2>. QED  BY <2>1, <2>2 DEF Present, TypeOK, NoRecord
<1>2. NoLease.state = "ABSENT"
  BY DEF NoLease
<1>3. \A l \in LeaseIds : leases'[l].state # "ABSENT" =>
          leases[l].reg # r /\ leases'[l] = leases[l]
  BY <1>1, <1>2
<1>4. \A q \in RegIds : q # r => (Present(q)' <=> Present(q))
  BY <1>1 DEF Present
<1>5. LeasesKnown'
  <2>. SUFFICES ASSUME NEW l \in LeaseIds, leases'[l].state # "ABSENT"
                PROVE  /\ leases'[l].state \in Outstanding \cup {"RELEASED"}
                       /\ leases'[l].reg \in RegIds
                       /\ Present(leases[l].reg)'
                       /\ l < next'.lease
    BY DEF LeasesKnown
  <2>1. leases[l].reg # r /\ leases'[l] = leases[l]
    BY <1>3
  <2>2. /\ leases[l].state \in Outstanding \cup {"RELEASED"}
        /\ leases[l].reg \in RegIds /\ Present(leases[l].reg) /\ l < next.lease
    BY <2>1 DEF LeasesKnown
  <2>3. Present(leases[l].reg)'
    BY <1>1, <2>1, <2>2 DEF Present
  <2>. QED  BY <1>1, <2>1, <2>2, <2>3
<1>6. \A q \in RegIds : q # r => Held(q)' = Held(q)
  BY <1>1, <1>2, <1>3 DEF Held, LeasesOn, Outstanding
<1>7. \A q \in PresentRegs : regs[q].leases = Cardinality(Held(q))
  BY DEF LeaseCountExact, Held
<1>8. ASSUME NEW q \in PresentRegs' PROVE regs'[q].leases = Cardinality(Held(q)')
  <2>1. q \in RegIds /\ q # r /\ q \in PresentRegs
    BY <1>1, <1>4 DEF PresentRegs
  <2>. QED  BY <1>1, <1>6, <1>7, <2>1
<1>9. LeaseCountExact'
  BY <1>8 DEF LeaseCountExact, Held
<1>. QED  BY <1>5, <1>9

(* Every step keeps the counts.                                            *)
LEMMA CountsStep ==
    ASSUME Inv, LeasesKnown, LeaseCountExact, [Next]_vars
    PROVE  LeasesKnown' /\ LeaseCountExact'
<1>0. /\ TypeOK /\ regs \in [RegIds -> Record] /\ call \in [Threads -> Call]
      /\ leases \in [LeaseIds -> Lease]
  BY DEF Inv, TypeOK
<1>1. ASSUME leases' = leases, next'.lease = next.lease,
             \A r \in RegIds : /\ Present(r)' <=> Present(r)
                               /\ regs'[r].leases = regs[r].leases
      PROVE  LeasesKnown' /\ LeaseCountExact'
  <2>1. CountsAlone
    BY <1>1 DEF CountsAlone
  <2>. QED  BY <2>1, CountsKept
<1>2. ASSUME UNCHANGED <<regs, leases, next>> PROVE LeasesKnown' /\ LeaseCountExact'
  BY <1>1, <1>2 DEF Present
<1>3. ASSUME NEW r \in RegIds, HardRevoke(r) PROVE LeasesKnown' /\ LeaseCountExact'
  <2>1. \A q \in RegIds : /\ Present(q)' <=> Present(q)
                          /\ regs'[q].leases = regs[q].leases
    BY <1>0, <1>3 DEF HardRevoke, InForce, Present, Revoked, Record
  <2>2. \A l \in LeaseIds :
            /\ leases'[l].reg = leases[l].reg
            /\ \/ leases'[l].state = leases[l].state
               \/ leases[l].state = "ACTIVE" /\ leases'[l].state = "REVOKED"
    BY <1>0, <1>3 DEF HardRevoke, LeasesRevoked, LeasesOn, Lease
  <2>3. next' = next
    BY <1>3 DEF HardRevoke
  <2>4. CountsAlone
    BY <2>1, <2>2, <2>3 DEF CountsAlone, Outstanding
  <2>. QED  BY <2>4, CountsKept
<1>4. CASE Operation
  <2>1. \A r \in RegIds : Present(r)' <=> Present(r)
    BY <1>0, <1>4, OperationAdvances DEF Advances, Present
  <2>. QED  BY <1>0, <1>1, <1>3, <1>4, <2>1, OperationLeases, GrantCounted, ReturnCounted
<1>5. ASSUME NEW t \in Threads, Begin(t) PROVE LeasesKnown' /\ LeaseCountExact'
  <2>1. ASSUME NEW r \in RegIds, DeregisterBegin(t, r)
        PROVE  LeasesKnown' /\ LeaseCountExact'
    <3>1. \A q \in RegIds : /\ Present(q)' <=> Present(q)
                            /\ regs'[q].leases = regs[q].leases
      BY <1>0, <2>1 DEF DeregisterBegin, Deregisterable, MayDeregister, Present, Record
    <3>. QED  BY <1>1, <2>1, <3>1 DEF DeregisterBegin
  <2>2. ASSUME NEW d \in Descriptors, NEW p \in DomainIds, NEW env \in Envelopes,
               RegisterAdmit(t, d, p, env)
        PROVE  LeasesKnown' /\ LeaseCountExact'
    <3>1. next'.lease = next.lease /\ leases' = leases /\ regs' = regs
      BY <1>0, <2>2 DEF RegisterAdmit, NextAfterAdmit, TypeOK, NextIds
    <3>. QED  BY <1>1, <3>1 DEF Present
  <2>. QED  BY <1>5, <2>1, <2>2 DEF Begin
<1>6. ASSUME NEW t \in Threads, DeregisterFail(t) PROVE LeasesKnown' /\ LeaseCountExact'
  <2>1. \A q \in RegIds : /\ Present(q)' <=> Present(q)
                          /\ regs'[q].leases = regs[q].leases
    BY <1>0, <1>6 DEF DeregisterFail, Present, Record
  <2>. QED  BY <1>1, <1>6, <2>1 DEF DeregisterFail
<1>7. ASSUME NEW t \in Threads,
             \/ BackendRefuses(t) \/ BackendNumbers(t) \/ BackendStores(t)
             \/ BackendReleases(t) \/ BackendReleaseFails(t)
             \/ DeregisterFinish(t) /\ ~Present(call[t].reg)
      PROVE  LeasesKnown' /\ LeaseCountExact'
  BY <1>2, <1>7 DEF BackendRefuses, BackendNumbers, BackendStores, BackendReleases,
                    BackendReleaseFails, DeregisterFinish
<1>8. CASE DeviceEvent \/ UNCHANGED vars
  BY <1>2, <1>8 DEF DeviceEvent, vars, registryVars
<1>. QED  BY <1>0, <1>4, <1>5, <1>6, <1>7, <1>8, CommitCounted, EraseCounted
          DEF Next, Continue

(* A call that does not enter or leave deregister, on records that keep    *)
(* waiting, keeps the teardown exclusive.                                  *)
LEMMA TeardownKept ==
    ASSUME TeardownExclusive,
           \A r \in RegIds :
               /\ regs[r].life = "DEREGISTERING"
               /\ regs[r].leases = 0
               /\ \E t \in Deregistering' : call'[t].reg = r
               => regs'[r].life = "DEREGISTERING" /\ regs'[r].leases = 0,
           \A u \in Threads : call'[u].pc \in DeregisterPoints =>
               call[u].pc \in DeregisterPoints /\ call'[u].reg = call[u].reg
    PROVE  TeardownExclusive'
<1>1. \A u \in Deregistering' : u \in Deregistering /\ call'[u].reg = call[u].reg
  BY DEF Deregistering
<1>. QED  BY <1>1 DEF TeardownExclusive

(* Every step keeps the teardown exclusive.                                *)
LEMMA TeardownStep ==
    ASSUME Inv, TeardownExclusive, [Next]_vars
    PROVE  TeardownExclusive'
<1>0. /\ TypeOK /\ regs \in [RegIds -> Record] /\ call \in [Threads -> Call]
      /\ CommitNeverOverwrites
  BY DEF Inv, TypeOK
<1>1. ASSUME UNCHANGED <<regs, call>> PROVE TeardownExclusive'
  BY <1>1, TeardownKept
<1>2. CASE Operation
  <2>1. call' = call
    BY <1>0, <1>2, OperationFrame
  <2>2. \A r \in RegIds : regs[r].life = "DEREGISTERING" /\ regs[r].leases = 0 =>
            regs'[r].life = "DEREGISTERING" /\ regs'[r].leases = 0
    BY <1>0, <1>2, OperationSpares
  <2>. QED  BY <2>1, <2>2, TeardownKept
<1>3. ASSUME NEW t \in Threads, NEW d \in Descriptors, NEW p \in DomainIds,
             NEW env \in Envelopes, RegisterAdmit(t, d, p, env)
      PROVE  TeardownExclusive'
  <2>1. /\ call'[t].pc \notin DeregisterPoints /\ regs' = regs
        /\ \A u \in Threads : u # t => call'[u] = call[u]
    BY <1>0, <1>3 DEF RegisterAdmit, DeregisterPoints
  <2>. QED  BY <2>1, TeardownKept
<1>4. ASSUME NEW t \in Threads, NEW r \in RegIds, DeregisterBegin(t, r)
      PROVE  TeardownExclusive'
  <2>1. /\ regs[r].life # "DEREGISTERING" /\ regs[r].leases = 0
        /\ regs'[r].life = "DEREGISTERING" /\ regs'[r].leases = 0
        /\ \A q \in RegIds : q # r => regs'[q] = regs[q]
        /\ call'[t].reg = r
        /\ \A u \in Threads : u # t => call'[u] = call[u]
    BY <1>0, <1>4 DEF DeregisterBegin, Deregisterable, MayDeregister, Record, NoCall
  <2>2. \A u \in Deregistering' : u # t => u \in Deregistering /\ call'[u] = call[u]
    BY <2>1 DEF Deregistering
  <2>3. \A u \in Deregistering : call[u].reg # r
    BY <2>1 DEF TeardownExclusive
  <2>. QED  BY <2>1, <2>2, <2>3 DEF TeardownExclusive
<1>5. ASSUME NEW t \in Threads,
             \/ BackendRefuses(t) \/ BackendNumbers(t) \/ BackendStores(t)
             \/ BackendReleases(t) \/ BackendReleaseFails(t)
      PROVE  TeardownExclusive'
  <2>1. regs' = regs
    BY <1>5 DEF BackendRefuses, BackendNumbers, BackendStores, BackendReleases,
                BackendReleaseFails
  <2>2. \A u \in Threads : u # t => call'[u] = call[u]
    BY <1>0, <1>5 DEF BackendRefuses, BackendNumbers, BackendStores, BackendReleases,
                      BackendReleaseFails
  <2>3. BackendRefuses(t) \/ BackendNumbers(t) \/ BackendStores(t)
            => call'[t].pc \notin DeregisterPoints
    BY <1>0 DEF BackendRefuses, BackendNumbers, BackendStores, DeregisterPoints, NoCall, Call
  <2>4. BackendReleases(t) \/ BackendReleaseFails(t)
            => call[t].pc \in DeregisterPoints /\ call'[t].reg = call[t].reg
    BY <1>0 DEF BackendReleases, BackendReleaseFails, DeregisterPoints, Call
  <2>. QED  BY <1>5, <2>1, <2>2, <2>3, <2>4, TeardownKept
<1>6. ASSUME NEW t \in Threads, RegisterCommit(t) PROVE TeardownExclusive'
  <2>1. ~Present(call[t].reg)
    BY <1>0, <1>6 DEF RegisterCommit, RegisterPoints, Registering, CommitNeverOverwrites
  <2>2. \A q \in RegIds : regs[q].life = "DEREGISTERING" => regs'[q] = regs[q]
    BY <1>0, <1>6, <2>1 DEF RegisterCommit, Present
  <2>3. /\ call'[t].pc \notin DeregisterPoints
        /\ \A u \in Threads : u # t => call'[u] = call[u]
    BY <1>0, <1>6 DEF RegisterCommit, DeregisterPoints, NoCall
  <2>. QED  BY <2>2, <2>3, TeardownKept
<1>7. ASSUME NEW t \in Threads, DeregisterFail(t) \/ DeregisterFinish(t)
      PROVE  TeardownExclusive'
  <2>1. t \in Deregistering
    BY <1>7 DEF DeregisterFail, DeregisterFinish, Deregistering, DeregisterPoints
  <2>2. /\ call'[t].pc \notin DeregisterPoints
        /\ \A u \in Threads : u # t => call'[u] = call[u]
    BY <1>0, <1>7 DEF DeregisterFail, DeregisterFinish, DeregisterPoints, NoCall
  <2>3. \A q \in RegIds : q # call[t].reg => regs'[q] = regs[q]
    BY <1>0, <1>7 DEF DeregisterFail, DeregisterFinish, Erase, Present
  <2>4. \A u \in Deregistering' : u \in Deregistering /\ u # t /\ call'[u] = call[u]
    BY <2>2 DEF Deregistering
  <2>5. \A u \in Deregistering' : call'[u].reg # call[t].reg
    BY <2>1, <2>4 DEF TeardownExclusive
  <2>. QED  BY <2>3, <2>4, <2>5 DEF TeardownExclusive
<1>8. CASE DeviceEvent \/ UNCHANGED vars
  BY <1>1, <1>8 DEF DeviceEvent, vars, registryVars
<1>. QED  BY <1>2, <1>3, <1>4, <1>5, <1>6, <1>7, <1>8 DEF Next, Begin, Continue

------------------------------------------------------------------------------
(* Theorems.                                                               *)

(* The invariant holds at the start.                                       *)
LEMMA LeaseInvInit == Init => LeaseInv
<1>. SUFFICES ASSUME Init PROVE LeaseInv
  OBVIOUS
<1>1. LeasesKnown
  BY DEF Init, LeasesKnown, NoLease
<1>2. PresentRegs = {} /\ Deregistering = {}
  BY DEF Init, PresentRegs, Present, NoRecord, Deregistering, NoCall, DeregisterPoints
<1>3. LeaseCountExact /\ TeardownExclusive
  BY <1>2 DEF LeaseCountExact, TeardownExclusive
<1>. QED  BY <1>1, <1>3, InvInit DEF LeaseInv

(* Every step keeps it.                                                    *)
LEMMA LeaseInvStep == LeaseInv /\ [Next]_vars => LeaseInv'
BY InvStep, CountsStep, TeardownStep DEF LeaseInv

(* The invariant behind both theorems below.                               *)
THEOREM LeaseInvHolds == Spec => []LeaseInv
<1>. QED  BY LeaseInvInit, LeaseInvStep, PTL DEF Spec

(* lease_count is the number of leases granted and not released, in every  *)
(* interleaving of any number of callers (registry.cpp:483, 499, 740).     *)
THEOREM CountExact == Spec => []LeaseCountExact
<1>1. LeaseInv => LeaseCountExact
  BY DEF LeaseInv
<1>. QED  BY <1>1, LeaseInvHolds, PTL

(* What LeaseEndsByRelease says of one step.                               *)
EndsByRelease ==
    \A l \in LeaseIds : leases[l].state \in Outstanding =>
        leases'[l].state \in Outstanding \cup {"RELEASED"}

(* A step from a state of the invariant takes no lease away.               *)
LEMMA EndsByReleaseStep == LeaseInv /\ [Next]_vars => EndsByRelease
<1>. SUFFICES ASSUME LeaseInv, [Next]_vars PROVE EndsByRelease
  OBVIOUS
<1>0. /\ TypeOK /\ leases \in [LeaseIds -> Lease] /\ regs \in [RegIds -> Record]
      /\ LeasesKnown /\ LeaseCountExact /\ TeardownExclusive
  BY DEF LeaseInv, Inv, TypeOK
<1>1. leases' = leases => EndsByRelease
  BY DEF EndsByRelease
<1>2. ASSUME NEW r \in RegIds, HardRevoke(r) PROVE EndsByRelease
  BY <1>0, <1>2 DEF HardRevoke, LeasesRevoked, Lease, EndsByRelease, Outstanding
<1>3. ASSUME SomeLease PROVE EndsByRelease
  <2>1. \A l \in LeaseIds : l < next.lease => leases'[l] = leases[l]
    BY <1>0, <1>3 DEF SomeLease, AcquireLease
  <2>. QED  BY <1>0, <2>1 DEF EndsByRelease, LeasesKnown, Outstanding
<1>4. ASSUME NEW l \in LeaseIds, ReleaseLease(l) PROVE EndsByRelease
  BY <1>0, <1>4 DEF ReleaseLease, Lease, EndsByRelease
<1>5. CASE Operation
  BY <1>0, <1>1, <1>2, <1>3, <1>4, <1>5, OperationLeases
<1>6. ASSUME NEW t \in Threads, DeregisterFinish(t) PROVE EndsByRelease
  <2>1. PICK r : r = call[t].reg
    OBVIOUS
  <2>2. r \in PresentRegs /\ regs[r].leases = 0
    BY <1>0, <1>6, <2>1 DEF DeregisterFinish, Deregistering, DeregisterPoints,
                            TeardownExclusive, PresentRegs, Present
  <2>3. Held(r) = {}
    BY <1>0, <2>2, HeldFinite DEF LeaseCountExact, Held
  <2>4. \A l \in LeaseIds : leases[l].state \in Outstanding => leases[l].reg # r
    BY <2>3 DEF Held, LeasesOn
  <2>. QED  BY <1>6, <2>1, <2>4 DEF DeregisterFinish, Erase, EndsByRelease
<1>7. ASSUME NEW t \in Threads,
             \/ Begin(t) \/ RegisterCommit(t) \/ DeregisterFail(t)
             \/ BackendRefuses(t) \/ BackendNumbers(t) \/ BackendStores(t)
             \/ BackendReleases(t) \/ BackendReleaseFails(t)
      PROVE  EndsByRelease
  BY <1>1, <1>7 DEF Begin, RegisterAdmit, DeregisterBegin, RegisterCommit, DeregisterFail,
                    BackendRefuses, BackendNumbers, BackendStores, BackendReleases,
                    BackendReleaseFails
<1>8. CASE DeviceEvent \/ UNCHANGED vars
  BY <1>1, <1>8 DEF DeviceEvent, vars, registryVars
<1>. QED  BY <1>5, <1>6, <1>7, <1>8 DEF Next, Continue

(* A lease ends by its release: deregister, which lets the mutex go after  *)
(* it looked at lease_count, still finds nobody on the record when it      *)
(* erases it, because DEREGISTERING keeps new holders away                 *)
(* (registry.cpp:453, 740, 789).                                           *)
THEOREM NoLeaseTakenAway == Spec => LeaseEndsByRelease
<1>1. LeaseInv /\ [Next]_vars => [EndsByRelease]_vars
  BY EndsByReleaseStep
<1>2. [][EndsByRelease]_vars => LeaseEndsByRelease
  BY PTL DEF LeaseEndsByRelease, EndsByRelease
<1>. QED  BY <1>1, <1>2, LeaseInvHolds, PTL DEF Spec

------------------------------------------------------------------------------
(* The bytes of the buffers.                                               *)

(* What the accounting of buffers needs of the tables.                     *)
BytesTyped ==
    /\ buffers \in [BufIds -> BufferEntry]
    /\ {"buffers", "live"} \subseteq DOMAIN acct

BytesCounted ==
    /\ acct.buffers = Cardinality(MadeBuffers)
    /\ acct.live = TotalLen(buffers, MadeBuffers)

LEMMA LiveBytesAreTotal == LiveBytesExact <=> BytesCounted
BY DEF LiveBytesExact, BytesCounted, TotalLen

LEMMA LiveBytesNext == LiveBytesExact' <=> BytesCounted'
BY LiveBytesAreTotal, PTL

LEMMA MadeFinite ==
    ASSUME BytesTyped
    PROVE  /\ IsFiniteSet(MadeBuffers) /\ Cardinality(MadeBuffers) \in Nat
           /\ \A b \in MadeBuffers : buffers[b].len \in Nat
           /\ TotalLen(buffers, MadeBuffers) \in Nat
<1>1. IsFiniteSet(BufIds) /\ MadeBuffers \in SUBSET BufIds
  BY FS_Interval, RegistryAssumption DEF MadeBuffers
<1>2. IsFiniteSet(MadeBuffers) /\ Cardinality(MadeBuffers) \in Nat
  BY <1>1, FS_Subset, FS_CardinalityType
<1>3. \A b \in MadeBuffers : buffers[b].len \in Nat
  BY <1>1 DEF BytesTyped, BufferEntry
<1>. QED  BY <1>2, <1>3, TotalNat

(* Most steps touch neither.                                               *)
BytesAlone ==
    /\ buffers' = buffers /\ DOMAIN acct' = DOMAIN acct
    /\ acct'.buffers = acct.buffers /\ acct'.live = acct.live

LEMMA AloneKeepsBytes ==
    ASSUME BytesTyped, LiveBytesExact, BytesAlone
    PROVE  BytesTyped' /\ LiveBytesExact'
<1>1. BytesTyped'
  BY DEF BytesTyped, BytesAlone
<1>2. MadeBuffers' = MadeBuffers
  BY DEF BytesAlone, MadeBuffers
<1>3. BytesCounted'
  BY <1>2, LiveBytesAreTotal DEF BytesAlone, BytesCounted
<1>. QED  BY <1>1, <1>3, LiveBytesNext

LEMMA InvalidationSparesBytes ==
    ASSUME BytesTyped, NEW S, NEW a \in AfterInvalidation(acct, S)
    PROVE  DOMAIN a = DOMAIN acct /\ a.buffers = acct.buffers /\ a.live = acct.live
BY DEF BytesTyped, AfterInvalidation

(* A buffer is new, or replaces the entry of its id: the gauge moves by    *)
(* the difference, in either direction, and the decrement is never refused *)
(* (registry.cpp:171-217).                                                 *)
LEMMA NewBufferCounted ==
    ASSUME BytesTyped, LiveBytesExact, NEW d, d.buf \in Nat, d.gen \in Nat, d.len \in Nat,
           CreateNewBuffer(d)
    PROVE  BytesTyped' /\ LiveBytesExact'
<1>1. PICK b : b = ChosenId(d)
  OBVIOUS
<1>2. PICK M : M = MadeBuffers
  OBVIOUS
<1>3. /\ b \in BufIds /\ b \notin M
      /\ buffers' = [buffers EXCEPT ![b] = EntryOf(d)]
      /\ acct' = [acct EXCEPT !.buffers = @ + 1, !.live = @ + d.len]
  BY <1>1, <1>2 DEF CreateNewBuffer, MadeBuffers
<1>4. BytesTyped'
  BY <1>3 DEF BytesTyped, BufferEntry, EntryOf
<1>5. MadeBuffers' = M \cup {b}
  BY <1>2, <1>3 DEF BytesTyped, MadeBuffers, EntryOf
<1>6. /\ IsFiniteSet(M) /\ Cardinality(M) \in Nat /\ TotalLen(buffers, M) \in Nat
      /\ \A x \in M : buffers[x].len \in Nat
  BY <1>2, MadeFinite
<1>7. /\ \A x \in M : buffers'[x].len = buffers[x].len
      /\ buffers'[b].len = d.len
  BY <1>2, <1>3 DEF BytesTyped, MadeBuffers, EntryOf
<1>8. TotalLen(buffers', M \cup {b}) = TotalLen(buffers', M) + d.len
  <2>1. \A x \in M \cup {b} : buffers'[x].len \in Nat
    BY <1>6, <1>7
  <2>2. TotalLen(buffers', M \cup {b}) = TotalLen(buffers', M) + buffers'[b].len
    BY <1>3, <1>6, <2>1, TotalWith
  <2>. QED  BY <1>7, <2>2
<1>9. TotalLen(buffers', M) = TotalLen(buffers, M)
  BY <1>6, <1>7, TotalAgrees
<1>10. Cardinality(M \cup {b}) = Cardinality(M) + 1
  BY <1>3, <1>6, FS_AddElement
<1>11. acct'.buffers = acct.buffers + 1 /\ acct'.live = acct.live + d.len
  BY <1>3 DEF BytesTyped
<1>12. acct.buffers = Cardinality(M) /\ acct.live = TotalLen(buffers, M)
  BY <1>2, LiveBytesAreTotal DEF BytesCounted
<1>13. BytesCounted'
  BY <1>5, <1>8, <1>9, <1>10, <1>11, <1>12 DEF BytesCounted
<1>. QED  BY <1>4, <1>13, LiveBytesNext

LEMMA ReallocationCounted ==
    ASSUME BytesTyped, LiveBytesExact, NEW d, d.buf \in Nat, d.gen \in Nat, d.len \in Nat,
           ReallocateBuffer(d)
    PROVE  BytesTyped' /\ LiveBytesExact'
<1>1. PICK b, M, N : b = ChosenId(d) /\ M = MadeBuffers /\ N = MadeBuffers \ {b}
  OBVIOUS
<1>2. PICK a \in AfterInvalidation(acct, RegsOfBuffer(b)) :
          acct' = [a EXCEPT !.live = LiveBytesAfter(d, buffers[b].len)]
  BY <1>1 DEF ReallocateBuffer
<1>3. b \in BufIds /\ b \in M /\ buffers' = [buffers EXCEPT ![b] = EntryOf(d)]
  BY <1>1 DEF ReallocateBuffer, MadeBuffers
<1>4. /\ DOMAIN acct' = DOMAIN acct /\ acct'.buffers = acct.buffers
      /\ acct'.live = LiveBytesAfter(d, buffers[b].len)
  BY <1>2, InvalidationSparesBytes DEF BytesTyped
<1>5. BytesTyped'
  BY <1>3, <1>4 DEF BytesTyped, BufferEntry, EntryOf
<1>6. MadeBuffers' = M
  BY <1>1, <1>3 DEF BytesTyped, MadeBuffers, EntryOf
<1>7. /\ IsFiniteSet(M) /\ \A x \in M : buffers[x].len \in Nat
      /\ IsFiniteSet(N) /\ TotalLen(buffers, N) \in Nat /\ M \ {b} = N /\ N \subseteq M
  <2>1. IsFiniteSet(M) /\ \A x \in M : buffers[x].len \in Nat
    BY <1>1, MadeFinite
  <2>2. N \in SUBSET M /\ M \ {b} = N
    BY <1>1
  <2>3. IsFiniteSet(N)
    BY <2>1, <2>2, FS_Subset
  <2>. QED  BY <2>1, <2>2, <2>3, TotalNat
<1>8. /\ \A x \in N : buffers'[x].len = buffers[x].len
      /\ buffers'[b].len = d.len
  BY <1>1, <1>3 DEF BytesTyped, MadeBuffers, EntryOf
<1>9. TotalLen(buffers, M) = buffers[b].len + TotalLen(buffers, N)
  <2>1. b \in M /\ M \ {b} = N /\ IsFiniteSet(M) /\ \A x \in M : buffers[x].len \in Nat
    BY <1>3, <1>7
  <2>2. TotalLen(buffers, M) = buffers[b].len + TotalLen(buffers, M \ {b})
    BY <2>1, TotalWithout
  <2>. QED  BY <2>1, <2>2
<1>10. TotalLen(buffers', M) = d.len + TotalLen(buffers, N)
  <2>1. \A x \in M : buffers'[x].len \in Nat
    BY <1>7, <1>8
  <2>2. TotalLen(buffers', M) = buffers'[b].len + TotalLen(buffers', M \ {b})
    <3>1. PICK after : after = buffers'
      OBVIOUS
    <3>2. IsFiniteSet(M) /\ b \in M /\ \A x \in M : after[x].len \in Nat
      BY <1>3, <1>7, <2>1, <3>1
    <3>3. TotalLen(after, M) = after[b].len + TotalLen(after, M \ {b})
      BY <3>2, TotalWithout
    <3>. QED  BY <3>1, <3>3
  <2>3. TotalLen(buffers', N) = TotalLen(buffers, N)
    BY <1>7, <1>8, TotalAgrees
  <2>4. M \ {b} = N /\ buffers'[b].len = d.len
    BY <1>7, <1>8
  <2>5. TotalLen(buffers', M \ {b}) = TotalLen(buffers', N)
    BY <2>4, Zenon
  <2>6. TotalLen(buffers', M) = d.len + TotalLen(buffers', N)
    BY <2>2, <2>4, <2>5
  <2>. QED  BY <2>3, <2>6
<1>11. acct.buffers = Cardinality(M) /\ acct.live = TotalLen(buffers, M)
  BY <1>1, LiveBytesAreTotal DEF BytesCounted
<1>12. acct'.live = d.len + TotalLen(buffers, N)
  <2>1. PICK old, rest : old = buffers[b].len /\ rest = TotalLen(buffers, N)
    OBVIOUS
  <2>2. old \in Nat /\ rest \in Nat /\ acct.live = old + rest
    BY <1>3, <1>7, <1>9, <1>11, <2>1
  <2>3. acct'.live = LiveBytesAfter(d, old)
    BY <1>4, <2>1
  <2>4. LiveBytesAfter(d, old) = d.len + rest
    BY <2>2 DEF LiveBytesAfter, Decrement
  <2>. QED  BY <2>1, <2>3, <2>4
<1>13. BytesCounted'
  BY <1>4, <1>6, <1>10, <1>11, <1>12 DEF BytesCounted
<1>. QED  BY <1>5, <1>13, LiveBytesNext

LEMMA BytesStep ==
    ASSUME BytesTyped, LiveBytesExact, [Next]_vars
    PROVE  BytesTyped' /\ LiveBytesExact'
<1>1. CASE UNCHANGED vars
  BY <1>1, AloneKeepsBytes DEF vars, registryVars, BytesAlone
<1>2. ASSUME NEW d \in Descriptors, CreateBuffer(d) PROVE BytesTyped' /\ LiveBytesExact'
  <2>1. d.buf \in Nat /\ d.gen \in Nat /\ d.len \in Nat
    BY RegistryAssumption DEF RegistryAssumption, Descriptor, Word
  <2>2. CreateRefused(d) => BytesAlone
    BY DEF CreateRefused, BytesAlone
  <2>. QED  BY <1>2, <2>1, <2>2, NewBufferCounted, ReallocationCounted, AloneKeepsBytes DEF CreateBuffer
<1>3. ASSUME NEW p \in DomainIds, DestroyProtectionDomain(p) PROVE BytesAlone
  <2>1. PICK a \in AfterInvalidation(acct, RegsOfDomain(p)) :
            acct' = [a EXCEPT !.domains = Decrement(@, 1)]
    BY <1>3 DEF DestroyProtectionDomain
  <2>2. DOMAIN acct' = DOMAIN acct /\ acct'.buffers = acct.buffers /\ acct'.live = acct.live
    BY <2>1, InvalidationSparesBytes DEF BytesTyped
  <2>. QED  BY <1>3, <2>2 DEF DestroyProtectionDomain, BytesAlone
<1>4. CASE Operation
  <2>1. ASSUME NEW r, NEW mode, Revoke(r, mode) PROVE BytesAlone
    BY <2>1 DEF Revoke, HardRevoke, SoftRevoke, BytesAlone, BytesTyped
  <2>2. ASSUME NEW r, NEW env, NEW m, AcquireLease(r, env, m) PROVE BytesAlone
    BY <2>2 DEF AcquireLease, BytesAlone, BytesTyped
  <2>3. ASSUME NEW l, ReleaseLease(l) PROVE BytesAlone
    BY <2>3 DEF ReleaseLease, BytesAlone, BytesTyped
  <2>4. ASSUME NEW r, RotateKey(r) PROVE BytesAlone
    BY <2>4 DEF RotateKey, BytesAlone
  <2>5. ASSUME NEW d, NEW p, NEW env, RegisterBufferReuse(d, p, env) PROVE BytesAlone
    BY <2>5 DEF RegisterBufferReuse, BytesAlone
  <2>6. ASSUME NEW q, ValidateRemoteAccess(q) PROVE BytesAlone
    BY <2>6 DEF ValidateRemoteAccess, BytesAlone
  <2>7. ASSUME NEW s, SetAuthority(s) PROVE BytesAlone
    BY <2>7 DEF SetAuthority, BytesAlone
  <2>8. AdvanceEpoch \/ NoteParticipantRestart \/ AddBackend \/ CreateProtectionDomain
           => BytesAlone
    BY DEF AdvanceEpoch, NoteParticipantRestart, AddBackend, CreateProtectionDomain,
           BytesAlone, BytesTyped
  <2>. QED
    BY <1>2, <1>3, <1>4, <2>1, <2>2, <2>3, <2>4, <2>5, <2>6, <2>7, <2>8, AloneKeepsBytes
    DEF Operation
<1>5. DeviceEvent => BytesAlone
  BY DEF DeviceEvent, registryVars, BytesAlone
<1>6. ASSUME NEW t \in Threads, Begin(t) \/ Continue(t) PROVE BytesAlone
  <2>1. CASE DeregisterFinish(t)
    <3>1. /\ DOMAIN acct' = DOMAIN acct
          /\ acct'.buffers = acct.buffers /\ acct'.live = acct.live
      BY <2>1, InvalidationSparesBytes DEF DeregisterFinish, Erase
    <3>. QED  BY <2>1, <3>1 DEF DeregisterFinish, BytesAlone
  <2>2. CASE RegisterCommit(t)
    BY <2>2 DEF RegisterCommit, AfterCommit, BytesAlone, BytesTyped
  <2>3. ASSUME NEW d, NEW p, NEW env, RegisterAdmit(t, d, p, env) PROVE BytesAlone
    BY <2>3 DEF RegisterAdmit, BytesAlone
  <2>4. ASSUME NEW r, DeregisterBegin(t, r) PROVE BytesAlone
    BY <2>4 DEF DeregisterBegin, BytesAlone
  <2>5. BackendRefuses(t) \/ BackendNumbers(t) \/ BackendStores(t) \/ BackendReleases(t)
           \/ BackendReleaseFails(t) \/ DeregisterFail(t) => BytesAlone
    BY DEF BackendRefuses, BackendNumbers, BackendStores, BackendReleases,
           BackendReleaseFails, DeregisterFail, BytesAlone
  <2>. QED  BY <1>6, <2>1, <2>2, <2>3, <2>4, <2>5 DEF Begin, Continue
<1>. QED  BY <1>1, <1>4, <1>5, <1>6, AloneKeepsBytes DEF Next

(* live_buffer_bytes is the sum of the lengths of the buffers there are,   *)
(* through every creation and reallocation, however many there are of      *)
(* either (registry.cpp:171-217).                                          *)
THEOREM BytesExact == Spec => []LiveBytesExact
<1>1. Init => BytesTyped /\ LiveBytesExact
  <2>. SUFFICES ASSUME Init PROVE BytesTyped /\ LiveBytesExact
    OBVIOUS
  <2>1. BytesTyped
    BY DEF Init, BytesTyped, BufferEntry, NoBuffer
  <2>2. MadeBuffers = {} /\ acct.buffers = 0 /\ acct.live = 0
    BY DEF Init, MadeBuffers, NoBuffer
  <2>3. TotalLen(buffers, {}) = 0
    BY TotalEmpty
  <2>4. BytesCounted
    BY <2>2, <2>3, FS_EmptySet DEF BytesCounted
  <2>. QED  BY <2>1, <2>4, LiveBytesAreTotal
<1>2. BytesTyped /\ LiveBytesExact /\ [Next]_vars => BytesTyped' /\ LiveBytesExact'
  BY BytesStep
<1>. QED  BY <1>1, <1>2, PTL DEF Spec
==============================================================================

--------------------------- MODULE SequentialProofs ---------------------------
(***************************************************************************)
(* What the registry guarantees a caller whose calls do not overlap, for   *)
(* every value of the other constants of Registry, device events included: *)
(* records, buffers, domains, slots and backend entries agree.             *)
(***************************************************************************)
EXTENDS AuthorityProofs

(* No two calls overlap: there is one caller.                              *)
OneCaller == \A t, u \in Threads : t = u

------------------------------------------------------------------------------
(* The invariant.                                                          *)

(* What register_buffer judged in its first critical section still holds   *)
(* when it comes back, and the entry it made in between is its own.        *)
Admitted(c) ==
    /\ buffers[c.desc.buf].made /\ buffers[c.desc.buf].gen = c.desc.gen
    /\ c.dom \in DomainIds /\ domains[c.dom] = "ACTIVE"
    /\ slot[c.desc.buf] = 0
    /\ c.bgen = device.backend
    /\ c.pc = "numbered" => c.handle = nextSeq /\ c.handle \in Handles
    /\ c.pc = "stored" =>
          /\ c.handle \in Handles /\ c.handle < nextSeq
          /\ entries[c.handle] = EntryFor(c.desc)
          /\ \A r \in PresentRegs : regs[r].handle # c.handle

AdmittedHolds == \A t \in Registering : Admitted(call[t])

(* A record waits in DEREGISTERING only for the call that put it there,    *)
(* and a refusal of the backend means that the entry is gone.              *)
TeardownInFlight ==
    /\ \A r \in RegIds : regs[r].life = "DEREGISTERING" =>
          \E t \in Deregistering : call[t].reg = r
    /\ \A t \in Threads : call[t].pc = "refused" => ~LiveEntry(call[t].handle)

(* The registration is of the buffer, the domain and the slot as they are. *)
Current(rec, r) ==
    /\ rec.desc.buf \in BufIds /\ slot[rec.desc.buf] = r
    /\ buffers[rec.desc.buf].made /\ buffers[rec.desc.buf].gen = rec.desc.gen
    /\ rec.dom \in DomainIds /\ domains[rec.dom] = "ACTIVE"
    /\ ~rec.keyRevoked

(* A record that still vouches for its region is current.                  *)
Vouched(r) ==
    /\ regs[r].life = "ACTIVE" => regs[r].fresh = "VALID"
    /\ regs[r].fresh = "VALID" =>
          /\ regs[r].life \in {"ACTIVE", "DEREGISTERING", "FAILED"}
          /\ regs[r].life # "FAILED" => Current(regs[r], r)

(* The entry of a record in force advertises the record's key.  A rollover *)
(* of the transport moves the entry's own key ahead of it and marks the    *)
(* entry; revalidate takes away the mark alone.                            *)
KeyBacked(rec, e) ==
    /\ e.advertised = rec.keyGen
    /\ rec.keyGen <= e.keyGen
    /\ e.revalidate => rec.keyGen < e.keyGen

(* The entry of a record: there unless the device was restarted or the     *)
(* record is being deregistered, with the bytes and rights of the record,  *)
(* and with its key while the record is in force.                          *)
Backed(rec, e) ==
    /\ rec.bgen <= device.backend
    /\ rec.bgen = device.backend /\ rec.life \notin {"DEREGISTERING", "FAILED"} => e.live
    /\ rec.life = "FAILED" => ~e.live
    /\ rec.life \in {"DEREGISTERING", "FAILED"} => rec.leases = 0
    /\ e.live => e.len = rec.desc.len /\ e.rights = rec.desc.rights
    /\ e.live /\ rec.life = "ACTIVE" => KeyBacked(rec, e)

Settled(r) ==
    /\ regs[r].desc \in Descriptors
    /\ regs[r].handle \in Handles /\ regs[r].handle < nextSeq
    /\ Vouched(r)
    /\ Backed(regs[r], entries[regs[r].handle])

RecordsSettled == HandlesDistinct /\ \A r \in PresentRegs : Settled(r)

Agreement == AdmittedHolds /\ TeardownInFlight /\ RecordsSettled

SequentialInv == AuthorityInv /\ Agreement

------------------------------------------------------------------------------
(* Operations.                                                             *)

(* When the one caller is idle no call is in flight and no record waits    *)
(* for one.                                                                *)
LEMMA IdleQuiet ==
    ASSUME OneCaller, TeardownInFlight, NEW t \in Threads, Idle(t)
    PROVE  /\ Registering = {} /\ Deregistering = {}
           /\ \A r \in RegIds : regs[r].life # "DEREGISTERING"
<1>1. \A u \in Threads : call[u].pc = "idle"
  BY DEF OneCaller, Idle
<1>2. Registering = {} /\ Deregistering = {}
  BY <1>1 DEF Registering, Deregistering, RegisterPoints, DeregisterPoints
<1>. QED  BY <1>2 DEF TeardownInFlight

(* A record that an operation leaves in force stays current: what a        *)
(* reallocation or the destruction of a domain supersedes leaves force in  *)
(* the same step, and a revocation frees the slot of its own record only.  *)
LEMMA OperationKeepsCurrent ==
    ASSUME TypeOK, Operation, InForceKeyAlive',
           \A q \in RegIds : InForce(q) => Current(regs[q], q),
           NEW r \in RegIds, InForce(r), InForce(r)'
    PROVE  Current(regs[r], r)'
<1>0. /\ regs \in [RegIds -> Record] /\ slot \in [BufIds -> RegIds \cup {0}]
      /\ buffers \in [BufIds -> BufferEntry] /\ domains \in [DomainIds -> DomainStates]
      /\ next \in NextIds
  BY DEF TypeOK
<1>1. regs'[r].desc = regs[r].desc /\ regs'[r].dom = regs[r].dom /\ ~regs'[r].keyRevoked
  <2>1. Advances(regs[r], regs'[r])
    BY OperationAdvances
  <2>. QED  BY <2>1 DEF Advances, InForceKeyAlive
<1>. DEFINE b == regs[r].desc.buf
            p == regs[r].dom
<1>2. /\ b \in BufIds /\ slot[b] = r /\ buffers[b].made /\ buffers[b].gen = regs[r].desc.gen
      /\ p \in DomainIds /\ domains[p] = "ACTIVE"
  BY DEF Current
<1>3. slot'[b] = r /\ buffers'[b] = buffers[b] /\ domains'[p] = "ACTIVE"
      => Current(regs[r], r)'
  BY <1>1, <1>2 DEF Current
<1>4. ASSUME NEW q \in DomainIds, DestroyProtectionDomain(q) PROVE Current(regs[r], r)'
  <2>1. r \notin RegsOfDomain(q)
    BY <1>0, <1>4 DEF DestroyProtectionDomain, InForce, Record
  <2>2. p # q
    BY <2>1 DEF RegsOfDomain
  <2>. QED  BY <1>0, <1>2, <1>3, <1>4, <2>2 DEF DestroyProtectionDomain
<1>5. ASSUME NEW d \in Descriptors, CreateBuffer(d) PROVE Current(regs[r], r)'
  <2>1. PICK c : c = ChosenId(d)
    OBVIOUS
  <2>2. CASE CreateNewBuffer(d)
    <3>1. c \in BufIds /\ ~buffers[c].made /\ buffers' = [buffers EXCEPT ![c] = EntryOf(d)]
      BY <2>1, <2>2 DEF CreateNewBuffer
    <3>2. slot' = slot /\ domains' = domains
      BY <2>2 DEF CreateNewBuffer
    <3>. QED  BY <1>0, <1>2, <1>3, <3>1, <3>2
  <2>3. CASE ReallocateBuffer(d)
    <3>1. /\ buffers' = [buffers EXCEPT ![c] = EntryOf(d)]
          /\ regs' = [q \in RegIds |-> IF q \in RegsOfBuffer(c)
                                       THEN [regs[q] EXCEPT !.life = "STALE", !.fresh = "STALE"]
                                       ELSE regs[q]]
      BY <2>1, <2>3 DEF ReallocateBuffer
    <3>2. slot' = slot /\ domains' = domains
      BY <2>3 DEF ReallocateBuffer
    <3>3. r \notin RegsOfBuffer(c)
      BY <1>0, <3>1 DEF InForce, Record
    <3>4. b # c
      BY <3>3 DEF RegsOfBuffer
    <3>. QED  BY <1>0, <1>2, <1>3, <3>1, <3>2, <3>4
  <2>4. CASE CreateRefused(d)
    BY <1>2, <1>3, <2>4 DEF CreateRefused
  <2>. QED  BY <1>5, <2>2, <2>3, <2>4 DEF CreateBuffer
<1>6. ASSUME NEW q \in RegIds, HardRevoke(q) PROVE Current(regs[r], r)'
  <2>1. PICK c : c = regs[q].desc.buf
    OBVIOUS
  <2>2. InForce(q) /\ slot[c] = q
    BY <1>6, <2>1 DEF HardRevoke, Current
  <2>3. q # r
    BY <1>0, <1>6 DEF HardRevoke, Revoked, InForce, Record
  <2>4. slot' = [slot EXCEPT ![c] = 0] /\ buffers' = buffers /\ domains' = domains
    BY <1>6, <2>1 DEF HardRevoke
  <2>5. b # c
    BY <1>2, <2>2, <2>3
  <2>. QED  BY <1>0, <1>2, <1>3, <2>4, <2>5
<1>7. CreateProtectionDomain => Current(regs[r], r)'
  BY <1>0, <1>2, <1>3 DEF CreateProtectionDomain
<1>8. UNCHANGED <<slot, buffers, domains>> => Current(regs[r], r)'
  BY <1>2, <1>3
<1>9. \/ \E q \in RegIds, env \in Envelopes, m \in LeaseMasks : AcquireLease(q, env, m)
      \/ \E l \in LeaseIds : ReleaseLease(l)
      \/ \E q \in RegIds : SoftRevoke(q)
      \/ \E q \in RegIds : RotateKey(q)
      => UNCHANGED <<slot, buffers, domains>>
  BY DEF AcquireLease, ReleaseLease, SoftRevoke, RotateKey
<1>10. \/ \E s \in Snapshots : SetAuthority(s)
       \/ AdvanceEpoch
       \/ NoteParticipantRestart
       \/ AddBackend
       \/ \E d \in Descriptors, q \in DomainIds, env \in Envelopes :
              RegisterBufferReuse(d, q, env)
       \/ \E q \in Requests : ValidateRemoteAccess(q)
       => UNCHANGED <<slot, buffers, domains>>
  BY DEF SetAuthority, AdvanceEpoch, NoteParticipantRestart, AddBackend,
         RegisterBufferReuse, ValidateRemoteAccess
<1>. QED  BY <1>4, <1>5, <1>6, <1>7, <1>8, <1>9, <1>10 DEF Operation, Revoke

(* What a rotation of q does to the entries: its own gets the new key.     *)
LEMMA RotationEntries ==
    ASSUME TypeOK, NEW q \in RegIds, RotateKey(q), NEW h \in Handles
    PROVE  /\ entries'[h].live = entries[h].live
           /\ entries'[h].len = entries[h].len /\ entries'[h].rights = entries[h].rights
           /\ h # regs[q].handle => entries'[h] = entries[h]
           /\ h = regs[q].handle /\ entries[h].live =>
                 /\ entries'[h].keyGen = regs[q].keyGen + 1
                 /\ entries'[h].advertised = regs[q].keyGen + 1
                 /\ ~entries'[h].revalidate
<1>1. entries \in [Handles -> Entry] /\ entries[h] \in Entry
  BY DEF TypeOK, BackendTypeOK
<1>2. PICK n : n = regs[q].handle
  OBVIOUS
<1>3. PICK k : k = regs[q].keyGen + 1
  OBVIOUS
<1>4. entries' = IF LiveEntry(n)
                 THEN [entries EXCEPT ![n].keyGen = k, ![n].advertised = k,
                                      ![n].revalidate = FALSE]
                 ELSE entries
  BY <1>2, <1>3 DEF RotateKey, BackendRotate, RotatedEntries
<1>5. CASE LiveEntry(n)
  <2>1. h # n => entries'[h] = entries[h]
    BY <1>1, <1>4, <1>5
  <2>2. h = n => entries'[h] = [entries[h] EXCEPT !.keyGen = k, !.advertised = k,
                                                  !.revalidate = FALSE]
    BY <1>1, <1>4, <1>5
  <2>. QED  BY <1>1, <1>2, <1>3, <2>1, <2>2 DEF Entry
<1>6. CASE ~LiveEntry(n)
  BY <1>2, <1>4, <1>6 DEF LiveEntry
<1>. QED  BY <1>5, <1>6

(* An operation keeps the entry of a record that no call is taking down    *)
(* what the record needs: only a rotation touches an entry, its own, and   *)
(* it moves both keys to the same generation.                              *)
LEMMA OperationKeepsBacked ==
    ASSUME TypeOK, RecordsKnown, HandlesDistinct, Operation,
           NEW r \in PresentRegs, regs[r].life # "DEREGISTERING", regs[r].handle \in Handles,
           Backed(regs[r], entries[regs[r].handle])
    PROVE  Backed(regs[r], entries[regs[r].handle])'
<1>0. /\ r \in RegIds /\ Present(r) /\ regs \in [RegIds -> Record]
      /\ InForce(r) <=> regs[r].life = "ACTIVE"
      /\ entries \in [Handles -> Entry]
  BY DEF PresentRegs, TypeOK, BackendTypeOK, RecordsKnown, InForce, LivesReached
<1>1. /\ Advances(regs[r], regs'[r]) /\ Changes(r)
      /\ device' = device
  BY <1>0, OperationAdvances, OperationChanges, OperationEntries
<1>2. PICK h \in Handles : h = regs[r].handle /\ regs'[r].handle = h
  BY <1>1 DEF Advances
<1>3. PICK e : e = entries[h]
  OBVIOUS
<1>4. PICK f : f = entries'[h]
  OBVIOUS
<1>5. \/ f = e
      \/ \E q \in RegIds : RotateKey(q)
  BY <1>3, <1>4, OperationEntries
<1>6. f.live = e.live /\ f.len = e.len /\ f.rights = e.rights
  BY <1>0, <1>2, <1>3, <1>4, <1>5, RotationEntries
<1>7. /\ regs'[r].bgen = regs[r].bgen /\ regs'[r].desc = regs[r].desc
      /\ \/ regs'[r].life = regs[r].life
         \/ regs[r].life = "ACTIVE" /\ regs'[r].life \in {"REVOKED", "REVOKING", "STALE"}
  <2>1. regs'[r].bgen = regs[r].bgen /\ regs'[r].desc = regs[r].desc
    BY <1>1 DEF Advances
  <2>2. \/ regs'[r].life = regs[r].life
        \/ regs[r].life = "ACTIVE" /\ regs'[r].life \in {"REVOKED", "REVOKING", "STALE"}
    BY <1>0, <1>1 DEF Changes
  <2>. QED  BY <2>1, <2>2
<1>8. regs'[r].life \in {"DEREGISTERING", "FAILED"} => regs'[r].leases = 0
  BY <1>0, <1>2, <1>3, <1>7, OperationSpares DEF Backed
<1>9. ASSUME f.live, regs'[r].life = "ACTIVE"
      PROVE  KeyBacked(regs'[r], f)
  <2>1. /\ regs[r].life = "ACTIVE" /\ e.live
        /\ KeyBacked(regs[r], e)
        /\ regs[r].keyGen \in Nat
    BY <1>0, <1>2, <1>3, <1>6, <1>7, <1>9 DEF Backed, Record
  <2>2. ASSUME NEW q \in RegIds, RotateKey(q)
        PROVE  KeyBacked(regs'[r], f)
    <3>1. CASE q = r
      <4>1. regs'[r].keyGen = regs[r].keyGen + 1
        BY <1>0, <2>2, <3>1 DEF RotateKey, Record
      <4>2. /\ f.keyGen = regs[r].keyGen + 1 /\ f.advertised = regs[r].keyGen + 1
            /\ ~f.revalidate
        BY <1>2, <1>3, <1>4, <2>1, <2>2, <3>1, RotationEntries
      <4>. QED  BY <2>1, <4>1, <4>2 DEF KeyBacked
    <3>2. CASE q # r
      <4>1. regs'[r] = regs[r]
        BY <1>0, <2>2, <3>2 DEF RotateKey
      <4>2. q \in PresentRegs
        BY <2>2 DEF RotateKey, Rotatable, InForce, PresentRegs, Present
      <4>3. regs[q].handle # h
        BY <1>2, <3>2, <4>2 DEF HandlesDistinct
      <4>4. f = e
        BY <1>3, <1>4, <2>2, <4>3, RotationEntries
      <4>. QED  BY <2>1, <4>1, <4>4
    <3>. QED  BY <3>1, <3>2
  <2>3. ASSUME f = e, ~\E q \in RegIds : RotateKey(q)
        PROVE  regs'[r].keyGen = regs[r].keyGen
    <3>1. SameKeys \/ \E q \in RegIds : HardRevoke(q)
      BY <2>3, OperationKeys
    <3>2. ASSUME NEW q \in RegIds, HardRevoke(q) PROVE regs'[r].keyGen = regs[r].keyGen
      <4>1. q # r
        BY <1>0, <1>9, <3>2 DEF HardRevoke, Revoked, Record
      <4>. QED  BY <1>0, <3>2, <4>1 DEF HardRevoke
    <3>. QED  BY <1>0, <3>1, <3>2 DEF SameKeys
  <2>. QED  BY <1>5, <2>1, <2>2, <2>3 DEF KeyBacked
<1>10. Backed(regs[r], entries[regs[r].handle])'
  <2>1. /\ regs[r].bgen <= device.backend
        /\ regs[r].bgen = device.backend /\ regs[r].life \notin {"DEREGISTERING", "FAILED"}
              => e.live
        /\ regs[r].life = "FAILED" => ~e.live
        /\ e.live => e.len = regs[r].desc.len /\ e.rights = regs[r].desc.rights
    BY <1>2, <1>3 DEF Backed
  <2>. QED  BY <1>1, <1>2, <1>4, <1>6, <1>7, <1>8, <1>9, <2>1 DEF Backed
<1>. QED  BY <1>10

(* Between calls nothing is admitted or torn down, and a step that starts  *)
(* no call keeps that.                                                     *)
LEMMA QuietKeepsCalls ==
    ASSUME OneCaller, TeardownInFlight, NEW t \in Threads, Idle(t), call' = call,
           \A r \in RegIds : regs'[r].life # "DEREGISTERING"
    PROVE  AdmittedHolds' /\ TeardownInFlight'
<1>1. \A u \in Threads : call[u].pc = "idle"
  BY DEF OneCaller, Idle
<1>2. Registering' = {}
  BY <1>1 DEF Registering, RegisterPoints
<1>. QED  BY <1>1, <1>2 DEF AdmittedHolds, TeardownInFlight

(* An operation of the one caller.                                         *)
LEMMA OperationSequential ==
    ASSUME OneCaller, SequentialInv, AuthorityInv', NEW t \in Threads, Idle(t), Operation
    PROVE  Agreement'
<1>0. /\ TypeOK /\ RecordsKnown /\ AdmittedHolds /\ TeardownInFlight
      /\ HandlesDistinct /\ \A r \in PresentRegs : Settled(r)
      /\ InForceKeyAlive'
  BY DEF SequentialInv, Agreement, AuthorityInv, LeaseInv, Inv, KeysSafe, RecordsSettled
<1>1. /\ \A r \in RegIds : regs[r].life # "DEREGISTERING"
      /\ call' = call /\ nextSeq' = nextSeq
      /\ \A r \in RegIds : Advances(regs[r], regs'[r]) /\ Changes(r)
  BY <1>0, IdleQuiet, OperationFrame, OperationEntries, OperationAdvances, OperationChanges
<1>2. \A r \in RegIds : regs'[r].life # "DEREGISTERING"
  BY <1>1 DEF Changes
<1>3. AdmittedHolds' /\ TeardownInFlight'
  BY <1>0, <1>1, <1>2, QuietKeepsCalls
<1>4. /\ PresentRegs' = PresentRegs
      /\ \A r \in RegIds : regs'[r].handle = regs[r].handle
  BY <1>1 DEF Advances, PresentRegs, Present
<1>5. HandlesDistinct'
  BY <1>0, <1>4 DEF HandlesDistinct, PresentRegs
<1>6. \A q \in RegIds : InForce(q) => q \in PresentRegs /\ regs[q].life = "ACTIVE"
  BY <1>0 DEF RecordsKnown, InForce, PresentRegs, Present, LivesReached
<1>7. \A q \in RegIds : InForce(q) => Current(regs[q], q)
  BY <1>0, <1>6 DEF Settled, Vouched
<1>8. ASSUME NEW r \in PresentRegs PROVE Settled(r)'
  <2>1. r \in RegIds /\ Settled(r) /\ Advances(regs[r], regs'[r]) /\ Changes(r)
    BY <1>0, <1>1 DEF PresentRegs
  <2>2. /\ regs'[r].desc \in Descriptors
        /\ regs'[r].handle \in Handles /\ regs'[r].handle < nextSeq'
    BY <1>1, <2>1 DEF Settled, Advances
  <2>3. Backed(regs[r], entries[regs[r].handle])'
    BY <1>0, <1>1, <2>1, OperationKeepsBacked DEF Settled
  <2>4. /\ regs'[r].life = "ACTIVE" => InForce(r)' /\ InForce(r) /\ regs'[r].fresh = regs[r].fresh
        /\ regs'[r].fresh = "VALID" =>
              regs[r].fresh = "VALID" /\ regs'[r].life \in {regs[r].life, "FAILED"}
    BY <1>2, <2>1 DEF Advances, InForce
  <2>5. Vouched(r)'
    <3>1. regs'[r].life = "ACTIVE" => regs'[r].fresh = "VALID"
      BY <1>6, <2>1, <2>4 DEF Settled, Vouched
    <3>2. ASSUME regs'[r].fresh = "VALID"
          PROVE  /\ regs'[r].life \in {"ACTIVE", "DEREGISTERING", "FAILED"}
                 /\ regs'[r].life # "FAILED" => Current(regs[r], r)'
      <4>1. regs'[r].life \in {"ACTIVE", "FAILED"}
        BY <1>1, <2>1, <2>4, <3>2 DEF Settled, Vouched
      <4>2. regs'[r].life = "ACTIVE" => Current(regs[r], r)'
        BY <1>0, <1>7, <2>1, <2>4, OperationKeepsCurrent
      <4>. QED  BY <4>1, <4>2
    <3>. QED  BY <3>1, <3>2 DEF Vouched
  <2>. QED  BY <2>2, <2>3, <2>5 DEF Settled
<1>. QED  BY <1>3, <1>4, <1>5, <1>8 DEF Agreement, RecordsSettled

(* Whatever happens to the device, a record follows it: a restart takes    *)
(* every entry with a generation no record has any more, and a transport   *)
(* rollover marks the entries whose key it moves on.                       *)
LEMMA DeviceKeepsBacked ==
    ASSUME TypeOK, DeviceEvent, NEW r \in RegIds, regs[r].handle \in Handles,
           Backed(regs[r], entries[regs[r].handle])
    PROVE  Backed(regs[r], entries[regs[r].handle])'
<1>1. /\ BackendEvent /\ regs' = regs
      /\ entries \in [Handles -> Entry] /\ device \in DeviceGenerations
      /\ regs[r] \in Record
  BY DEF DeviceEvent, registryVars, TypeOK, BackendTypeOK
<1>2. PICK h \in Handles : h = regs[r].handle
  OBVIOUS
<1>3. PICK rec \in Record : rec = regs[r] /\ rec = regs'[r]
  BY <1>1
<1>4. PICK e \in Entry : e = entries[h]
  BY <1>1
<1>5. /\ rec.bgen <= device.backend /\ rec.bgen \in Nat /\ device.backend \in Nat
      /\ rec.bgen = device.backend /\ rec.life \notin {"DEREGISTERING", "FAILED"} => e.live
      /\ rec.life = "FAILED" => ~e.live
      /\ rec.life \in {"DEREGISTERING", "FAILED"} => rec.leases = 0
      /\ e.live => e.len = rec.desc.len /\ e.rights = rec.desc.rights
      /\ e.live /\ rec.life = "ACTIVE" => KeyBacked(rec, e)
      /\ rec.keyGen \in Nat /\ e.keyGen \in Nat
  BY <1>1, <1>2, <1>3, <1>4 DEF Backed, Record, Entry, DeviceGenerations
<1>6. CASE RolloverTransport
  <2>1. /\ device'.backend = device.backend
        /\ entries'[h] = IF e.live THEN Rolled(e) ELSE e
    BY <1>1, <1>4, <1>6 DEF RolloverTransport, LiveEntry, DeviceGenerations
  <2>2. PICK f : f = entries'[h]
    OBVIOUS
  <2>3. /\ f.live = e.live /\ f.len = e.len /\ f.rights = e.rights
        /\ e.live => f.revalidate /\ f.keyGen = e.keyGen + 1 /\ f.advertised = e.advertised
    BY <2>1, <2>2 DEF Rolled, Entry
  <2>. QED  BY <1>2, <1>3, <1>5, <2>1, <2>2, <2>3 DEF Backed, KeyBacked
<1>7. CASE RestartBackend
  <2>1. device'.backend = device.backend + 1 /\ entries'[h] = NoEntry
    BY <1>7 DEF RestartBackend
  <2>. QED  BY <1>2, <1>3, <1>5, <2>1 DEF Backed, NoEntry
<1>8. CASE RolloverBackend
  <2>1. device'.backend = device.backend + 1 /\ entries' = entries
    BY <1>1, <1>8 DEF RolloverBackend, DeviceGenerations
  <2>. QED  BY <1>2, <1>3, <1>4, <1>5, <2>1 DEF Backed
<1>9. CASE RolloverNic \/ \E p \in Profiles : Configure(p)
  <2>1. device'.backend = device.backend /\ entries' = entries
    BY <1>1, <1>9 DEF RolloverNic, Configure, DeviceGenerations
  <2>. QED  BY <1>2, <1>3, <1>4, <1>5, <2>1 DEF Backed
<1>10. CASE \E g \in Handles : BackendRevalidate(g)
  <2>1. PICK g \in Handles : BackendRevalidate(g)
    BY <1>10
  <2>2. device' = device /\ entries' = [entries EXCEPT ![g].revalidate = FALSE]
    BY <2>1 DEF BackendRevalidate
  <2>3. PICK f : f = entries'[h]
    OBVIOUS
  <2>4. f = e \/ f = [e EXCEPT !.revalidate = FALSE]
    BY <1>1, <1>4, <2>2, <2>3
  <2>5. /\ f.live = e.live /\ f.len = e.len /\ f.rights = e.rights
        /\ f.keyGen = e.keyGen /\ f.advertised = e.advertised
        /\ f.revalidate => e.revalidate
    BY <2>4 DEF Entry
  <2>. QED  BY <1>2, <1>3, <1>5, <2>2, <2>3, <2>5 DEF Backed, KeyBacked
<1>. QED  BY <1>1, <1>6, <1>7, <1>8, <1>9, <1>10 DEF BackendEvent

(* A device event while the one caller is idle.                            *)
LEMMA DeviceSequential ==
    ASSUME OneCaller, SequentialInv, NEW t \in Threads, Idle(t), DeviceEvent
    PROVE  Agreement'
<1>0. /\ TypeOK /\ TeardownInFlight /\ HandlesDistinct /\ \A r \in PresentRegs : Settled(r)
  BY DEF SequentialInv, Agreement, AuthorityInv, LeaseInv, Inv, RecordsSettled
<1>1. UNCHANGED <<regs, slot, buffers, domains, call>> /\ nextSeq' = nextSeq
  BY DEF DeviceEvent, registryVars, BackendEvent, BackendRevalidate, RolloverBackend,
         RolloverTransport, RolloverNic, RestartBackend, NumbersAfterRestart, Configure
<1>2. AdmittedHolds' /\ TeardownInFlight'
  BY <1>0, <1>1, IdleQuiet, QuietKeepsCalls
<1>3. PresentRegs' = PresentRegs /\ HandlesDistinct'
  BY <1>0, <1>1 DEF PresentRegs, Present, HandlesDistinct
<1>4. ASSUME NEW r \in PresentRegs PROVE Settled(r)'
  <2>1. r \in RegIds /\ Settled(r)
    BY <1>0 DEF PresentRegs
  <2>2. Backed(regs[r], entries[regs[r].handle])'
    BY <1>0, <2>1, DeviceKeepsBacked DEF Settled
  <2>3. Vouched(r)'
    BY <1>1, <2>1 DEF Settled, Vouched, Current
  <2>. QED  BY <1>1, <2>1, <2>2, <2>3 DEF Settled
<1>. QED  BY <1>2, <1>3, <1>4 DEF Agreement, RecordsSettled

------------------------------------------------------------------------------
(* Calls.                                                                  *)

(* A step that leaves records, tables and device as they are, and every    *)
(* entry of a record in the table, keeps the records settled.              *)
LEMMA SettledKept ==
    ASSUME TypeOK, RecordsSettled, UNCHANGED <<regs, slot, buffers, domains, device>>,
           nextSeq \in Nat, nextSeq' \in Nat, nextSeq <= nextSeq',
           \A r \in PresentRegs : entries'[regs[r].handle] = entries[regs[r].handle]
    PROVE  RecordsSettled'
<1>1. PresentRegs' = PresentRegs /\ HandlesDistinct'
  BY DEF PresentRegs, Present, HandlesDistinct, RecordsSettled
<1>2. ASSUME NEW r \in PresentRegs PROVE Settled(r)'
  <2>1. Settled(r)
    BY DEF RecordsSettled
  <2>2. Backed(regs[r], entries[regs[r].handle])'
    BY <2>1 DEF Settled, Backed
  <2>3. Vouched(r)'
    BY <2>1 DEF Settled, Vouched, Current
  <2>4. regs[r].handle \in Nat
    BY DEF TypeOK, PresentRegs, Record
  <2>. QED  BY <2>1, <2>2, <2>3, <2>4 DEF Settled
<1>. QED  BY <1>1, <1>2 DEF RecordsSettled

(* register_buffer until it is published: with one caller the number read  *)
(* from next_seq_ is still the next one when the entry is stored.          *)
LEMMA RegisteringSequential ==
    ASSUME OneCaller, SequentialInv, NEW t \in Threads,
           \/ \E d \in Descriptors, p \in DomainIds, env \in Envelopes :
                  RegisterAdmit(t, d, p, env)
           \/ BackendRefuses(t) \/ BackendNumbers(t) \/ BackendStores(t)
    PROVE  Agreement'
<1>0. /\ TypeOK /\ CallsInRange /\ AdmittedHolds /\ TeardownInFlight /\ RecordsSettled
      /\ call \in [Threads -> Call] /\ entries \in [Handles -> Entry] /\ nextSeq \in Nat
      /\ \A u \in Threads : u = t
  BY DEF SequentialInv, Agreement, AuthorityInv, LeaseInv, Inv, TypeOK, BackendTypeOK, OneCaller
<1>1. /\ UNCHANGED <<regs, slot, buffers, domains, device>>
      /\ call[t].pc \notin DeregisterPoints
  BY DEF RegisterAdmit, BackendRefuses, BackendNumbers, BackendStores, BackendStore,
         backendVars, Idle, DeregisterPoints
<1>2. Deregistering = {} /\ \A r \in RegIds : regs[r].life # "DEREGISTERING"
  BY <1>0, <1>1 DEF Deregistering, TeardownInFlight
<1>3. call'[t].pc \notin DeregisterPoints => TeardownInFlight'
  BY <1>0, <1>1, <1>2 DEF TeardownInFlight, DeregisterPoints
<1>4. PresentRegs' = PresentRegs
  BY <1>1 DEF PresentRegs, Present
<1>5. nextSeq' = nextSeq /\ entries' = entries => RecordsSettled'
  BY <1>0, <1>1, SettledKept
<1>6. call'[t].pc \notin RegisterPoints => AdmittedHolds'
  BY <1>0 DEF AdmittedHolds, Registering
<1>7. ASSUME NEW d \in Descriptors, NEW p \in DomainIds, NEW env \in Envelopes,
             RegisterAdmit(t, d, p, env)
      PROVE  Agreement'
  <2>1. call'[t] = [pc |-> "admitted", reg |-> next.reg, desc |-> d, dom |-> p,
                    bgen |-> device.backend, boot |-> env.boot,
                    epoch |-> authority.epoch, handle |-> 0]
    BY <1>0, <1>7 DEF RegisterAdmit
  <2>2. nextSeq' = nextSeq /\ entries' = entries
    BY <1>7 DEF RegisterAdmit, backendVars
  <2>3. /\ buffers[d.buf].made /\ buffers[d.buf].gen = d.gen /\ slot[d.buf] = 0
        /\ domains[p] = "ACTIVE"
    BY <1>7 DEF RegisterAdmit, Admissible, SlotFree
  <2>4. AdmittedHolds'
    BY <1>0, <1>1, <2>1, <2>3 DEF AdmittedHolds, Admitted, Registering
  <2>. QED  BY <1>3, <1>5, <2>1, <2>2, <2>4 DEF Agreement, DeregisterPoints
<1>8. CASE BackendRefuses(t)
  <2>1. call'[t] = NoCall /\ nextSeq' = nextSeq /\ entries' = entries
    BY <1>0, <1>8 DEF BackendRefuses, backendVars
  <2>. QED  BY <1>3, <1>5, <1>6, <2>1 DEF Agreement, NoCall, RegisterPoints, DeregisterPoints
<1>9. CASE BackendNumbers(t)
  <2>1. /\ nextSeq \in Handles /\ call[t].pc = "admitted"
        /\ call'[t] = [call[t] EXCEPT !.pc = "numbered", !.handle = nextSeq]
        /\ nextSeq' = nextSeq /\ entries' = entries
    BY <1>0, <1>9 DEF BackendNumbers, backendVars
  <2>2. /\ call'[t].pc = "numbered" /\ call'[t].handle = nextSeq
        /\ call'[t].desc = call[t].desc /\ call'[t].dom = call[t].dom
        /\ call'[t].bgen = call[t].bgen /\ t \in Registering
    BY <1>0, <2>1 DEF Call, Registering, RegisterPoints
  <2>3. Admitted(call[t])
    BY <1>0, <2>2 DEF AdmittedHolds
  <2>4. Admitted(call[t])'
    BY <1>1, <2>1, <2>2, <2>3 DEF Admitted
  <2>5. AdmittedHolds'
    BY <1>0, <2>4 DEF AdmittedHolds, Registering
  <2>. QED  BY <1>3, <1>5, <2>1, <2>2, <2>5 DEF Agreement, DeregisterPoints
<1>10. CASE BackendStores(t)
  <2>1. /\ call[t].pc = "numbered" /\ t \in Registering
        /\ call'[t] = [call[t] EXCEPT !.pc = "stored"]
        /\ BackendStore(call[t].handle, call[t].desc)
    BY <1>0, <1>10 DEF BackendStores, Registering, RegisterPoints
  <2>2. Admitted(call[t]) /\ call[t].handle = nextSeq /\ nextSeq \in Handles
    BY <1>0, <2>1 DEF AdmittedHolds, Admitted
  <2>3. /\ nextSeq' = nextSeq + 1
        /\ entries' = [entries EXCEPT ![nextSeq] = EntryFor(call[t].desc)]
    BY <2>1, <2>2 DEF BackendStore
  <2>4. /\ call'[t].pc = "stored" /\ call'[t].handle = nextSeq
        /\ call'[t].desc = call[t].desc /\ call'[t].dom = call[t].dom
        /\ call'[t].bgen = call[t].bgen
    BY <1>0, <2>1, <2>2 DEF Call
  <2>5. \A r \in PresentRegs : regs[r].handle < nextSeq /\ regs[r].handle \in Handles
    BY <1>0 DEF RecordsSettled, Settled
  <2>6. \A r \in PresentRegs : regs[r].handle # nextSeq
    BY <1>0, <2>5
  <2>7. AdmittedHolds'
    <3>1. entries'[nextSeq] = EntryFor(call[t].desc) /\ nextSeq < nextSeq'
      BY <1>0, <2>2, <2>3
    <3>2. \A r \in PresentRegs' : regs'[r].handle # call'[t].handle
      BY <1>1, <1>4, <2>4, <2>6
    <3>3. Admitted(call[t])'
      BY <1>1, <2>2, <2>4, <3>1, <3>2 DEF Admitted
    <3>. QED  BY <1>0, <3>3 DEF AdmittedHolds, Registering
  <2>8. RecordsSettled'
    BY <1>0, <1>1, <2>3, <2>5, <2>6, SettledKept
  <2>. QED  BY <1>3, <2>4, <2>7, <2>8 DEF Agreement, DeregisterPoints
<1>. QED  BY <1>7, <1>8, <1>9, <1>10

(* Publishing: the new record is backed by the entry just stored, and it   *)
(* takes a slot that no record held.                                       *)
LEMMA CommitSequential ==
    ASSUME OneCaller, SequentialInv, NEW t \in Threads, RegisterCommit(t)
    PROVE  Agreement'
<1>0. /\ TypeOK /\ CallsInRange /\ CommitNeverOverwrites
      /\ AdmittedHolds /\ TeardownInFlight /\ RecordsSettled
      /\ call \in [Threads -> Call] /\ entries \in [Handles -> Entry]
      /\ regs \in [RegIds -> Record] /\ slot \in [BufIds -> RegIds \cup {0}]
      /\ device \in DeviceGenerations
      /\ \A u \in Threads : u = t
  BY DEF SequentialInv, Agreement, AuthorityInv, LeaseInv, Inv, TypeOK, BackendTypeOK, OneCaller
<1>1. PICK c \in Call : c = call[t]
  BY <1>0
<1>2. PICK n : n = c.reg
  OBVIOUS
<1>3. /\ c.pc = "stored" /\ t \in Registering
      /\ n \in RegIds /\ ~Present(n) /\ c.desc \in Descriptors /\ c.desc.buf \in BufIds
  BY <1>0, <1>1, <1>2 DEF RegisterCommit, Registering, RegisterPoints, CallsInRange,
                          CommitNeverOverwrites
<1>4. /\ buffers[c.desc.buf].made /\ buffers[c.desc.buf].gen = c.desc.gen
      /\ c.dom \in DomainIds /\ domains[c.dom] = "ACTIVE"
      /\ slot[c.desc.buf] = 0 /\ c.bgen = device.backend
      /\ c.handle \in Handles /\ c.handle < nextSeq
      /\ entries[c.handle] = EntryFor(c.desc)
      /\ \A r \in PresentRegs : regs[r].handle # c.handle
  BY <1>0, <1>1, <1>3 DEF AdmittedHolds, Admitted
<1>5. /\ regs' = [regs EXCEPT ![n] =
                     [life |-> "ACTIVE", fresh |-> "VALID", desc |-> c.desc,
                      dom |-> c.dom, bgen |-> c.bgen, handle |-> c.handle,
                      keyGen |-> 1, keyRevoked |-> FALSE, boot |-> c.boot,
                      epoch |-> c.epoch, leases |-> 0]]
      /\ slot' = [slot EXCEPT ![c.desc.buf] = n]
      /\ call' = [call EXCEPT ![t] = NoCall]
      /\ UNCHANGED <<buffers, domains, device, nextSeq, entries>>
  BY <1>1, <1>2 DEF RegisterCommit, backendVars
<1>6. PresentRegs' = PresentRegs \cup {n} /\ n \notin PresentRegs
  BY <1>0, <1>3, <1>5 DEF PresentRegs, Present
<1>7. call'[t].pc = "idle"
  BY <1>0, <1>5 DEF NoCall
<1>8. AdmittedHolds'
  BY <1>0, <1>7 DEF AdmittedHolds, Registering, RegisterPoints
<1>9. TeardownInFlight'
  <2>1. \A r \in RegIds : regs[r].life # "DEREGISTERING"
    BY <1>0, <1>1, <1>3 DEF TeardownInFlight, Deregistering, DeregisterPoints
  <2>2. \A r \in RegIds : regs'[r].life # "DEREGISTERING"
    BY <1>0, <1>5, <2>1
  <2>. QED  BY <1>0, <1>7, <2>2 DEF TeardownInFlight
<1>10. HandlesDistinct'
  <2>1. regs'[n].handle = c.handle /\ \A r \in PresentRegs : regs'[r] = regs[r]
    BY <1>0, <1>3, <1>5, <1>6 DEF PresentRegs
  <2>. QED  BY <1>0, <1>4, <1>6, <2>1 DEF HandlesDistinct, RecordsSettled
<1>11. Settled(n)'
  <2>1. /\ regs'[n].life = "ACTIVE" /\ regs'[n].fresh = "VALID" /\ regs'[n].desc = c.desc
        /\ regs'[n].dom = c.dom /\ regs'[n].bgen = c.bgen /\ regs'[n].handle = c.handle
        /\ regs'[n].keyGen = 1 /\ ~regs'[n].keyRevoked
        /\ slot'[c.desc.buf] = n
    BY <1>0, <1>3, <1>5
  <2>2. Vouched(n)'
    BY <1>3, <1>4, <1>5, <2>1 DEF Vouched, Current
  <2>3. Backed(regs[n], entries[regs[n].handle])'
    BY <1>0, <1>4, <1>5, <2>1 DEF Backed, KeyBacked, EntryFor, DeviceGenerations
  <2>. QED  BY <1>3, <1>4, <1>5, <2>1, <2>2, <2>3 DEF Settled
<1>12. ASSUME NEW r \in PresentRegs PROVE Settled(r)'
  <2>1. Settled(r) /\ r \in RegIds /\ regs'[r] = regs[r]
    BY <1>0, <1>5, <1>6 DEF RecordsSettled, PresentRegs
  <2>2. Current(regs[r], r) => Current(regs[r], r)'
    <3>0. r # 0
      BY <2>1 DEF RegIds
    <3>1. slot[regs[r].desc.buf] = r => regs[r].desc.buf # c.desc.buf
      BY <1>4, <3>0
    <3>2. regs[r].desc.buf \in BufIds /\ slot[regs[r].desc.buf] = r
          => slot'[regs[r].desc.buf] = r
      BY <1>0, <1>5, <3>1
    <3>. QED  BY <1>5, <2>1, <3>2 DEF Current
  <2>3. Vouched(r)'
    BY <2>1, <2>2 DEF Settled, Vouched
  <2>4. Backed(regs[r], entries[regs[r].handle])'
    BY <1>5, <2>1 DEF Settled, Backed
  <2>. QED  BY <1>5, <2>1, <2>3, <2>4 DEF Settled
<1>. QED  BY <1>6, <1>8, <1>9, <1>10, <1>11, <1>12 DEF Agreement, RecordsSettled

(* deregister: while the record waits for the backend nothing else moves,  *)
(* so what it vouches for stays true until its entry is gone.              *)
LEMMA TeardownBeginsSequential ==
    ASSUME OneCaller, SequentialInv, NEW t \in Threads, NEW n \in RegIds,
           DeregisterBegin(t, n)
    PROVE  Agreement'
<1>0. /\ TypeOK /\ RecordsKnown /\ TeardownInFlight /\ RecordsSettled
      /\ call \in [Threads -> Call] /\ regs \in [RegIds -> Record]
      /\ \A u \in Threads : u = t
      /\ Deregistering = {} /\ \A r \in RegIds : regs[r].life # "DEREGISTERING"
  BY IdleQuiet DEF SequentialInv, Agreement, AuthorityInv, LeaseInv, Inv, TypeOK, OneCaller,
                   DeregisterBegin
<1>1. /\ regs[n].leases = 0 /\ regs[n].life \in {"ACTIVE", "REVOKED", "STALE"}
      /\ regs' = [regs EXCEPT ![n].life = "DEREGISTERING"]
      /\ call' = [call EXCEPT ![t] = [NoCall EXCEPT !.pc = "deregistering", !.reg = n,
                                                    !.handle = regs[n].handle]]
      /\ UNCHANGED <<buffers, domains, slot, device, nextSeq, entries>>
  BY <1>0 DEF DeregisterBegin, Deregisterable, MayDeregister, RecordsKnown, Present, LivesReached,
              backendVars
<1>2. call'[t].pc = "deregistering" /\ call'[t].reg = n
  BY <1>0, <1>1 DEF NoCall
<1>3. /\ regs'[n] = [regs[n] EXCEPT !.life = "DEREGISTERING"]
      /\ \A r \in RegIds : r # n => regs'[r] = regs[r]
      /\ n \in PresentRegs
  BY <1>0, <1>1 DEF PresentRegs, Present
<1>4. /\ regs'[n].life = "DEREGISTERING" /\ regs'[n].fresh = regs[n].fresh
      /\ regs'[n].desc = regs[n].desc /\ regs'[n].dom = regs[n].dom
      /\ regs'[n].bgen = regs[n].bgen /\ regs'[n].handle = regs[n].handle
      /\ regs'[n].keyRevoked = regs[n].keyRevoked /\ regs'[n].leases = 0
  BY <1>0, <1>1, <1>3 DEF Record
<1>5. AdmittedHolds'
  BY <1>0, <1>2 DEF AdmittedHolds, Registering, RegisterPoints
<1>6. TeardownInFlight'
  <2>1. t \in Deregistering'
    BY <1>2 DEF Deregistering, DeregisterPoints
  <2>. QED  BY <1>0, <1>2, <1>3, <2>1 DEF TeardownInFlight
<1>7. PresentRegs' = PresentRegs
  BY <1>3, <1>4 DEF PresentRegs, Present
<1>8. HandlesDistinct'
  <2>1. \A r \in RegIds : regs'[r].handle = regs[r].handle
    BY <1>3, <1>4
  <2>2. HandlesDistinct /\ PresentRegs \subseteq RegIds
    BY <1>0 DEF RecordsSettled, PresentRegs
  <2>. QED  BY ONLY <1>7, <2>1, <2>2 DEF HandlesDistinct
<1>9. ASSUME NEW r \in PresentRegs, r # n PROVE Settled(r)'
  <2>1. Settled(r) /\ regs'[r] = regs[r]
    BY <1>0, <1>3, <1>9 DEF RecordsSettled, PresentRegs
  <2>. QED  BY <1>1, <2>1 DEF Settled, Vouched, Current, Backed
<1>10. Settled(n)'
  <2>1. Settled(n)
    BY <1>0, <1>3 DEF RecordsSettled
  <2>2. Vouched(n)'
    BY <1>1, <1>4, <2>1 DEF Settled, Vouched, Current
  <2>3. Backed(regs[n], entries[regs[n].handle])'
    BY <1>1, <1>4, <2>1 DEF Settled, Backed
  <2>. QED  BY <1>1, <1>4, <2>1, <2>2, <2>3 DEF Settled
<1>. QED  BY <1>5, <1>6, <1>7, <1>8, <1>9, <1>10 DEF Agreement, RecordsSettled

(* The backend drops the entry, or says that there is none.                *)
LEMMA BackendSequential ==
    ASSUME OneCaller, SequentialInv, NEW t \in Threads,
           BackendReleases(t) \/ BackendReleaseFails(t)
    PROVE  Agreement'
<1>0. /\ TypeOK /\ TeardownExclusive /\ HandlesFollowed /\ NothingUnattached
      /\ TeardownInFlight /\ RecordsSettled
      /\ call \in [Threads -> Call] /\ entries \in [Handles -> Entry] /\ nextSeq \in Nat
      /\ \A u \in Threads : u = t
  BY DEF SequentialInv, Agreement, AuthorityInv, LeaseInv, Inv, EntriesOwned, TypeOK,
         BackendTypeOK, OneCaller
<1>1. PICK n : n = call[t].reg
  OBVIOUS
<1>2. /\ call[t].pc = "deregistering" /\ t \in Deregistering
      /\ UNCHANGED <<regs, slot, buffers, domains, device, nextSeq>>
  BY DEF BackendReleases, BackendReleaseFails, BackendDrop, backendVars, Deregistering,
         DeregisterPoints
<1>3. /\ n \in RegIds /\ regs[n].life = "DEREGISTERING" /\ call[t].handle = regs[n].handle
      /\ n \in PresentRegs
  BY <1>0, <1>1, <1>2 DEF TeardownExclusive, HandlesFollowed, PresentRegs, Present
<1>4. /\ call'[t].pc \in {"released", "refused"} /\ call'[t].reg = n
      /\ call'[t].handle = call[t].handle
      /\ call'[t].pc = "refused" => ~LiveEntry(call[t].handle) /\ entries' = entries
  <2>1. CASE BackendReleases(t)
    BY <1>0, <1>1, <2>1 DEF BackendReleases, Call
  <2>2. CASE BackendReleaseFails(t)
    BY <1>0, <1>1, <2>2 DEF BackendReleaseFails, backendVars, Call
  <2>. QED  BY <2>1, <2>2
<1>5. AdmittedHolds'
  BY <1>0, <1>4 DEF AdmittedHolds, Registering, RegisterPoints
<1>6. TeardownInFlight'
  <2>1. t \in Deregistering' /\ \A r \in RegIds : regs[r].life = "DEREGISTERING" => r = n
    BY <1>0, <1>1, <1>4 DEF TeardownInFlight, Deregistering, DeregisterPoints
  <2>2. call'[t].pc = "refused" => ~LiveEntry(call[t].handle)'
    BY <1>4 DEF LiveEntry
  <2>. QED  BY <1>0, <1>2, <1>4, <2>1, <2>2 DEF TeardownInFlight
<1>7. PresentRegs' = PresentRegs /\ HandlesDistinct'
  BY <1>0, <1>2 DEF PresentRegs, Present, HandlesDistinct, RecordsSettled
<1>8. PICK h : h = regs[n].handle
  OBVIOUS
<1>9. /\ h \in Handles
      /\ entries' = entries \/ entries' = [entries EXCEPT ![h] = NoEntry]
  <2>1. h \in Handles
    BY <1>0, <1>3, <1>8 DEF RecordsSettled, Settled
  <2>. QED  BY <1>3, <1>8, <2>1 DEF BackendReleases, BackendReleaseFails, BackendDrop, backendVars
<1>10. ASSUME NEW r \in PresentRegs PROVE Settled(r)'
  <2>1. Settled(r) /\ r \in RegIds
    BY <1>0 DEF RecordsSettled, PresentRegs
  <2>2. Vouched(r)'
    BY <1>2, <2>1 DEF Settled, Vouched, Current
  <2>3. Backed(regs[r], entries[regs[r].handle])'
    <3>1. CASE entries'[regs[r].handle] = entries[regs[r].handle]
      BY <1>2, <2>1, <3>1 DEF Settled, Backed
    <3>2. CASE entries'[regs[r].handle] # entries[regs[r].handle]
      <4>1. regs[r].handle = h /\ entries'[h] = NoEntry
        BY <1>0, <1>9, <2>1, <3>2 DEF Settled
      <4>2. r = n
        BY <1>0, <1>3, <1>8, <4>1 DEF RecordsSettled, HandlesDistinct
      <4>. QED  BY <1>2, <1>3, <2>1, <4>1, <4>2 DEF Settled, Backed, NoEntry
    <3>. QED  BY <3>1, <3>2
  <2>. QED  BY <1>2, <2>1, <2>2, <2>3 DEF Settled
<1>. QED  BY <1>5, <1>6, <1>7, <1>10 DEF Agreement, RecordsSettled

(* The second critical section of deregister: the record is FAILED with    *)
(* no entry left, or gone from every table.                                *)
LEMMA TeardownEndsSequential ==
    ASSUME OneCaller, SequentialInv, NEW t \in Threads,
           DeregisterFail(t) \/ DeregisterFinish(t)
    PROVE  Agreement'
<1>0. /\ TypeOK /\ TeardownExclusive /\ HandlesFollowed /\ TeardownInFlight /\ RecordsSettled
      /\ call \in [Threads -> Call] /\ entries \in [Handles -> Entry]
      /\ regs \in [RegIds -> Record] /\ slot \in [BufIds -> RegIds \cup {0}]
      /\ \A u \in Threads : u = t
  BY DEF SequentialInv, Agreement, AuthorityInv, LeaseInv, Inv, EntriesOwned, TypeOK,
         BackendTypeOK, OneCaller
<1>1. PICK n : n = call[t].reg
  OBVIOUS
<1>2. /\ t \in Deregistering /\ call[t].pc \in {"released", "refused"}
      /\ UNCHANGED <<buffers, domains, device, nextSeq, entries>>
      /\ call' = [call EXCEPT ![t] = NoCall]
  BY DEF DeregisterFail, DeregisterFinish, Erase, backendVars, Deregistering, DeregisterPoints
<1>3. /\ n \in RegIds /\ regs[n].life = "DEREGISTERING" /\ regs[n].leases = 0
      /\ call[t].handle = regs[n].handle /\ n \in PresentRegs
  BY <1>0, <1>1, <1>2 DEF TeardownExclusive, HandlesFollowed, PresentRegs, Present
<1>4. call'[t].pc = "idle"
  BY <1>0, <1>2 DEF NoCall
<1>5. \A r \in RegIds : regs[r].life = "DEREGISTERING" => r = n
  BY <1>0, <1>1 DEF TeardownInFlight, Deregistering
<1>6. \A r \in RegIds : r # n => regs'[r] = regs[r]
  BY <1>0, <1>1 DEF DeregisterFail, DeregisterFinish, Erase
<1>7. DeregisterFail(t) => /\ regs'[n] = [regs[n] EXCEPT !.life = "FAILED"]
                           /\ ~entries[regs[n].handle].live /\ slot' = slot
  <2>1. DeregisterFail(t) => regs'[n] = [regs[n] EXCEPT !.life = "FAILED"] /\ slot' = slot
    BY <1>0, <1>1, <1>3 DEF DeregisterFail, PresentRegs
  <2>2. DeregisterFail(t) => ~LiveEntry(regs[n].handle)
    BY <1>0, <1>3 DEF DeregisterFail, TeardownInFlight
  <2>3. regs[n].handle \in Handles
    BY <1>0, <1>3 DEF RecordsSettled, Settled
  <2>. QED  BY <2>1, <2>2, <2>3 DEF LiveEntry
<1>8. DeregisterFinish(t) => regs'[n] = NoRecord /\ slot' = SlotsWithout(n)
  <2>1. Present(n)
    BY <1>3 DEF PresentRegs
  <2>. QED  BY <1>0, <1>1, <1>3, <2>1 DEF DeregisterFinish, Erase
<1>9. AdmittedHolds'
  BY <1>0, <1>4 DEF AdmittedHolds, Registering, RegisterPoints
<1>10. regs'[n].life # "DEREGISTERING"
  BY <1>0, <1>3, <1>7, <1>8 DEF NoRecord, Record
<1>11. TeardownInFlight'
  BY <1>0, <1>4, <1>5, <1>6, <1>10 DEF TeardownInFlight
<1>12. /\ PresentRegs' \subseteq PresentRegs
       /\ \A r \in PresentRegs' : regs'[r].handle = regs[r].handle
       /\ DeregisterFinish(t) => n \notin PresentRegs'
  <2>1. DeregisterFail(t) => regs'[n].handle = regs[n].handle
    BY <1>0, <1>3, <1>7 DEF Record
  <2>2. DeregisterFinish(t) => n \notin PresentRegs'
    BY <1>8 DEF PresentRegs, Present, NoRecord
  <2>. QED  BY <1>3, <1>6, <2>1, <2>2 DEF PresentRegs, Present
<1>13. HandlesDistinct'
  BY <1>0, <1>12 DEF RecordsSettled, HandlesDistinct
<1>14. ASSUME NEW r \in PresentRegs', r # n PROVE Settled(r)'
  <2>1. Settled(r) /\ regs'[r] = regs[r] /\ r \in RegIds
    BY <1>0, <1>6, <1>12, <1>14 DEF RecordsSettled, PresentRegs
  <2>2. Current(regs[r], r) => Current(regs[r], r)'
    <3>1. \A b \in BufIds : slot[b] = r => slot'[b] = r
      BY <1>7, <1>8, <1>14 DEF SlotsWithout
    <3>. QED  BY <1>2, <2>1, <3>1 DEF Current
  <2>. QED  BY <1>2, <2>1, <2>2 DEF Settled, Vouched, Backed
<1>15. ASSUME n \in PresentRegs' PROVE Settled(n)'
  <2>1. DeregisterFail(t) /\ Settled(n)
    BY <1>0, <1>3, <1>12, <1>15 DEF RecordsSettled
  <2>2. /\ regs'[n].life = "FAILED" /\ regs'[n].desc = regs[n].desc
        /\ regs'[n].bgen = regs[n].bgen /\ regs'[n].handle = regs[n].handle
        /\ regs'[n].leases = 0
    BY <1>0, <1>3, <1>7, <2>1 DEF Record
  <2>3. Vouched(n)'
    BY <2>2 DEF Vouched
  <2>4. Backed(regs[n], entries[regs[n].handle])'
    BY <1>2, <1>7, <2>1, <2>2 DEF Settled, Backed
  <2>. QED  BY <1>2, <2>1, <2>2, <2>3, <2>4 DEF Settled
<1>. QED  BY <1>9, <1>11, <1>13, <1>14, <1>15 DEF Agreement, RecordsSettled

------------------------------------------------------------------------------
(* The invariant holds.                                                    *)

(* The invariant holds at the start: nothing is registered.                *)
LEMMA SequentialInvInit == Init => SequentialInv
<1>. SUFFICES ASSUME Init PROVE SequentialInv
  OBVIOUS
<1>1. \A r \in RegIds : ~Present(r) /\ regs[r].life = "UNREGISTERED"
  BY DEF Init, Present, NoRecord
<1>2. PresentRegs = {}
  BY <1>1 DEF PresentRegs
<1>3. \A t \in Threads : call[t].pc = "idle"
  BY DEF Init, NoCall
<1>4. AdmittedHolds /\ TeardownInFlight
  BY <1>1, <1>3 DEF AdmittedHolds, Registering, RegisterPoints, TeardownInFlight
<1>5. RecordsSettled
  BY <1>2 DEF RecordsSettled, HandlesDistinct
<1>. QED  BY <1>4, <1>5, AuthorityInvInit DEF SequentialInv, Agreement

(* Every step of the one caller, and every device event, keeps it.         *)
LEMMA SequentialInvStep ==
    ASSUME OneCaller, SequentialInv, [Next]_vars
    PROVE  SequentialInv'
<1>1. AuthorityInv'
  BY AuthorityInvStep DEF SequentialInv
<1>2. CASE UNCHANGED vars
  <2>1. UNCHANGED <<regs, slot, buffers, domains, device, nextSeq, entries, call>>
    BY <1>2 DEF vars, registryVars, backendVars
  <2>2. AdmittedHolds'
    BY <2>1 DEF SequentialInv, Agreement, AdmittedHolds, Admitted, Registering, PresentRegs,
                Present
  <2>3. TeardownInFlight'
    BY <2>1 DEF SequentialInv, Agreement, TeardownInFlight, Deregistering, LiveEntry
  <2>4. RecordsSettled'
    <3>1. nextSeq \in Nat /\ TypeOK /\ RecordsSettled
      BY DEF SequentialInv, Agreement, AuthorityInv, LeaseInv, Inv, TypeOK, BackendTypeOK
    <3>. QED  BY <2>1, <3>1, SettledKept
  <2>. QED  BY <1>1, <2>2, <2>3, <2>4 DEF SequentialInv, Agreement
<1>3. ASSUME NEW t \in Threads, Idle(t), Operation \/ DeviceEvent PROVE SequentialInv'
  BY <1>1, <1>3, OperationSequential, DeviceSequential DEF SequentialInv
<1>4. ASSUME NEW t \in Threads, Begin(t) PROVE SequentialInv'
  BY <1>1, <1>4, RegisteringSequential, TeardownBeginsSequential DEF Begin, SequentialInv
<1>5. ASSUME NEW t \in Threads, Continue(t) PROVE SequentialInv'
  BY <1>1, <1>5, RegisteringSequential, CommitSequential, BackendSequential,
     TeardownEndsSequential DEF Continue, SequentialInv
<1>. QED  BY <1>2, <1>3, <1>4, <1>5 DEF Next

(* The invariant behind the theorems below.                                *)
THEOREM SequentialInvHolds ==
    ASSUME OneCaller
    PROVE  Spec => []SequentialInv
<1>1. SequentialInv /\ [Next]_vars => SequentialInv'
  BY SequentialInvStep
<1>. QED  BY SequentialInvInit, <1>1, PTL DEF Spec

(* What the invariant says of a record, unfolded once for all of them.     *)
LEMMA WhatIsSettled ==
    ASSUME SequentialInv, NEW r \in RegIds, Present(r)
    PROVE  /\ regs[r].desc \in Descriptors
           /\ regs[r].handle \in Handles
           /\ InForce(r) => regs[r].life = "ACTIVE" /\ regs[r].fresh = "VALID"
           /\ regs[r].fresh = "VALID" /\ regs[r].life # "FAILED" => Current(regs[r], r)
           /\ Backed(regs[r], entries[regs[r].handle])
BY DEF SequentialInv, Agreement, AuthorityInv, RecordsKnown, RecordsSettled, Settled, Vouched,
       PresentRegs, InForce, LivesReached

(* A caller whose calls do not overlap has at most one registration of a   *)
(* buffer in force, the one in the slot (registry.cpp:259-265, 352).       *)
THEOREM OneRegistrationPerBuffer ==
    ASSUME OneCaller
    PROVE  Spec => []SingleFlight
<1>1. SequentialInv => SingleFlight
  BY WhatIsSettled DEF SingleFlight, InForce, Present, Current
<1>. QED  BY <1>1, SequentialInvHolds, PTL

(* Reallocation and the destruction of a domain reach every registration   *)
(* they supersede (registry.cpp:132-151, 158-184).                         *)
THEOREM SupersededLeaveForce ==
    ASSUME OneCaller
    PROVE  Spec => []InForceIsCurrent
<1>1. SequentialInv => InForceIsCurrent
  BY WhatIsSettled DEF InForceIsCurrent, InForce, Present, Current
<1>. QED  BY <1>1, SequentialInvHolds, PTL

(* Two records never share a handle, device restarts included              *)
(* (synthetic_backend.cpp:126-127, 287-308).                               *)
THEOREM HandlesNeverShared ==
    ASSUME OneCaller
    PROVE  Spec => []HandlesDistinct
<1>1. SequentialInv => HandlesDistinct
  BY DEF SequentialInv, Agreement, RecordsSettled
<1>. QED  BY <1>1, SequentialInvHolds, PTL

(* What the backend advertises is the key of the registration after any    *)
(* sequence of rotations, revocations, rollovers and revalidations, and    *)
(* its own is never behind it (registry.cpp:701-725, synthetic_backend.cpp *)
(* :244-269, 285-297).                                                     *)
THEOREM KeysStayInStep ==
    ASSUME OneCaller
    PROVE  Spec => []KeysAgree
<1>1. SequentialInv => KeysAgree
  BY WhatIsSettled DEF KeysAgree, InForce, Present, Backed, KeyBacked, LiveEntry
<1>. QED  BY <1>1, SequentialInvHolds, PTL

(* What KeysPartAtRollover says of one step and one registration.          *)
KeysTogether(r) ==
    SameKey(r) # SameKey(r)' =>
        IF SameKey(r)
        THEN device'.transport > device.transport
        ELSE regs'[r].keyGen > regs[r].keyGen

(* The keys of a registration that stays in force, in the operations: its  *)
(* own rotation brings them together, and nothing else moves either.       *)
LEMMA OperationKeepsKeys ==
    ASSUME SequentialInv, Operation, NEW r \in RegIds,
           KeptWithEntry(r), KeptWithEntry(r)'
    PROVE  KeysTogether(r)
<1>0. /\ TypeOK /\ HandlesDistinct /\ Present(r) /\ r \in PresentRegs
      /\ regs \in [RegIds -> Record] /\ regs[r] \in Record
      /\ regs[r].handle \in Handles /\ entries[regs[r].handle].live
  BY DEF SequentialInv, Agreement, AuthorityInv, LeaseInv, Inv, TypeOK, RecordsSettled,
         KeptWithEntry, InForce, Present, PresentRegs, LiveEntry
<1>1. regs'[r].handle = regs[r].handle
  BY <1>0, OperationAdvances DEF Advances
<1>2. ASSUME regs'[r].keyGen = regs[r].keyGen,
             entries'[regs[r].handle] = entries[regs[r].handle]
      PROVE  KeysTogether(r)
  BY <1>1, <1>2 DEF KeysTogether, SameKey
<1>3. ASSUME NEW q \in RegIds, RotateKey(q) PROVE KeysTogether(r)
  <2>1. CASE q = r
    <3>1. regs'[r].keyGen = regs[r].keyGen + 1 /\ regs[r].keyGen \in Nat
      BY <1>0, <1>3, <2>1 DEF RotateKey, Record
    <3>2. entries'[regs[r].handle].keyGen = regs[r].keyGen + 1
      BY <1>0, <1>3, <2>1, RotationEntries
    <3>3. SameKey(r)' /\ regs'[r].keyGen > regs[r].keyGen
      BY <1>1, <3>1, <3>2 DEF SameKey
    <3>. QED  BY <3>3 DEF KeysTogether
  <2>2. CASE q # r
    <3>1. regs'[r] = regs[r]
      BY <1>0, <1>3, <2>2 DEF RotateKey
    <3>2. q \in PresentRegs
      BY <1>3 DEF RotateKey, Rotatable, InForce, PresentRegs, Present
    <3>3. regs[q].handle # regs[r].handle
      BY <1>0, <2>2, <3>2 DEF HandlesDistinct
    <3>. QED  BY <1>0, <1>2, <1>3, <3>1, <3>3, RotationEntries
  <2>. QED  BY <2>1, <2>2
<1>4. ASSUME ~\E q \in RegIds : RotateKey(q) PROVE KeysTogether(r)
  <2>1. entries' = entries
    BY <1>0, <1>4, OperationEntries
  <2>2. SameKeys \/ \E q \in RegIds : HardRevoke(q)
    BY <1>0, <1>4, OperationKeys
  <2>3. ASSUME NEW q \in RegIds, HardRevoke(q) PROVE regs'[r].keyGen = regs[r].keyGen
    <3>1. q # r
      BY <1>0, <2>3 DEF HardRevoke, Revoked, Record, KeptWithEntry, InForce
    <3>. QED  BY <1>0, <2>3, <3>1 DEF HardRevoke
  <2>. QED  BY <1>2, <2>1, <2>2, <2>3 DEF SameKeys
<1>. QED  BY <1>3, <1>4

(* In the device events: only a transport rollover moves a key.            *)
LEMMA DeviceKeepsKeys ==
    ASSUME SequentialInv, DeviceEvent, NEW r \in RegIds,
           KeptWithEntry(r), KeptWithEntry(r)'
    PROVE  KeysTogether(r)
<1>1. /\ BackendEvent /\ regs' = regs
      /\ entries \in [Handles -> Entry] /\ device \in DeviceGenerations
      /\ regs[r] \in Record
  BY DEF DeviceEvent, registryVars, SequentialInv, AuthorityInv, LeaseInv, Inv, TypeOK,
         BackendTypeOK
<1>2. PICK h \in Handles : h = regs[r].handle
  BY DEF KeptWithEntry, LiveEntry
<1>3. PICK e \in Entry : e = entries[h]
  BY <1>1
<1>4. e.live /\ KeyBacked(regs[r], e) /\ regs[r].keyGen \in Nat /\ e.keyGen \in Nat
  BY <1>1, <1>2, <1>3, WhatIsSettled
     DEF KeptWithEntry, InForce, Present, LiveEntry, Backed, Record, Entry
<1>5. entries'[h].keyGen = e.keyGen => KeysTogether(r)
  BY <1>1, <1>2, <1>3 DEF KeysTogether, SameKey
<1>6. CASE RolloverTransport
  <2>1. device'.transport = device.transport + 1 /\ entries'[h] = Rolled(e)
    BY <1>1, <1>3, <1>4, <1>6 DEF RolloverTransport, LiveEntry, DeviceGenerations
  <2>2. entries'[h].keyGen = e.keyGen + 1 /\ device'.transport > device.transport
    BY <1>1, <2>1 DEF Rolled, Entry, DeviceGenerations
  <2>3. ~SameKey(r)'
    BY <1>1, <1>2, <1>4, <2>2 DEF SameKey, KeyBacked
  <2>4. CASE SameKey(r)
    BY <2>2, <2>4 DEF KeysTogether
  <2>5. CASE ~SameKey(r)
    BY <2>3, <2>5 DEF KeysTogether, SameKey
  <2>. QED  BY <2>4, <2>5
<1>7. CASE RestartBackend
  BY <1>1, <1>2, <1>7 DEF RestartBackend, NoEntry, KeptWithEntry, LiveEntry
<1>8. ASSUME NEW g \in Handles, BackendRevalidate(g) PROVE KeysTogether(r)
  <2>1. entries'[h] = e \/ entries'[h] = [e EXCEPT !.revalidate = FALSE]
    BY <1>1, <1>3, <1>8 DEF BackendRevalidate
  <2>. QED  BY <1>5, <2>1 DEF Entry
<1>9. CASE RolloverBackend \/ RolloverNic \/ \E p \in Profiles : Configure(p)
  <2>1. entries' = entries
    BY <1>9 DEF RolloverBackend, RolloverNic, Configure
  <2>. QED  BY <1>3, <1>5, <2>1
<1>. QED  BY <1>1, <1>6, <1>7, <1>8, <1>9 DEF BackendEvent

(* In the steps of a call: its record is not in force before and after,    *)
(* and the one entry it stores or drops is not that of another.            *)
LEMMA CallKeepsKeys ==
    ASSUME OneCaller, SequentialInv, NEW t \in Threads, Begin(t) \/ Continue(t),
           NEW r \in RegIds, KeptWithEntry(r), KeptWithEntry(r)'
    PROVE  KeysTogether(r)
<1>0. /\ AdmittedHolds /\ CallsInRange /\ CommitNeverOverwrites
      /\ regs \in [RegIds -> Record] /\ entries \in [Handles -> Entry]
      /\ regs[r].handle \in Handles /\ regs[r].handle < nextSeq
      /\ nextSeq \in Nat /\ Present(r) /\ InForce(r) /\ InForce(r)'
  BY DEF SequentialInv, Agreement, AuthorityInv, LeaseInv, Inv, TypeOK, BackendTypeOK,
         RecordsSettled, Settled, KeptWithEntry, InForce, Present, PresentRegs
<1>1. ASSUME regs'[r] = regs[r], entries'[regs[r].handle] = entries[regs[r].handle]
      PROVE  KeysTogether(r)
  BY <1>1 DEF KeysTogether, SameKey
<1>2. \/ \E d \in Descriptors, p \in DomainIds, env \in Envelopes :
             RegisterAdmit(t, d, p, env)
      \/ BackendRefuses(t) \/ BackendNumbers(t) \/ BackendReleaseFails(t)
      => KeysTogether(r)
  BY <1>1 DEF RegisterAdmit, BackendRefuses, BackendNumbers, BackendReleaseFails, backendVars
<1>3. ASSUME NEW n \in RegIds, DeregisterBegin(t, n) PROVE KeysTogether(r)
  <2>1. entries' = entries /\ regs' = [regs EXCEPT ![n].life = "DEREGISTERING"]
    BY <1>3 DEF DeregisterBegin, backendVars
  <2>2. n # r
    BY <1>0, <2>1 DEF InForce, Record
  <2>. QED  BY <1>0, <1>1, <2>1, <2>2
<1>4. CASE BackendStores(t)
  <2>1. t \in Registering /\ call[t].pc = "numbered" /\ regs' = regs
        /\ BackendStore(call[t].handle, call[t].desc)
    BY <1>4 DEF BackendStores, Registering, RegisterPoints
  <2>2. call[t].handle = nextSeq
    BY <1>0, <2>1 DEF AdmittedHolds, Admitted
  <2>3. entries' = [entries EXCEPT ![nextSeq] = EntryFor(call[t].desc)]
    BY <2>1, <2>2 DEF BackendStore
  <2>4. entries'[regs[r].handle] = entries[regs[r].handle]
    BY <1>0, <2>3
  <2>. QED  BY <1>1, <2>1, <2>4
<1>5. CASE RegisterCommit(t)
  <2>1. ~Present(call[t].reg) /\ entries' = entries
    BY <1>0, <1>5 DEF RegisterCommit, RegisterPoints, Registering, CommitNeverOverwrites,
                      backendVars
  <2>2. \A q \in RegIds : q # call[t].reg => regs'[q] = regs[q]
    BY <1>0, <1>5 DEF RegisterCommit
  <2>. QED  BY <1>0, <1>1, <2>1, <2>2
<1>6. CASE BackendReleases(t)
  <2>1. /\ regs' = regs
        /\ entries' = entries \/ entries' = [entries EXCEPT ![call[t].handle] = NoEntry]
    BY <1>6 DEF BackendReleases, BackendDrop, backendVars
  <2>2. entries'[regs[r].handle].live
    BY <2>1 DEF KeptWithEntry, LiveEntry
  <2>3. entries'[regs[r].handle] = entries[regs[r].handle]
    BY <1>0, <2>1, <2>2 DEF NoEntry
  <2>. QED  BY <1>1, <2>1, <2>3
<1>7. CASE DeregisterFail(t) \/ DeregisterFinish(t)
  <2>1. entries' = entries
    BY <1>7 DEF DeregisterFail, DeregisterFinish, backendVars
  <2>2. CASE regs' = regs
    BY <1>1, <2>1, <2>2
  <2>3. CASE regs' = [regs EXCEPT ![call[t].reg].life = "FAILED"]
    <3>1. call[t].reg # r
      BY <1>0, <2>3 DEF InForce, Record
    <3>. QED  BY <1>0, <1>1, <2>1, <2>3, <3>1
  <2>4. CASE regs' = [regs EXCEPT ![call[t].reg] = NoRecord]
    <3>1. call[t].reg # r
      BY <1>0, <2>4 DEF InForce, NoRecord
    <3>. QED  BY <1>0, <1>1, <2>1, <2>4, <3>1
  <2>. QED  BY <1>7, <2>2, <2>3, <2>4 DEF DeregisterFail, DeregisterFinish, Erase
<1>. QED  BY <1>2, <1>3, <1>4, <1>5, <1>6, <1>7 DEF Begin, Continue

(* The backend's key leaves the registry's at a transport rollover and     *)
(* comes back to it at a rotation, at no other step of a registration that *)
(* stays in force (synthetic_backend.cpp:244-269, 285-297).                *)
THEOREM KeysPartOnlyAtRollover ==
    ASSUME OneCaller
    PROVE  Spec => KeysPartAtRollover
<1>. DEFINE Step ==
        \A r \in RegIds :
            KeptWithEntry(r) /\ KeptWithEntry(r)' /\ SameKey(r) # SameKey(r)' =>
               IF SameKey(r)
               THEN device'.transport > device.transport
               ELSE regs'[r].keyGen > regs[r].keyGen
<1>1. SequentialInv /\ Next => Step
  <2>. SUFFICES ASSUME SequentialInv, Next, NEW r \in RegIds,
                       KeptWithEntry(r), KeptWithEntry(r)'
                PROVE  KeysTogether(r)
    BY Zenon DEF KeysTogether
  <2>. QED  BY OperationKeepsKeys, DeviceKeepsKeys, CallKeepsKeys DEF Next
<1>2. [][Step]_vars => KeysPartAtRollover
  BY PTL DEF KeysPartAtRollover
<1>. QED  BY <1>1, <1>2, SequentialInvHolds, PTL DEF Spec

(* A lease is worth something: the region it is on is registered, unless   *)
(* the device lost it (registry.cpp:435-489, 727-795).                     *)
THEOREM LeasesAreBacked ==
    ASSUME OneCaller
    PROVE  Spec => []LeasedRegionIsLive
<1>1. SequentialInv => LeasedRegionIsLive
  <2>. SUFFICES ASSUME SequentialInv, NEW r \in PresentRegs, regs[r].leases > 0,
                       regs[r].bgen = device.backend
                PROVE  LiveEntry(regs[r].handle)
    BY DEF LeasedRegionIsLive
  <2>1. /\ regs[r].handle \in Handles /\ Backed(regs[r], entries[regs[r].handle])
        /\ regs[r].leases # 0
    BY WhatIsSettled DEF PresentRegs
  <2>. QED  BY <2>1 DEF Backed, LiveEntry
<1>. QED  BY <1>1, SequentialInvHolds, PTL

------------------------------------------------------------------------------
(* The decisions.                                                          *)

(* An access is allowed when every verdict allows it.                      *)
LEMMA AllowedByAll ==
    ASSUME NEW q
    PROVE  Allowed(q) <=>
              /\ LifecycleVerdict(q.reg) = "ALLOW"
              /\ ValidateAuthority(authority, q.env) = "ALLOW"
              /\ GenerationVerdict(q) = "ALLOW"
              /\ PlacementVerdict(q) = "ALLOW"
              /\ RightsVerdict(q) = "ALLOW"
              /\ BackendVerdict(q) = "ALLOW"
BY DEF Allowed, AccessOutcome

(* The range of a registered descriptor is checked exactly.                *)
LEMMA RegisteredBounds ==
    ASSUME NEW d \in Descriptors, NEW q \in Requests
    PROVE  /\ RangeInside(d, q.offset, q.length) <=> q.offset + q.length <= d.len
           /\ BackendRangeInside(d.len, q.offset, q.length) <=> q.offset + q.length <= d.len
<1>1. d \in Descriptor /\ d.len \in Word /\ q.offset \in Word /\ q.length \in Word
  BY RegistryAssumption DEF RegistryAssumption
<1>. QED  BY <1>1, BoundsExact

(* What an ALLOW is worth to a caller whose calls do not overlap           *)
(* (registry.cpp:506-647).                                                 *)
THEOREM AllowIsCurrent ==
    ASSUME OneCaller
    PROVE  Spec => []AllowedMeansCurrent
<1>1. SequentialInv => AllowedMeansCurrent
  <2>. SUFFICES ASSUME SequentialInv, NEW q \in Requests, Allowed(q)
                PROVE  LET rec == regs[q.reg]
                           buf == buffers[rec.desc.buf]
                       IN  /\ AuthorityCurrent(authority, q.env)
                           /\ q.env.owner = authority.owner
                           /\ q.env.ownerGen # 0 /\ authority.ownerGen # 0
                                 => OwnerCurrent(authority, q.env)
                           /\ ~rec.keyRevoked
                           /\ slot[rec.desc.buf] = q.reg
                           /\ buf.gen = rec.desc.gen
                           /\ domains[rec.dom] = "ACTIVE"
                           /\ rec.bgen = device.backend
                           /\ LiveEntry(rec.handle)
                           /\ entries[rec.handle].len = rec.desc.len
                           /\ q.offset + q.length <= rec.desc.len
                           /\ IntrinsicRight(q.kind)
                                 \in entries[rec.handle].rights \cap profile.remote
    BY DEF AllowedMeansCurrent
  <2>1. PICK r : r = q.reg
    OBVIOUS
  <2>2. /\ LifecycleVerdict(r) = "ALLOW"
        /\ ValidateAuthority(authority, q.env) = "ALLOW"
        /\ PlacementVerdict(q) = "ALLOW"
        /\ RightsVerdict(q) = "ALLOW"
        /\ BackendVerdict(q) = "ALLOW"
    BY <2>1, AllowedByAll
  <2>3. /\ AuthorityCurrent(authority, q.env)
        /\ q.env.owner = authority.owner
        /\ q.env.ownerGen # 0 /\ authority.ownerGen # 0 => OwnerCurrent(authority, q.env)
    BY <2>2 DEF ValidateAuthority, Matches, MatchesIfKnown, AuthorityCurrent,
                IncarnationMatches, OwnerCurrent
  <2>4. Present(r) /\ r \in RegIds /\ regs[r].fresh = "VALID"
    BY <2>2 DEF LifecycleVerdict, Present
  <2>5. regs[r].bgen = device.backend
    BY <2>1, <2>2 DEF PlacementVerdict
  <2>6. /\ LiveEntry(regs[r].handle)
        /\ IntrinsicRight(q.kind) \in entries[regs[r].handle].rights
        /\ IntrinsicRight(q.kind) \in profile.remote
    BY <2>1, <2>2 DEF BackendVerdict, QueryRemoteAccess, Supports
  <2>7. regs[r].desc \in Descriptors /\ Backed(regs[r], entries[regs[r].handle])
    BY <2>4, WhatIsSettled
  <2>8. regs[r].life # "FAILED" /\ entries[regs[r].handle].len = regs[r].desc.len
    BY <2>6, <2>7 DEF Backed, LiveEntry
  <2>9. Current(regs[r], r)
    BY <2>4, <2>8, WhatIsSettled
  <2>10. RangeInside(regs[r].desc, q.offset, q.length)
    BY <2>1, <2>2 DEF RightsVerdict
  <2>11. q.offset + q.length <= regs[r].desc.len
    BY <2>7, <2>10, RegisteredBounds
  <2>. QED  BY <2>1, <2>3, <2>5, <2>6, <2>8, <2>9, <2>11 DEF Current
<1>. QED  BY <1>1, SequentialInvHolds, PTL

(* Nothing current is turned away unless a transport rollover has moved    *)
(* the backend's key on (registry.cpp:506-647, synthetic_backend.cpp:      *)
(* 181-253).                                                               *)
THEOREM CurrentIsAllowed ==
    ASSUME OneCaller
    PROVE  Spec => []CurrentMeansAllowed
<1>1. SequentialInv => CurrentMeansAllowed
  <2>. SUFFICES ASSUME SequentialInv, NEW q \in Requests,
                       Present(q.reg), InForce(q.reg), attached,
                       ValidateAuthority(authority, q.env) = "ALLOW",
                       q.regGen \in {0, RegistrationGeneration},
                       q.bufGen \in {0, regs[q.reg].desc.gen},
                       q.keyGen \in {0, regs[q.reg].keyGen},
                       q.backend \in {0, TheBackend},
                       q.transport = 0,
                       q.dom \in {0, regs[q.reg].dom},
                       regs[q.reg].bgen = device.backend,
                       entries[regs[q.reg].handle].keyGen = regs[q.reg].keyGen,
                       q.rights \cup {IntrinsicRight(q.kind)} \subseteq regs[q.reg].desc.rights,
                       IntrinsicRight(q.kind) \in profile.remote,
                       q.offset + q.length <= regs[q.reg].desc.len
                PROVE  Allowed(q)
    BY DEF CurrentMeansAllowed
  <2>1. PICK r \in RegIds : r = q.reg
    BY DEF Present
  <2>2. /\ regs[r].desc \in Descriptors /\ regs[r].handle \in Handles
        /\ regs[r].life = "ACTIVE" /\ regs[r].fresh = "VALID" /\ ~regs[r].keyRevoked
        /\ Backed(regs[r], entries[regs[r].handle])
    BY <2>1, WhatIsSettled DEF Current
  <2>3. LifecycleVerdict(q.reg) = "ALLOW"
    BY <2>1, <2>2 DEF LifecycleVerdict
  <2>4. GenerationVerdict(q) = "ALLOW"
    BY <2>1, <2>2 DEF GenerationVerdict, Differs
  <2>5. PlacementVerdict(q) = "ALLOW"
    BY DEF PlacementVerdict, Differs
  <2>6. /\ RangeInside(regs[r].desc, q.offset, q.length)
        /\ BackendRangeInside(regs[r].desc.len, q.offset, q.length)
    BY <2>1, <2>2, RegisteredBounds
  <2>7. q.kind = "ATOMIC_COMPARE_SWAP" => IntrinsicRight(q.kind) = "REMOTE_ATOMIC"
    BY DEF IntrinsicRight
  <2>8. RightsVerdict(q) = "ALLOW"
    BY <2>1, <2>6, <2>7 DEF RightsVerdict, AccessSuperset, Supports
  <2>9. /\ entries[regs[r].handle].live
        /\ entries[regs[r].handle].keyGen = regs[r].keyGen
        /\ entries[regs[r].handle].revalidate = FALSE
        /\ entries[regs[r].handle].len = regs[r].desc.len
        /\ entries[regs[r].handle].rights = regs[r].desc.rights
    <3>1. entries[regs[r].handle] \in Entry
      BY <2>2 DEF SequentialInv, AuthorityInv, LeaseInv, Inv, TypeOK, BackendTypeOK
    <3>2. PICK e \in Entry : e = entries[regs[r].handle]
      BY <3>1
    <3>. QED  BY <2>1, <2>2, <3>2 DEF Backed, KeyBacked, Entry
  <2>10. BackendVerdict(q) = "ALLOW"
    BY <2>1, <2>2, <2>6, <2>9 DEF BackendVerdict, QueryRemoteAccess, LiveEntry, Supports
  <2>. QED  BY <2>3, <2>4, <2>5, <2>8, <2>10, AllowedByAll
<1>. QED  BY <1>1, SequentialInvHolds, PTL

(* A reuse hit is for a registration of the current boot, buffer and       *)
(* domain (registry.cpp:363-433).                                          *)
THEOREM ReuseIsCurrent ==
    ASSUME OneCaller
    PROVE  Spec => []ReuseOnlyCurrent
<1>1. SequentialInv => ReuseOnlyCurrent
  <2>. SUFFICES ASSUME SequentialInv, NEW d \in Descriptors, NEW p \in DomainIds,
                       NEW env \in Envelopes, ReuseHit(d, p, env)
                PROVE  LET rec == regs[slot[d.buf]] IN
                       /\ rec.boot = authority.boot
                       /\ buffers[d.buf].gen = rec.desc.gen
                       /\ domains[p] = "ACTIVE"
                       /\ rec.dom = p
    BY DEF ReuseOnlyCurrent
  <2>1. env.boot = authority.boot
    BY DEF ReuseHit, ValidateAuthority, Matches
  <2>2. PICK r : r = slot[d.buf]
    OBVIOUS
  <2>3. /\ ReuseCandidate(d) = r /\ Present(r) /\ r \in RegIds
        /\ ReuseMatches(r, d, p, env)
    BY <2>2 DEF ReuseHit, ReuseCandidate, Present
  <2>4. /\ regs[r].desc.buf = d.buf /\ regs[r].dom = p /\ regs[r].boot = env.boot
        /\ InForce(r) /\ regs[r].fresh = "VALID"
    BY <2>3 DEF ReuseMatches, StillValid
  <2>5. Current(regs[r], r)
    BY <2>3, <2>4, WhatIsSettled
  <2>. QED  BY <2>1, <2>2, <2>4, <2>5 DEF Current
<1>. QED  BY <1>1, SequentialInvHolds, PTL
==============================================================================

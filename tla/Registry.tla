------------------------------- MODULE Registry -------------------------------
(***************************************************************************)
(* The governance registry (src/registry.cpp) over one synthetic backend.  *)
(*                                                                         *)
(* Every public operation holds the registry mutex from its first read to  *)
(* its last write, so it is one action, with two exceptions.  register_    *)
(* buffer and deregister drop the mutex around the backend call and come   *)
(* back without looking again at what they checked before; each is split   *)
(* into one action per critical section, and call[t] holds the locals that *)
(* thread t carries from one to the next.  A set of one thread gives the   *)
(* sequential client of most tests, a larger set the concurrent callers.   *)
(*                                                                         *)
(* A call the code rejects changes nothing (except where noted) and is a   *)
(* stuttering step, so only the guard of the accepting path appears.       *)
(*                                                                         *)
(* A definition marked "mutant" is the definition after it with a bug in   *)
(* it; nothing here uses it (see README.md, "Mutants").                    *)
(***************************************************************************)
EXTENDS SyntheticBackend, Authority, SequencesExt

CONSTANTS
    Threads,         \* callers of the registry
    MaxBuffers,      \* bound: buffer ids up to MaxBuffers
    MaxRegs,         \* bound: registration ids handed out
    MaxDomains,      \* bound: protection domains created
    MaxLeases,       \* bound: leases acquired
    MaxKeyGen,       \* bound: key generations reached by rotation
    MaxEpoch,        \* bound: epochs and boots reached by advancing, restarts noted
    MaxAccesses,     \* bound: accesses whose outcome is counted
    MaxReuse,        \* bound: reuse decisions counted
    Descriptors,     \* the buffer descriptors callers pass
    Snapshots,       \* the snapshots set_authority is given
    Envelopes,       \* the envelopes callers present
    LeaseMasks,      \* the rights callers ask a lease for
    Requests         \* the remote access requests callers submit

ASSUME RegistryAssumption ==
    /\ MaxBuffers \in Nat /\ MaxRegs \in Nat /\ MaxDomains \in Nat
    /\ MaxLeases \in Nat /\ MaxKeyGen \in Nat /\ MaxEpoch \in Nat
    /\ MaxAccesses \in Nat /\ MaxReuse \in Nat
    /\ Descriptors \subseteq Descriptor
    /\ \A d \in Descriptors :
          d.buf <= MaxBuffers /\ d.base \in Word /\ d.len \in Word
    /\ Snapshots \subseteq AuthorityFacts
    /\ Envelopes \subseteq AuthorityFacts
    /\ LeaseMasks \subseteq SUBSET AccessRights
    /\ \A q \in Requests : q.offset \in Word /\ q.length \in Word

VARIABLES
    authority,       \* authority_
    attached,        \* whether backends_ holds the backend
    domains,         \* domains_: protection domain -> state
    buffers,         \* buffers_: buffer -> generation and length
    regs,            \* registrations_
    slot,            \* active_registration_for_buffer_; 0 is no entry
    leases,          \* leases_
    acct,            \* the gauges of acct_, which also go down
    stats,           \* the counters of acct_ that only go up
    next,            \* next_buffer_, next_registration_, next_domain_, next_lease_
    call             \* per thread: the operation between its critical sections

registryVars ==
    <<authority, attached, domains, buffers, regs, slot, leases, acct, stats,
      next, call>>

vars == <<registryVars, backendVars>>

(* Keys of buffers_.  create_buffer never files a buffer under 0, the      *)
(* invalid id; recover does, for a buffer that was saved with that id.     *)
BufIds == 0 .. MaxBuffers
RegIds == 1 .. MaxRegs
DomainIds == 1 .. MaxDomains
LeaseIds == 1 .. MaxLeases

(* RegistrationRecord.  granted_access, length and the memory domain are   *)
(* those of the descriptor the caller registered; the registration         *)
(* generation is 1 for ever; transport is never assigned.                  *)
Record ==
    [life : Lifecycles, fresh : Freshnesses, desc : Descriptor, dom : Nat,
     bgen : Nat, handle : Nat, keyGen : Nat, keyRevoked : BOOLEAN,
     boot : Nat, epoch : Nat, leases : Nat]

NoRecord ==
    [life |-> "UNREGISTERED", fresh |-> "UNKNOWN", desc |-> NoDescriptor,
     dom |-> 0, bgen |-> 0, handle |-> 0, keyGen |-> 0, keyRevoked |-> FALSE,
     boot |-> 0, epoch |-> 0, leases |-> 0]

RegistrationGeneration == 1
NoTransport == 0
TheBackend == 1                  \* the BackendId of the one backend

(* BufferEntry.  id is the id inside the stored descriptor: 0, whatever the *)
(* key it is filed under, when the caller asked for an automatic id.       *)
BufferEntry == [made : BOOLEAN, id : Nat, gen : Nat, len : Nat]
NoBuffer == [made |-> FALSE, id |-> 0, gen |-> 0, len |-> 0]

Lease ==
    [state : LeaseStates, reg : Nat, gen : Nat, access : SUBSET AccessRights]
NoLease == [state |-> "ABSENT", reg |-> 0, gen |-> 0, access |-> {}]

(* The control points of a call: idle, or between two critical sections.   *)
RegisterPoints == {"admitted", "numbered", "stored"}
DeregisterPoints == {"deregistering", "released", "refused"}
Points == {"idle"} \cup RegisterPoints \cup DeregisterPoints

Call ==
    [pc : Points, reg : Nat, desc : Descriptor, dom : Nat, bgen : Nat,
     boot : Nat, epoch : Nat, handle : Nat]
NoCall ==
    [pc |-> "idle", reg |-> 0, desc |-> NoDescriptor, dom |-> 0, bgen |-> 0,
     boot |-> 0, epoch |-> 0, handle |-> 0]

Gauges ==
    [regs : Nat, bytes : Nat, pinned : Nat, leases : Nat, domains : Nat,
     buffers : Nat, live : Nat]

Counters ==
    [failed : Nat, stale : Nat, read : Nat, written : Nat, atomics : Nat,
     revocations : Nat, deregistrations : Nat, hits : Nat, misses : Nat,
     restarts : Nat]

NextIds == [buf : Nat, reg : Nat, dom : Nat, lease : Nat]

TypeOK ==
    /\ BackendTypeOK
    /\ authority \in AuthorityFacts
    /\ attached \in BOOLEAN
    /\ domains \in [DomainIds -> DomainStates]
    /\ buffers \in [BufIds -> BufferEntry]
    /\ regs \in [RegIds -> Record]
    /\ slot \in [BufIds -> RegIds \cup {0}]
    /\ leases \in [LeaseIds -> Lease]
    /\ acct \in Gauges
    /\ stats \in Counters
    /\ next \in NextIds
    /\ call \in [Threads -> Call]

Init ==
    /\ BackendInit
    /\ authority = NoAuthority
    /\ attached = FALSE
    /\ domains = [p \in DomainIds |-> "ABSENT"]
    /\ buffers = [b \in BufIds |-> NoBuffer]
    /\ regs = [r \in RegIds |-> NoRecord]
    /\ slot = [b \in BufIds |-> 0]
    /\ leases = [l \in LeaseIds |-> NoLease]
    /\ acct = [regs |-> 0, bytes |-> 0, pinned |-> 0, leases |-> 0,
               domains |-> 0, buffers |-> 0, live |-> 0]
    /\ stats = [failed |-> 0, stale |-> 0, read |-> 0, written |-> 0,
                atomics |-> 0, revocations |-> 0, deregistrations |-> 0,
                hits |-> 0, misses |-> 0, restarts |-> 0]
    /\ next = [buf |-> 1, reg |-> 1, dom |-> 1, lease |-> 1]
    /\ call = [t \in Threads |-> NoCall]

------------------------------------------------------------------------------
(* Shorthands over the tables.                                             *)

Present(r) == r \in RegIds /\ regs[r].life # "UNREGISTERED"

(* The lifecycles the code lists as live: ACTIVE or REGISTERED.            *)
InForce(r) == regs[r].life \in {"ACTIVE", "REGISTERED"}

LeasesOn(r, states) ==
    {l \in LeaseIds : leases[l].reg = r /\ leases[l].state \in states}

Idle(t) == call[t].pc = "idle"

(* Counter::decrement refuses to go below zero and then changes nothing.   *)
DecrementUnchecked(value, n) == value - n          \* mutant: no refusal
Decrement(value, n) == IF n > value THEN value ELSE value - n

(* account_registration_commit for a record of descriptor d.  local_keys   *)
(* and remote_keys move with active_registrations and are not repeated.    *)
PinnedLen(d) == IF d.mem = "HOST_PINNED" THEN d.len ELSE 0

AfterCommit(a, d) ==
    [a EXCEPT !.regs = @ + 1, !.bytes = @ + d.len, !.pinned = @ + PinnedLen(d)]

(* account_registration_invalidate for every record of S, in the order the *)
(* hash map happens to yield them; a refused decrement makes the order     *)
(* matter.  A decrement never raises a gauge, hence the intersection.      *)
Remainders(a, S) ==
    {<<FoldLeft(Decrement, a.bytes, [i \in DOMAIN o |-> regs[o[i]].desc.len]),
       FoldLeft(Decrement, a.pinned, [i \in DOMAIN o |-> PinnedLen(regs[o[i]].desc)])>> :
        o \in SetToSeqs(S)}
    \cap ((0 .. a.bytes) \X (0 .. a.pinned))

(* k decrements by one.                                                    *)
FewerByNone(n, k) == n                             \* mutant: gauge left alone
FewerBy(n, k) == IF k > n THEN 0 ELSE n - k

AfterInvalidation(a, S) ==
    {[a EXCEPT !.regs = FewerBy(@, Cardinality(S)), !.bytes = w[1], !.pinned = w[2]] :
        w \in Remainders(a, S)}

------------------------------------------------------------------------------
(* Authority, backends and protection domains.                             *)

(* set_authority.                                                          *)
SetAuthority(s) ==
    /\ authority # s
    /\ authority' = s
    /\ UNCHANGED <<attached, domains, buffers, regs, slot, leases, acct, stats,
                   next, call, backendVars>>

(* advance_epoch.                                                          *)
AdvanceEpoch ==
    /\ authority.epoch < MaxEpoch
    /\ authority' = [authority EXCEPT !.epoch = @ + 1]
    /\ UNCHANGED <<attached, domains, buffers, regs, slot, leases, acct, stats,
                   next, call, backendVars>>

(* note_participant_restart: a new epoch and a new worker boot; no record  *)
(* is looked at.                                                           *)
NoteParticipantRestart ==
    /\ authority.epoch < MaxEpoch
    /\ authority.boot < MaxEpoch
    /\ stats.restarts < MaxEpoch
    /\ authority' = [authority EXCEPT !.epoch = @ + 1, !.boot = @ + 1]
    /\ stats' = [stats EXCEPT !.restarts = @ + 1]
    /\ UNCHANGED <<attached, domains, buffers, regs, slot, leases, acct, next,
                   call, backendVars>>

(* add_backend; a second backend of the same id is refused.                *)
AddBackend ==
    /\ ~attached
    /\ attached' = TRUE
    /\ UNCHANGED <<authority, domains, buffers, regs, slot, leases, acct, stats,
                   next, call, backendVars>>

(* create_protection_domain.                                               *)
CreateProtectionDomain ==
    /\ next.dom \in DomainIds
    /\ domains' = [domains EXCEPT ![next.dom] = "ACTIVE"]
    /\ next' = [next EXCEPT !.dom = @ + 1]
    /\ acct' = [acct EXCEPT !.domains = @ + 1]
    /\ UNCHANGED <<authority, attached, buffers, regs, slot, leases, stats, call,
                   backendVars>>

(* destroy_protection_domain: live registrations of the domain go straight *)
(* to REVOKED and leave the accounting.  The state of the domain is not    *)
(* looked at, so a destroyed domain can be destroyed again.                *)
RegsOfDomainUnleased(p) ==                         \* mutant: spares leased ones
    {r \in RegIds : InForce(r) /\ regs[r].dom = p /\ regs[r].leases = 0}
RegsOfDomain(p) == {r \in RegIds : InForce(r) /\ regs[r].dom = p}

DestroyProtectionDomain(p) ==
    /\ domains[p] # "ABSENT"
    /\ regs' = [r \in RegIds |->
                   IF r \in RegsOfDomain(p)
                   THEN [regs[r] EXCEPT !.life = "REVOKED", !.fresh = "STALE"]
                   ELSE regs[r]]
    /\ domains' = [domains EXCEPT ![p] = "DESTROYED"]
    /\ \E a \in AfterInvalidation(acct, RegsOfDomain(p)) :
          acct' = [a EXCEPT !.domains = Decrement(@, 1)]
    /\ UNCHANGED <<authority, attached, buffers, slot, leases, stats, next, call,
                   backendVars>>

------------------------------------------------------------------------------
(* create_buffer.                                                          *)

(* An invalid id asks for the next automatic one, which is not checked     *)
(* against the ids callers chose themselves.                               *)
ChosenId(d) == IF d.buf = 0 THEN next.buf ELSE d.buf

NextAfterCreate(d) == IF d.buf = 0 THEN [next EXCEPT !.buf = @ + 1] ELSE next

EntryOf(d) == [made |-> TRUE, id |-> d.buf, gen |-> d.gen, len |-> d.len]

CreateNewBuffer(d) ==
    LET b == ChosenId(d) IN
    /\ b \in BufIds
    /\ ~buffers[b].made
    /\ buffers' = [buffers EXCEPT ![b] = EntryOf(d)]
    /\ next' = NextAfterCreate(d)
    /\ acct' = [acct EXCEPT !.buffers = @ + 1, !.live = @ + d.len]
    /\ UNCHANGED <<authority, attached, domains, regs, slot, leases, stats, call,
                   backendVars>>

(* A larger generation for a known id: the memory was reallocated, and     *)
(* every registration of the buffer goes STALE and leaves the accounting.  *)
(* The slot is left as it is.                                              *)
RegsOfBufferUnleased(b) ==                         \* mutant: spares leased ones
    {r \in RegIds : InForce(r) /\ regs[r].desc.buf = b /\ regs[r].leases = 0}
RegsOfBufferAll(b) ==                              \* mutant: revoked ones as well
    {r \in RegIds : Present(r) /\ regs[r].desc.buf = b}
RegsOfBuffer(b) ==
    {r \in RegIds : regs[r].desc.buf = b
                    /\ (InForce(r) \/ regs[r].life = "REGISTERING")}

LiveBytesAdded(d, old) == acct.live + d.len        \* mutant: not a delta
LiveBytesAfter(d, old) ==
    IF d.len >= old THEN acct.live + (d.len - old) ELSE Decrement(acct.live, old - d.len)

ReallocateBuffer(d) ==
    LET b == ChosenId(d) IN
    /\ b \in BufIds
    /\ buffers[b].made
    /\ d.gen > buffers[b].gen
    /\ regs' = [r \in RegIds |->
                   IF r \in RegsOfBuffer(b)
                   THEN [regs[r] EXCEPT !.life = "STALE", !.fresh = "STALE"]
                   ELSE regs[r]]
    /\ buffers' = [buffers EXCEPT ![b] = EntryOf(d)]
    /\ next' = NextAfterCreate(d)
    /\ \E a \in AfterInvalidation(acct, RegsOfBuffer(b)) :
          acct' = [a EXCEPT !.live = LiveBytesAfter(d, buffers[b].len)]
    /\ UNCHANGED <<authority, attached, domains, slot, leases, stats, call,
                   backendVars>>

(* An automatic id that meets a buffer of the same or a larger generation  *)
(* is refused, and is used up all the same.                                *)
CreateRefused(d) ==
    /\ d.buf = 0
    /\ next.buf \in BufIds
    /\ buffers[next.buf].made
    /\ d.gen <= buffers[next.buf].gen
    /\ next' = NextAfterCreate(d)
    /\ UNCHANGED <<authority, attached, domains, buffers, regs, slot, leases, acct,
                   stats, call, backendVars>>

CreateBuffer(d) == CreateNewBuffer(d) \/ ReallocateBuffer(d) \/ CreateRefused(d)

(* An id the caller chose, whose buffer has this generation or a larger    *)
(* one: refused, and nothing changes.                                      *)
CreateDuplicate(d) ==
    d.buf \in BufIds \ {0} /\ buffers[d.buf].made /\ d.gen <= buffers[d.buf].gen

------------------------------------------------------------------------------
(* register_buffer.                                                        *)

(* The single-flight slot of a buffer.                                     *)
SlotIgnored(b) == b \in BufIds                     \* mutant: no single flight
SlotFree(b) == slot[b] = 0

NextAfterCommit == next                            \* mutant: id not used up
NextAfterAdmit == [next EXCEPT !.reg = @ + 1]

(* The request is judged ...                                               *)
Admissible(d, p, env) ==
    /\ ValidateAuthority(authority, env) = "ALLOW"
    /\ attached
    /\ domains[p] = "ACTIVE"
    /\ ValidateRange(d) = "OK"
    /\ d.buf \in BufIds
    /\ buffers[d.buf].made
    /\ buffers[d.buf].gen = d.gen
    /\ SlotFree(d.buf)
    /\ CanRegister(d) = "OK"

(* ... and an id is drawn: the first critical section.  The record exists  *)
(* only among the locals of the call.                                      *)
RegisterAdmit(t, d, p, env) ==
    /\ Idle(t)
    /\ Admissible(d, p, env)
    /\ next.reg \in RegIds
    /\ call' = [call EXCEPT ![t] =
                   [pc |-> "admitted", reg |-> next.reg, desc |-> d, dom |-> p,
                    bgen |-> device.backend, boot |-> env.boot,
                    epoch |-> authority.epoch, handle |-> 0]]
    /\ next' = NextAfterAdmit
    /\ UNCHANGED <<authority, attached, domains, buffers, regs, slot, leases, acct,
                   stats, backendVars>>

(* Outside the mutex the backend judges the descriptor again; a refusal    *)
(* ends the call as PARTIAL_FAILURE and the id is lost.                    *)
BackendRefuses(t) ==
    /\ call[t].pc = "admitted"
    /\ CanRegister(call[t].desc) # "OK"
    /\ call' = [call EXCEPT ![t] = NoCall]
    /\ UNCHANGED <<authority, attached, domains, buffers, regs, slot, leases, acct,
                   stats, next, backendVars>>

(* Otherwise it reads next_seq_ to form the region number ...              *)
BackendNumbers(t) ==
    /\ call[t].pc = "admitted"
    /\ CanRegister(call[t].desc) = "OK"
    /\ nextSeq \in Handles
    /\ call' = [call EXCEPT ![t].pc = "numbered", ![t].handle = nextSeq]
    /\ UNCHANGED <<authority, attached, domains, buffers, regs, slot, leases, acct,
                   stats, next, backendVars>>

(* ... and stores the entry.                                               *)
BackendStores(t) ==
    /\ call[t].pc = "numbered"
    /\ BackendStore(call[t].handle, call[t].desc)
    /\ call' = [call EXCEPT ![t].pc = "stored"]
    /\ UNCHANGED <<authority, attached, domains, buffers, regs, slot, leases, acct,
                   stats, next>>

(* Second critical section: the record is published.  Nothing judged in    *)
(* the first one is judged again.                                          *)
RegisterCommit(t) ==
    LET c == call[t] IN
    /\ c.pc = "stored"
    /\ regs' = [regs EXCEPT ![c.reg] =
                   [life |-> "ACTIVE", fresh |-> "VALID", desc |-> c.desc,
                    dom |-> c.dom, bgen |-> c.bgen, handle |-> c.handle,
                    keyGen |-> 1, keyRevoked |-> FALSE, boot |-> c.boot,
                    epoch |-> c.epoch, leases |-> 0]]
    /\ slot' = [slot EXCEPT ![c.desc.buf] = c.reg]
    /\ acct' = AfterCommit(acct, c.desc)
    /\ call' = [call EXCEPT ![t] = NoCall]
    /\ UNCHANGED <<authority, attached, domains, buffers, leases, stats, next,
                   backendVars>>

------------------------------------------------------------------------------
(* Leases.                                                                 *)

LeasableByFreshness(r) ==                          \* mutant: lifecycle not asked
    Present(r) /\ regs[r].fresh = "VALID"
Leasable(r) == InForce(r) /\ regs[r].fresh = "VALID"

(* acquire_lease.  The lease generation is taken from the number of leases *)
(* outstanding, and nothing but the record's own state is looked at.       *)
AcquireLease(r, env, needed) ==
    /\ ValidateAuthority(authority, env) = "ALLOW"
    /\ Leasable(r)
    /\ AccessSuperset(regs[r].desc.rights, needed)
    /\ next.lease \in LeaseIds
    /\ leases' = [leases EXCEPT ![next.lease] =
                     [state |-> "ACTIVE", reg |-> r, gen |-> regs[r].leases + 1,
                      access |-> needed]]
    /\ next' = [next EXCEPT !.lease = @ + 1]
    /\ regs' = [regs EXCEPT ![r].leases = @ + 1]
    /\ acct' = [acct EXCEPT !.leases = @ + 1]
    /\ UNCHANGED <<authority, attached, domains, buffers, slot, stats, call,
                   backendVars>>

(* release_lease: a lease that is not RELEASED is released, one that a     *)
(* revocation has already closed included.                                 *)
ReleaseLease(l) ==
    LET r == leases[l].reg IN
    /\ leases[l].state \notin {"ABSENT", "RELEASED"}
    /\ leases' = [leases EXCEPT ![l].state = "RELEASED"]
    /\ regs' = IF Present(r)
               THEN [regs EXCEPT ![r].leases = Decrement(@, 1)]
               ELSE regs
    /\ acct' = [acct EXCEPT !.leases = Decrement(@, 1)]
    /\ UNCHANGED <<authority, attached, domains, buffers, slot, stats, next, call,
                   backendVars>>

------------------------------------------------------------------------------
(* Revocation, key rotation and deregistration.                            *)

(* revoke(HARD_REVOKE): the key generation moves on and the key is dead;   *)
(* live leases are marked, but the record keeps counting them until they   *)
(* are released; the slot of the buffer is freed whoever it names.         *)
RevokedDrained(rec) ==                             \* mutant: lease count reset
    [rec EXCEPT !.life = "REVOKED", !.fresh = "STALE", !.keyGen = @ + 1,
                !.keyRevoked = TRUE, !.leases = 0]
Revoked(rec) ==
    [rec EXCEPT !.life = "REVOKED", !.fresh = "STALE", !.keyGen = @ + 1,
                !.keyRevoked = TRUE]

LeasesKept(r) == leases                            \* mutant: leases not marked
LeasesRevoked(r) ==
    [l \in LeaseIds |->
        IF l \in LeasesOn(r, {"ACTIVE"})
        THEN [leases[l] EXCEPT !.state = "REVOKED"]
        ELSE leases[l]]

HardRevoke(r) ==
    /\ InForce(r)
    /\ regs' = [regs EXCEPT ![r] = Revoked(@)]
    /\ leases' = LeasesRevoked(r)
    /\ acct' = [acct EXCEPT !.leases = FewerBy(@, Cardinality(LeasesOn(r, {"ACTIVE"})))]
    /\ slot' = [slot EXCEPT ![regs[r].desc.buf] = 0]
    /\ stats' = [stats EXCEPT !.revocations = @ + 1]
    /\ UNCHANGED <<authority, attached, domains, buffers, next, call, backendVars>>

(* revoke(SOFT_REVOKE): the record goes through REVOKING to REVOKED if it  *)
(* counts no lease now, and stays REVOKING otherwise.                      *)
SoftRevoke(r) ==
    LET drained == regs[r].leases = 0 IN
    /\ InForce(r)
    /\ regs' = [regs EXCEPT ![r].life = IF drained THEN "REVOKED" ELSE "REVOKING",
                            ![r].fresh = "STALE"]
    /\ stats' = IF drained THEN [stats EXCEPT !.revocations = @ + 1] ELSE stats
    /\ UNCHANGED <<authority, attached, domains, buffers, slot, leases, acct, next,
                   call, backendVars>>

Revoke(r, mode) ==
    IF mode = "HARD_REVOKE" THEN HardRevoke(r) ELSE SoftRevoke(r)

(* rotate_key, the one operation that calls the backend under the mutex.   *)
RotatableAnyway(r) ==                              \* mutant: revoked ones as well
    regs[r].life \in {"ACTIVE", "REGISTERED", "REVOKED"}
Rotatable(r) == InForce(r)

RotateKey(r) ==
    /\ Rotatable(r)
    /\ regs[r].keyGen < MaxKeyGen
    /\ regs' = [regs EXCEPT ![r].keyGen = @ + 1, ![r].keyRevoked = FALSE]
    /\ BackendRotate(regs[r].handle, regs[r].keyGen + 1)
    /\ UNCHANGED <<authority, attached, domains, buffers, slot, leases, acct, stats,
                   next, call>>

(* deregister, first critical section.                                     *)
MayDeregister ==
    {"ACTIVE", "REGISTERED", "REVOKED", "STALE", "REVALIDATION_REQUIRED"}
DeregisterableHeld(r) == regs[r].life \in MayDeregister   \* mutant: leases ignored
Deregisterable(r) == regs[r].leases = 0 /\ regs[r].life \in MayDeregister

DeregisterBegin(t, r) ==
    /\ Idle(t)
    /\ Deregisterable(r)
    /\ regs' = [regs EXCEPT ![r].life = "DEREGISTERING"]
    /\ call' = [call EXCEPT ![t] =
                   [NoCall EXCEPT !.pc = "deregistering", !.reg = r,
                                  !.handle = regs[r].handle]]
    /\ UNCHANGED <<authority, attached, domains, buffers, slot, leases, acct, stats,
                   next, backendVars>>

(* The backend call, outside the mutex.  It is skipped if no backend of    *)
(* that id is attached, as in a process that has recovered and not called  *)
(* add_backend yet.                                                        *)
BackendReleases(t) ==
    /\ call[t].pc = "deregistering"
    /\ IF attached THEN BackendDrop(call[t].handle) ELSE UNCHANGED backendVars
    /\ call' = [call EXCEPT ![t].pc = "released"]
    /\ UNCHANGED <<authority, attached, domains, buffers, regs, slot, leases, acct,
                   stats, next>>

WaitForEntry(t) ==                                 \* mutant: retried for ever
    call[t].pc = "deregistering" /\ ~LiveEntry(call[t].handle) /\ UNCHANGED vars

BackendReleaseFails(t) ==
    /\ call[t].pc = "deregistering"
    /\ attached
    /\ ~LiveEntry(call[t].handle)
    /\ call' = [call EXCEPT ![t].pc = "refused"]
    /\ UNCHANGED <<authority, attached, domains, buffers, regs, slot, leases, acct,
                   stats, next, backendVars>>

(* Second critical section after a backend failure: FAILED, and nothing    *)
(* else of the record is touched.                                          *)
DeregisterGivesUp(t) ==                            \* mutant: FAILED not recorded
    /\ call[t].pc = "refused"
    /\ call' = [call EXCEPT ![t] = NoCall]
    /\ UNCHANGED <<authority, attached, domains, buffers, regs, slot, leases, acct,
                   stats, next, backendVars>>

DeregisterFail(t) ==
    /\ call[t].pc = "refused"
    /\ regs' = IF Present(call[t].reg)
               THEN [regs EXCEPT ![call[t].reg].life = "FAILED"]
               ELSE regs
    /\ call' = [call EXCEPT ![t] = NoCall]
    /\ UNCHANGED <<authority, attached, domains, buffers, slot, leases, acct, stats,
                   next, backendVars>>

(* Second critical section after success: the record leaves the accounting *)
(* (whether or not it had left already) and every table.                   *)
SlotsKept(r) == slot                               \* mutant: slot not cleared
SlotsWithout(r) == [b \in BufIds |-> IF slot[b] = r THEN 0 ELSE slot[b]]

Erase(r) ==
    /\ acct' \in AfterInvalidation(acct, {r})
    /\ regs' = [regs EXCEPT ![r] = NoRecord]
    /\ slot' = SlotsWithout(r)
    /\ leases' = [l \in LeaseIds |-> IF leases[l].reg = r THEN NoLease ELSE leases[l]]
    /\ stats' = [stats EXCEPT !.deregistrations = @ + 1]

(* A record that vanished while the backend worked is reported, and        *)
(* nothing is changed.  It takes two callers and a recover between them.   *)
DeregisterFinish(t) ==
    /\ call[t].pc = "released"
    /\ IF Present(call[t].reg)
       THEN Erase(call[t].reg)
       ELSE UNCHANGED <<regs, slot, leases, acct, stats>>
    /\ call' = [call EXCEPT ![t] = NoCall]
    /\ UNCHANGED <<authority, attached, domains, buffers, next, backendVars>>

------------------------------------------------------------------------------
(* register_buffer_reuse: a decision over the slot's candidate that changes *)
(* nothing but two counters.                                               *)

ReuseCandidate(d) ==
    IF d.buf \in BufIds /\ slot[d.buf] # 0 /\ Present(slot[d.buf])
    THEN slot[d.buf] ELSE 0

StillValidAnyBoot(r, env) ==                       \* mutant: boot not compared
    InForce(r) /\ regs[r].fresh = "VALID"
StillValid(r, env) ==
    /\ InForce(r)
    /\ regs[r].boot = env.boot
    /\ regs[r].fresh = "VALID"

(* reuse_miss_reason is empty.                                             *)
ReuseMatches(r, d, p, env) ==
    /\ regs[r].desc.buf = d.buf
    /\ regs[r].desc.gen = d.gen
    /\ regs[r].desc.mem = d.mem
    /\ regs[r].dom = p
    /\ AccessSuperset(regs[r].desc.rights, d.rights)
    /\ StillValid(r, env)

ReuseHit(d, p, env) ==
    /\ ValidateAuthority(authority, env) = "ALLOW"
    /\ ReuseCandidate(d) # 0
    /\ ReuseMatches(ReuseCandidate(d), d, p, env)

RegisterBufferReuse(d, p, env) ==
    /\ ValidateAuthority(authority, env) = "ALLOW"
    /\ ReuseCandidate(d) # 0
    /\ stats.hits + stats.misses < MaxReuse
    /\ stats' = IF ReuseMatches(ReuseCandidate(d), d, p, env)
                THEN [stats EXCEPT !.hits = @ + 1]
                ELSE [stats EXCEPT !.misses = @ + 1]
    /\ UNCHANGED <<authority, attached, domains, buffers, regs, slot, leases, acct,
                   next, call, backendVars>>

------------------------------------------------------------------------------
(* validate_remote_access.  A zero in a request is an absent field; absent *)
(* generations, backend, transport and domain are not compared.            *)

Differs(expected, actual) == expected # 0 /\ expected # actual

LifecycleVerdict(r) ==
    IF ~Present(r) THEN "REJECT_NOT_REGISTERED"
    ELSE IF regs[r].life \in {"REVOKED", "DEREGISTERED", "STALE", "REVOKING"}
    THEN "REJECT_REVOKED"
    ELSE IF regs[r].fresh # "VALID" THEN "REJECT_STALE_REGISTRATION"
    ELSE "ALLOW"

GenerationVerdict(q) ==
    IF Differs(q.regGen, RegistrationGeneration) THEN "REJECT_STALE_REGISTRATION"
    ELSE IF Differs(q.bufGen, regs[q.reg].desc.gen) THEN "REJECT_STALE_BUFFER"
    ELSE IF Differs(q.keyGen, regs[q.reg].keyGen) \/ regs[q.reg].keyRevoked
    THEN "REJECT_STALE_KEY"
    ELSE "ALLOW"

PlacementVerdict(q) ==
    IF \/ Differs(q.backend, TheBackend)
       \/ ~attached
       \/ device.backend # regs[q.reg].bgen
    THEN "REJECT_BACKEND"
    ELSE IF Differs(q.transport, NoTransport) THEN "REJECT_TRANSPORT"
    ELSE IF Differs(q.dom, regs[q.reg].dom) THEN "REJECT_DOMAIN"
    ELSE "ALLOW"

RightsVerdict(q) ==
    IF ~AccessSuperset(regs[q.reg].desc.rights, q.rights \cup {IntrinsicRight(q.kind)})
    THEN "REJECT_PERMISSION"
    ELSE IF /\ q.kind = "ATOMIC_COMPARE_SWAP"
            /\ "REMOTE_ATOMIC" \in q.rights
            /\ ~Supports("REMOTE_ATOMIC")
    THEN "REJECT_UNKNOWN_CAPABILITY"
    ELSE IF ~RangeInside(regs[q.reg].desc, q.offset, q.length) THEN "REJECT_RANGE"
    ELSE "ALLOW"

BackendVerdict(q) ==
    QueryRemoteAccess(regs[q.reg].handle, regs[q.reg].keyGen, q.kind, q.offset, q.length)

(* The outcome: the first verdict that is not ALLOW, in the code's order.  *)
AccessOutcome(q) ==
    IF LifecycleVerdict(q.reg) # "ALLOW" THEN LifecycleVerdict(q.reg)
    ELSE IF ValidateAuthority(authority, q.env) # "ALLOW"
    THEN ValidateAuthority(authority, q.env)
    ELSE IF GenerationVerdict(q) # "ALLOW" THEN GenerationVerdict(q)
    ELSE IF PlacementVerdict(q) # "ALLOW" THEN PlacementVerdict(q)
    ELSE IF RightsVerdict(q) # "ALLOW" THEN RightsVerdict(q)
    ELSE BackendVerdict(q)

Allowed(q) == AccessOutcome(q) = "ALLOW"

(* A rejection by the authority check is returned as it is; every other    *)
(* rejection goes through the lambda that counts it.                       *)
RejectedByAuthority(q) ==
    /\ LifecycleVerdict(q.reg) = "ALLOW"
    /\ ValidateAuthority(authority, q.env) # "ALLOW"

StaleOutcomes ==
    {"REJECT_STALE_EPOCH", "REJECT_STALE_BOOT", "REJECT_STALE_BUFFER",
     "REJECT_STALE_REGISTRATION", "REJECT_STALE_KEY"}

CountedAllow(q) ==
    CASE q.kind = "WRITE" -> [stats EXCEPT !.written = @ + q.length]
      [] q.kind = "READ"  -> [stats EXCEPT !.read = @ + q.length]
      [] OTHER            -> [stats EXCEPT !.atomics = @ + 1]

CountedRejection(outcome) ==
    [stats EXCEPT !.failed = @ + 1,
                  !.stale = IF outcome \in StaleOutcomes THEN @ + 1 ELSE @]

ValidateRemoteAccess(q) ==
    /\ stats.failed + stats.read + stats.written + stats.atomics < MaxAccesses
    /\ ~RejectedByAuthority(q)
    /\ stats' = IF Allowed(q) THEN CountedAllow(q)
                ELSE CountedRejection(AccessOutcome(q))
    /\ UNCHANGED <<authority, attached, domains, buffers, regs, slot, leases, acct,
                   next, call, backendVars>>

------------------------------------------------------------------------------
(* Scheduling.                                                             *)

(* Operations with one critical section, made by a thread that is not in   *)
(* the middle of another call.                                             *)
Operation ==
    \/ \E s \in Snapshots : SetAuthority(s)
    \/ AdvanceEpoch
    \/ NoteParticipantRestart
    \/ AddBackend
    \/ CreateProtectionDomain
    \/ \E p \in DomainIds : DestroyProtectionDomain(p)
    \/ \E d \in Descriptors : CreateBuffer(d)
    \/ \E r \in RegIds, env \in Envelopes, m \in LeaseMasks : AcquireLease(r, env, m)
    \/ \E l \in LeaseIds : ReleaseLease(l)
    \/ \E r \in RegIds, mode \in RevocationModes : Revoke(r, mode)
    \/ \E r \in RegIds : RotateKey(r)
    \/ \E d \in Descriptors, p \in DomainIds, env \in Envelopes :
           RegisterBufferReuse(d, p, env)
    \/ \E q \in Requests : ValidateRemoteAccess(q)

(* A call the backend owner makes; the registry is not involved.           *)
DeviceEvent == BackendEvent /\ UNCHANGED registryVars

Begin(t) ==
    \/ \E d \in Descriptors, p \in DomainIds, env \in Envelopes :
           RegisterAdmit(t, d, p, env)
    \/ \E r \in RegIds : DeregisterBegin(t, r)

(* The rest of a call in flight.                                           *)
Continue(t) ==
    \/ BackendRefuses(t)
    \/ BackendNumbers(t)
    \/ BackendStores(t)
    \/ RegisterCommit(t)
    \/ BackendReleases(t)
    \/ BackendReleaseFails(t)
    \/ DeregisterFail(t)
    \/ DeregisterFinish(t)

Next ==
    \/ (\E t \in Threads : Idle(t)) /\ (Operation \/ DeviceEvent)
    \/ \E t \in Threads : Begin(t) \/ Continue(t)

Spec == Init /\ [][Next]_vars

(* A thread inside register_buffer or deregister is not suspended for      *)
(* ever: neither waits for anything but the mutex, and every holder of the *)
(* mutex lets it go at the end of its one action.                          *)
FairSpec == Spec /\ \A t \in Threads : WF_vars(Continue(t))
==============================================================================

-------------------------- MODULE RegistryProperties --------------------------
(***************************************************************************)
(* What the registry guarantees.  The first group holds for any number of  *)
(* concurrent callers; the second needs callers that do not overlap, for   *)
(* reasons each property names; the third compares the code with what the  *)
(* repository says of it.                                                  *)
(***************************************************************************)
EXTENDS Registry

InFlight == {t \in Threads : ~Idle(t)}
Registering == {t \in Threads : call[t].pc \in RegisterPoints}
PresentRegs == {r \in RegIds : Present(r)}
ActiveLeases == {l \in LeaseIds : leases[l].state = "ACTIVE"}
MadeBuffers == {b \in BufIds : buffers[b].made}

(* A lease that was granted and not given back: release_lease accepts it.  *)
Outstanding == {"ACTIVE", "REVOKED"}

------------------------------------------------------------------------------
(* Properties of every interleaving.                                       *)

(* lease_count of a record is the number of leases on it that were granted *)
(* and not released, whatever revocations, reallocations and releases      *)
(* happened in between; deregister relies on it (registry.cpp:740).        *)
LeaseCountExact ==
    \A r \in PresentRegs : regs[r].leases = Cardinality(LeasesOn(r, Outstanding))

(* A lease that was granted ends by being released and in no other way:    *)
(* deregister never takes a registration away from under its holders, even *)
(* though it gives up the mutex after it looked at lease_count and erases  *)
(* the leases of the registration when it comes back (registry.cpp:789).   *)
LeaseEndsByRelease ==
    [][\A l \in LeaseIds : leases[l].state \in Outstanding =>
          leases'[l].state \in Outstanding \cup {"RELEASED"}]_vars

(* Once a hard revocation killed the key of a record no ACTIVE lease is    *)
(* left on it and none appears later (registry.cpp:668-684, 453).          *)
NoActiveLeaseUnderRevokedKey ==
    \A l \in ActiveLeases : ~regs[leases[l].reg].keyRevoked

(* The single-flight slot of a buffer names a record in the table, of that *)
(* buffer, whose key is not revoked: neither deregistration nor revocation *)
(* leaves it pointing at what they took away, whatever two registrations   *)
(* of one buffer did to it before.                                         *)
SlotNeverDangles ==
    \A b \in BufIds : slot[b] # 0 =>
        /\ Present(slot[b])
        /\ regs[slot[b]].desc.buf = b
        /\ ~regs[slot[b]].keyRevoked

(* Nothing stays registered in the backend on behalf of nobody: a live     *)
(* entry belongs to a record in the table or to a call still in progress   *)
(* ("never leaks ... registration handles", README.md:79-80).  Not every   *)
(* such record can give its handle back: see SoftRevokeCompletes.          *)
NoOrphanEntry ==
    \A h \in Handles : LiveEntry(h) =>
        \/ \E r \in PresentRegs : regs[r].handle = h
        \/ \E t \in Threads : call[t].pc \in {"stored", "deregistering"}
                              /\ call[t].handle = h

(* The gauges count at most what there is: never more registrations than   *)
(* records, nor more leases than ACTIVE ones.  Several operations take the *)
(* same record out of the accounting, so a gauge may be too low.           *)
GaugesNeverOverstate ==
    /\ acct.regs <= Cardinality(PresentRegs)
    /\ acct.leases <= Cardinality(ActiveLeases)

(* live_buffer_bytes and logical_buffers are exact: the delta that         *)
(* create_buffer applies on a reallocation keeps the sum right, in both    *)
(* directions.                                                             *)
LiveBytesExact ==
    LET LenOf(b) == buffers[b].len IN
    /\ acct.buffers = Cardinality(MadeBuffers)
    /\ acct.live = MapThenSumSet(LenOf, MadeBuffers)

(* The id a call drew in its first critical section is still unused when   *)
(* it comes back to publish: no two calls hold the same one, none is in    *)
(* the table, and no later draw can return it (registry.cpp:274, 351).     *)
CommitNeverOverwrites ==
    /\ \A r \in PresentRegs : r < next.reg
    /\ \A t \in Registering : call[t].reg < next.reg /\ ~Present(call[t].reg)
    /\ \A t, u \in Registering : call[t].reg = call[u].reg => t = u

(* A registration in force has a usable key, so rotate_key never brings a  *)
(* revoked key back (registry.cpp:709-716).                                *)
InForceKeyAlive == \A r \in RegIds : InForce(r) => ~regs[r].keyRevoked

(* A registration that stopped granting access never grants it again, and  *)
(* neither its key generation nor its revocation is taken back while it is *)
(* in the table: nothing revives a revoked, superseded or failed record.   *)
NeverRevives ==
    [][\A r \in RegIds :
          Present(r) /\ Present(r)' =>
             /\ InForce(r)' => InForce(r)
             /\ regs[r].keyGen <= regs'[r].keyGen
             /\ regs[r].keyRevoked => regs'[r].keyRevoked
             /\ regs[r].fresh # "VALID" => regs'[r].fresh # "VALID"]_vars

(* can_transition, which no operation consults, against what the          *)
(* operations do.  A critical section shows the first and the last of the  *)
(* lifecycles it assigns.  register_buffer assigns REGISTERING to the      *)
(* record among its locals and ACTIVE when it publishes it, revoke assigns *)
(* REVOKING before REVOKED (registry.cpp:293, 666, 672), and deregister    *)
(* DEREGISTERED before it erases; every other operation assigns one.       *)
Via(from, via, to) == CanTransition(from, via) /\ CanTransition(via, to)

RevokedNow(r) == \E mode \in RevocationModes : Revoke(r, mode)

GuardedMove(r) ==
    LET from == regs[r].life
        to   == regs'[r].life
    IN  CASE ~Present(r)  -> Via("UNREGISTERED", "REGISTERING", to)
          [] ~Present(r)' -> CanTransition(from, "DEREGISTERED")
          [] OTHER        -> \/ CanTransition(from, to)
                             \/ RevokedNow(r) /\ Via(from, "REVOKING", to)

DestroyedWithDomain(r) ==
    /\ regs'[r].life = "REVOKED"
    /\ \E p \in DomainIds : DestroyProtectionDomain(p) /\ r \in RegsOfDomain(p)

(* One operation departs from can_transition: destroy_protection_domain    *)
(* takes the ACTIVE registrations of its domain to REVOKED in a single     *)
(* assignment (registry.cpp:141).  Every other assignment of a lifecycle,  *)
(* whatever two callers do to one record between their critical sections,  *)
(* is along an edge of it.  This is said of a process that has recovered   *)
(* nothing: recover puts records back as REVALIDATION_REQUIRED over what   *)
(* there was, and deregister takes them to DEREGISTERING (752).            *)
OnlyDestructionUnguarded ==
    [][\A r \in RegIds : regs[r].life # regs'[r].life =>
          GuardedMove(r) \/ DestroyedWithDomain(r)]_vars

(* The registry implements the promise of KeyAuthority.                    *)
PhaseOf(r) ==
    IF Present(r) THEN IF InForce(r) THEN "open" ELSE "closed"
    ELSE IF r < next.reg /\ \A t \in Registering : call[t].reg # r THEN "gone"
    ELSE "none"

Promise == INSTANCE KeyAuthority WITH
    Registrations <- RegIds,
    Leases <- LeaseIds,
    phase <- [r \in RegIds |-> PhaseOf(r)],
    keyGen <- [r \in RegIds |-> regs[r].keyGen],
    holders <- [r \in RegIds |-> LeasesOn(r, Outstanding)],
    issued <- {l \in LeaseIds : l < next.lease}

(* Under the mapping every step of the registry is a step of KeyAuthority  *)
(* or leaves it alone: a registration moves only forward, only an open one *)
(* takes a holder, a lease id is issued once, and a registration goes only *)
(* when nobody holds it.                                                   *)
ImplementsKeyAuthority == Promise!Spec

(* A call that was admitted comes back: the second critical section is     *)
(* reached whatever the other threads and the device do meanwhile.         *)
CallsReturn == \A t \in Threads : ~Idle(t) ~> Idle(t)

(* A record does not stay DEREGISTERING: deregister either takes it out of *)
(* the table or marks it FAILED.                                           *)
DeregisterSettles ==
    \A r \in RegIds :
        (regs[r].life = "DEREGISTERING") ~> (regs[r].life # "DEREGISTERING")

------------------------------------------------------------------------------
(* Properties of callers that do not overlap.                              *)

(* At most one registration of a buffer is in force, and it is the one the *)
(* slot names.  Two overlapping register_buffer calls break it: both find  *)
(* the slot empty.                                                         *)
SingleFlight == \A r \in RegIds : InForce(r) => slot[regs[r].desc.buf] = r

(* A registration in force is of the buffer's current generation and in a  *)
(* protection domain that is ACTIVE: create_buffer and                     *)
(* destroy_protection_domain reach every registration they supersede.      *)
(* They cannot reach one that is still among the locals of a call.         *)
InForceIsCurrent ==
    \A r \in RegIds : InForce(r) =>
        /\ buffers[regs[r].desc.buf].gen = regs[r].desc.gen
        /\ domains[regs[r].dom] = "ACTIVE"

(* Two records in the table never share a backend handle.  Two overlapping *)
(* calls can read the same next_seq_.                                      *)
HandlesDistinct ==
    \A r1, r2 \in PresentRegs : regs[r1].handle = regs[r2].handle => r1 = r2

(* The backend advertises the key generation the registry has of a         *)
(* registration in force, and its own is never behind it.  It is ahead     *)
(* while the backend waits for a revalidation; the converse is false,      *)
(* since revalidate takes the mark away and leaves the key where the       *)
(* rollover put it (synthetic_backend.cpp:250, 293).                       *)
KeysAgree ==
    \A r \in RegIds : InForce(r) /\ LiveEntry(regs[r].handle) =>
        LET entry == entries[regs[r].handle] IN
        /\ entry.advertised = regs[r].keyGen
        /\ regs[r].keyGen <= entry.keyGen
        /\ entry.revalidate => regs[r].keyGen < entry.keyGen

(* How they part and come together again: the backend's generation leaves  *)
(* the registry's only when the transport rolls over, and while the        *)
(* registration stays in force only a rotation brings the two together.    *)
(* No revalidation, reconfiguration or other rollover does, so the key     *)
(* its holders were given before the rollover is not good again.           *)
SameKey(r) == regs[r].keyGen = entries[regs[r].handle].keyGen

KeptWithEntry(r) == InForce(r) /\ LiveEntry(regs[r].handle)

KeysPartAtRollover ==
    [][\A r \in RegIds :
          KeptWithEntry(r) /\ KeptWithEntry(r)' /\ SameKey(r) # SameKey(r)' =>
             IF SameKey(r)
             THEN device'.transport > device.transport
             ELSE regs'[r].keyGen > regs[r].keyGen]_vars

(* A held registration is still registered in the backend, unless the      *)
(* backend has been restarted or rolled over since.                        *)
LeasedRegionIsLive ==
    \A r \in PresentRegs :
        regs[r].leases > 0 /\ regs[r].bgen = device.backend
            => LiveEntry(regs[r].handle)

(* What an ALLOW of validate_remote_access is worth: the authority that    *)
(* was presented is current in epoch, boot and owner (a larger generation  *)
(* is not a newer one, authority.hpp:95), the key is not revoked, the      *)
(* buffer generation the registration was made for is the current one, the *)
(* protection domain is alive, the record is the one the slot names, and   *)
(* the backend of its generation still holds the entry, with that right    *)
(* and with the bytes accessed inside what was registered.  That is the    *)
(* descriptor's length: register_buffer compares the descriptor with the   *)
(* created buffer by generation only (registry.cpp:252), never by length.  *)
AllowedMeansCurrent ==
    \A q \in Requests : Allowed(q) =>
        LET rec == regs[q.reg]
            buf == buffers[rec.desc.buf]
        IN  /\ AuthorityCurrent(authority, q.env)
            /\ q.env.owner = authority.owner
            /\ q.env.ownerGen # 0 /\ authority.ownerGen # 0
                  => OwnerCurrent(authority, q.env)
            /\ ~rec.keyRevoked
            /\ slot[rec.desc.buf] = q.reg
            /\ buf.gen = rec.desc.gen
            /\ domains[rec.dom] = "ACTIVE"
            /\ rec.bgen = device.backend
            /\ LiveEntry(rec.handle)
            /\ entries[rec.handle].len = rec.desc.len
            /\ q.offset + q.length <= rec.desc.len
            /\ IntrinsicRight(q.kind) \in entries[rec.handle].rights \cap profile.remote

(* A reuse hit names a registration made under the worker boot that is     *)
(* current now, of the current buffer generation, in a live domain: a      *)
(* restart of the participant ends reuse even though no record is touched. *)
ReuseOnlyCurrent ==
    \A d \in Descriptors, p \in DomainIds, env \in Envelopes : ReuseHit(d, p, env) =>
        LET rec == regs[slot[d.buf]] IN
        /\ rec.boot = authority.boot
        /\ buffers[d.buf].gen = rec.desc.gen
        /\ domains[p] = "ACTIVE"
        /\ rec.dom = p

(* Nothing current is turned away: a request whose expectations match a    *)
(* registration in force, made under the device generation of now, within  *)
(* its rights and its bytes, is allowed, unless a transport rollover has   *)
(* moved the backend's key on since the last rotation.  The backend then   *)
(* refuses what the registry holds current, revalidated or not; it has no  *)
(* other quarrel with the registry.                                        *)
CurrentMeansAllowed ==
    \A q \in Requests :
        LET rec == regs[q.reg] IN
        (/\ Present(q.reg) /\ InForce(q.reg)
         /\ attached
         /\ ValidateAuthority(authority, q.env) = "ALLOW"
         /\ q.regGen \in {0, RegistrationGeneration}
         /\ q.bufGen \in {0, rec.desc.gen}
         /\ q.keyGen \in {0, rec.keyGen}
         /\ q.backend \in {0, TheBackend}
         /\ q.transport = 0
         /\ q.dom \in {0, rec.dom}
         /\ rec.bgen = device.backend
         /\ entries[rec.handle].keyGen = rec.keyGen
         /\ q.rights \cup {IntrinsicRight(q.kind)} \subseteq rec.desc.rights
         /\ IntrinsicRight(q.kind) \in profile.remote
         /\ q.offset + q.length <= rec.desc.len)
            => Allowed(q)

------------------------------------------------------------------------------
(* What the repository says and the code does not do.                      *)

(* README.md:206-208: "Duplicate release/deregister never double           *)
(* decrements.  Final teardown closes all live/pinned/registered/leased    *)
(* counters to zero."                                                      *)
TeardownReachesZero ==
    PresentRegs = {} => acct.regs = 0 /\ acct.bytes = 0 /\ acct.pinned = 0

(* registry.cpp:686-687: "keep key material until leases drain (modelled   *)
(* as REVOKING until lease_count reaches 0)".                              *)
SoftRevokeCompletes ==
    \A r \in RegIds :
        (regs[r].life = "REVOKING" /\ regs[r].leases = 0)
            ~> (regs[r].life # "REVOKING")

(* README.md:97-102: a remote key is bound to the buffer generation, and   *)
(* "A stale remote key never regains validity after ... memory             *)
(* reallocation": no access is allowed through a registration of a buffer  *)
(* generation that has been superseded.                                    *)
NoAccessAfterReallocation ==
    \A q \in Requests :
        Allowed(q) => buffers[regs[q.reg].desc.buf].gen = regs[q.reg].desc.gen

(* README.md:100-102: "A stale remote key never regains validity after ... *)
(* process/owner restart, epoch rollover": a registration made under an    *)
(* older epoch or worker boot allows no access.                            *)
NoAccessAfterRestart ==
    \A q \in Requests :
        Allowed(q) => /\ regs[q.reg].boot = authority.boot
                      /\ regs[q.reg].epoch = authority.epoch
==============================================================================

--------------------------- MODULE SyntheticBackend ---------------------------
(***************************************************************************)
(* The synthetic RDMA backend (src/synthetic_backend.cpp): its capability  *)
(* profile, its device generations and its table of live registrations.    *)
(* The backend takes no lock of its own.  The registry calls the register  *)
(* and deregister operations outside its mutex, so the register operation  *)
(* is given here in its two observable halves: the region number is read   *)
(* from next_seq_, and later next_seq_ is advanced and the entry stored.   *)
(***************************************************************************)
EXTENDS BufferModel

CONSTANTS
    MaxSeq,          \* bound: region numbers 1 .. MaxSeq
    MaxDeviceGen,    \* bound on the backend, transport and NIC generations
    Profiles         \* capability profiles a run configures

ASSUME BackendAssumption ==
    /\ MaxSeq \in Nat \ {0}
    /\ MaxDeviceGen \in Nat \ {0}
    /\ Profiles # {}
    /\ \A p \in Profiles :
          /\ p.domains \subseteq MemoryDomains
          /\ p.remote \subseteq {"REMOTE_READ", "REMOTE_WRITE", "REMOTE_ATOMIC"}
          /\ p.align \in Nat

VARIABLES
    profile,         \* supported memory domains, supported remote rights and
                     \* required alignment
    device,          \* the backend, transport and NIC generations
    nextSeq,         \* next_seq_
    entries          \* entries_, by the number the handle string is made from

backendVars == <<profile, device, nextSeq, entries>>

(* memory_region_id, and the handle string made from it, are an injective  *)
(* function of next_seq_: the region number stands for both.  0 is the     *)
(* empty handle of a record the backend knows nothing of.                  *)
Handles == 1 .. MaxSeq

(* An entry of entries_.  e.revoked is left out: nothing sets it to true.  *)
Entry ==
    [live : BOOLEAN, len : Nat, rights : SUBSET AccessRights, keyGen : Nat,
     advertised : Nat, revalidate : BOOLEAN]

NoEntry ==
    [live |-> FALSE, len |-> 0, rights |-> {}, keyGen |-> 0, advertised |-> 0,
     revalidate |-> FALSE]

DeviceGenerations == [backend : Nat, transport : Nat, nic : Nat]

BackendTypeOK ==
    /\ profile \in Profiles
    /\ device \in DeviceGenerations
    /\ nextSeq \in Nat \ {0}
    /\ entries \in [Handles -> Entry]

BackendInit ==
    /\ profile \in Profiles
    /\ device = [backend |-> 1, transport |-> 1, nic |-> 1]
    /\ nextSeq = 1
    /\ entries = [h \in Handles |-> NoEntry]

LiveEntry(h) == h \in Handles /\ entries[h].live

------------------------------------------------------------------------------
(* Queries.                                                                *)

Supports(right) == right \in profile.remote

RemoteRights == {"REMOTE_READ", "REMOTE_WRITE", "REMOTE_ATOMIC"}

(* can_register, the empty string read as "OK".                            *)
CanRegister(d) ==
    IF d.mem \notin profile.domains THEN "DOMAIN_UNSUPPORTED"
    ELSE IF ValidateRange(d) # "OK" THEN ValidateRange(d)
    ELSE IF /\ profile.align # 0
            /\ \/ d.align % profile.align # 0
               \/ profile.align % d.align # 0
    THEN "ALIGNMENT_INCOMPATIBLE"
    ELSE IF ~(d.rights \cap RemoteRights \subseteq profile.remote)
    THEN "REMOTE_RIGHT_UNSUPPORTED"
    ELSE "OK"

(* query_remote_access: is (handle, key generation) good for this access?  *)
QueryRemoteAccess(h, keyGen, kind, offset, length) ==
    IF ~LiveEntry(h) THEN "REJECT_NOT_REGISTERED"
    ELSE IF entries[h].revalidate THEN "REJECT_STALE_REGISTRATION"
    ELSE IF keyGen # entries[h].keyGen THEN "REJECT_STALE_KEY"
    ELSE IF ~BackendRangeInside(entries[h].len, offset, length) THEN "REJECT_RANGE"
    ELSE IF ~Supports(IntrinsicRight(kind)) THEN "REJECT_UNKNOWN_CAPABILITY"
    ELSE IF IntrinsicRight(kind) \notin entries[h].rights THEN "REJECT_PERMISSION"
    ELSE "ALLOW"

(* simulate_remote scans for a live entry with the expected key generation *)
(* and asks query_remote_access with the keys that entry advertises.  The  *)
(* scan picks the least handle string, in an order region numbers do not   *)
(* follow, so every candidate is a possible pick.                          *)
SimulateCandidates(expected) ==
    {h \in Handles : LiveEntry(h) /\ ~entries[h].revalidate /\ entries[h].keyGen = expected}

SimulateRemote(kind, offset, length, expected) ==
    IF SimulateCandidates(expected) = {} THEN {"REJECT_STALE_KEY"}
    ELSE {QueryRemoteAccess(h, entries[h].advertised, kind, offset, length) :
             h \in SimulateCandidates(expected)}

------------------------------------------------------------------------------
(* register_buffer.                                                        *)

(* The entry a registration of d creates.                                  *)
EntryFor(d) ==
    [live |-> TRUE, len |-> d.len, rights |-> d.rights, keyGen |-> 1,
     advertised |-> 1, revalidate |-> FALSE]

(* Second half: next_seq_ is advanced and the entry stored under the       *)
(* region number read in the first half.  Two unsynchronised increments    *)
(* may both start from the same value, so the counter ends one past what   *)
(* it holds now or one past what this call read.                           *)
BackendStore(seq, d) ==
    /\ \E base \in {nextSeq, seq} : nextSeq' = base + 1
    /\ entries' = [entries EXCEPT ![seq] = EntryFor(d)]
    /\ UNCHANGED <<profile, device>>

(* deregister_buffer and abort_registration drop a live entry; on an       *)
(* unknown handle they report NOT_FOUND and change nothing.                *)
BackendKeep(h) == LiveEntry(h) /\ UNCHANGED backendVars   \* mutant: not dropped
BackendDrop(h) ==
    /\ LiveEntry(h)
    /\ entries' = [entries EXCEPT ![h] = NoEntry]
    /\ UNCHANGED <<profile, device, nextSeq>>

(* rotate_key: the caller's generation is stored as given, and the entry   *)
(* no longer needs revalidation.  Unknown handles are ignored.             *)
RotatedKeyOnly(h, keyGen) ==                       \* mutant: entry keeps its key
    IF LiveEntry(h)
    THEN [entries EXCEPT ![h].advertised = keyGen, ![h].revalidate = FALSE]
    ELSE entries
RotatedMarkKept(h, keyGen) ==                      \* mutant: the mark stays
    IF LiveEntry(h)
    THEN [entries EXCEPT ![h].keyGen = keyGen, ![h].advertised = keyGen]
    ELSE entries
RotatedEntries(h, keyGen) ==
    IF LiveEntry(h)
    THEN [entries EXCEPT ![h].keyGen = keyGen, ![h].advertised = keyGen,
                         ![h].revalidate = FALSE]
    ELSE entries

BackendRotate(h, keyGen) ==
    /\ entries' = RotatedEntries(h, keyGen)
    /\ UNCHANGED <<profile, device, nextSeq>>

(* revalidate: the mark goes, the key generation stays where a rollover    *)
(* put it.                                                                 *)
BackendRevalidateRestores(h) ==                    \* mutant: the old key back
    /\ LiveEntry(h)
    /\ entries' = [entries EXCEPT ![h].revalidate = FALSE,
                                  ![h].keyGen = entries[h].advertised]
    /\ UNCHANGED <<profile, device, nextSeq>>
BackendRevalidate(h) ==
    /\ LiveEntry(h)
    /\ entries' = [entries EXCEPT ![h].revalidate = FALSE]
    /\ UNCHANGED <<profile, device, nextSeq>>

(* The configure_* setters, seen as a change to another profile.           *)
Configure(p) ==
    /\ p # profile
    /\ profile' = p
    /\ UNCHANGED <<device, nextSeq, entries>>

(* rollover_backend_generation / advance_backend_generation.               *)
RolloverBackend ==
    /\ device.backend < MaxDeviceGen
    /\ device' = [device EXCEPT !.backend = @ + 1]
    /\ UNCHANGED <<profile, nextSeq, entries>>

(* rollover_transport_generation: every live entry must be revalidated and *)
(* its key generation moves on; the keys it advertises are not touched.    *)
RolledMarkOnly(e) == [e EXCEPT !.revalidate = TRUE]       \* mutant: key kept
Rolled(e) == [e EXCEPT !.revalidate = TRUE, !.keyGen = @ + 1]

RolloverTransport ==
    /\ device.transport < MaxDeviceGen
    /\ device' = [device EXCEPT !.transport = @ + 1]
    /\ entries' = [h \in Handles |->
                      IF LiveEntry(h) THEN Rolled(entries[h]) ELSE entries[h]]
    /\ UNCHANGED <<profile, nextSeq>>

(* rollover_nic_generation.                                                *)
RolloverNic ==
    /\ device.nic < MaxDeviceGen
    /\ device' = [device EXCEPT !.nic = @ + 1]
    /\ UNCHANGED <<profile, nextSeq, entries>>

(* simulate_backend_restart: the handle namespace is gone, region numbers  *)
(* go on from where they were.                                             *)
NumbersFromOne == 1                                \* mutant: numbering restarts
NumbersAfterRestart == nextSeq

RestartBackend ==
    /\ device.backend < MaxDeviceGen
    /\ device.transport < MaxDeviceGen
    /\ device.nic < MaxDeviceGen
    /\ device' = [backend |-> device.backend + 1,
                  transport |-> device.transport + 1,
                  nic |-> device.nic + 1]
    /\ entries' = [h \in Handles |-> NoEntry]
    /\ nextSeq' = NumbersAfterRestart
    /\ UNCHANGED profile

(* The calls any holder of the backend makes beside the one whose          *)
(* registrations it keeps: scenario, configuration and revalidation.       *)
BackendEvent ==
    \/ \E h \in Handles : BackendRevalidate(h)
    \/ RolloverBackend
    \/ RolloverTransport
    \/ RolloverNic
    \/ RestartBackend
    \/ \E p \in Profiles : Configure(p)
==============================================================================

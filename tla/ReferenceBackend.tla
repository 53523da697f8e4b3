--------------------------- MODULE ReferenceBackend ---------------------------
(***************************************************************************)
(* The reference TCP backend (src/reference_backend.cpp) and its table of  *)
(* live registrations, one call at a time.  What it can do is fixed: it    *)
(* has no generations that roll over under its registrations, and no       *)
(* remote atomics.                                                         *)
(***************************************************************************)
EXTENDS BufferModel

CONSTANTS
    MaxRegions,      \* bound: regions 1 .. MaxRegions
    MaxRefKey,       \* bound: key generations reached by rotation
    MaxRefGen,       \* bound on the backend generation
    RefOffered,      \* descriptors that are registered
    RefProbes        \* the accesses asked of query_remote_access

ASSUME ReferenceAssumption ==
    /\ MaxRegions \in Nat /\ MaxRefKey \in Nat /\ MaxRefGen \in Nat
    /\ RefOffered \subseteq Descriptor
    /\ \A d \in RefOffered : d.len \in Word
    /\ RefProbes \subseteq [kind : OperationKinds, offset : Word, length : Word,
                           expected : Nat]

VARIABLES
    refGeneration,   \* backend_gen_
    refNext,         \* next_seq_
    regions          \* entries_, by the number the handle string is made from

refVars == <<refGeneration, refNext, regions>>

RefHandles == 1 .. MaxRegions

(* e.revoked is left out: nothing sets it to true.                         *)
NoRegion == [live |-> FALSE, len |-> 0, rights |-> {}, keyGen |-> 0]

ReferenceInit ==
    /\ refGeneration = 1
    /\ refNext = 1
    /\ regions = [h \in RefHandles |-> NoRegion]

(* capabilities.                                                           *)
ReferenceDomains == {"HOST_PAGEABLE", "HOST_PINNED", "SHARED_MEMORY", "FILE_BACKED"}

(* can_register, the empty string read as "OK".  The required alignment    *)
(* the capabilities report is not compared with the buffer's.              *)
AcceptsAtomics(d) ==                               \* mutant: atomics not refused
    IF d.mem \notin ReferenceDomains THEN "DOMAIN_UNSUPPORTED" ELSE ValidateRange(d)
ReferenceCanRegister(d) ==
    IF d.mem \notin ReferenceDomains THEN "DOMAIN_UNSUPPORTED"
    ELSE IF ValidateRange(d) # "OK" THEN ValidateRange(d)
    ELSE IF "REMOTE_ATOMIC" \in d.rights THEN "REMOTE_ATOMIC_UNSUPPORTED"
    ELSE "OK"

ReferenceRegister(d) ==
    /\ ReferenceCanRegister(d) = "OK"
    /\ refNext \in RefHandles
    /\ regions' = [regions EXCEPT ![refNext] =
                      [live |-> TRUE, len |-> d.len, rights |-> d.rights, keyGen |-> 1]]
    /\ refNext' = refNext + 1
    /\ UNCHANGED refGeneration

(* deregister_buffer and abort_registration; NOT_FOUND changes nothing.    *)
LastNumberAgain(h) ==                              \* mutant: the number is freed
    /\ regions[h].live
    /\ regions' = [regions EXCEPT ![h] = NoRegion]
    /\ refNext' = h
    /\ UNCHANGED refGeneration
ReferenceDrop(h) ==
    /\ regions[h].live
    /\ regions' = [regions EXCEPT ![h] = NoRegion]
    /\ UNCHANGED <<refGeneration, refNext>>

(* rotate_key, called with the generation after the one the holder knows.  *)
ReferenceRotate(h) ==
    /\ regions[h].live
    /\ regions[h].keyGen < MaxRefKey
    /\ regions' = [regions EXCEPT ![h].keyGen = @ + 1]
    /\ UNCHANGED <<refGeneration, refNext>>

(* advance_backend_generation touches no registration.                     *)
ReferenceAdvance ==
    /\ refGeneration < MaxRefGen
    /\ refGeneration' = refGeneration + 1
    /\ UNCHANGED <<refNext, regions>>

(* query_remote_access.                                                    *)
ReferenceQuery(h, keyGen, kind, offset, length) ==
    IF ~regions[h].live THEN "REJECT_NOT_REGISTERED"
    ELSE IF keyGen # regions[h].keyGen THEN "REJECT_STALE_KEY"
    ELSE IF ~BackendRangeInside(regions[h].len, offset, length) THEN "REJECT_RANGE"
    ELSE IF kind = "ATOMIC_COMPARE_SWAP" THEN "REJECT_UNKNOWN_CAPABILITY"
    ELSE IF IntrinsicRight(kind) \notin regions[h].rights THEN "REJECT_PERMISSION"
    ELSE "ALLOW"

(* query_remote_access, query_registration and revalidate only look.       *)
ReferenceAnswer == UNCHANGED refVars

ReferenceNext ==
    \/ \E d \in RefOffered : ReferenceRegister(d)
    \/ \E h \in RefHandles : ReferenceDrop(h) \/ ReferenceRotate(h)
    \/ ReferenceAdvance
    \/ ReferenceAnswer

ReferenceSpec == ReferenceInit /\ [][ReferenceNext]_refVars

------------------------------------------------------------------------------
(* Properties.                                                             *)

ReferenceContract == INSTANCE BackendContract WITH
    Handles <- RefHandles,
    phase <- [h \in RefHandles |->
                 IF regions[h].live THEN "live"
                 ELSE IF h < refNext THEN "gone" ELSE "none"],
    told <- [h \in RefHandles |-> regions[h].keyGen],
    opens <- [h \in RefHandles |-> regions[h].live]

(* The reference backend keeps the contract of every backend: no handle    *)
(* comes back after a release or an abort, and the key its holder knows    *)
(* keeps opening the registration until then (reference_backend.cpp:67-69, *)
(* 96-103, 164-185).                                                       *)
ReferenceHonoursContract == ReferenceContract!ContractSpec

(* What can_register let in can be used, and nothing else can: an access   *)
(* is allowed exactly when the handle is live, the key is the current one, *)
(* the bytes lie inside what was registered and the right was asked for    *)
(* then.  No right is granted that query_remote_access turns away          *)
(* (reference_backend.cpp:48-58, 115-153).                                 *)
ReferenceAllowsExactly ==
    \A h \in RefHandles, p \in RefProbes :
        ReferenceQuery(h, p.expected, p.kind, p.offset, p.length) = "ALLOW"
            <=> /\ regions[h].live
                /\ p.expected = regions[h].keyGen
                /\ p.offset + p.length <= regions[h].len
                /\ IntrinsicRight(p.kind) \in regions[h].rights
==============================================================================

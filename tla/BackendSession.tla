---------------------------- MODULE BackendSession ----------------------------
(***************************************************************************)
(* The synthetic backend used on its own, one call at a time, through the  *)
(* whole of the IBackend contract (include/rdmabuffer/backend.hpp): the    *)
(* operations the registry never calls, revalidate, abort_registration and *)
(* simulate_remote, included.                                              *)
(***************************************************************************)
EXTENDS SyntheticBackend

CONSTANTS
    Offered,         \* descriptors that are registered
    MaxBackendKey,   \* bound: key generations reached by rotation
    Probes           \* the accesses asked of simulate_remote

ASSUME SessionAssumption ==
    /\ Offered \subseteq Descriptor
    /\ \A d \in Offered : d.len \in Word
    /\ \A p \in Probes : p.offset \in Word /\ p.length \in Word
    /\ MaxBackendKey \in Nat

(* register_buffer in one piece: next_seq_ is what the call itself read.   *)
BackendRegister(d) ==
    /\ CanRegister(d) = "OK"
    /\ nextSeq \in Handles
    /\ BackendStore(nextSeq, d)

(* rotate_key as its one caller uses it: the new generation is the next    *)
(* one after the generation the holder of the registration was given.      *)
RotateAdvertised(h) ==
    /\ LiveEntry(h)
    /\ entries[h].advertised < MaxBackendKey
    /\ BackendRotate(h, entries[h].advertised + 1)

SessionNext ==
    \/ \E d \in Offered : BackendRegister(d)
    \/ \E h \in Handles :
          \/ BackendDrop(h)
          \/ RotateAdvertised(h)
    \/ BackendEvent

SessionSpec == BackendInit /\ [][SessionNext]_backendVars

------------------------------------------------------------------------------
(* Properties.                                                             *)

(* The generation h's holder was given opens the entry.                    *)
KeyGood(h) ==
    LiveEntry(h) /\ ~entries[h].revalidate
                 /\ entries[h].advertised = entries[h].keyGen

SyntheticContract == INSTANCE BackendContract WITH
    phase <- [h \in Handles |->
                 IF LiveEntry(h) THEN "live" ELSE IF h < nextSeq THEN "gone" ELSE "none"],
    told <- [h \in Handles |-> entries[h].advertised],
    opens <- [h \in Handles |-> KeyGood(h)]

(* The synthetic backend keeps the contract of every backend.  A key that  *)
(* a transport rollover made stale stays stale until it is rotated to a    *)
(* larger generation, however often the entry is revalidated and whatever  *)
(* rolls over or is reconfigured in between; and a handle is issued once:  *)
(* after a release, an abort or a backend restart no later registration    *)
(* brings it back (synthetic_backend.cpp:126-127, 244-253, 287-308).       *)
SyntheticHonoursContract == SyntheticContract!ContractSpec

(* simulate_remote, which finds an entry by key generation alone, performs *)
(* an access only where some entry really permits it: a good key, bytes    *)
(* inside what was registered, and a right that was granted and that the   *)
(* device supports now.                                                    *)
SimulationIsAuthorised ==
    \A p \in Probes :
        "ALLOW" \in SimulateRemote(p.kind, p.offset, p.length, p.expected) =>
            \E h \in Handles :
                /\ KeyGood(h)
                /\ entries[h].keyGen = p.expected
                /\ p.offset + p.length <= entries[h].len
                /\ IntrinsicRight(p.kind) \in entries[h].rights \cap profile.remote
==============================================================================

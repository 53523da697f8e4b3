------------------------------ MODULE RdmaTypes ------------------------------
(***************************************************************************)
(* The enumerations of include/rdmabuffer/enums.hpp that the other modules *)
(* branch on, and the guarded transition table of registration.hpp.        *)
(***************************************************************************)
EXTENDS Naturals, FiniteSets

(* RegistrationLifecycle.  A registration id that is not a key of the      *)
(* registry's table reads as UNREGISTERED.                                 *)
Lifecycles ==
    {"UNREGISTERED", "REGISTERING", "REGISTERED", "ACTIVE", "REVOKING",
     "REVOKED", "DEREGISTERING", "DEREGISTERED", "FAILED", "STALE",
     "REVALIDATION_REQUIRED"}

Freshnesses == {"VALID", "REVALIDATION_REQUIRED", "STALE", "UNKNOWN"}

(* LeaseState; ABSENT stands for a lease id that is not in the table.      *)
LeaseStates == {"ABSENT", "PENDING", "ACTIVE", "RELEASED", "REVOKED"}

(* DomainState; ABSENT stands for an id that is not in the table.          *)
DomainStates == {"ABSENT", "CREATED", "ACTIVE", "DESTROYING", "DESTROYED"}

MemoryDomains ==
    {"HOST_PAGEABLE", "HOST_PINNED", "CUDA_DEVICE", "CUDA_MANAGED",
     "SHARED_MEMORY", "FILE_BACKED", "SYNTHETIC_REMOTE_CAPABLE", "UNKNOWN"}

(* An AccessMask is the set of its AccessRight bits.                       *)
AccessRights ==
    {"LOCAL_READ", "LOCAL_WRITE", "REMOTE_READ", "REMOTE_WRITE",
     "REMOTE_ATOMIC"}

OperationKinds == {"READ", "WRITE", "ATOMIC_COMPARE_SWAP"}

RevocationModes == {"SOFT_REVOKE", "HARD_REVOKE"}

(* The right an operation needs whatever the request asks for.             *)
IntrinsicRight(kind) ==
    [READ |-> "REMOTE_READ", WRITE |-> "REMOTE_WRITE",
     ATOMIC_COMPARE_SWAP |-> "REMOTE_ATOMIC"][kind]

AccessSuperset(granted, requested) == requested \subseteq granted

(* can_transition: the table of permitted lifecycle changes.               *)
Successors ==
    [s \in Lifecycles |->
        CASE s = "UNREGISTERED"  -> {"REGISTERING"}
          [] s = "REGISTERING"   -> {"REGISTERED", "ACTIVE", "FAILED", "UNREGISTERED"}
          [] s = "REGISTERED"    -> {"ACTIVE", "DEREGISTERING", "REVOKING", "STALE",
                                     "REVALIDATION_REQUIRED"}
          [] s = "ACTIVE"        -> {"REVOKING", "DEREGISTERING", "STALE",
                                     "REVALIDATION_REQUIRED"}
          [] s = "REVOKING"      -> {"REVOKED", "DEREGISTERING", "DEREGISTERED", "FAILED"}
          [] s = "REVOKED"       -> {"DEREGISTERING", "DEREGISTERED"}
          [] s = "DEREGISTERING" -> {"DEREGISTERED", "FAILED"}
          [] s = "DEREGISTERED"  -> {}
          [] s = "FAILED"        -> {"UNREGISTERED", "DEREGISTERED"}
          [] s = "STALE"         -> {"REVALIDATION_REQUIRED", "DEREGISTERING", "DEREGISTERED"}
          [] OTHER               -> {"REGISTERING", "DEREGISTERED"}]

CanTransition(from, to) == to \in Successors[from]
==============================================================================

----------------------------- MODULE BufferModel -----------------------------
(***************************************************************************)
(* Range arithmetic on buffer descriptors (include/rdmabuffer/             *)
(* buffer_model.hpp) over machine words of WordModulus values.  Addresses  *)
(* and lengths are words, so a sum that leaves 0 .. WordModulus-1 wraps;   *)
(* the code must notice before it does.                                    *)
(***************************************************************************)
EXTENDS Naturals, RdmaTypes

CONSTANT WordModulus      \* 2^64 in the code, small in a run

ASSUME WordAssumption == WordModulus \in Nat \ {0}

Word == 0 .. WordModulus - 1

(* What the registry reads of a BufferDescriptor.  buf = 0 is the invalid  *)
(* BufferId, which asks create_buffer to choose one.                       *)
Descriptor ==
    [buf : Nat, gen : Nat, mem : MemoryDomains, base : Nat, len : Nat,
     align : Nat, rights : SUBSET AccessRights]

(* A default-constructed descriptor.                                       *)
NoDescriptor ==
    [buf |-> 0, gen |-> 0, mem |-> "UNKNOWN", base |-> 0, len |-> 0,
     align |-> 1, rights |-> {}]

WrapAdd(a, b) == (a + b) % WordModulus
WrapSub(a, b) == (a + WordModulus - b) % WordModulus

(* checked_add: refuses exactly when the word sum would wrap.              *)
CheckedAddOk(a, b) == a <= WrapSub(WordModulus - 1, b)

(* validate_range: the first failing check names the verdict.              *)
ValidateRange(d) ==
    IF d.len = 0 THEN "ZERO_LENGTH"
    ELSE IF /\ d.base = 0
            /\ d.mem \notin {"SYNTHETIC_REMOTE_CAPABLE", "FILE_BACKED"}
    THEN "NULL_OR_INVALID_POINTER"
    ELSE IF d.align = 0 THEN "ZERO_ALIGNMENT"
    ELSE IF d.base % d.align # 0 THEN "MISALIGNED_BASE"
    ELSE IF ~CheckedAddOk(d.base, d.len) THEN "OVERFLOW"
    ELSE "OK"

(* range_inside: [offset, offset+length) lies inside the descriptor.       *)
RangeInsideUnchecked(d, offset, length) ==         \* mutant: the sum may wrap
    offset <= d.len /\ WrapAdd(offset, length) <= d.len
RangeInside(d, offset, length) ==
    /\ offset <= d.len
    /\ CheckedAddOk(offset, length)
    /\ WrapAdd(offset, length) <= d.len

(* The backends' own test of the same thing, written with a subtraction    *)
(* (query_remote_access).                                                  *)
BackendRangeWrapping(registeredLen, offset, length) ==    \* mutant: may wrap
    offset <= registeredLen /\ WrapAdd(offset, length) <= registeredLen
BackendRangeInside(registeredLen, offset, length) ==
    /\ offset <= registeredLen
    /\ length <= WrapSub(registeredLen, offset)
==============================================================================

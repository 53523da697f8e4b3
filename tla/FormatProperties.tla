--------------------------- MODULE FormatProperties ---------------------------
(***************************************************************************)
(* parse, put to every file of a bounded set.                              *)
(***************************************************************************)
EXTENDS SaveFormat

CONSTANT FilesAsked      \* files parse is asked about

(* Lists are lists, and what is wrong with a file is one of the things     *)
(* that can be.                                                            *)
IsList(list) == DOMAIN list = 1 .. Len(list) /\ Len(list) \in Nat

ASSUME FormatAssumption ==
    \A file \in FilesAsked :
        /\ file.faults \subseteq Faults /\ file.odd \subseteq Enumerated
        /\ IsList(file.snap.buffers) /\ IsList(file.snap.regs)
        /\ IsList(file.snap.domains)

VARIABLE parsed          \* the file parse looked at last, {} for none

FormatInit == parsed = {}

AskParse == parsed = {} /\ \E file \in FilesAsked : parsed' = {file}

Parsed == parsed # {} /\ parsed' = {}

FormatNext == AskParse \/ Parsed

FormatSpec == FormatInit /\ [][FormatNext]_parsed

(* A file is accepted exactly when it is whole, every enumerated byte that *)
(* is not a backend's capability, nor the provenance of the authority, is  *)
(* a value of its enumeration, no id is listed twice among buffers,        *)
(* registrations or domains, and no buffer or registration has generation  *)
(* zero.  In the other direction: whatever serialize makes of such a state *)
(* is accepted (persistence.hpp:49, "Parse with strict bounds/validation"; *)
(* persistence.cpp:342-458).                                               *)
Distinct(list) == Cardinality({list[i].id : i \in DOMAIN list}) = Len(list)
Positive(list) == \A i \in DOMAIN list : list[i].gen # 0

AcceptsExactlyWellFormed ==
    \A file \in parsed :
        Parse(file) = "OK" <=>
            /\ file.faults = {}
            /\ \A o \in file.odd : o[1] = "authority" \/ o[2] = "capabilities"
            /\ Distinct(file.snap.buffers) /\ Positive(file.snap.buffers)
            /\ Distinct(file.snap.regs) /\ Positive(file.snap.regs)
            /\ Cardinality(Range(file.snap.domains)) = Len(file.snap.domains)
==============================================================================

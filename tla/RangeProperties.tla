---------------------------- MODULE RangeProperties ----------------------------
(***************************************************************************)
(* The pure predicates of buffer_model.hpp, put to every question of a     *)
(* bounded set and compared with reference definitions over the natural    *)
(* numbers, which cannot wrap.                                             *)
(***************************************************************************)
EXTENDS BufferModel

CONSTANT Asked       \* descriptors asked about

ASSUME RangeAssumption ==
    \A d \in Asked : d \in Descriptor /\ d.base \in Word /\ d.len \in Word

VARIABLE question

NoQuestion == [about |-> "nothing"]

RangeInit == question = NoQuestion

AskRange ==
    /\ question = NoQuestion
    /\ \E d \in Asked, offset, length \in Word :
          question' = [about |-> "range", desc |-> d, offset |-> offset,
                       length |-> length]

Answered ==
    /\ question # NoQuestion
    /\ question' = NoQuestion

RangeNext == AskRange \/ Answered

RangeSpec == RangeInit /\ [][RangeNext]_question

(* A descriptor that passes validate_range occupies addresses that exist   *)
(* and starts on its alignment, and range_inside accepts exactly the       *)
(* accesses whose last byte lies inside it, computed without wrapping.     *)
RangeInsideExact ==
    question.about = "range" /\ ValidateRange(question.desc) = "OK" =>
        LET d == question.desc
            fits == question.offset + question.length <= d.len
        IN  /\ d.base + d.len < WordModulus
            /\ d.base % d.align = 0
            /\ RangeInside(d, question.offset, question.length) <=> fits

(* The two bounds checks an access passes, the registry's by addition and  *)
(* the backend's by subtraction, never disagree, not even on a descriptor  *)
(* validate_range refuses.                                                 *)
RangeChecksAgree ==
    question.about = "range" =>
        (RangeInside(question.desc, question.offset, question.length)
            <=> BackendRangeInside(question.desc.len, question.offset,
                                   question.length))
==============================================================================

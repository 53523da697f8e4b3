------------------------------ MODULE Authority ------------------------------
(***************************************************************************)
(* The incarnation-scoped authority check of include/rdmabuffer/           *)
(* authority.hpp.  A snapshot is what the runtime holds to be current, an  *)
(* envelope what a caller presents.  Every field is a natural number and 0 *)
(* is the invalid (absent) value of its type.                              *)
(***************************************************************************)
EXTENDS Naturals

AuthorityFacts ==
    [epoch : Nat, boot : Nat, owner : Nat, ownerGen : Nat, workerGen : Nat,
     node : Nat]

NoAuthority ==
    [epoch |-> 0, boot |-> 0, owner |-> 0, ownerGen |-> 0, workerGen |-> 0,
     node |-> 0]

(* A fact that must be present on both sides and equal.                    *)
MatchesOrNewer(a, b) == a # 0 /\ b # 0 /\ a >= b   \* mutant: larger passes
Matches(a, b) == a # 0 /\ b # 0 /\ a = b

(* A fact that is only compared when both sides carry it.                  *)
MatchesIfKnown(a, b) == a # 0 /\ b # 0 => a = b

IncarnationMatches(snap, boot) == boot # 0 /\ snap.boot = boot

(* authority_current and owner_current, the two narrower predicates.       *)
AuthorityCurrent(snap, env) ==
    /\ IncarnationMatches(snap, env.boot)
    /\ snap.epoch # 0
    /\ snap.epoch = env.epoch

OwnerCurrent(snap, env) ==
    /\ snap.owner # 0
    /\ snap.owner = env.owner
    /\ snap.ownerGen # 0
    /\ snap.ownerGen = env.ownerGen

(* validate_authority: the first stale fact names the outcome.             *)
ValidateAuthority(snap, env) ==
    IF ~Matches(env.epoch, snap.epoch) THEN "REJECT_STALE_EPOCH"
    ELSE IF ~Matches(env.boot, snap.boot) THEN "REJECT_STALE_BOOT"
    ELSE IF /\ Matches(env.owner, snap.owner)
            /\ MatchesIfKnown(env.ownerGen, snap.ownerGen)
            /\ MatchesIfKnown(env.workerGen, snap.workerGen)
            /\ Matches(env.node, snap.node)
    THEN "ALLOW"
    ELSE "REJECT_PERMISSION"
==============================================================================

----------------------------- MODULE KeyAuthority -----------------------------
(***************************************************************************)
(* What the registry promises about the authority a registration confers,  *)
(* with no buffers, domains, threads or devices in sight (README.md,       *)
(* "Registration lifecycle" and "Remote key governance").                  *)
(*                                                                         *)
(* A registration is "none" before it is published, "open" while it grants *)
(* access, "closed" once it was revoked, superseded or is being torn down, *)
(* and "gone" when it left the table.  It moves only forward.  Only an     *)
(* open registration takes a new holder, a lease is issued once, and a     *)
(* registration goes only when nobody holds it.                            *)
(***************************************************************************)
EXTENDS Naturals

CONSTANTS Registrations, Leases

VARIABLES
    phase,       \* registration -> "none" | "open" | "closed" | "gone"
    keyGen,      \* registration -> generation of its remote key, 0 for none
    holders,     \* registration -> leases taken and not released
    issued       \* leases ever issued

authorityVars == <<phase, keyGen, holders, issued>>

Init ==
    /\ phase = [r \in Registrations |-> "none"]
    /\ keyGen = [r \in Registrations |-> 0]
    /\ holders = [r \in Registrations |-> {}]
    /\ issued = {}

Publish(r) ==
    /\ phase[r] = "none"
    /\ phase' = [phase EXCEPT ![r] = "open"]
    /\ keyGen' = [keyGen EXCEPT ![r] = 1]
    /\ UNCHANGED <<holders, issued>>

(* A registration that failed before it was published.                     *)
Abandon(r) ==
    /\ phase[r] = "none"
    /\ phase' = [phase EXCEPT ![r] = "gone"]
    /\ UNCHANGED <<keyGen, holders, issued>>

Rotate(r) ==
    /\ phase[r] = "open"
    /\ keyGen' = [keyGen EXCEPT ![r] = @ + 1]
    /\ UNCHANGED <<phase, holders, issued>>

Hold(r, l) ==
    /\ phase[r] = "open"
    /\ l \notin issued
    /\ holders' = [holders EXCEPT ![r] = @ \cup {l}]
    /\ issued' = issued \cup {l}
    /\ UNCHANGED <<phase, keyGen>>

Release(r, l) ==
    /\ l \in holders[r]
    /\ holders' = [holders EXCEPT ![r] = @ \ {l}]
    /\ UNCHANGED <<phase, keyGen, issued>>

(* Revocation, reallocation, domain teardown or the start of a             *)
(* deregistration closes a set of open registrations at once; a hard       *)
(* revocation also moves the key generation on.                            *)
Close(S) ==
    /\ S # {}
    /\ \A r \in S : phase[r] = "open"
    /\ phase' = [r \in Registrations |-> IF r \in S THEN "closed" ELSE phase[r]]
    /\ \E bumped \in SUBSET S :
          keyGen' = [r \in Registrations |->
                        IF r \in bumped THEN keyGen[r] + 1 ELSE keyGen[r]]
    /\ UNCHANGED <<holders, issued>>

Forget(r) ==
    /\ phase[r] = "closed"
    /\ holders[r] = {}
    /\ phase' = [phase EXCEPT ![r] = "gone"]
    /\ keyGen' = [keyGen EXCEPT ![r] = 0]
    /\ UNCHANGED <<holders, issued>>

Next ==
    \/ \E r \in Registrations :
          \/ Publish(r)
          \/ Abandon(r)
          \/ Rotate(r)
          \/ Forget(r)
          \/ \E l \in Leases : Hold(r, l) \/ Release(r, l)
    \/ \E S \in SUBSET Registrations : Close(S)

Spec == Init /\ [][Next]_authorityVars
==============================================================================

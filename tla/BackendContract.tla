---------------------------- MODULE BackendContract ----------------------------
(***************************************************************************)
(* What a backend promises the holder of a registration handle             *)
(* (include/rdmabuffer/backend.hpp), whatever it keeps to tell good keys   *)
(* from stale ones: a handle is issued once and never comes back, and a    *)
(* key that stopped opening a registration opens it again only as a later  *)
(* generation that the holder has been told.                               *)
(***************************************************************************)
EXTENDS Naturals

CONSTANT Handles

VARIABLES
    phase,       \* handle -> "none" | "live" | "gone"
    told,        \* handle -> the key generation its holder knows, 0 for none
    opens        \* handle -> the generation its holder knows opens it

contractVars == <<phase, told, opens>>

ContractInit ==
    /\ phase = [h \in Handles |-> "none"]
    /\ told = [h \in Handles |-> 0]
    /\ opens = [h \in Handles |-> FALSE]

Issue(h) ==
    /\ phase[h] = "none"
    /\ phase' = [phase EXCEPT ![h] = "live"]
    /\ told' = [told EXCEPT ![h] = 1]
    /\ opens' = [opens EXCEPT ![h] = TRUE]

(* A rotation tells the holder a later generation.                         *)
Rekey(h) ==
    /\ phase[h] = "live"
    /\ told'[h] > told[h]
    /\ told' = [told EXCEPT ![h] = told'[h]]
    /\ opens' = [opens EXCEPT ![h] = TRUE]
    /\ UNCHANGED phase

(* Something happened to the device: some keys are stale now.              *)
Spoil(S) ==
    /\ opens' = [h \in Handles |-> opens[h] /\ h \notin S]
    /\ UNCHANGED <<phase, told>>

(* Released, aborted, or lost with the backend's incarnation.              *)
Return(S) ==
    /\ \A h \in S : phase[h] = "live"
    /\ phase' = [h \in Handles |-> IF h \in S THEN "gone" ELSE phase[h]]
    /\ told' = [h \in Handles |-> IF h \in S THEN 0 ELSE told[h]]
    /\ opens' = [h \in Handles |-> opens[h] /\ h \notin S]

ContractNext ==
    \/ \E h \in Handles : Issue(h) \/ Rekey(h)
    \/ \E S \in SUBSET Handles : Spoil(S) \/ Return(S)

ContractSpec == ContractInit /\ [][ContractNext]_contractVars
==============================================================================

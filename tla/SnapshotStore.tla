---------------------------- MODULE SnapshotStore ----------------------------
(***************************************************************************)
(* What a saved state promises its reader: there is either nothing to read *)
(* or exactly one state, whole, that somebody asked to have saved.         *)
(***************************************************************************)
VARIABLES
    offered,         \* the states somebody asked to have saved
    stored           \* what a reader finds: none of them, or one

StoreInit ==
    /\ stored \in SUBSET offered
    /\ \A s, t \in stored : s = t

Offer == offered \subseteq offered' /\ UNCHANGED stored

(* A state is never stored before it has been offered.                     *)
Replace == \E s \in offered : stored' = {s} /\ UNCHANGED offered

Lose == stored' = {} /\ UNCHANGED offered

StoreSpec == StoreInit /\ [][Offer \/ Replace \/ Lose]_<<offered, stored>>
==============================================================================

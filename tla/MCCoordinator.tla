----------------------------- MODULE MCCoordinator -----------------------------
(***************************************************************************)
(* Values for the constants of Coordinator.                                *)
(***************************************************************************)
EXTENDS CoordinatorProperties

OneThread == {Main}

(* The worker's descriptor (worker.cpp:136-155), its page of bytes scaled  *)
(* down with the word.                                                     *)
WorkerBuffer ==
    [buf |-> 1, gen |-> 1, mem |-> "SYNTHETIC_REMOTE_CAPABLE", base |-> 8,
     len |-> 8, align |-> 8, rights |-> {"REMOTE_READ", "REMOTE_WRITE"}]

Capable ==
    [domains |-> {"SYNTHETIC_REMOTE_CAPABLE", "HOST_PINNED"},
     remote |-> {"REMOTE_READ", "REMOTE_WRITE"}, align |-> 8]
OneProfile == {Capable}

(* The scenario makes its own calls: the sets clients choose from are      *)
(* empty, and so is every bound of an operation it does not make.          *)
Nothing == {}
==============================================================================

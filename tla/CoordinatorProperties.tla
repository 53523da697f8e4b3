------------------------- MODULE CoordinatorProperties -------------------------
(***************************************************************************)
(* What the coordinator's scenario is meant to show, whatever goes wrong   *)
(* with its workers and its connections.                                   *)
(***************************************************************************)
EXTENDS Coordinator

(* No PROOF line comes out as PROOF-FAIL (coordinator.cpp:193, 229, 233,   *)
(* 257, 289): a worker that dies, never starts or sends garbage makes the  *)
(* coordinator stop early, never judge wrongly.                            *)
NoProofFails == coord.failures = 0

(* On every connection and in both directions, recv_frame returns the      *)
(* frames that send_frame was given, in their order and each once          *)
(* (protocol.cpp, the recv_frame of coordinator.cpp:86 and worker.cpp:63). *)
Connections == Workers \X Directions
Channel == INSTANCE FrameChannel WITH
    Channels <- Connections,
    sent <- [c \in Connections |-> wire[c[1]][c[2]].sent],
    got <- [c \in Connections |-> wire[c[1]][c[2]].got]
FramesInOrder == Channel!ChannelSpec

(* What a worker was told stays true of the registry: no two workers share *)
(* a boot, no epoch is ahead of the authority, a worker told that its      *)
(* registration succeeded has one under the boot it was greeted with, of a *)
(* key generation that was reached, and of two such workers at most one    *)
(* still holds the buffer.                                                 *)
Told(w) == workers[w].boot # 0
Holds(w) == workers[w].ok /\ InForce(workers[w].reg)

WorkersKnowTheTruth ==
    /\ \A w \in Workers : Told(w) => workers[w].epoch <= authority.epoch
    /\ \A w \in Workers : workers[w].ok =>
          /\ Present(workers[w].reg)
          /\ regs[workers[w].reg].boot = workers[w].boot
          /\ workers[w].keyGen <= regs[workers[w].reg].keyGen
    /\ \A w1, w2 \in Workers : w1 # w2 =>
          /\ Told(w1) /\ Told(w2) => workers[w1].boot # workers[w2].boot
          /\ ~(Holds(w1) /\ Holds(w2))

(* The coordinator returns from main unless it waits for what nobody will  *)
(* send: a connection of a worker that is not there (coordinator.cpp:178,  *)
(* 211, 275) or bytes that only an altered length promises (:95); neither  *)
(* accept nor recv has a time limit.                                       *)
NobodyToAccept ==
    /\ coord.pc = "accept"
    /\ workers[coord.worker].pc \in {"none", "dead"}
    /\ ~Connected(coord.worker)

PromisedTooMuch ==
    \E c \in Connections :
        LET have == wire[c[1]][c[2]].have IN have # <<>> /\ have[1].damage = "longer"

ScenarioEnds == <>(Ended \/ NobodyToAccept \/ PromisedTooMuch)
==============================================================================

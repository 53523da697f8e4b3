------------------------------ MODULE Coordinator ------------------------------
(***************************************************************************)
(* The coordinator process (tools/coordinator.cpp, --scenario) over its    *)
(* own registry, and the three worker processes it starts                  *)
(* (tools/worker.cpp), each with one connection to it.                     *)
(*                                                                         *)
(* Worker A registers a buffer and holds; worker B asks for access to it;  *)
(* A is killed, the restart noted and the old registration revoked; A2     *)
(* registers the buffer anew.  Between two steps of the coordinator the    *)
(* workers run, a worker may die, fail to start, or a chunk be altered.    *)
(***************************************************************************)
EXTENDS Registry, Framing

CONSTANTS
    Main,            \* the coordinator's one thread
    TheBuffer,       \* the descriptor workers register
    AccessLength,    \* the bytes worker B asks for
    MaxFaults        \* bound: deaths, failed starts and alterations

ASSUME ScenarioAssumption ==
    /\ Threads = {Main}
    /\ MaxFaults \in Nat

(* The descriptor of worker.cpp:136-155 is one that validate_range and the *)
(* backend, as it is constructed, accept; the access B asks for is within. *)
ASSUME WorkerAssumption ==
    /\ TheBuffer \in Descriptor
    /\ TheBuffer.buf \in BufIds \ {0} /\ TheBuffer.gen = 1
    /\ TheBuffer.len \in Word /\ AccessLength \in 0 .. TheBuffer.len
    /\ ValidateRange(TheBuffer) = "OK"
    /\ "REMOTE_WRITE" \in TheBuffer.rights
    /\ \A p \in Profiles :
          /\ TheBuffer.mem \in p.domains
          /\ TheBuffer.rights \cap RemoteRights \subseteq p.remote
          /\ p.align # 0 => /\ TheBuffer.align % p.align = 0
                            /\ p.align % TheBuffer.align = 0

VARIABLES
    coord,           \* the coordinator: its place in main and its locals
    workers,         \* the worker processes
    wire,            \* the connection of each worker, both directions
    faults           \* how many faults have happened

processVars == <<coord, workers, wire, faults>>
scenarioVars == <<vars, processVars>>

Workers == {"A", "B", "A2"}
Directions == {"up", "down"}     \* up: from the worker to the coordinator

Registers(w) == w \in {"A", "A2"}
Role(w) == [A |-> "register-hold", B |-> "access", A2 |-> "register-fresh"][w]

(* snapshot and envelope.                                                  *)
Snapshot(epoch, boot) ==
    [epoch |-> epoch, boot |-> boot, owner |-> 1, ownerGen |-> 1, workerGen |-> 1,
     node |-> 1]

FirstBoot == 1
FirstSnapshot == Snapshot(1, FirstBoot)
Domain == 1
NoRequest == [reg |-> 0, boot |-> 0, keyGen |-> 0]

NoWorker ==
    [pc |-> "none", args |-> NoRequest, boot |-> 0, epoch |-> 0, ok |-> FALSE,
     reg |-> 0, keyGen |-> 0, exit |-> 0]

ScenarioInit ==
    /\ Init
    /\ coord = [pc |-> "attach", worker |-> "A", nextBoot |-> 2, boot |-> 0, reg |-> 0,
                regA |-> 0, keyGenA |-> 0, failures |-> 0, exit |-> 0]
    /\ workers = [w \in Workers |-> NoWorker]
    /\ wire = [w \in Workers |-> [dir \in Directions |-> NewStream]]
    /\ faults = 0

Frame(kind, seq, payload) == [kind |-> kind, seq |-> seq, payload |-> payload]

Running(w) == workers[w].pc \notin {"none", "exited", "dead"}
Ended == coord.pc = "ended"

(* The connection the coordinator is serving.                              *)
Up == wire[coord.worker]["up"]
Down == wire[coord.worker]["down"]
Exchange(up, down) == [wire EXCEPT ![coord.worker]["up"] = up, ![coord.worker]["down"] = down]

(* PROOF counts what did not come out as it should.                        *)
Proof(c, holds) == IF holds THEN c ELSE [c EXCEPT !.failures = @ + 1]

Goto(pc) == [coord EXCEPT !.pc = pc]

------------------------------------------------------------------------------
(* The processes the operating system runs.                                *)

(* A process that is gone has closed its sockets; what it sent may be lost *)
(* if it did not end by itself.                                            *)
Hangup(connection, lost) ==
    [connection EXCEPT !["up"] = IF lost THEN Cut(@) ELSE Closed(@), !["down"] = Deaf(@)]

WorkerEnds(w, code) ==
    /\ workers' = [workers EXCEPT ![w].pc = "exited", ![w].exit = code]
    /\ wire' = [wire EXCEPT ![w] = Hangup(@, FALSE)]

(* The coordinator returns from main: the listener goes with it, and with  *)
(* it every connection nobody has accepted.  What it had sent is lost if   *)
(* it leaves in the middle of a frame.                                     *)
CoordinatorGone(lost) ==
    [w \in Workers |->
        [wire[w] EXCEPT !["up"] = Deaf(@), !["down"] = IF lost THEN Cut(@) ELSE Closed(@)]]

WorkerDies(w) ==
    /\ Running(w)
    /\ faults < MaxFaults
    /\ faults' = faults + 1
    /\ workers' = [workers EXCEPT ![w].pc = "dead"]
    /\ \E lost \in BOOLEAN : wire' = [wire EXCEPT ![w] = Hangup(@, lost)]
    /\ UNCHANGED <<coord, vars>>

(* A chunk is altered on its way.                                          *)
Alter(w, dir) ==
    /\ wire[w][dir].cells # <<>>
    /\ Head(wire[w][dir].cells).damage = "none"
    /\ faults < MaxFaults
    /\ faults' = faults + 1
    /\ \E damage \in DamageTo(Head(wire[w][dir].cells).part) :
          wire' = [wire EXCEPT ![w][dir].cells[1].damage = damage]
    /\ UNCHANGED <<coord, workers, vars>>

------------------------------------------------------------------------------
(* A worker (tools/worker.cpp).                                            *)

WorkerConnects(w) ==
    /\ workers[w].pc = "connecting"
    /\ ~Ended
    /\ workers' = [workers EXCEPT ![w].pc = "hello"]
    /\ wire' = [wire EXCEPT ![w]["up"] =
                   Sending(@, Frame("HELLO", 1, [role |-> Role(w)]))]

(* Nobody listens any more: exit code 1.                                   *)
WorkerTurnedAway(w) ==
    workers[w].pc = "connecting" /\ Ended /\ WorkerEnds(w, 1)

(* send_all, in the middle of HELLO or of the request.                     *)
WorkerPushes(w) ==
    /\ workers[w].pc \in {"hello", "request"}
    /\ wire[w]["up"].out # <<>>
    /\ wire' = [wire EXCEPT ![w]["up"] = IF @.deaf THEN Deaf(Pushed(@)) ELSE Pushed(@)]
    /\ UNCHANGED workers

WorkerPushFails(w) ==
    /\ workers[w].pc \in {"hello", "request"}
    /\ wire[w]["up"].out # <<>>
    /\ wire[w]["up"].deaf
    /\ WorkerEnds(w, 1)

WorkerSent(w) ==
    /\ workers[w].pc \in {"hello", "request"}
    /\ wire[w]["up"].out = <<>>
    /\ workers' = [workers EXCEPT ![w].pc = IF @ = "hello" THEN "ack" ELSE "answer"]
    /\ UNCHANGED wire

Listening(w) == workers[w].pc \in {"ack", "answer"}

WorkerPulls(w) ==
    /\ Listening(w)
    /\ MayPull(wire[w]["down"])
    /\ wire' = [wire EXCEPT ![w]["down"] = Pulled(@)]
    /\ UNCHANGED workers

(* The frame the worker waits for at this point.                           *)
Awaited(w) ==
    IF workers[w].pc = "ack" THEN "HELLO_ACK"
    ELSE IF Registers(w) THEN "REGISTER_BUFFER_ACK" ELSE "REQUEST_ACCESS_ACK"

WorkerGivesUp(w) ==
    LET down == wire[w]["down"] IN
    /\ Listening(w)
    /\ NotReceived(down) \/ (Received(down) /\ Incoming(down).kind # Awaited(w))
    /\ WorkerEnds(w, IF workers[w].pc = "ack" THEN 3 ELSE IF Registers(w) THEN 4 ELSE 6)

(* A registering worker asks for its one buffer; an access worker names    *)
(* what its command line told it.                                          *)
RequestOf(w) ==
    IF Registers(w)
    THEN Frame("REGISTER_BUFFER", 2, [desc |-> TheBuffer, dom |-> 1, backend |-> 0])
    ELSE Frame("REQUEST_ACCESS", 3, workers[w].args)

WorkerGreeted(w) ==
    LET down == wire[w]["down"] IN
    /\ workers[w].pc = "ack"
    /\ Received(down) /\ Incoming(down).kind = Awaited(w)
    /\ workers' = [workers EXCEPT ![w].pc = "request",
                                  ![w].boot = Incoming(down).payload.boot,
                                  ![w].epoch = Incoming(down).payload.epoch]
    /\ wire' = [wire EXCEPT ![w]["down"] = Taken(@),
                            ![w]["up"] = Sending(@, RequestOf(w))]

(* The answer is printed; register-hold then sleeps for ever, the other    *)
(* roles return and take their socket with them.                           *)
WorkerAnswered(w) ==
    LET down == wire[w]["down"]
        answer == Incoming(down).payload
        hangup == [wire EXCEPT ![w]["down"] = Deaf(Taken(@)), ![w]["up"] = Closed(@)]
    IN
    /\ workers[w].pc = "answer"
    /\ Received(down) /\ Incoming(down).kind = Awaited(w)
    /\ IF Registers(w)
       THEN workers' = [workers EXCEPT
                ![w].ok = answer.ok, ![w].reg = answer.reg, ![w].keyGen = answer.keyGen,
                ![w].pc = IF Role(w) = "register-hold" THEN "hold" ELSE "exited",
                ![w].exit = IF answer.ok \/ Role(w) = "register-hold" THEN 0 ELSE 5]
       ELSE workers' = [workers EXCEPT ![w].pc = "exited"]
    /\ wire' = IF Role(w) = "register-hold"
               THEN [wire EXCEPT ![w]["down"] = Taken(@)]
               ELSE hangup

WorkerStep(w) ==
    /\ \/ WorkerConnects(w) \/ WorkerTurnedAway(w)
       \/ WorkerPushes(w) \/ WorkerPushFails(w) \/ WorkerSent(w)
       \/ WorkerPulls(w) \/ WorkerGivesUp(w)
       \/ WorkerGreeted(w) \/ WorkerAnswered(w)
    /\ UNCHANGED <<coord, faults, vars>>

------------------------------------------------------------------------------
(* The coordinator: starting, serving a connection, stopping.              *)

Attach ==
    /\ coord.pc = "attach"
    /\ AddBackend
    /\ coord' = Goto("incarnate")
    /\ UNCHANGED <<workers, wire, faults>>

Incarnate ==
    /\ coord.pc = "incarnate"
    /\ SetAuthority(FirstSnapshot)
    /\ coord' = Goto("domain")
    /\ UNCHANGED <<workers, wire, faults>>

MakeDomain ==
    /\ coord.pc = "domain"
    /\ CreateProtectionDomain
    /\ coord' = Goto("spawn")
    /\ UNCHANGED <<workers, wire, faults>>

(* spawn_worker, whose result only matters for the kill.                   *)
SpawnWorker ==
    /\ coord.pc = "spawn"
    /\ workers' = [workers EXCEPT
          ![coord.worker] = [NoWorker EXCEPT !.pc = "connecting", !.args =
              [reg |-> coord.regA, boot |-> FirstBoot, keyGen |-> coord.keyGenA]]]
    /\ coord' = Goto("accept")
    /\ UNCHANGED <<wire, faults, vars>>

SpawnFails ==
    /\ coord.pc = "spawn"
    /\ faults < MaxFaults
    /\ faults' = faults + 1
    /\ coord' = Goto("accept")
    /\ UNCHANGED <<workers, wire, vars>>

(* accept waits until somebody has connected.                              *)
Connected(w) == wire[w]["up"].sent # <<>>

AcceptWorker ==
    /\ coord.pc = "accept"
    /\ Connected(coord.worker)
    /\ coord' = Goto("hello")
    /\ UNCHANGED <<workers, wire, faults, vars>>

Return(code) ==
    /\ coord' = [coord EXCEPT !.pc = "ended", !.exit = code]
    /\ \E lost \in {FALSE, code = 1 /\ Up.have # <<>>} : wire' = CoordinatorGone(lost)
    /\ UNCHANGED <<workers, faults, vars>>

CoordinatorPulls ==
    /\ coord.pc \in {"hello", "request"}
    /\ MayPull(Up)
    /\ wire' = [wire EXCEPT ![coord.worker]["up"] = Pulled(@)]
    /\ UNCHANGED <<coord, workers, faults, vars>>

(* A frame that does not come, or one of the wrong kind, ends the process  *)
(* with 1.  The kind of the first frame is not looked at.                  *)
Wanted == IF Registers(coord.worker) THEN "REGISTER_BUFFER" ELSE "REQUEST_ACCESS"

CoordinatorGivesUp ==
    /\ coord.pc \in {"hello", "request"}
    /\ \/ NotReceived(Up)
       \/ Received(Up) /\ coord.pc = "request" /\ Incoming(Up).kind # Wanted
    /\ Return(1)

(* HELLO: worker A is boot 1, the others get the next boot; A2's boot      *)
(* becomes the registry's authority before it is told.                     *)
BootNotTaken(c) ==                                 \* mutant: not counted
    [c EXCEPT !.boot = IF c.worker = "A" THEN FirstBoot ELSE c.nextBoot]
BootTaken(c) ==
    IF c.worker = "A" THEN [c EXCEPT !.boot = FirstBoot]
    ELSE [c EXCEPT !.boot = c.nextBoot, !.nextBoot = @ + 1]

Incarnated(s) == IF authority = s THEN UNCHANGED vars ELSE SetAuthority(s)

HelloAck(boot, epoch) ==
    Frame("HELLO_ACK", [A |-> 1, B |-> 3, A2 |-> 5][coord.worker],
          [boot |-> boot, epoch |-> epoch, node |-> 1])

Greet ==
    LET c == BootTaken(coord) IN
    /\ coord.pc = "hello"
    /\ Received(Up)
    /\ coord' = [c EXCEPT !.pc = "greeting"]
    /\ IF coord.worker = "A2"
       THEN Incarnated(Snapshot(authority.epoch, c.boot))
       ELSE UNCHANGED vars
    /\ wire' = Exchange(Taken(Up), Sending(Down, HelloAck(c.boot,
                  IF coord.worker = "A2" THEN authority.epoch ELSE FirstSnapshot.epoch)))
    /\ UNCHANGED <<workers, faults>>

(* send_frame to a worker; nobody looks at its result.                     *)
CoordinatorPushes ==
    /\ coord.pc \in {"greeting", "answering"}
    /\ Down.out # <<>>
    /\ wire' = [wire EXCEPT ![coord.worker]["down"] =
                   IF @.deaf THEN Abandoned(@) ELSE Pushed(@)]
    /\ UNCHANGED <<coord, workers, faults, vars>>

Greeted ==
    /\ coord.pc = "greeting"
    /\ Down.out = <<>>
    /\ coord' = Goto("request")
    /\ UNCHANGED <<workers, wire, faults, vars>>

(* The answer of send_frame number seq is on its way.                      *)
Reply(frame) == [wire EXCEPT ![coord.worker]["down"] = Sending(@, frame)]

------------------------------------------------------------------------------
(* Registering for A and A2.                                               *)

TakeRegister ==
    /\ coord.pc = "request"
    /\ Received(Up) /\ Incoming(Up).kind = Wanted /\ Registers(coord.worker)
    /\ coord' = Goto("create")
    /\ wire' = [wire EXCEPT ![coord.worker]["up"] = Taken(@)]
    /\ UNCHANGED <<workers, faults, vars>>

(* create_buffer, whose refusal is not looked at: the buffer is still      *)
(* there when A2 comes.                                                    *)
Create ==
    /\ coord.pc = "create"
    /\ CreateBuffer(TheBuffer) \/ (CreateDuplicate(TheBuffer) /\ UNCHANGED vars)
    /\ coord' = Goto("register")
    /\ UNCHANGED <<workers, wire, faults>>

(* The envelope is made from the snapshot the coordinator set last.        *)
Presented == Snapshot(authority.epoch, coord.boot)

Register ==
    /\ coord.pc = "register"
    /\ \/ /\ RegisterAdmit(Main, TheBuffer, Domain, Presented)
          /\ coord' = [coord EXCEPT !.pc = "registering", !.reg = next.reg]
       \/ /\ ~Admissible(TheBuffer, Domain, Presented) /\ UNCHANGED vars
          /\ coord' = [coord EXCEPT !.pc = "registering", !.reg = 0]
    /\ UNCHANGED <<workers, wire, faults>>

Registering ==
    /\ coord.pc = "registering"
    /\ Continue(Main)
    /\ UNCHANGED processVars

(* The acknowledgement of A names the key generation, that of A2 names 0.  *)
AnswerRegister ==
    LET ok == Present(coord.reg)
        isA == coord.worker = "A"
        keyGen == IF ok /\ isA THEN regs[coord.reg].keyGen ELSE 0
    IN
    /\ coord.pc = "registering"
    /\ Idle(Main)
    /\ coord' = Proof([coord EXCEPT !.pc = "answering",
                                    !.regA = IF ok /\ isA THEN coord.reg ELSE @,
                                    !.keyGenA = IF ok /\ isA THEN keyGen ELSE @], ok)
    /\ wire' = Reply(Frame("REGISTER_BUFFER_ACK", IF isA THEN 2 ELSE 6,
                           [ok |-> ok, reg |-> coord.reg, keyGen |-> keyGen]))
    /\ UNCHANGED <<workers, faults, vars>>

------------------------------------------------------------------------------
(* Judging the access of B, and the last act of A.                         *)

AccessRequest(reg, keyGen, boot) ==
    [reg |-> reg, kind |-> "WRITE", offset |-> 0, length |-> AccessLength,
     rights |-> {"REMOTE_WRITE"}, bufGen |-> 1, regGen |-> 1, keyGen |-> keyGen,
     env |-> Snapshot(FirstSnapshot.epoch, boot), backend |-> TheBackend,
     transport |-> NoTransport, dom |-> Domain]

(* validate_remote_access, which counts unless the authority check refused.*)
Judge(q) == IF RejectedByAuthority(q) THEN UNCHANGED vars ELSE ValidateRemoteAccess(q)

JudgeAccess ==
    LET asked == Incoming(Up).payload
        q == AccessRequest(asked.reg, asked.keyGen, asked.boot)
    IN
    /\ coord.pc = "request"
    /\ Received(Up) /\ Incoming(Up).kind = Wanted /\ ~Registers(coord.worker)
    /\ Judge(q)
    /\ coord' = Proof(Goto("answering"), Allowed(q))
    /\ wire' = Exchange(Taken(Up),
                  Sending(Down, Frame("REQUEST_ACCESS_ACK", 4, [outcome |-> AccessOutcome(q)])))
    /\ UNCHANGED <<workers, faults>>

(* The answer is out; A's and A2's connections are closed.                 *)
HangUp == Exchange(Deaf(Up), Closed(Down))

ServedA ==
    /\ coord.pc = "answering" /\ coord.worker = "A"
    /\ Down.out = <<>>
    /\ coord' = [coord EXCEPT !.pc = "spawn", !.worker = "B"]
    /\ wire' = HangUp
    /\ UNCHANGED <<workers, faults, vars>>

(* The same access under a boot that never was, and B's connection closed. *)
ServedB ==
    LET asked == workers["B"].args
        q == AccessRequest(asked.reg, asked.keyGen, 99)
    IN
    /\ coord.pc = "answering" /\ coord.worker = "B"
    /\ Down.out = <<>>
    /\ Judge(q)
    /\ coord' = Proof(Goto("kill"), ~Allowed(q))
    /\ wire' = HangUp
    /\ UNCHANGED <<workers, faults>>

(* TerminateProcess, if A was started and has not gone already.            *)
KillA ==
    /\ coord.pc = "kill"
    /\ IF Running("A")
       THEN /\ workers' = [workers EXCEPT !["A"].pc = "dead"]
            /\ wire' = [wire EXCEPT !["A"] = Hangup(@, TRUE)]
       ELSE UNCHANGED <<workers, wire>>
    /\ coord' = Goto("restart")
    /\ UNCHANGED <<faults, vars>>

NoteRestart ==
    /\ coord.pc = "restart"
    /\ NoteParticipantRestart
    /\ coord' = Goto("old")
    /\ UNCHANGED <<workers, wire, faults>>

(* What A held is put to the test under the authority it was made with.    *)
JudgeOld ==
    LET q == AccessRequest(coord.regA, coord.keyGenA, FirstBoot) IN
    /\ coord.pc = "old"
    /\ Judge(q)
    /\ coord' = Proof(Goto("revoke"), ~Allowed(q))
    /\ UNCHANGED <<workers, wire, faults>>

(* The stale registration is revoked, which frees the buffer's slot.  If   *)
(* there is none, revoke refuses, and nobody looks at its answer.          *)
RevokedSoftly ==                                   \* mutant: slot kept
    IF Present(coord.regA) /\ InForce(coord.regA) THEN Revoke(coord.regA, "SOFT_REVOKE")
    ELSE UNCHANGED vars
RevokedOld ==
    IF Present(coord.regA) /\ InForce(coord.regA) THEN Revoke(coord.regA, "HARD_REVOKE")
    ELSE UNCHANGED vars

RevokeOld ==
    /\ coord.pc = "revoke"
    /\ RevokedOld
    /\ coord' = [coord EXCEPT !.pc = "spawn", !.worker = "A2"]
    /\ UNCHANGED <<workers, wire, faults>>

ServedA2 ==
    /\ coord.pc = "answering" /\ coord.worker = "A2"
    /\ Down.out = <<>>
    /\ Return(IF coord.failures = 0 THEN 0 ELSE 1)

------------------------------------------------------------------------------
CoordinatorStep ==
    \/ Attach \/ Incarnate \/ MakeDomain
    \/ SpawnWorker \/ AcceptWorker
    \/ CoordinatorPulls \/ CoordinatorGivesUp \/ CoordinatorPushes
    \/ Greet \/ Greeted
    \/ TakeRegister \/ Create \/ Register \/ Registering \/ AnswerRegister
    \/ JudgeAccess
    \/ ServedA \/ ServedB \/ ServedA2
    \/ KillA \/ NoteRestart \/ JudgeOld \/ RevokeOld

Fault ==
    \/ SpawnFails
    \/ \E w \in Workers : WorkerDies(w) \/ \E dir \in Directions : Alter(w, dir)

ScenarioNext ==
    \/ CoordinatorStep
    \/ \E w \in Workers : WorkerStep(w)
    \/ Fault

(* The operating system runs every process that can run; a fault never has *)
(* to happen.                                                              *)
ScenarioSpec ==
    /\ ScenarioInit
    /\ [][ScenarioNext]_scenarioVars
    /\ WF_scenarioVars(CoordinatorStep)
    /\ \A w \in Workers : WF_scenarioVars(WorkerStep(w))
==============================================================================

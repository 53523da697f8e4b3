---------------------------- MODULE MCPersistence ----------------------------
(* Values for the constants of Persistence.                                *)
EXTENDS PersistenceProperties

CONSTANTS t1, s1

OneThread == {t1}
OneSaver == {s1}
Nothing == {}

Desc(b, g, len) ==
    [buf |-> b, gen |-> g, mem |-> "SYNTHETIC_REMOTE_CAPABLE", base |-> 4,
     len |-> len, align |-> 2, rights |-> {"REMOTE_WRITE"}]

(* A buffer whose id the caller chose and one with an automatic id.        *)
TwoKinds == {Desc(1, 1, 4), Desc(0, 1, 2)}
OneBuffer == {Desc(1, 1, 4)}

OneProfile ==
    {[domains |-> {"SYNTHETIC_REMOTE_CAPABLE"}, remote |-> {"REMOTE_WRITE"}, align |-> 2]}

Facts(epoch, boot) ==
    [epoch |-> epoch, boot |-> boot, owner |-> 1, ownerGen |-> 1,
     workerGen |-> 1, node |-> 1]
OneAuthority == {Facts(1, 1)}
Rights == {{"REMOTE_WRITE"}}

(* A peer that kept what it was told before the process died.              *)
PeerRequests ==
    {[reg |-> 1, kind |-> "WRITE", offset |-> 0, length |-> 2,
      rights |-> {"REMOTE_WRITE"}, bufGen |-> 1, regGen |-> 1, keyGen |-> 1,
      env |-> Facts(1, 1), backend |-> 1, transport |-> 0, dom |-> 1]}

(* The file of an earlier life, with a registration of its own.            *)
EarlierRecord ==
    [NoRecord EXCEPT !.life = "REVALIDATION_REQUIRED", !.fresh = "REVALIDATION_REQUIRED",
                     !.desc = Desc(1, 1, 4), !.dom = 1, !.bgen = 1, !.keyGen = 2,
                     !.boot = 1, !.epoch = 1, !.leases = 1]
Earlier ==
    [snap |-> [authority |-> Facts(1, 1), buffers |-> <<[id |-> 1, gen |-> 1, len |-> 4]>>,
               regs |-> <<[id |-> 1, gen |-> 1, rec |-> EarlierRecord]>>,
               domains |-> <<1>>],
     faults |-> {}, odd |-> {}]
EarlierFile == {Earlier}
==============================================================================

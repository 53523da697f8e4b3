------------------------------ MODULE MCRegistry ------------------------------
(***************************************************************************)
(* Values for the constants of Registry.  Every run takes its bounds from  *)
(* its .cfg and its descriptors, requests and authority facts from here.   *)
(***************************************************************************)
EXTENDS RegistryProperties

CONSTANTS t1, t2

OneThread == {t1}
TwoThreads == {t1, t2}

(* Threads are interchangeable in every safety property.                   *)
ThreadSymmetry == Permutations({t1, t2})

(* Addresses and lengths of four bits.                                     *)
Desc(b, g, len) ==
    [buf |-> b, gen |-> g, mem |-> "SYNTHETIC_REMOTE_CAPABLE", base |-> 4,
     len |-> len, align |-> 2, rights |-> {"REMOTE_READ", "REMOTE_WRITE"}]

Pinned(d) == [d EXCEPT !.mem = "HOST_PINNED"]

Capable ==
    [domains |-> {"SYNTHETIC_REMOTE_CAPABLE", "HOST_PINNED"},
     remote |-> {"REMOTE_READ", "REMOTE_WRITE"}, align |-> 2]
ReadOnly == [Capable EXCEPT !.remote = {"REMOTE_READ"}]
OneProfile == {Capable}
TwoProfiles == {Capable, ReadOnly}

Facts(epoch, boot) ==
    [epoch |-> epoch, boot |-> boot, owner |-> 1, ownerGen |-> 1,
     workerGen |-> 1, node |-> 1]
OneAuthority == {Facts(1, 1)}
TwoAuthorities == {Facts(1, 1), Facts(2, 2)}

WriteMask == {{"REMOTE_WRITE"}}

(* One buffer, created and reallocated to another length.                  *)
OneBuffer == {Desc(1, 1, 4), Desc(1, 2, 2)}
(* Two buffers of different lengths, the first one reallocated; the second *)
(* pinned.                                                                 *)
TwoBuffers == OneBuffer \cup {Pinned(Desc(2, 1, 8))}
(* With automatic ids, which meet the ids callers chose themselves.        *)
AutomaticToo == OneBuffer \cup {Desc(0, 1, 4)}

Request(r, kind, offset, length, env) ==
    [reg |-> r, kind |-> kind, offset |-> offset, length |-> length,
     rights |-> {IntrinsicRight(kind)}, bufGen |-> 0, regGen |-> 0,
     keyGen |-> 0, env |-> env, backend |-> 0, transport |-> 0, dom |-> 0]

(* One plain request per registration.                                     *)
PlainRequests ==
    {Request(r, "WRITE", 1, 3, Facts(1, 1)) : r \in RegIds}

(* Requests at the edges of the range, of every kind, with expectations    *)
(* that match and that do not, presented under old and new authority.      *)
EdgeRequests ==
    LET base == Request(1, "WRITE", 1, 3, Facts(1, 1)) IN
    {base,
     Request(1, "WRITE", 2, 3, Facts(1, 1)),
     Request(1, "WRITE", 2, 15, Facts(1, 1)),
     Request(1, "READ", 4, 0, Facts(1, 1)),
     Request(1, "ATOMIC_COMPARE_SWAP", 0, 2, Facts(1, 1)),
     [Request(1, "READ", 0, 2, Facts(2, 2)) EXCEPT !.rights = {}],
     Request(2, "READ", 0, 2, Facts(1, 1)),
     [base EXCEPT !.regGen = 2], [base EXCEPT !.bufGen = 2],
     [base EXCEPT !.keyGen = 2, !.dom = 1, !.backend = 1],
     [base EXCEPT !.backend = 2], [base EXCEPT !.transport = 1],
     [base EXCEPT !.dom = 2]}
==============================================================================

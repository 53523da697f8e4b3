------------------------ MODULE PersistenceProperties ------------------------
(***************************************************************************)
(* What save and recover guarantee, and one thing they do not.             *)
(***************************************************************************)
EXTENDS Persistence, RegistryProperties

(* A registration in force was registered with the backend of this very    *)
(* process: its handle is one the backend has issued since the process     *)
(* started ("physical pointer values/handles are not restored as live",    *)
(* README.md:198-199).                                                     *)
NothingLiveRecovered ==
    \A r \in RegIds : InForce(r) => regs[r].handle \in 1 .. nextSeq - 1

(* The four parts of a file that recover reads come back as they were      *)
(* saved: a process that has just started and recovers would save again    *)
(* the same authority, buffers, domain ids and registrations (with their   *)
(* generations, boots, epochs and lease counts), but for the keys it has   *)
(* declared dead ("deterministic round-trip", README.md:199).  Nothing is  *)
(* said of the parts save writes and recover reads past (see Captured):    *)
(* those do not come back.                                                 *)
NothingYet ==
    /\ \A b \in BufIds : ~buffers[b].made
    /\ \A r \in RegIds : ~Present(r)
    /\ \A p \in DomainIds : domains[p] = "ABSENT"

Essence(snap) ==
    [authority |-> snap.authority, buffers |-> Range(snap.buffers),
     domains |-> Range(snap.domains),
     regs |-> {[snap.regs[i] EXCEPT !.rec.keyRevoked = TRUE] : i \in DOMAIN snap.regs}]

TablesRoundTrip ==
    [][\A s \in Savers : RecoverAccepted(s) /\ NothingYet =>
          \A again \in Captured' : Essence(again) = Essence(saver[s].file.snap)
      ]_persistenceVars

(* README.md:100-102: "A stale remote key never regains validity after ... *)
(* process/owner restart".  recover declares the keys of the recovered     *)
(* registrations dead; no request that names one of them, by registration  *)
(* and key generation, is allowed afterwards.                              *)
RecoveredKeyStaysDead ==
    \A q \in Requests : Allowed(q) => <<q.reg, q.keyGen>> \notin buried
==============================================================================

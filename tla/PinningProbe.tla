----------------------------- MODULE PinningProbe -----------------------------
(***************************************************************************)
(* probe_host_pinning of the reference backend (src/reference_backend.cpp) *)
(* over the operating-system calls of src/windows_os.cpp, each of which    *)
(* may fail: commit pages, touch each of them, lock, unlock, release.      *)
(* Off Windows there is no lock, and committing fills the pages.           *)
(***************************************************************************)
EXTENDS Naturals

CONSTANTS
    PageSize,        \* bytes of a page, the stride of touch_range
    Committable,     \* bound: the longest range the system commits
    Lengths          \* lengths asked for

ASSUME ProbeAssumption ==
    PageSize \in Nat \ {0} /\ Committable \in Nat /\ Lengths \subseteq Nat

VARIABLE probe       \* the one call in progress, or the last one

Platforms == {"windows", "other"}
PagesOf(length) == {n \in 0 .. length : n * PageSize < length}

NoReport == [ok |-> FALSE, committed |-> FALSE, locked |-> FALSE, provenance |-> "UNKNOWN"]

ProbeInit ==
    probe = [pc |-> "idle", platform |-> "windows", bytes |-> 0, held |-> "nothing",
             touched |-> {}, freed |-> TRUE, report |-> NoReport]

(* A probe of no bytes is over at once.                                    *)
ProbeStart ==
    /\ probe.pc \in {"idle", "done"}
    /\ \E platform \in Platforms, length \in Lengths :
          probe' = [pc |-> IF length = 0 THEN "done" ELSE "commit",
                    platform |-> platform, bytes |-> length, held |-> "nothing",
                    touched |-> {}, freed |-> TRUE, report |-> NoReport]

(* commit_pages.  Off Windows new[] is followed by a memset.               *)
ProbeCommit ==
    /\ probe.pc = "commit"
    /\ probe.bytes <= Committable
    /\ probe' = IF probe.platform = "windows"
                THEN [probe EXCEPT !.pc = "touch", !.held = "pages",
                                   !.report.committed = TRUE]
                ELSE [probe EXCEPT !.pc = "release", !.held = "pages",
                                   !.touched = PagesOf(probe.bytes),
                                   !.report.committed = TRUE]

ProbeCommitFails ==
    /\ probe.pc = "commit"
    /\ probe' = [probe EXCEPT !.pc = "done", !.report.provenance =
                    IF probe.platform = "windows" THEN "REAL" ELSE "UNKNOWN"]

(* touch_range: one write per page, at the offsets below the length.       *)
PagesBut(length) == {n \in PagesOf(length) : (n + 1) * PageSize <= length}
                                            \* mutant: not the last, partial page
PagesToTouch(length) == PagesOf(length)

ProbeTouch ==
    /\ probe.pc = "touch"
    /\ probe' = [probe EXCEPT !.pc = "lock", !.touched = PagesToTouch(probe.bytes)]

(* virtual_lock.                                                           *)
ProbeLock ==
    /\ probe.pc = "lock"
    /\ probe' = [probe EXCEPT !.pc = "unlock", !.held = "locked pages",
                              !.report.ok = TRUE, !.report.locked = TRUE]

GivesUpUnlocked ==                                 \* mutant: returns at once
    /\ probe.pc = "lock"
    /\ probe' = [probe EXCEPT !.pc = "done", !.report.provenance = "REAL"]
ProbeLockFails ==
    /\ probe.pc = "lock"
    /\ probe' = [probe EXCEPT !.pc = "unlock"]

(* virtual_unlock reports success whatever the system says, and is called  *)
(* whether or not the lock was taken.                                      *)
ProbeUnlock ==
    /\ probe.pc = "unlock"
    /\ \E held \in {"pages", probe.held} :
          probe' = [probe EXCEPT !.pc = "release", !.held = held]

(* release_pages, whose result is not looked at.  Releasing locked pages   *)
(* unlocks them.                                                           *)
ProbeRelease ==
    /\ probe.pc = "release"
    /\ \E freed \in IF probe.platform = "windows" THEN BOOLEAN ELSE {TRUE} :
          probe' = [probe EXCEPT !.pc = "done", !.freed = freed,
                       !.held = IF freed THEN "nothing" ELSE @,
                       !.report.provenance =
                          IF probe.platform = "windows" THEN "REAL" ELSE "UNKNOWN"]

ProbeNext ==
    \/ ProbeStart
    \/ ProbeCommit \/ ProbeCommitFails
    \/ ProbeTouch
    \/ ProbeLock \/ ProbeLockFails
    \/ ProbeUnlock
    \/ ProbeRelease

ProbeSpec == ProbeInit /\ [][ProbeNext]_probe

(* Whichever of its calls fails, a finished probe has given back what it   *)
(* took, unless the system refused to take it back; and what it reports is *)
(* what happened: pinned means a Windows lock over pages that were         *)
(* committed and all touched before ("never leaks pinned memory",          *)
(* README.md:79; "report actual OS result", test_backend.cpp:168).         *)
ProbeHonest ==
    probe.pc = "done" =>
        /\ probe.held = "nothing" \/ ~probe.freed
        /\ probe.report.ok =>
              /\ probe.report.locked /\ probe.report.committed
              /\ probe.report.provenance = "REAL"
              /\ probe.platform = "windows"
              /\ probe.touched = PagesOf(probe.bytes)
==============================================================================

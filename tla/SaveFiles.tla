------------------------------ MODULE SaveFiles ------------------------------
(***************************************************************************)
(* The file handling of save and recover (src/registry.cpp), outside the   *)
(* registry mutex, by threads of a process that may die at any moment over *)
(* a file system that outlives it.                                         *)
(*                                                                         *)
(* save opens and truncates path.tmp, writes, closes, removes path, and    *)
(* renames path.tmp to it.  Saves that overlap share path, path.tmp and    *)
(* with it the file they write to.                                         *)
(***************************************************************************)
EXTENDS SaveFormat

CONSTANTS
    Savers,          \* the threads that save and recover
    Found,           \* files that may be at path when the first process starts
    Offerable,       \* snapshots saves are asked to keep
    MaxSaves,        \* bound: saves begun
    MaxCrashes       \* bound: crashes of the process

ASSUME FilesAssumption ==
    /\ IsFiniteSet(Savers)
    /\ MaxSaves \in Nat /\ MaxCrashes \in Nat

VARIABLES
    names,           \* the inode behind path and path.tmp; 0 is no file
    inodes,          \* what each inode holds
    saver,           \* per thread: its save or recover between two steps
    tally,           \* saves and crashes so far
    asked,           \* history: the snapshots save was asked to keep
    kept             \* history: the snapshot of the last save that returned true
                     \* undisturbed, {} once path has been touched again

filesVars == <<names, inodes, saver, tally, asked, kept>>

(* One inode has the name path and one the name path.tmp, and every thread *)
(* may have one open.                                                      *)
Inodes == 1 .. Cardinality(Savers) + 2

(* An empty, cut or mixed file: the length or the checksum gives it away.  *)
NoSnapshot ==
    [authority |-> NoAuthority, buffers |-> <<>>, regs |-> <<>>, domains |-> <<>>]
Spoiled == [snap |-> NoSnapshot, faults |-> {<<"checksum", "wrong">>}, odd |-> {}]

NoSaver == [pc |-> "idle", file |-> Spoiled, inode |-> 0, alone |-> TRUE]

FilesInit ==
    /\ \/ names = [path |-> 0, tmp |-> 0] /\ inodes = [n \in Inodes |-> Spoiled]
       \/ /\ names = [path |-> 1, tmp |-> 0]
          /\ \E file \in Found : inodes = [n \in Inodes |-> IF n = 1 THEN file ELSE Spoiled]
    /\ saver = [s \in Savers |-> NoSaver]
    /\ tally = [saves |-> 0, crashes |-> 0]
    /\ asked = IF names.path = 0 THEN {} ELSE {inodes[names.path].snap}
    /\ kept = {}

SavePoints == {"captured", "opened", "writing", "written", "removed"}
Saving == {s \in Savers : saver[s].pc \in SavePoints}

------------------------------------------------------------------------------
(* save.                                                                   *)

(* The snapshot has been taken; the saves in progress are no longer alone. *)
SaveCapture(s, snap) ==
    /\ saver[s].pc = "idle"
    /\ tally.saves < MaxSaves
    /\ saver' = [u \in Savers |->
                    IF u = s THEN [pc |-> "captured", file |-> Serialized(snap),
                                   inode |-> 0, alone |-> Saving = {}]
                    ELSE IF u \in Saving THEN [saver[u] EXCEPT !.alone = FALSE]
                    ELSE saver[u]]
    /\ asked' = asked \cup {snap}
    /\ tally' = [tally EXCEPT !.saves = @ + 1]
    /\ UNCHANGED <<names, inodes, kept>>

(* Back to idle, with an error or none, and the files as they are.         *)
GiveUp(s) ==
    /\ saver' = [saver EXCEPT ![s] = NoSaver]
    /\ UNCHANGED <<names, inodes, tally, asked, kept>>

(* open fails: IO_ERROR_OPEN.                                              *)
SaveOpenFails(s) == saver[s].pc = "captured" /\ GiveUp(s)

(* The temporary is opened and truncated: a new inode if there is none of  *)
(* that name, and else the one another save may be writing to.             *)
InUse == {names.path, names.tmp} \cup {saver[u].inode : u \in Savers}

SaveOpen(s) ==
    /\ saver[s].pc = "captured"
    /\ \E n \in IF names.tmp # 0 THEN {names.tmp}
                ELSE {CHOOSE free \in Inodes \ InUse : TRUE} :
          /\ names' = [names EXCEPT !.tmp = n]
          /\ inodes' = [inodes EXCEPT ![n] = Spoiled]
          /\ saver' = [saver EXCEPT ![s].pc = "opened", ![s].inode = n]
    /\ UNCHANGED <<tally, asked, kept>>

SaveWrite(s) ==
    /\ saver[s].pc = "opened"
    /\ inodes' = [inodes EXCEPT ![saver[s].inode] = Spoiled]
    /\ saver' = [saver EXCEPT ![s].pc = "writing"]
    /\ UNCHANGED <<names, tally, asked, kept>>

(* write, flush and close are done.  When another save was about, its      *)
(* bytes may lie among these, before or behind them.                       *)
WrittenFiles(s) == {saver[s].file} \cup IF saver[s].alone THEN {} ELSE {Spoiled}

SaveWritten(s) ==
    /\ saver[s].pc = "writing"
    /\ \E file \in WrittenFiles(s) :
          inodes' = [inodes EXCEPT ![saver[s].inode] = file]
    /\ saver' = [saver EXCEPT ![s].pc = "written", ![s].inode = 0]
    /\ UNCHANGED <<names, tally, asked, kept>>

(* The stream is bad after the flush: IO_ERROR_WRITE, path untouched.      *)
WriteErrorIgnored(s) ==                            \* mutant: the stream not tested
    /\ saver[s].pc = "writing"
    /\ saver' = [saver EXCEPT ![s].pc = "written", ![s].inode = 0]
    /\ UNCHANGED <<names, inodes, tally, asked, kept>>
SaveWriteFails(s) == saver[s].pc = "writing" /\ GiveUp(s)

(* remove(path), whose result is not looked at.  An inode without a name   *)
(* is not read again and counts as spoiled.                                *)
SaveRemove(s) ==
    /\ saver[s].pc = "written"
    /\ names' = [names EXCEPT !.path = 0]
    /\ inodes' = [n \in Inodes |-> IF n = names.path THEN Spoiled ELSE inodes[n]]
    /\ kept' = {}
    /\ saver' = [saver EXCEPT ![s].pc = "removed"]
    /\ UNCHANGED <<tally, asked>>

(* rename(path.tmp, path), which replaces what another save has put there  *)
(* meanwhile; save returns true.                                           *)
SaveRename(s) ==
    /\ saver[s].pc = "removed"
    /\ names.tmp # 0
    /\ names' = [path |-> names.tmp, tmp |-> 0]
    /\ inodes' = [n \in Inodes |-> IF n = names.path THEN Spoiled ELSE inodes[n]]
    /\ kept' = IF saver[s].alone THEN {saver[s].file.snap} ELSE {}
    /\ saver' = [saver EXCEPT ![s] = NoSaver]
    /\ UNCHANGED <<tally, asked>>

(* The temporary is gone with another save, or the rename fails: IO_ERROR_ *)
(* WRITE, and the file that was at path is gone too.                       *)
SaveRenameFails(s) == saver[s].pc = "removed" /\ GiveUp(s)

------------------------------------------------------------------------------
(* recover.                                                                *)

(* Without a file at path recover returns IO_ERROR_OPEN.                   *)
RecoverMissing(s) ==
    saver[s].pc = "idle" /\ names.path = 0 /\ UNCHANGED filesVars

(* The file is read whole.                                                 *)
RecoverRead(s) ==
    /\ saver[s].pc = "idle"
    /\ names.path # 0
    /\ saver' = [saver EXCEPT ![s].pc = "read", ![s].file = inodes[names.path]]
    /\ UNCHANGED <<names, inodes, tally, asked, kept>>

RecoverRefused(s) ==
    saver[s].pc = "read" /\ Parse(saver[s].file) # "OK" /\ GiveUp(s)

RecoverAccepted(s) ==
    saver[s].pc = "read" /\ Parse(saver[s].file) = "OK" /\ GiveUp(s)

------------------------------------------------------------------------------
(* The process dies: its open files are closed, the file system stays.     *)
FilesCrash ==
    /\ tally.crashes < MaxCrashes
    /\ saver' = [s \in Savers |-> NoSaver]
    /\ tally' = [tally EXCEPT !.crashes = @ + 1]
    /\ UNCHANGED <<names, inodes, asked, kept>>

(* The steps that touch nothing but files.                                 *)
FileStep(s) ==
    \/ SaveOpen(s) \/ SaveOpenFails(s)
    \/ SaveWrite(s) \/ SaveWritten(s) \/ SaveWriteFails(s)
    \/ SaveRemove(s)
    \/ SaveRename(s) \/ SaveRenameFails(s)
    \/ RecoverMissing(s) \/ RecoverRead(s) \/ RecoverRefused(s)

FilesNext ==
    \/ \E s \in Savers :
          \/ \E snap \in Offerable : SaveCapture(s, snap)
          \/ FileStep(s)
          \/ RecoverAccepted(s)
    \/ FilesCrash

FilesSpec == FilesInit /\ [][FilesNext]_filesVars

------------------------------------------------------------------------------
(* Properties.                                                             *)

(* What recover would install now: nothing, or one snapshot.               *)
Readable(file) == Parse(file) = "OK"
StoredNow ==
    IF names.path # 0 /\ Readable(inodes[names.path])
    THEN {inodes[names.path].snap} ELSE {}

Store == INSTANCE SnapshotStore WITH offered <- asked, stored <- StoredNow

(* Whatever saves overlap over one path.tmp, fail half-way or die with the *)
(* process, a reader of path finds nothing it accepts or one of the        *)
(* snapshots a save set out to write, never a mixture of two.              *)
ImplementsStore == Store!StoreSpec

(* A save that returned true, with no other about, is what recover finds   *)
(* from then on: until the next save removes the file nothing takes it     *)
(* away, neither a crash nor a save that fails before that point           *)
(* (registry.cpp:877-891).  A snapshot with two equal ids or with a        *)
(* generation of zero is written like any other, and refused later.        *)
Acceptable(snap) ==
    \A i \in DOMAIN IdentityLists(snap) : IdentityErrors(IdentityLists(snap)[i]) = {}

SaveSticks == \A snap \in kept : Acceptable(snap) => StoredNow = {snap}
==============================================================================

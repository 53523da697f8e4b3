----------------------------- MODULE MCComponents -----------------------------
(* The parts that do not call each other, in one run: a behaviour is about *)
(* one subject, chosen at the start, and the other parts stay as they      *)
(* begin.  Each part keeps its own Init, Next and properties.              *)
EXTENDS BackendSession, ReferenceBackend, PinningProbe, RangeProperties,
        FormatProperties, SaveFiles

CONSTANTS s1, s2

VARIABLE subject

SyntheticSteps ==
    /\ subject = "synthetic" /\ SessionNext
    /\ UNCHANGED <<subject, refVars, probe, question, parsed, filesVars>>
ReferenceSteps ==
    /\ subject = "reference" /\ ReferenceNext
    /\ UNCHANGED <<subject, backendVars, probe, question, parsed, filesVars>>
ProbeSteps ==
    /\ subject = "probe" /\ ProbeNext
    /\ UNCHANGED <<subject, backendVars, refVars, question, parsed, filesVars>>
RangeSteps ==
    /\ subject = "ranges" /\ RangeNext
    /\ UNCHANGED <<subject, backendVars, refVars, probe, parsed, filesVars>>
FormatSteps ==
    /\ subject = "format" /\ FormatNext
    /\ UNCHANGED <<subject, backendVars, refVars, probe, question, filesVars>>
FilesSteps ==
    /\ subject = "files" /\ FilesNext
    /\ UNCHANGED <<subject, backendVars, refVars, probe, question, parsed>>

(* Only the subject has a choice of where to begin.                        *)
Capable ==
    [domains |-> {"SYNTHETIC_REMOTE_CAPABLE"},
     remote |-> {"REMOTE_READ", "REMOTE_WRITE"}, align |-> 2]
ReadOnly == [Capable EXCEPT !.remote = {"REMOTE_READ"}]
Profiles2 == {Capable, ReadOnly}

ComponentsInit ==
    /\ subject \in {"synthetic", "reference", "probe", "ranges", "format", "files"}
    /\ BackendInit /\ (subject # "synthetic" => profile = Capable)
    /\ ReferenceInit
    /\ ProbeInit
    /\ RangeInit
    /\ FormatInit
    /\ FilesInit /\ (subject # "files" => names.path = 0)

ComponentsNext ==
    \/ SyntheticSteps \/ ReferenceSteps \/ ProbeSteps
    \/ RangeSteps \/ FormatSteps \/ FilesSteps

ComponentsSpec ==
    ComponentsInit
    /\ [][ComponentsNext]_<<subject, backendVars, refVars, probe, question, parsed, filesVars>>

------------------------------------------------------------------------------
(* The backends and the accesses asked of them.                            *)
Desc(mem, base, len, align, rights) ==
    [buf |-> 1, gen |-> 1, mem |-> mem, base |-> base, len |-> len,
     align |-> align, rights |-> rights]

SyntheticDescriptors ==
    {Desc("SYNTHETIC_REMOTE_CAPABLE", 2, 4, 2, {"REMOTE_READ", "REMOTE_WRITE"}),
     Desc("SYNTHETIC_REMOTE_CAPABLE", 4, 3, 2, {"REMOTE_READ"}),
     Desc("SYNTHETIC_REMOTE_CAPABLE", 4, 2, 4, {"REMOTE_WRITE"})}

ReferenceDescriptors ==
    {Desc("HOST_PINNED", 2, 4, 2, {"REMOTE_READ", "REMOTE_WRITE"}),
     Desc("HOST_PINNED", 4, 3, 1, {"REMOTE_READ", "REMOTE_ATOMIC"}),
     Desc("FILE_BACKED", 0, 2, 4, {"REMOTE_WRITE"}),
     Desc("CUDA_DEVICE", 2, 2, 2, {"REMOTE_READ"})}

Accesses ==
    [kind : {"READ", "WRITE"}, offset : {0, 2}, length : {1, 2, 7}, expected : 1 .. 4]
AllAccesses ==
    [kind : OperationKinds, offset : {0, 2}, length : {0, 1, 2, 7}, expected : 0 .. 3]

ProbeLengths == {0, 1, 2, 3, 4, 5}

(* Every base, length and alignment of a small word.                       *)
EveryDescriptor ==
    [buf : {1}, gen : {1}, mem : {"HOST_PINNED", "FILE_BACKED"}, base : Word,
     len : Word, align : {0, 1, 2, 4}, rights : {{}}]

------------------------------------------------------------------------------
(* Snapshots and files.                                                    *)
TwoSavers == {s1, s2}

Buf(id, gen) == [id |-> id, gen |-> gen, len |-> 1]
Reg(id, gen) == [id |-> id, gen |-> gen, rec |-> "record"]
Snap(buffers, list, domains) ==
    [authority |-> NoAuthority, buffers |-> buffers, regs |-> list, domains |-> domains]

Whole == Snap(<<Buf(1, 1), Buf(2, 1)>>, <<Reg(1, 1), Reg(2, 1)>>, <<1, 2>>)

(* One thing wrong with each, and a buffer of generation zero that also    *)
(* repeats an id.                                                          *)
Snapshots ==
    {NoSnapshot, Whole,
     [Whole EXCEPT !.buffers = <<Buf(1, 1), Buf(1, 2)>>],
     [Whole EXCEPT !.buffers = <<Buf(1, 1), Buf(1, 0)>>],
     [Whole EXCEPT !.regs = <<Reg(2, 1), Reg(2, 1)>>],
     [Whole EXCEPT !.regs = <<Reg(1, 0)>>],
     [Whole EXCEPT !.domains = <<1, 2, 1>>]}

(* At most one faulty part and one odd byte.                               *)
SomeFiles ==
    [snap : Snapshots, faults : {{}} \cup {{f} : f \in Faults},
     odd : {{}} \cup {{o} : o \in Enumerated}]

(* What saves are asked to keep: two states, and one of two automatic ids. *)
Kept ==
    {Whole, NoSnapshot, Snap(<<Buf(0, 1), Buf(0, 1)>>, <<>>, <<>>)}

EarlierFiles == {Serialized(Whole), Spoiled}
==============================================================================

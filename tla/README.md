# A TLA+ model of RDMA Buffer

RDMA Buffer governs who may reach a memory buffer remotely, and until when. It
holds tables of buffers, protection domains, registrations and leases, a
backend that owns the device side of a registration, and the current authority
(epoch, boot, owner). Around it are a save file, a reference backend, and a
coordinator that runs worker processes over a framed TCP protocol. This directory
models them, checks them with TLC on small instances and proves the main
invariants with TLAPS for all instances.

Contents: [inventory](#inventory) · [modules](#modules-and-the-code) ·
[runs](#runs) · [what the code does not do](#what-the-code-does-not-do) ·
[proofs](#proofs) · [mutants](#mutants) · [limits](#what-is-not-modelled) ·
[plan](#plan)

## Inventory

| Component | State it keeps | Operations | Talks to |
|---|---|---|---|
| Authority model (`authority.hpp`) | none: predicates over a snapshot and an envelope | `validate_authority`, `authority_current`, `owner_current` | called by the registry under its mutex |
| Buffer model (`buffer_model.hpp`) | none | `validate_range`, `range_inside`, `checked_add` | registry and backends |
| Governance registry (`registry.cpp`) | authority, backends, domains, buffers, registrations, slots, leases, next ids, accounting | create/destroy domain, create buffer, register, reuse, lease, access, revoke, rotate, deregister, restart, save, recover | the backend, by direct call, with the mutex held or given up |
| Accounting (`accounting.hpp`) | gauges and counters | increment, refusing decrement | registry |
| Synthetic backend (`synthetic_backend.cpp`) | profile, three generations, region numbers, live entries | the `IBackend` contract, rollovers, restart, `simulate_remote` | registry, and whoever holds the backend |
| Persistence (`persistence.cpp`, `save`, `recover`) | two files, path and path.tmp | serialise, parse; capture, write, remove, rename; read, install | registry tables, under the mutex; files, outside it |
| Framing (`protocol.cpp`, the send and receive loops of `tools/`) | a byte stream per direction | encode, send, receive, decode | coordinator, worker |
| Reference backend (`reference_backend.cpp`) | generation, region numbers, live entries | the `IBackend` contract | whoever holds the backend |
| Pinning probe (`windows_os.cpp`) | pages and a lock, within one call | commit, touch, lock, unlock, release | reference backend |
| Coordinator and worker (`tools/`) | one registry, three processes, their connections | spawn, serve, kill, restart, judge, revoke | framing, registry |
| CUDA backend, explain, CLI, examples, benchmarks | none, or only the device | – | – |

What is hard here:

- **The mutex is given up twice.** `register_buffer` and `deregister` check
  under the mutex, call the backend without it, and come back without checking
  again. Everything another caller or the device does in that window matters.
- **The backend has no lock.** The calls made in that window race on `next_seq_`.
- **One fact in several tables.** A registration is in `registrations_`, in a
  slot, in leases, in gauges and in the backend; five operations take it away,
  and each cleans up a different part.
- **Generations.** Keys, buffers, boots, epochs and three device generations
  each advance on their own; an access is right only if all of them agree.
- **Files outside the mutex.** Saves overlap over one temporary; a process dies
  between any two file operations; `recover` writes into tables that are in use.
- **Processes and streams.** A worker may die or never start, bytes may be cut off
  or altered, and the coordinator waits without a time limit.
- **Unsigned words.** Ranges are tested by additions and subtractions that wrap.

What makes each component correct: ranges exact and never wrapping; authority
scoped to the current incarnation; ids unique, slots living, counts exact, dead
keys dead, allowed accesses backed by every table; handles unique and stale
device keys stale; gauges that never claim more than there is; files that hold
one whole snapshot or nothing; frames that arrive unaltered and in order; proof
lines that judge rightly whatever happens to the workers. `PROJECT.json`
lists every hazard at its line with the properties that watch it.

## Modules and the code

| Module | Models |
|---|---|
| `RdmaTypes` | the enumerations, `access_superset`, `can_transition` |
| `BufferModel` | descriptors and range arithmetic on words of `WordModulus` values |
| `Authority` | `authority.hpp` |
| `SyntheticBackend` | `synthetic_backend.cpp`: state and one action per operation |
| `BackendContract` | the promise of every backend: handles are used once, and which key opens them |
| `BackendSession` | the synthetic backend used alone, through its whole contract, and that it keeps the promise |
| `ReferenceBackend` | `reference_backend.cpp`: state, operations, and that it keeps the same promise |
| `PinningProbe` | `probe_host_pinning` over the system calls of `windows_os.cpp` |
| `SaveFormat` | what `serialize` writes and everything `parse` refuses, in its order |
| `SaveFiles` | the file handling of `save` and `recover`: savers, inodes, crashes |
| `SnapshotStore` | the promise of a save file: one snapshot, whole, or nothing |
| `Persistence` | `Registry` and `SaveFiles` together: what is captured, what is installed, crash and restart |
| `Framing` | `protocol.cpp` and the send and receive loops over a stream of chunks |
| `FrameChannel` | the promise of framing: the frames sent, in order, unaltered |
| `Coordinator` | `tools/coordinator.cpp --scenario` over `Registry`, three workers of `tools/worker.cpp`, and faults |
| `Registry` | `registry.cpp` over one synthetic backend (extends the four above) |
| `KeyAuthority` | the promise: what a registration confers, with no buffers, threads or devices |
| `RegistryProperties` | properties of `Registry`, and the mapping under which it implements `KeyAuthority` |
| `PersistenceProperties`, `CoordinatorProperties` | properties of those two |
| `RangeProperties`, `FormatProperties` | the range predicates and the parser against reference definitions |
| `MCRegistry`, `MCComponents`, `MCPersistence`, `MCCoordinator` | values of constants for TLC |
| `RegistryProofs` → `AuthorityProofs` → `SequentialProofs` | theorems about the registry, each module extending the one before |
| `ArithmeticProofs`, `BackendProofs`, `CoordinatorProofs` | theorems about words and sums; ranges, backends and the probe; the scenario |
| `SaveProofs` → `RecoveryProofs` | theorems about the file and its parser; about save and recover of a registry whose process dies |

**State.** A table of the code is a function over ids `1 .. Max`; an id that is
not in the hash map has the default record (`NoRecord`, `NoBuffer`, "ABSENT").
`regs[r].desc` holds what the record copies from the descriptor; `handle`,
`keyGen`, `keyRevoked`, `bgen`, `boot`, `epoch`, `leases` are the fields of the
same meaning. `acct` holds the gauges, `stats` the counters that only grow.
`local_keys` and `remote_keys` always move with `active_registrations`.

**Atomicity.** An operation that holds the mutex throughout is one action. The
two others are cut where the mutex is released, and once more inside the
backend, between the read of `next_seq_` and the store:

```
register_buffer   RegisterAdmit | BackendNumbers | BackendStores | RegisterCommit
                                \ BackendRefuses
deregister        DeregisterBegin | BackendReleases     | DeregisterFinish
                                  \ BackendReleaseFails | DeregisterFail
```

`call[t]` holds the locals thread `t` carries across (the handle, the record
that is not yet in the table). A refused call changes nothing and is a stuttering
step, except where the code spends an id (`CreateRefused`) or counts. `DeregisterFinish`
has the code's answer to a record that vanished meanwhile (772-776), which takes two
callers and a `recover` between them, and so arises in no run.

**The race in the backend.** Two threads inside `register_buffer` of the
backend may read one `next_seq_`, and one increment may be lost. `BackendStore`
allows both. The race is undefined behaviour in C++; damage to the hash map
itself is not modelled.

**Hash-map order.** `Remainders` takes every order in which a loop over
`registrations_` may invalidate records, since a refused decrement makes the
order visible.

**Files.** A file is the snapshot it was encoded from, the parts whose bytes are
not what `serialize` writes there (`faults`), and the enumerated bytes that are no
value (`odd`). `Parse` looks at the parts in the order of the code and reports its
error. Names lead to inodes, so that a save which truncates `path.tmp` while
another has it open writes to the same file, and a rename takes the file along:

```
save      SaveCapture | SaveOpen      | SaveWrite | SaveWritten    | SaveRemove | SaveRename
                      \ SaveOpenFails             \ SaveWriteFails              \ SaveRenameFails
recover   RecoverRead | RecoverInstall
          \ RecoverMissing \ RecoverRefused
```

`FilesCrash` can come between any two of these; in `Persistence` it takes every table
of the process with it, and the next process starts from `Init` over the files.

**Streams.** A frame travels as header, payload and trailer. TCP delivers in
order, so the stream is a sequence of chunks; a chunk may be altered in one
of the ways the decoder tells apart, and the end of a process cuts its stream off,
with or without what was on the way.

**Processes.** `coord.pc` is the place in `main`; each `recv`, `send`, `accept` and call
on the registry is a step. A call on the registry is the action of `Registry` itself, so
the scenario is a behaviour of that module driven by messages. Between two steps
any worker may run.

**The device.** `BackendEvent` is what any holder of the backend may do beside the
registry between any two steps: reconfigure it, roll its generations over, restart it,
or `revalidate` an entry, those of the registry included. `revalidate` takes away the mark
a transport rollover left and not the key generation it advanced, so afterwards the registry and
the backend differ with nothing to show it, until the next `rotate_key` of the registry.
Not among them are `deregister_buffer`, `abort_registration` and `rotate_key` on an entry the
registry made: the registry itself makes the first and the last, and a client
that did would take apart what it entrusted to the registry. `BackendSession` has all of them, in
any order, for a backend used on its own. `simulate_remote` picks
the least handle string, an order region numbers do not follow, so every
candidate is a possible pick.

## Runs

All bounds are constants in the `.cfg`: `MaxRegs`, `MaxLeases`,
`MaxDomains`, `MaxBuffers` bound ids, `MaxSeq` region numbers, `MaxKeyGen`,
`MaxEpoch`, `MaxDeviceGen` generations, `MaxAccesses`, `MaxReuse` counted calls.

| Run | Instance | Shows |
|---|---|---|
| `concurrent` | 2 threads, 1 buffer of 2 generations, 2 registrations, 1 lease, key generation 3 (a revoked key can still be met by a rotation) | properties of every interleaving, and the refinement of `KeyAuthority` |
| `lifecycle` | 1 thread, 2 buffers (one pinned, one reallocated), device generation 2 | agreement of registry, slots and backend when calls do not overlap |
| `access` | 1 thread, 13 requests at the edges, 2 profiles, epochs and boots to 2, key generation 2 | what ALLOW and a reuse hit mean, in both directions |
| `liveness` | 2 threads, automatic buffer ids, 2 profiles | every call returns; no record stays DEREGISTERING |
| `components` | both backends with 2 or 3 regions, 2 profiles, device generation 3; a probe of up to 5 bytes on pages of 2; words of 3 bits with every base, length, alignment and offset; every single fault of a file and every odd enumerated byte; 2 savers, 3 saves, 1 crash | what each of the parts without a caller promises |
| `persistence` | 1 thread, 1 saver, 1 buffer, 1 registration, 1 lease, 1 save, 1 crash, an earlier file or none | capture and recovery, into empty tables and tables in use |
| `coordinator` | 3 workers, 2 faults among deaths, failed starts and altered chunks | the whole scenario of the repository's multi-process proof |
| `teardown`, `soft_revoke`, `realloc_race`, `restart`, `recovered_key` | as small as shows it | the five disagreements below |

`components` joins parts that do not interact: a behaviour is about one of them,
chosen at the start, so the state space is a sum and not a product.

**Why these bounds.** The races are between two calls on one buffer: two threads,
two registrations and one buffer of two generations contain every pair of
overlapping calls, before, across and after a reallocation. A count can only go
wrong by a lease that several operations close; one lease passes through all of them, and
the count is proved for any number. Wrap-around shows on any word size: three
bits for every question, four in the registry runs, and every size in the proof.
A file can be spoiled by one saver writing into what another has open: two savers
contain that, and a third save the one that comes after; a crash loses the whole
process at once, so what counts is where it falls, and one falls everywhere. Two
faults let a worker die while the frame of another is altered; after the second the
coordinator has usually ended.

**The interleaving properties** (`concurrent`) hold whatever overlaps:
`LeaseCountExact`, `LeaseEndsByRelease`, `NoActiveLeaseUnderRevokedKey`,
`SlotNeverDangles`, `NoOrphanEntry`, `CommitNeverOverwrites`, `NeverRevives`,
`OnlyDestructionUnguarded`, `GaugesNeverOverstate`, `LiveBytesExact`.
`OnlyDestructionUnguarded` compares every assignment of a lifecycle with `can_transition`,
which no operation calls. Where a critical section makes two assignments (`revoke`, and
`register_buffer` between its locals and the table) both must be edges; the one
operation that leaves them, `destroy_protection_domain`, is the exception the property
names: there the code is not guarded as README.md:75 of the repository says.
`NoOrphanEntry` says that a live entry has an owner, not that its owner can still release it:
`soft_revoke` shows one that cannot.

**The sequential properties** (`lifecycle`, `access`) are false with overlapping
calls, and their comments say why: `SingleFlight` because two calls may find the
slot empty, `InForceIsCurrent` because a reallocation cannot reach an
unpublished record, `HandlesDistinct` because of the race on `next_seq_`. They
are what the test-suite's callers rely on. `AllowedMeansCurrent` and
`CurrentMeansAllowed` are the two directions of `validate_remote_access`: an
allowed access is backed by the authority (epoch, boot and owner), the buffer table, the domain, the
slot and the backend; and a request that matches a current registration is not
turned away, unless a transport rollover has moved the backend's key on since the last
rotation: the backend then refuses what the registry holds current, before `revalidate` as
not to be used and after it as an old key, and only `rotate_key` ends that. `KeysAgree` is the
state behind it (what the backend advertises is the registry's key generation; its own is
never behind, and ahead while the mark is there) and `KeysPartAtRollover` the steps: the two
part at a transport rollover only, and meet again at a rotation only. These properties look at
one caller's calls and the device's; the races of two callers are those of `concurrent`
and `realloc_race`.

**Two backends, one contract.** `SyntheticHonoursContract` and
`ReferenceHonoursContract` map each backend to `BackendContract`: a number is never
issued twice, not after a release, an abort or a restart; and a key that no longer
opens a region does not open it again until the holder is told a later generation.
`ReferenceAllowsExactly` says more of the reference backend: what
`can_register` lets in is what `query_remote_access` later grants.

**The file.** `ImplementsStore`: whatever saves overlap, fail or die, a reader finds
nothing or one snapshot that somebody asked to have saved. `SaveSticks`: a save
that returned true undisturbed is what a reader finds until the next save
reaches its `remove`. Not more: between `remove` and `rename` there is no file, and
both properties allow that. `AcceptsExactlyWellFormed` compares the parser with a
definition of a well-formed file. `TablesRoundTrip` and `NothingLiveRecovered` join the file to the
registry: a fresh process that saves again what it recovered writes the same authority, buffers,
domain ids and registrations, and no record that came from a file is in force. `TablesRoundTrip` is about
these four parts because `recover` reads no other. The accounting summary, the backend
summaries, the histories of keys and revocations and the policy generation are written
(865-873) and checked by `parse`, and never installed (918-951): they do not come back.

**The processes.** `NoProofFails`: a fault makes the coordinator stop early, never judge
wrongly. `WorkersKnowTheTruth`: what acknowledgements said stays true of the
registry, and two workers never both hold the buffer. `FramesInOrder` maps each of the six
streams to `FrameChannel`. `ScenarioEnds` is liveness: `main` returns, unless it waits in
`accept` for a worker that is gone or in `recv` for bytes an altered length promised.

**Refinement.** `KeyAuthority` moves a registration none → open → closed → gone,
lets only an open one take a holder and lets it go only when nobody holds it.
`RegistryProperties!Promise` maps a record to its phase, a record that is still
among a call's locals to "none", and an id whose call failed to "gone".

**Fairness.** `FairSpec` adds weak fairness of `Continue(t)`, the rest of a call
that is already running. That is what a scheduler gives a thread: neither
function waits for anything but the mutex, and every holder releases it at the
end of its one action. No operation is assumed to be *started*. `ScenarioSpec` has weak
fairness of the coordinator and of each worker, each a process the operating
system schedules; a step that waits for input is not enabled and so is not
promised. Faults are never fair.

**Deadlock** is checked in every passing run but `coordinator`, whose processes end
and which may wait for ever as said above.

## What the code does not do

Each is a run that TLC must find violated, on a statement of the repository.

1. `teardown`: "Duplicate release/deregister never double decrements. Final
   teardown closes all live/pinned/registered/leased counters to zero"
   (README.md:206-208). A reallocated registration leaves the gauges in
   `create_buffer` and again in `deregister`. Deregistering it while another one
   is in force takes the other one's share; when that one goes, its larger length
   is refused by the counter and stays for ever. One thread is enough.
2. `soft_revoke`: "keep key material until leases drain (modelled as REVOKING
   until lease_count reaches 0)" (registry.cpp:686-687). Only `revoke` itself looks at
   the count. After the last release the record is REVOKING with no lease, and
   `revoke` and `deregister` both refuse it: no action of the model leaves that
   state, so the counterexample is not a matter of scheduling.
3. `realloc_race`: a key never survives "memory reallocation" (README.md:100-102).
   A reallocation while `register_buffer` is in the backend is not noticed at
   the commit; the registration of the old generation then allows access.
4. `restart`: nor "process/owner restart, epoch rollover". An access is judged by
   the envelope it presents, not by the record's own boot and epoch.
5. `recovered_key`: again "process/owner restart". `recover` declares recovered keys dead
   but leaves the next ids at 1. The first registration of the new process gets the
   id and key generation of the recovered one and replaces its record; a request
   that names the dead key is allowed. The file needs one registration.

Smaller things met while reading, which no run states:

- "Every transition is guarded" (README.md:75), by the table of `can_transition`
  (registration.hpp:62). `destroy_protection_domain` assigns REVOKED to an ACTIVE
  registration (registry.cpp:137-141); the table leads there by REVOKING only.
  `OnlyDestructionUnguarded` names this operation and is false without the exception.
- `recover` tests for a record of the same id with the comment "duplicate identity
  -> skip" (registry.cpp:938) and then overwrites it. Buffers and domains are skipped.
- A recovered record is REVALIDATION_REQUIRED; `deregister` accepts it (748) and takes it to
  DEREGISTERING (752), which `can_transition` refuses (registration.hpp:103-105).
  `recover` itself moves a record it overwrites from any state.
- Of a domain the file holds the id alone, so a DESTROYED one comes back ACTIVE (864, 930).
- `save` zeroes the key material in the copied records (858-859), while the key histories take the
  keys as they are (865-866), which `recover` reads past.
- Two buffers with automatic ids are saved with the invalid id in their descriptors
  (189-191, 852), and the parser refuses the file as DUPLICATE_IDENTITY: `save`
  returned true, `recover` cannot read it. `SaveSticks` excepts such snapshots.
- protocol.hpp:6-8 says the decoder rejects duplicate ids, malformed ranges and
  trailing garbage; `decode_frame` looks at none of these.
- The coordinator ignores the result of `send_frame`: exit code 0 does not say that a
  worker got its last answer. The kind of the first frame is not looked at, and
  the results of the payload decoders are not either.
- B is told boot 2, and `note_participant_restart` then makes the authority's boot 2 as
  well. When the coordinator stops early, worker A, which sleeps for ever, is left running.
- `virtual_unlock` reports success always, and nobody looks at `release_pages`.

## Proofs

`tlapm` checks all of it, for every value of the constants that meets their
named assumptions: any number of threads, ids, leases, descriptors, any word size.

*Assumptions*: `RegistryAssumption` (bounds are naturals; descriptors, envelopes
and requests are of their types), `BackendAssumption`, `WordAssumption`,
`SessionAssumption`, `RangeAssumption`, `ReferenceAssumption` (lengths and offsets
are words, as `uint64_t` makes them), `ProbeAssumption`, `FormatAssumption` (a file is
made of the parts a file has), `FilesAssumption`, `RecoveryAssumption` (the files
found at the start were saved by this program, from tables within the same bounds; what
has become of their bytes is open), `ScenarioAssumption` (the coordinator calls
its registry from one thread), `WorkerAssumption` (the descriptor of worker.cpp:136-155 is one
that `validate_range` and the backend accept, and the access of coordinator.cpp is within it). TLC evaluates each in the runs. The theorems of
`SequentialProofs` have one hypothesis more, `OneCaller`: there is at most one
thread. It is stated in each of them, because the same properties are false for two
(see the sequential properties above). Device events are calls too and stay free between
the caller's own.

### The registry

*Tables* (`RegistryProofs`). `Inv` is `TypeOK`,
`CallsInRange`, `CommitNeverOverwrites` and `KeysSafe`. None of the parts is inductive alone:

- `TypeOK` needs `CallsInRange`: a commit writes a record at the id a call has
  carried since it was admitted, so that id must still be in range.
- `CommitNeverOverwrites` is an invariant of the counter, the table and the
  locals together: the id was drawn below the counter, and nobody else holds it.
  Without it a commit could replace a record that a slot or a lease names.
- `KeysSafe` adds `InForceKeyAlive` (a record in force has a live key, so
  `rotate_key` never clears a revocation) and `LeasesNamed` (a lease names a
  record that was handed out) to the two properties wanted, `SlotNeverDangles`
  and `NoActiveLeaseUnderRevokedKey`.

The step proof splits off the operations that only touch other tables
(`OperationQuiet`), and treats revocation, rotation, commit and deregistration one by
one. `KeepsDeadStep` then gives `NeverRevives`.

*Leases* (`RegistryProofs`). `LeaseInv` adds that every lease is
on a record in the table, that `lease_count` is exact, and `TeardownExclusive`: a call
between the two halves of `deregister` has its record to itself, DEREGISTERING
and with no lease. The last one carries the argument of `LeaseEndsByRelease`: the
leases are erased without looking at them, which is safe because DEREGISTERING
kept new ones away while the mutex was free. Counting uses the library's facts
on cardinality; `GrantCounted`, `ReturnCounted`, `CommitCounted` and
`EraseCounted` are the four ways the counted set changes.

*Bytes* (`RegistryProofs`, `ArithmeticProofs`). `LiveBytesExact` is inductive over the types: the
gauge follows every buffer made or reallocated. What it takes is a sum over a set, which
is defined by recursion. `LeastSubset` says that a set of natural-number sizes has a least one,
so that a law of finite sums (`AddsUnique`, `AddsExists`, `TotalWith`) is proved from its
smallest counterexample, with no theorem of induction. `NewBufferCounted` and
`ReallocationCounted` are the two ways the sum moves.

*Entries, gauges, lifecycle, refinement* (`AuthorityProofs`). `AuthorityInv` adds three parts.

- `EntriesOwned`, for `NoOrphanEntry`. "Some record or call has this handle" is not
  kept: two racing calls may share a handle, and the release of one
  removes the entry the other record names. `Owned` says instead who still
  answers for a live entry: a record nobody has surrendered to the backend, or a call
  that has stored and not yet published. A call of `deregister` whose release succeeded
  owns nothing, and one whose release failed leaves the record in the table.
- `RecordsKnown` lists the states a record reaches. `Edges` collects the transitions of
  `can_transition` the operations use, and `Changes` says which operation made a record
  leave its state, so that the two assignments of a revocation and the one of a destroyed
  domain are told apart (`OnlyDestructionUnguarded`).
- `GaugesNeverOverstate`: whatever takes a record or a lease out of its table also
  decrements, unless the gauge is too low already and the counter refuses. `FewerBy` counts the
  tables on the other side of the inequality.

`RegistryKeepsPromise` is the refinement: a record maps to its phase. A commit
opens, revocation, reallocation and the destruction of a domain close, and the last half of
`deregister` maps to "gone". That last step needs `LeaseCountExact` (a count of zero means
that nobody holds the record) and `CommitNeverOverwrites` (no call is about to publish
the id again).

*One caller* (`SequentialProofs`). `SequentialInv` is `AuthorityInv` and `Agreement`:

- `AdmittedHolds`: what `register_buffer` judged before it gave up the mutex still holds
  when it comes back, and the entry made in between is its own. This is what
  the code relies on without a second check.
- `TeardownInFlight`: a record in DEREGISTERING waits for the call that put it there, and
  a refusal from the backend means that the entry is gone already.
- `Vouched`: a VALID record is `Current`, that is, of the slot, buffer generation and domain as
  they are now, unless its deregistration has failed. It cannot be said of
  records in force only: `deregister` keeps a record VALID while it leaves force.
- `Backed`: the entry of a record is there, with its bytes and rights, unless the
  device was restarted or has released it, and while the record is in force it advertises
  the record's key, its own being the same or, after a transport rollover, a later one
  (`KeyBacked`). `rec.bgen <= device.backend` is what makes a restart safe: no record is from a
  later device.
- `HandlesDistinct` and `handle < nextSeq`: a handle just numbered is new.

Every sequential property follows from it. For `KeysPartOnlyAtRollover` each step is taken
by itself: an operation can only be the rotation of this record or of another, whose
entry is a different one; a device event is a rollover or leaves the key; and a
call stores or drops an entry no record in force names. `AllowIsCurrent` and `CurrentIsAllowed` also
use `ArithmeticProofs`, since the bytes of a request are judged in wrapping arithmetic twice.
One precision came out of the proof: "the bytes accessed" are inside the
*registered* length, not the created one, because `register_buffer` compares
the descriptor with the buffer by generation only (registry.cpp:252).

### The other parts

*Words* (`ArithmeticProofs`, `BackendProofs`). `CheckedAddExact` and `BoundsExact` show that
the two bounds tests mean the same for every `WordModulus`.

*The backends* (`BackendProofs`). `RegionInv` (a number not yet given out has no region; what
is live was let in by `can_register`) gives both `AllowsExactly` and, step by step, the
contract of the reference backend. `SessionInv` does it for the synthetic one: the
generation the holder was told is at most the entry's, and less while the entry waits
for revalidation. The strict half is the point: a key that a rollover closed
opens nothing until `revalidate` tells a later one.

*The probe* (`BackendProofs`). `ProbeInv` ties the program point to what is held and what the report
says; `ProbeHonest` is one of its parts and not inductive without the others.

*The save file* (`SaveProofs`). `FilesInv` is inductive: `FilesTyped`;
`NothingInvented` (a readable inode, and what a save is about to write, was asked for);
`NamesApart` (path and path.tmp are two files); `AloneIsAlone` (a save marked alone is the only
one in progress); `AloneWrites` (such a save writes the inode behind path.tmp, and finds
there what it wrote); `KeptInPlace` (the kept snapshot is behind path, and nobody has that
inode open). The last three carry the argument: a rename
puts at path what the saver wrote only because nobody else had the inode open since.
`FreeInode` counts: there is always an inode for a new temporary.

*Recovery* (`RecoveryProofs`). Two invariants, because one needs a hypothesis.

`RestartInv` holds for any number of threads and savers: `TablesTyped` (the types, and the id
inside a stored descriptor is an id of the table, since that is the one saved),
`FilesWhole`, and `LiveBytesExact`. A capture writes what the tables hold, so the types of
the tables make the files whole (`CaptureWhole`), and whole files keep the types when they
are installed (`TablesRecovered`): the two are inductive together only. `BytesRecovered`
adds the buffers of the file which the table had not: no id twice, as the parser made
sure (`AcceptedOnce`), so the sum of the list is the sum of what is added.

`RestoredAsSaved` compares contents, not lists: `EssenceIs` says of a snapshot what it must
hold of the tables, and every copy of the tables, in whatever order, has it
(`CopyEssence`). `RecoverRestores`: what is installed into empty tables leaves tables whose
copies have the essence of the file. That nothing else ends a `recover` this way, a crash at
the same moment included, is `OnlyInstallAccepts`.

"What came from a file is not in force" is not kept by itself: a file does not say which handles
the new process will issue. `HandlesIssued` is about both ends: what is in force, or has just been
stored by a call that will publish it, has a handle from 1 up to below `next_seq_`. Every file,
and what a save or a recovery carries, has records of whole fields, so that `Recovered` takes
each of them out of force; a crash empties the tables and sets the counter back at once.
`NothingComesBackLive` has the hypothesis of one caller for the counter's sake: with two, the race
for `next_seq_` may take it back below a handle in use. `LoweredKeeps` serves every step
that only takes records out of force.

*The parser* (`SaveProofs`). `ParserExact` is about every file: any spoiled parts, any odd
byte, lists of any length. Its core, `ListErrors`: no id comes a second time on the walk through
a list exactly when the list has as many ids as elements.

*The streams* (`CoordinatorProofs`). `StreamInv`: every chunk on its way is of the
frame sent last, there are at most three, and on a stream somebody reads at most
one frame is outstanding. That is not a fact about streams but about who talks when. `Turns` gives
the order: a worker speaks HELLO and then waits for its acknowledgement, then one
request and its answer. An end that is cut off or refuses a frame is deaf from then on, so
a late chunk is never taken for the start of a new frame. `InOrder` is the refinement of
`FrameChannel`, channel by channel.

*What workers know* (`CoordinatorProofs`). `TruthInv` follows a truth from the registry to the worker:
`Books`, `Calls`, `Boots` and `Epochs` say what the coordinator's tables and locals have to
do with each other; `Words`, that the last frame sent to a worker is true; `Beliefs`, that
what it took is. `Keeps` is the reason that nothing said is taken back: epochs and key
generations only grow, and the scenario erases no record. Two workers never both hold
the buffer, because both records would be in force and the one slot names one.
The integrity of frames enters through `StreamInv` alone.

*Why no proof line fails* (`CoordinatorProofs`). `NoProofFails` says nothing about why an
access is judged as it is, so `Script` says what each line of `main` counts on, and `ScriptInv` is
that with the two invariants above. `Stage` is about the registry: `Current` (which epoch and
boot are the authority's at this point), `Furnished` (backend, domain and buffer are there, the
buffer never in another generation), and `Recorded` (the slot is free when a buffer is to be
registered; the call under way has stored the entry its descriptor asks for; what A got is
whole until it is revoked). `Asked` is about B: it asks for the registration and key on its
command line, which are A's, since nobody touches `reg_a` once B may be running. It needs the
order of the conversation (`Turns`): before B is spawned its stream is empty. Then
`AccessAllowed` goes through every verdict of `validate_remote_access` and of the backend, and
`AccessStale` needs one: the boot. The steps that matter are one lemma each (`CreateStage`,
`RegisterStage`, `RegisteringStage`, `AnswerStage`, `RestartStage`, `RevokeStage`,
`JudgingStage`); every other step leaves the registry as it was (`SteadyStage`).

### Theorems

| Module | Theorem | States |
|---|---|---|
| `RegistryProofs` | `InvHolds` | `Spec => []Inv` |
| | `TypeCorrect` | `Spec => []TypeOK` |
| | `IdsNeverReused` | `Spec => []CommitNeverOverwrites` |
| | `SlotSafe` | `Spec => []SlotNeverDangles` |
| | `NoLeaseOnDeadKey` | `Spec => []NoActiveLeaseUnderRevokedKey` |
| | `DeadStaysDead` | `Spec => NeverRevives` |
| | `LeaseInvHolds` | `Spec => []LeaseInv` |
| | `CountExact` | `Spec => []LeaseCountExact` |
| | `NoLeaseTakenAway` | `Spec => LeaseEndsByRelease` |
| | `BytesExact` | `Spec => []LiveBytesExact` |
| `AuthorityProofs` | `AuthorityInvHolds` | `Spec => []AuthorityInv` |
| | `NoEntryLeaked` | `Spec => []NoOrphanEntry` |
| | `GaugesBounded` | `Spec => []GaugesNeverOverstate` |
| | `LifecycleGuarded` | `Spec => OnlyDestructionUnguarded` |
| | `RegistryKeepsPromise` | `Spec => ImplementsKeyAuthority` |
| `SequentialProofs` | `SequentialInvHolds` | `OneCaller`: `Spec => []SequentialInv` |
| | `OneRegistrationPerBuffer` | `OneCaller`: `Spec => []SingleFlight` |
| | `SupersededLeaveForce` | `OneCaller`: `Spec => []InForceIsCurrent` |
| | `HandlesNeverShared` | `OneCaller`: `Spec => []HandlesDistinct` |
| | `KeysStayInStep` | `OneCaller`: `Spec => []KeysAgree` |
| | `KeysPartOnlyAtRollover` | `OneCaller`: `Spec => KeysPartAtRollover` |
| | `LeasesAreBacked` | `OneCaller`: `Spec => []LeasedRegionIsLive` |
| | `AllowIsCurrent`, `CurrentIsAllowed` | `OneCaller`: `Spec => []AllowedMeansCurrent`, `[]CurrentMeansAllowed` |
| | `ReuseIsCurrent` | `OneCaller`: `Spec => []ReuseOnlyCurrent` |
| `BackendProofs` | `ChecksAgree`, `InsideExact` | the two range properties |
| | `AllowsExactly` | `ReferenceSpec => []ReferenceAllowsExactly` |
| | `ReferenceKeepsContract` | `ReferenceSpec => ReferenceHonoursContract` |
| | `SimulationAuthorised` | `SessionSpec => []SimulationIsAuthorised` |
| | `SyntheticKeepsContract` | `SessionSpec => SyntheticHonoursContract` |
| | `ProbeAlwaysHonest` | `ProbeSpec => []ProbeHonest` |
| `SaveProofs` | `SavedSticks` | `FilesSpec => []SaveSticks` |
| | `SaveImplementsStore` | `FilesSpec => ImplementsStore` |
| | `ParserExact` | `FormatSpec => []AcceptsExactlyWellFormed` |
| `RecoveryProofs` | `RestartInvHolds` | `PersistenceSpec => []RestartInv` |
| | `TypedAcrossRestarts` | `PersistenceSpec => []TypeOK` |
| | `BytesExactAcrossRestarts` | `PersistenceSpec => []LiveBytesExact` |
| | `RestoredAsSaved` | `PersistenceSpec => TablesRoundTrip` |
| | `NothingComesBackLive` | one caller: `PersistenceSpec => []NothingLiveRecovered` |
| `CoordinatorProofs` | `InOrder` | `ScenarioSpec => FramesInOrder` |
| | `TruthKnown` | `ScenarioSpec => []WorkersKnowTheTruth` |
| | `AllProofsPass` | `ScenarioSpec => []NoProofFails` |

*Only model-checked*: liveness (`CallsReturn`, `DeregisterSettles`, `ScenarioEnds`), which is out
of the prover's reach. Every invariant and action property that a passing run checks is the
subject of a theorem.

## Mutants

Some definitions are preceded by a variant marked "mutant": the same
definition with a plausible bug (a dropped guard, a missing reset, a number
restarted). Nothing in the model uses them. Each property fails on some run when
the variant takes the place of the definition, which shows that the property
depends on the code it is about. `PROJECT.json` pairs them.

## What is not modelled

- The CUDA backend and its proof: device transfers and timing, and a registration side
  that always refuses. Explanations: text. The command line, the examples and the
  benchmarks: drivers, whose calls are behaviours of `Registry`.
- The parts of a file that `recover` reads past (see *The file*), and the decoder's limits:
  2^20 elements to a list and 2^20 bytes to a string, which `serialize` does not enforce, so that a
  larger table would be saved and then refused.
- Calls of other holders of the backend that release or rotate the registry's entries (see
  *The device*).
- `semantic_digest`: a line of a report that nothing compares. What a power failure takes
  back after `rename` returned: the code does not call fsync and promises nothing.
- The coordinator without `--scenario`, and failures of `socket`, `bind`, `accept`. The
  payloads of the protocol are records; `payload_string` and the result payloads are
  never sent.
- A registry that uses the reference backend. The registry meets a backend only through
  `IBackend`, whose promise both keep.
- More than one backend. Records keep the id of theirs; requests that name
  another one are refused, and are among the requests of `access`.
- A descriptor passed to `register_buffer` that differs from the one the buffer
  was created with in length or rights: the model allows it, as the code does
  (only id and generation are compared), but the runs use consistent callers.
- `transport` of a record is never assigned by the code: any request that names
  a transport is refused. `registration_generation` is 1 for ever.
- `query_registration` and the getters, which change nothing. `BufferEntry.registered`
  and an entry's `revoked`, which are never set. Timestamps and explanations.
- The undefined remainder in `simulate_remote` for a length of zero, and torn
  reads through the reference `accounting()` returns.
- Counters and generations are naturals: 2^64 increments are out of reach.

## Plan

In this order:

1. *(done)* types, ranges, authority, backend, registry; properties; the abstract
   promise; invariants and leases proved.
2. *(done)* persistence, with the file promise proved; framing; the reference backend,
   its contract proved; the pinning probe; the coordinator's scenario.
3. *(done)* proofs of every invariant and action property that any interleaving keeps,
   of what one caller may rely on, of both backends, the probe, the parser, the
   streams, what the workers are told, what recovery brings back and that it is what was saved,
   and that no proof line of the scenario fails.
4. **Model**: `Registry` with two backends at once; the command line's save and recover
   sequence, once more than one process uses a file.

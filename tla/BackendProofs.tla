----------------------------- MODULE BackendProofs -----------------------------
(***************************************************************************)
(* The pure checks on ranges, and the backends behind them, for every word *)
(* size and any number of registrations and rotations.                     *)
(***************************************************************************)
EXTENDS RangeProperties, ReferenceBackend, BackendSession, PinningProbe, ArithmeticProofs

------------------------------------------------------------------------------
(* Ranges: theorems about every question.                                  *)

(* What a question is made of.                                             *)
WellAsked ==
    /\ question.about = "range" =>
          question.desc \in Asked /\ question.offset \in Word /\ question.length \in Word

(* Questions are asked about words.                                        *)
LEMMA AskedWell == RangeSpec => []WellAsked
<1>1. RangeInit => WellAsked
  BY DEF RangeInit, NoQuestion, WellAsked
<1>2. WellAsked /\ [RangeNext]_question => WellAsked'
  BY DEF WellAsked, RangeNext, AskRange, Answered, NoQuestion
<1>. QED  BY <1>1, <1>2, PTL DEF RangeSpec

(* The registry's and the backend's bounds checks agree for every word     *)
(* size (buffer_model.hpp:119-124, synthetic_backend.cpp:181-242).         *)
THEOREM ChecksAgree == RangeSpec => []RangeChecksAgree
<1>1. WellAsked => RangeChecksAgree
  BY BoundsExact, RangeAssumption DEF WellAsked, RangeChecksAgree, RangeAssumption
<1>. QED  BY <1>1, AskedWell, PTL

(* A validated descriptor ends inside the address space, and range_inside  *)
(* accepts exactly the accesses inside it (buffer_model.hpp:92-124).       *)
THEOREM InsideExact == RangeSpec => []RangeInsideExact
<1>1. ASSUME NEW d \in Descriptor, d.base \in Word, d.len \in Word, ValidateRange(d) = "OK"
      PROVE  d.base + d.len < WordModulus /\ d.base % d.align = 0
  BY <1>1, CheckedAddExact DEF ValidateRange
<1>2. WellAsked => RangeInsideExact
  BY <1>1, BoundsExact, RangeAssumption DEF WellAsked, RangeInsideExact, RangeAssumption
<1>. QED  BY <1>2, AskedWell, PTL

------------------------------------------------------------------------------
(* The reference backend.                                                  *)

Region ==
    [live : BOOLEAN, len : Word, rights : SUBSET AccessRights, keyGen : Nat]

(* A live region was let in by can_register, its number has been drawn and *)
(* its key counts from 1; nothing is left of any other.                    *)
RegionInv ==
    /\ refNext \in Nat
    /\ regions \in [RefHandles -> Region]
    /\ \A h \in RefHandles :
          /\ regions[h].live =>
                h < refNext /\ regions[h].keyGen >= 1 /\ "REMOTE_ATOMIC" \notin regions[h].rights
          /\ ~regions[h].live => regions[h].keyGen = 0

(* A new backend has no region.                                            *)
LEMMA RegionsStart == ReferenceInit => RegionInv
<1>1. 0 \in Word
  BY WordAssumption DEF Word
<1>. QED  BY <1>1 DEF ReferenceInit, RegionInv, Region, NoRegion, RefHandles

(* Every operation of the backend keeps its table in order: only           *)
(* registering draws a number, and only a rotation changes a live region.  *)
LEMMA RegionsStep ==
    ASSUME RegionInv, [ReferenceNext]_refVars
    PROVE  RegionInv'
<1>1. CASE UNCHANGED refVars
  BY <1>1 DEF RegionInv, refVars
<1>2. ASSUME NEW d \in RefOffered, ReferenceRegister(d)
      PROVE  RegionInv'
  <2>1. /\ d \in Descriptor /\ d.len \in Word /\ "REMOTE_ATOMIC" \notin d.rights
    BY <1>2, ReferenceAssumption DEF ReferenceAssumption, ReferenceRegister, ReferenceCanRegister
  <2>2. [live |-> TRUE, len |-> d.len, rights |-> d.rights, keyGen |-> 1] \in Region
    BY <2>1 DEF Region, Descriptor
  <2>. QED  BY <1>2, <2>1, <2>2 DEF RegionInv, ReferenceRegister, RefHandles
<1>3. ASSUME NEW h \in RefHandles, ReferenceDrop(h)
      PROVE  RegionInv'
  <2>1. NoRegion \in Region
    BY WordAssumption DEF NoRegion, Region, Word
  <2>. QED  BY <1>3, <2>1 DEF RegionInv, ReferenceDrop, NoRegion
<1>4. ASSUME NEW h \in RefHandles, ReferenceRotate(h)
      PROVE  RegionInv'
  BY <1>4 DEF RegionInv, ReferenceRotate, Region
<1>5. CASE ReferenceAdvance
  BY <1>5 DEF RegionInv, ReferenceAdvance
<1>. QED  BY <1>1, <1>2, <1>3, <1>4, <1>5 DEF ReferenceNext, ReferenceAnswer

(* The table of a reference backend is always in order.                    *)
LEMMA RegionsInvariant == ReferenceSpec => []RegionInv
BY RegionsStart, RegionsStep, PTL DEF ReferenceSpec

(* An access is allowed exactly when the handle is live, the key current,  *)
(* the bytes inside and the right granted (reference_backend.cpp:48-58,    *)
(* 115-153).                                                               *)
THEOREM AllowsExactly == ReferenceSpec => []ReferenceAllowsExactly
<1>1. ASSUME RegionInv, NEW h \in RefHandles, NEW p \in RefProbes
      PROVE  ReferenceQuery(h, p.expected, p.kind, p.offset, p.length) = "ALLOW"
                 <=> /\ regions[h].live
                     /\ p.expected = regions[h].keyGen
                     /\ p.offset + p.length <= regions[h].len
                     /\ IntrinsicRight(p.kind) \in regions[h].rights
  <2>1. /\ p.kind \in OperationKinds /\ p.offset \in Word /\ p.length \in Word
        /\ regions[h].len \in Word
    BY <1>1, ReferenceAssumption DEF ReferenceAssumption, RegionInv, Region
  <2>2. BackendRangeInside(regions[h].len, p.offset, p.length)
           <=> p.offset + p.length <= regions[h].len
    BY <2>1, BackendBoundsExact
  <2>3. p.kind = "ATOMIC_COMPARE_SWAP" /\ regions[h].live
           => IntrinsicRight(p.kind) \notin regions[h].rights
    BY <1>1 DEF RegionInv, IntrinsicRight
  <2>4. ReferenceQuery(h, p.expected, p.kind, p.offset, p.length) = "ALLOW"
           <=> /\ regions[h].live
               /\ p.expected = regions[h].keyGen
               /\ BackendRangeInside(regions[h].len, p.offset, p.length)
               /\ p.kind # "ATOMIC_COMPARE_SWAP"
               /\ IntrinsicRight(p.kind) \in regions[h].rights
    BY Zenon DEF ReferenceQuery
  <2>. QED  BY <2>2, <2>3, <2>4
<1>2. RegionInv => ReferenceAllowsExactly
  BY <1>1 DEF ReferenceAllowsExactly
<1>. QED  BY <1>2, RegionsInvariant, PTL

(* No handle comes back, and the key its holder knows opens the            *)
(* registration until it is dropped (reference_backend.cpp:67-69, 96-103,  *)
(* 164-185).                                                               *)
THEOREM ReferenceKeepsContract == ReferenceSpec => ReferenceHonoursContract
<1>1. ReferenceInit => ReferenceContract!ContractInit
  BY DEF ReferenceInit, NoRegion, RefHandles, ReferenceContract!ContractInit
<1>2. ASSUME RegionInv, RegionInv', [ReferenceNext]_refVars
      PROVE  [ReferenceContract!ContractNext]_(ReferenceContract!contractVars)
  <2>1. CASE UNCHANGED refVars
    BY <2>1 DEF refVars, ReferenceContract!contractVars
  <2>2. ASSUME NEW d \in RefOffered, ReferenceRegister(d)
        PROVE  ReferenceContract!ContractNext
    <3>1. PICK h \in RefHandles : h = refNext
      BY <2>2 DEF ReferenceRegister
    <3>2. /\ ~regions[h].live /\ h = refNext /\ refNext' = refNext + 1
          /\ regions'[h].live = TRUE /\ regions'[h].keyGen = 1
          /\ \A x \in RefHandles : x # h => regions'[x] = regions[x]
      BY <1>2, <2>2, <3>1 DEF RegionInv, ReferenceRegister
    <3>3. refNext \in Nat /\ RefHandles \subseteq Nat
      BY <1>2 DEF RegionInv, RefHandles
    <3>4. ReferenceContract!Issue(h)
      <4>1. /\ \A x \in RefHandles : x < refNext' <=> x < refNext \/ x = h
            /\ ~(h < refNext)
        BY ONLY <3>2, <3>3
      <4>2. [x \in RefHandles |-> IF regions[x].live THEN "live"
                                 ELSE IF x < refNext THEN "gone" ELSE "none"]'
              = [[x \in RefHandles |-> IF regions[x].live THEN "live"
                                      ELSE IF x < refNext THEN "gone" ELSE "none"]
                   EXCEPT ![h] = "live"]
        BY ONLY <3>2, <4>1, h \in RefHandles
      <4>3. [x \in RefHandles |-> regions[x].keyGen]'
              = [[x \in RefHandles |-> regions[x].keyGen] EXCEPT ![h] = 1]
        BY ONLY <3>2, h \in RefHandles
      <4>4. [x \in RefHandles |-> regions[x].live]'
              = [[x \in RefHandles |-> regions[x].live] EXCEPT ![h] = TRUE]
        BY ONLY <3>2, h \in RefHandles
      <4>. QED
        BY ONLY <3>2, <4>1, <4>2, <4>3, <4>4, h \in RefHandles
        DEF ReferenceContract!Issue
    <3>. QED  BY <3>4 DEF ReferenceContract!ContractNext
  <2>3. ASSUME NEW h \in RefHandles, ReferenceDrop(h)
        PROVE  ReferenceContract!ContractNext
    <3>1. /\ regions[h].live /\ h < refNext /\ refNext' = refNext
          /\ regions'[h].live = FALSE /\ regions'[h].keyGen = 0
          /\ \A x \in RefHandles : regions[x].live \in BOOLEAN
          /\ \A x \in RefHandles : x # h => regions'[x] = regions[x]
      BY <1>2, <2>3 DEF RegionInv, Region, ReferenceDrop, NoRegion
    <3>2. ReferenceContract!Return({h})
      BY ONLY <3>1, h \in RefHandles DEF ReferenceContract!Return
    <3>. QED  BY <3>2 DEF ReferenceContract!ContractNext
  <2>4. ASSUME NEW h \in RefHandles, ReferenceRotate(h)
        PROVE  ReferenceContract!ContractNext
    <3>1. /\ regions[h].live /\ refNext' = refNext
          /\ regions'[h].live /\ regions'[h].keyGen > regions[h].keyGen
          /\ \A x \in RefHandles : x # h => regions'[x] = regions[x]
      BY <1>2, <2>4 DEF RegionInv, RefHandles, ReferenceRotate, Region
    <3>2. ReferenceContract!Rekey(h)
      BY ONLY h \in RefHandles, <3>1 DEF ReferenceContract!Rekey
    <3>. QED  BY <3>2 DEF ReferenceContract!ContractNext
  <2>5. CASE ReferenceAdvance
    BY <2>5 DEF ReferenceAdvance, ReferenceContract!contractVars
  <2>. QED
    BY <1>2, <2>1, <2>2, <2>3, <2>4, <2>5 DEF ReferenceNext, ReferenceAnswer
<1>. QED
  BY <1>1, <1>2, RegionsInvariant, PTL
  DEF ReferenceSpec, ReferenceHonoursContract, ReferenceContract!ContractSpec

------------------------------------------------------------------------------
(* The synthetic backend.                                                  *)

(* A live entry's number has been drawn, and the generation its holder was *)
(* told is never ahead of the entry's own: behind it while the entry waits *)
(* to be revalidated.  Without the last part a revalidation might make a   *)
(* stale key good again.                                                   *)
SessionInv ==
    /\ BackendTypeOK
    /\ \A h \in Handles :
          /\ entries[h].len \in Word
          /\ ~entries[h].live => entries[h] = NoEntry
          /\ entries[h].live => h < nextSeq
          /\ entries[h].advertised <= entries[h].keyGen
          /\ entries[h].revalidate => entries[h].advertised < entries[h].keyGen

(* An empty entry is one, and so is what registering stores.               *)
LEMMA EntriesTyped ==
    /\ NoEntry \in Entry /\ NoEntry.len \in Word
    /\ \A d \in Offered : EntryFor(d) \in Entry /\ EntryFor(d).len \in Word
<1>1. 0 \in Word
  BY WordAssumption DEF Word
<1>2. NoEntry \in Entry /\ NoEntry.len \in Word
  BY <1>1 DEF NoEntry, Entry
<1>3. ASSUME NEW d \in Offered
      PROVE  EntryFor(d) \in Entry /\ EntryFor(d).len \in Word
  BY SessionAssumption DEF SessionAssumption, Descriptor, EntryFor, Entry
<1>. QED  BY <1>2, <1>3

(* A new backend has no entry.                                             *)
LEMMA SessionStarts == BackendInit => SessionInv
BY EntriesTyped DEF BackendInit, SessionInv, BackendTypeOK, DeviceGenerations, NoEntry, Handles

(* Registering moves the counter past the number it draws; a rollover      *)
(* moves every key on before it asks for a revalidation; and a rotation    *)
(* leaves the entry with the generation it was told.                       *)
LEMMA SessionSteps ==
    ASSUME SessionInv, [SessionNext]_backendVars
    PROVE  SessionInv'
<1>1. CASE UNCHANGED backendVars
  BY <1>1 DEF SessionInv, backendVars, BackendTypeOK
<1>2. ASSUME NEW d \in Offered, BackendRegister(d)
      PROVE  SessionInv'
  <2>1. /\ EntryFor(d) \in Entry /\ EntryFor(d).len \in Word /\ EntryFor(d).live
        /\ EntryFor(d).advertised = EntryFor(d).keyGen /\ EntryFor(d).keyGen = 1
        /\ ~EntryFor(d).revalidate
    BY EntriesTyped, Zenon DEF EntryFor
  <2>2. /\ nextSeq \in Handles /\ nextSeq' = nextSeq + 1
        /\ entries' = [entries EXCEPT ![nextSeq] = EntryFor(d)]
        /\ UNCHANGED <<profile, device>>
    BY <1>2 DEF BackendRegister, BackendStore
  <2>. QED  BY <2>1, <2>2 DEF SessionInv, BackendTypeOK, Handles
<1>3. ASSUME NEW h \in Handles, BackendDrop(h)
      PROVE  SessionInv'
  BY <1>3, EntriesTyped DEF BackendDrop, SessionInv, BackendTypeOK, NoEntry
<1>4. ASSUME NEW h \in Handles, RotateAdvertised(h)
      PROVE  SessionInv'
  <2>1. /\ LiveEntry(h)
        /\ entries' = [entries EXCEPT ![h].keyGen = entries[h].advertised + 1,
                                      ![h].advertised = entries[h].advertised + 1,
                                      ![h].revalidate = FALSE]
        /\ UNCHANGED <<profile, device, nextSeq>>
    BY <1>4 DEF RotateAdvertised, BackendRotate, RotatedEntries
  <2>. QED  BY <2>1 DEF SessionInv, BackendTypeOK, Entry, LiveEntry
<1>5. ASSUME NEW h \in Handles, BackendRevalidate(h)
      PROVE  SessionInv'
  BY <1>5 DEF BackendRevalidate, SessionInv, BackendTypeOK, Entry, LiveEntry
<1>6. CASE RolloverTransport
  <2>1. ASSUME NEW h \in Handles
        PROVE  /\ entries'[h] \in Entry
               /\ entries'[h].len = entries[h].len /\ entries'[h].live = entries[h].live
               /\ entries'[h].advertised = entries[h].advertised
               /\ entries[h].live => entries'[h].keyGen = entries[h].keyGen + 1
               /\ ~entries[h].live => entries'[h] = entries[h]
    <3>1. entries[h] \in Entry
      BY SessionInv DEF SessionInv, BackendTypeOK
    <3>2. /\ entries[h].live => entries'[h] = Rolled(entries[h])
          /\ ~entries[h].live => entries'[h] = entries[h]
      BY <1>6 DEF RolloverTransport, LiveEntry
    <3>3. ASSUME NEW e \in Entry
          PROVE  /\ Rolled(e) \in Entry /\ Rolled(e).live = e.live
                 /\ Rolled(e).len = e.len /\ Rolled(e).advertised = e.advertised
                 /\ Rolled(e).keyGen = e.keyGen + 1
      <4>1. e.keyGen + 1 \in Nat
        BY DEF Entry
      <4>. QED  BY <4>1 DEF Rolled, Entry
    <3>. QED  BY <3>1, <3>2, <3>3
  <2>2. entries' \in [Handles -> Entry]
    BY <1>6, <2>1 DEF RolloverTransport
  <2>3. device' \in DeviceGenerations /\ UNCHANGED <<profile, nextSeq>>
    BY <1>6 DEF RolloverTransport, SessionInv, BackendTypeOK, DeviceGenerations
  <2>. QED  BY <2>1, <2>2, <2>3 DEF SessionInv, BackendTypeOK, Entry
<1>7. CASE RestartBackend
  BY <1>7, EntriesTyped
  DEF RestartBackend, NumbersAfterRestart, SessionInv, BackendTypeOK, DeviceGenerations, NoEntry
<1>8. CASE RolloverBackend \/ RolloverNic \/ \E p \in Profiles : Configure(p)
  BY <1>8
  DEF RolloverBackend, RolloverNic, Configure, SessionInv, BackendTypeOK, DeviceGenerations
<1>. QED
  BY <1>1, <1>2, <1>3, <1>4, <1>5, <1>6, <1>7, <1>8 DEF SessionNext, BackendEvent

(* The table of a synthetic backend used on its own is always in order.    *)
LEMMA SessionInvariant == SessionSpec => []SessionInv
BY SessionStarts, SessionSteps, PTL DEF SessionSpec

(* simulate_remote allows an access only where some entry permits it       *)
(* (synthetic_backend.cpp:195-242, 310-340): the keys it presents are the  *)
(* ones the entry advertises, so an entry passes only with a good key.     *)
THEOREM SimulationAuthorised == SessionSpec => []SimulationIsAuthorised
<1>1. ASSUME SessionInv, NEW p \in Probes, NEW h \in SimulateCandidates(p.expected),
             QueryRemoteAccess(h, entries[h].advertised, p.kind, p.offset, p.length) = "ALLOW"
      PROVE  /\ h \in Handles /\ KeyGood(h)
             /\ entries[h].keyGen = p.expected
             /\ p.offset + p.length <= entries[h].len
             /\ IntrinsicRight(p.kind) \in entries[h].rights \cap profile.remote
  <2>1. /\ h \in Handles /\ LiveEntry(h) /\ ~entries[h].revalidate
        /\ entries[h].keyGen = p.expected
    BY <1>1 DEF SimulateCandidates
  <2>2. /\ entries[h].advertised = entries[h].keyGen
        /\ BackendRangeInside(entries[h].len, p.offset, p.length)
        /\ IntrinsicRight(p.kind) \in entries[h].rights \cap profile.remote
    BY <1>1 DEF QueryRemoteAccess, Supports
  <2>3. entries[h].len \in Word /\ p.offset \in Word /\ p.length \in Word
    BY <1>1, <2>1, SessionAssumption DEF SessionAssumption, SessionInv
  <2>. QED  BY <2>1, <2>2, <2>3, BackendBoundsExact DEF KeyGood
<1>2. ASSUME SessionInv, NEW p \in Probes,
             "ALLOW" \in SimulateRemote(p.kind, p.offset, p.length, p.expected)
      PROVE  \E h \in SimulateCandidates(p.expected) :
                QueryRemoteAccess(h, entries[h].advertised, p.kind, p.offset, p.length) = "ALLOW"
  BY <1>2, Zenon DEF SimulateRemote
<1>3. SessionInv => SimulationIsAuthorised
  BY <1>1, <1>2 DEF SimulationIsAuthorised
<1>. QED  BY <1>3, SessionInvariant, PTL
(* The synthetic backend keeps the contract of every backend: whatever     *)
(* rolls over, a key that went stale opens its entry again only as a later *)
(* generation its holder was told, and no handle comes back                *)
(* (synthetic_backend.cpp:126-127, 244-308).                               *)
THEOREM SyntheticKeepsContract == SessionSpec => SyntheticHonoursContract
<1>1. BackendInit => SyntheticContract!ContractInit
  <2>. SUFFICES ASSUME BackendInit
                PROVE  SyntheticContract!ContractInit
    OBVIOUS
  <2>1. \A h \in Handles : /\ ~LiveEntry(h) /\ KeyGood(h) = FALSE /\ ~(h < nextSeq)
                           /\ entries[h].advertised = 0
    BY DEF BackendInit, NoEntry, LiveEntry, KeyGood, Handles
  <2>. QED  BY <2>1 DEF SyntheticContract!ContractInit
<1>2. ASSUME SessionInv, SessionInv', [SessionNext]_backendVars
      PROVE  [SyntheticContract!ContractNext]_(SyntheticContract!contractVars)
  <2>1. CASE UNCHANGED backendVars
    BY <2>1 DEF backendVars, SyntheticContract!contractVars, KeyGood, LiveEntry
  <2>2. ASSUME NEW d \in Offered, BackendRegister(d)
        PROVE  SyntheticContract!ContractNext
    <3>1. PICK h \in Handles : h = nextSeq
      BY <2>2 DEF BackendRegister
    <3>2. /\ nextSeq' = nextSeq + 1 /\ nextSeq \in Nat /\ Handles \subseteq Nat
          /\ entries' = [entries EXCEPT ![h] = EntryFor(d)]
      BY <2>2, <3>1 DEF BackendRegister, BackendStore, Handles
    <3>3. ~LiveEntry(h)
      BY <1>2, <3>1, <3>2 DEF SessionInv, LiveEntry
    <3>4. /\ LiveEntry(h)' /\ KeyGood(h)' = TRUE /\ entries'[h].advertised = 1
          /\ \A x \in Handles : x # h => entries'[x] = entries[x]
      BY <1>2, <3>2 DEF SessionInv, BackendTypeOK, LiveEntry, KeyGood, EntryFor
    <3>5. \A x \in Handles : x # h => /\ LiveEntry(x)' <=> LiveEntry(x)
                                      /\ KeyGood(x)' = KeyGood(x)
      BY <3>4 DEF LiveEntry, KeyGood
    <3>6. SyntheticContract!Issue(h)
      <4>1. /\ \A x \in Handles : x < nextSeq' <=> x < nextSeq \/ x = h
            /\ ~(h < nextSeq)
        BY ONLY <3>1, <3>2
      <4>2. [x \in Handles |-> IF LiveEntry(x) THEN "live"
                              ELSE IF x < nextSeq THEN "gone" ELSE "none"]'
              = [[x \in Handles |-> IF LiveEntry(x) THEN "live"
                                   ELSE IF x < nextSeq THEN "gone" ELSE "none"]
                   EXCEPT ![h] = "live"]
        BY ONLY <3>4, <3>5, <4>1, h \in Handles
      <4>3. [x \in Handles |-> entries[x].advertised]'
              = [[x \in Handles |-> entries[x].advertised] EXCEPT ![h] = 1]
        BY ONLY <3>4, h \in Handles
      <4>4. [x \in Handles |-> KeyGood(x)]'
              = [[x \in Handles |-> KeyGood(x)] EXCEPT ![h] = TRUE]
        BY ONLY <3>4, <3>5, h \in Handles
      <4>. QED
        BY ONLY <3>3, <4>1, <4>2, <4>3, <4>4, h \in Handles
        DEF SyntheticContract!Issue
    <3>. QED  BY <3>6 DEF SyntheticContract!ContractNext
  <2>3. ASSUME NEW h \in Handles, BackendDrop(h)
        PROVE  SyntheticContract!ContractNext
    <3>1. /\ LiveEntry(h) /\ h < nextSeq /\ nextSeq' = nextSeq
          /\ ~LiveEntry(h)' /\ KeyGood(h)' = FALSE /\ entries'[h].advertised = 0
          /\ \A x \in Handles : x # h => entries'[x] = entries[x]
      BY <1>2, <2>3
      DEF SessionInv, BackendTypeOK, BackendDrop, LiveEntry, KeyGood, NoEntry
    <3>2. \A x \in Handles : /\ x # h => /\ LiveEntry(x)' <=> LiveEntry(x)
                                         /\ KeyGood(x)' = KeyGood(x)
                             /\ KeyGood(x) \in BOOLEAN
      BY <3>1 DEF LiveEntry, KeyGood
    <3>3. SyntheticContract!Return({h})
      BY ONLY <3>1, <3>2, h \in Handles DEF SyntheticContract!Return
    <3>. QED  BY <3>3 DEF SyntheticContract!ContractNext
  <2>4. ASSUME NEW h \in Handles, RotateAdvertised(h)
        PROVE  SyntheticContract!ContractNext
    <3>1. /\ LiveEntry(h) /\ nextSeq' = nextSeq
          /\ entries' = [entries EXCEPT ![h].keyGen = entries[h].advertised + 1,
                                        ![h].advertised = entries[h].advertised + 1,
                                        ![h].revalidate = FALSE]
      BY <2>4 DEF RotateAdvertised, BackendRotate, RotatedEntries
    <3>2. /\ LiveEntry(h)' /\ KeyGood(h)' = TRUE
          /\ entries'[h].advertised > entries[h].advertised
          /\ \A x \in Handles : x # h => entries'[x] = entries[x]
      BY <1>2, <3>1 DEF SessionInv, BackendTypeOK, Entry, LiveEntry, KeyGood
    <3>3. \A x \in Handles : /\ LiveEntry(x)' <=> LiveEntry(x)
                             /\ x # h => (KeyGood(x)' = KeyGood(x))
      BY <3>1, <3>2 DEF LiveEntry, KeyGood
    <3>4. SyntheticContract!Rekey(h)
      <4>1. [x \in Handles |-> entries[x].advertised]'
              = [[x \in Handles |-> entries[x].advertised]
                   EXCEPT ![h] = [x \in Handles |-> entries[x].advertised]'[h]]
        BY ONLY <3>2, h \in Handles
      <4>2. [x \in Handles |-> KeyGood(x)]'
              = [[x \in Handles |-> KeyGood(x)] EXCEPT ![h] = TRUE]
        BY ONLY <3>2, <3>3, h \in Handles
      <4>3. UNCHANGED [x \in Handles |-> IF LiveEntry(x) THEN "live"
                                       ELSE IF x < nextSeq THEN "gone" ELSE "none"]
        BY ONLY <3>1, <3>3
      <4>4. entries'[h].advertised > entries[h].advertised /\ LiveEntry(h)
        BY <3>1, <3>2
      <4>. QED
        BY ONLY <4>1, <4>2, <4>3, <4>4, h \in Handles DEF SyntheticContract!Rekey
    <3>. QED  BY <3>4 DEF SyntheticContract!ContractNext
  <2>5. ASSUME NEW h \in Handles, BackendRevalidate(h)
        PROVE  UNCHANGED SyntheticContract!contractVars
    <3>1. nextSeq' = nextSeq /\ entries' = [entries EXCEPT ![h].revalidate = FALSE]
      BY <2>5 DEF BackendRevalidate
    <3>2. \A x \in Handles :
             /\ LiveEntry(x)' <=> LiveEntry(x)
             /\ entries'[x].advertised = entries[x].advertised
             /\ KeyGood(x)' = KeyGood(x)
      BY <1>2, <3>1 DEF SessionInv, BackendTypeOK, Entry, LiveEntry, KeyGood
    <3>. QED  BY ONLY <3>1, <3>2 DEF SyntheticContract!contractVars
  <2>6. CASE RolloverTransport
    <3>1. ASSUME NEW x \in Handles
          PROVE  /\ LiveEntry(x)' <=> LiveEntry(x)
                 /\ entries'[x].advertised = entries[x].advertised
                 /\ KeyGood(x)' = FALSE
      <4>1. entries[x] \in Entry
        BY <1>2 DEF SessionInv, BackendTypeOK
      <4>2. entries'[x] = IF LiveEntry(x) THEN Rolled(entries[x]) ELSE entries[x]
        BY <2>6 DEF RolloverTransport
      <4>. QED  BY <4>1, <4>2 DEF Rolled, Entry, LiveEntry, KeyGood
    <3>2. nextSeq' = nextSeq
      BY <2>6 DEF RolloverTransport
    <3>3. SyntheticContract!Spoil(Handles)
      BY ONLY <3>1, <3>2 DEF SyntheticContract!Spoil
    <3>. QED  BY <3>3 DEF SyntheticContract!ContractNext
  <2>7. CASE RestartBackend
    <3>1. PICK S \in SUBSET Handles : S = {x \in Handles : LiveEntry(x)}
      OBVIOUS
    <3>2. /\ nextSeq' = nextSeq
          /\ \A x \in Handles : ~LiveEntry(x)' /\ KeyGood(x)' = FALSE /\ entries'[x].advertised = 0
      BY <2>7 DEF RestartBackend, NumbersAfterRestart, NoEntry, LiveEntry, KeyGood
    <3>3. \A x \in Handles : /\ LiveEntry(x) => x < nextSeq
                             /\ ~LiveEntry(x) => entries[x].advertised = 0 /\ KeyGood(x) = FALSE
      BY <1>2 DEF SessionInv, LiveEntry, KeyGood, NoEntry
    <3>4. SyntheticContract!Return(S)
      BY ONLY <3>1, <3>2, <3>3 DEF SyntheticContract!Return
    <3>. QED  BY <3>4 DEF SyntheticContract!ContractNext
  <2>8. CASE RolloverBackend \/ RolloverNic \/ \E p \in Profiles : Configure(p)
    <3>1. UNCHANGED <<nextSeq, entries>>
      BY <2>8 DEF RolloverBackend, RolloverNic, Configure
    <3>. QED  BY <3>1 DEF SyntheticContract!contractVars, KeyGood, LiveEntry
  <2>. QED
    BY <1>2, <2>1, <2>2, <2>3, <2>4, <2>5, <2>6, <2>7, <2>8 DEF SessionNext, BackendEvent
<1>. QED
  BY <1>1, <1>2, SessionInvariant, PTL
  DEF SessionSpec, SyntheticHonoursContract, SyntheticContract!ContractSpec

------------------------------------------------------------------------------
(* The pinning probe.                                                      *)

Probe ==
    [pc : {"idle", "commit", "touch", "lock", "unlock", "release", "done"},
     platform : Platforms, bytes : Nat, touched : SUBSET Nat, freed : BOOLEAN,
     held : {"nothing", "pages", "locked pages"},
     report : [ok : BOOLEAN, committed : BOOLEAN, locked : BOOLEAN,
               provenance : {"UNKNOWN", "REAL"}]]

(* What holds before each call of the probe: what is held, what was done   *)
(* to it so far, and what the report may say already.                      *)
ProbeInv ==
    /\ probe \in Probe
    /\ probe.pc \in {"idle", "commit", "touch", "lock"} => ~probe.report.ok
    /\ probe.pc \in {"idle", "commit"} => probe.held = "nothing"
    /\ probe.pc \in {"touch", "lock", "unlock"} => probe.platform = "windows"
    /\ probe.pc \in {"touch", "lock", "unlock", "release"} => probe.report.committed
    /\ probe.pc \in {"lock", "unlock"} => probe.touched = PagesOf(probe.bytes)
    /\ probe.report.ok =>
          /\ probe.report.locked /\ probe.report.committed
          /\ probe.platform = "windows"
          /\ probe.touched = PagesOf(probe.bytes)
    /\ ProbeHonest

(* The page numbers of a length are numbers.                               *)
LEMMA PagesTyped == \A length \in Nat : PagesOf(length) \in SUBSET Nat
BY DEF PagesOf

(* The probe has not been called.                                          *)
LEMMA ProbeStarts == ProbeInit => ProbeInv
BY DEF ProbeInit, ProbeInv, Probe, Platforms, NoReport, ProbeHonest

(* Every call of the probe, and every failure of one, leaves it in order:  *)
(* the lock is reported only after the touch, on Windows, and a failed     *)
(* lock still goes through unlock and release (windows_os.cpp,             *)
(* reference_backend.cpp:191-240).                                         *)
LEMMA ProbeSteps ==
    ASSUME ProbeInv, [ProbeNext]_probe
    PROVE  ProbeInv'
<1>. USE DEF ProbeInv, Probe, ProbeHonest
<1>1. CASE UNCHANGED probe
  BY <1>1
<1>2. CASE ProbeStart
  <2>1. PICK platform \in Platforms, length \in Lengths :
           probe' = [pc |-> IF length = 0 THEN "done" ELSE "commit",
                     platform |-> platform, bytes |-> length, held |-> "nothing",
                     touched |-> {}, freed |-> TRUE, report |-> NoReport]
    BY <1>2 DEF ProbeStart
  <2>2. /\ length \in Nat /\ NoReport \in [ok : BOOLEAN, committed : BOOLEAN,
                               locked : BOOLEAN, provenance : {"UNKNOWN", "REAL"}]
        /\ ~NoReport.ok
    BY ProbeAssumption DEF ProbeAssumption, NoReport
  <2>3. probe' \in Probe
    BY <2>1, <2>2
  <2>. QED  BY <2>1, <2>2, <2>3
<1>3. CASE ProbeCommit
  BY <1>3, PagesTyped DEF ProbeCommit, Platforms
<1>4. CASE ProbeCommitFails
  BY <1>4 DEF ProbeCommitFails
<1>5. CASE ProbeTouch
  BY <1>5, PagesTyped DEF ProbeTouch, PagesToTouch
<1>6. CASE ProbeLock
  BY <1>6 DEF ProbeLock
<1>7. CASE ProbeLockFails
  BY <1>7 DEF ProbeLockFails
<1>8. CASE ProbeUnlock
  BY <1>8 DEF ProbeUnlock
<1>9. CASE ProbeRelease
  <2>1. PICK freed \in BOOLEAN :
           probe' = [probe EXCEPT !.pc = "done", !.freed = freed,
                        !.held = IF freed THEN "nothing" ELSE @,
                        !.report.provenance =
                           IF probe.platform = "windows" THEN "REAL" ELSE "UNKNOWN"]
    BY <1>9 DEF ProbeRelease
  <2>2. CASE freed
    BY <2>1, <2>2
  <2>3. CASE ~freed
    BY <2>1, <2>3
  <2>. QED  BY <2>2, <2>3
<1>. QED
  BY <1>1, <1>2, <1>3, <1>4, <1>5, <1>6, <1>7, <1>8, <1>9 DEF ProbeNext

(* Whichever call fails, the probe gives back what it took and reports     *)
(* what happened, for every page size and length                           *)
(* (reference_backend.cpp:191-240).                                        *)
THEOREM ProbeAlwaysHonest == ProbeSpec => []ProbeHonest
<1>1. ProbeInv => ProbeHonest
  BY DEF ProbeInv
<1>. QED  BY <1>1, ProbeStarts, ProbeSteps, PTL DEF ProbeSpec
==============================================================================

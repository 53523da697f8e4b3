--------------------------- MODULE CoordinatorProofs ---------------------------
(***************************************************************************)
(* The scenario.  First its connections: whatever a worker, the            *)
(* coordinator or the network does to a stream, frames come out of it as   *)
(* they were put in, in their order and each once.  Then what is said on   *)
(* them: what a worker was told stays true of the coordinator's registry.  *)
(* Then the script of main: at each of its lines the registry is as the    *)
(* line counts on, and so no PROOF line fails.                             *)
(***************************************************************************)
EXTENDS CoordinatorProperties, ArithmeticProofs, SequenceTheorems

------------------------------------------------------------------------------
(* One stream.                                                             *)

Damages == {"none", "magic", "version", "kind", "oversized", "longer", "bits"}
ChunksOf(frame) ==
    [part : {"header", "payload", "trailer"}, frame : {frame}, damage : Damages]

LastSent(st) == st.sent[Len(st.sent)]

(* Every chunk on its way is of the frame sent last; there are at most as  *)
(* many as one frame has, and none once that frame has been taken.  On a   *)
(* stream that somebody still reads, at most one frame is outstanding.     *)
StreamInv(st) ==
    /\ DOMAIN st = {"out", "cells", "have", "closed", "deaf", "sent", "got"}
    /\ st.deaf \in BOOLEAN
    /\ \E S : st.sent \in Seq(S) /\ st.got \in Seq(S)
    /\ st.out \in Seq(ChunksOf(LastSent(st)))
    /\ st.cells \in Seq(ChunksOf(LastSent(st)))
    /\ st.have \in Seq(ChunksOf(LastSent(st)))
    /\ Len(st.have) + Len(st.cells) + Len(st.out) <= 3
    /\ Len(st.got) <= Len(st.sent)
    /\ Len(st.got) = Len(st.sent) => st.have = <<>> /\ st.cells = <<>> /\ st.out = <<>>
    /\ ~st.deaf => Len(st.sent) <= Len(st.got) + 1
    /\ st.deaf => st.have = <<>> /\ st.cells = <<>>

(* A stream on which the frame sent last has come out, or nobody reads.    *)
Clear(st) == st.deaf \/ Len(st.got) = Len(st.sent)

(* Nothing was sent and nothing came out.                                  *)
Still(a, b) == b.sent = a.sent /\ b.got = a.got

(* What a step of FrameChannel allows of one channel.                      *)
ChannelStep(a, b) ==
    /\ \/ b.sent = a.sent
       \/ /\ Len(b.sent) = Len(a.sent) + 1
          /\ SubSeq(b.sent, 1, Len(a.sent)) = a.sent
    /\ \/ b.got = a.got
       \/ /\ Len(a.got) < Len(a.sent)
          /\ b.got = Append(a.got, a.sent[Len(a.got) + 1])

(* A new connection.                                                       *)
LEMMA NewStreamKept == StreamInv(NewStream)
<1>1. <<>> \in Seq({}) /\ \A f : <<>> \in Seq(ChunksOf(f))
  OBVIOUS
<1>. QED  BY <1>1 DEF StreamInv, NewStream

(* Chunks of the last frame may be moved about and lost.                   *)
LEMMA Rearranged ==
    ASSUME NEW a, NEW b, StreamInv(a), Still(a, b),
           DOMAIN b = DOMAIN a, b.deaf \in BOOLEAN, a.deaf => b.deaf,
           b.out \in Seq(ChunksOf(LastSent(a))),
           b.cells \in Seq(ChunksOf(LastSent(a))),
           b.have \in Seq(ChunksOf(LastSent(a))),
           Len(b.have) + Len(b.cells) + Len(b.out) <= 3,
           Len(a.got) # Len(a.sent) \/ (b.have = <<>> /\ b.cells = <<>> /\ b.out = <<>>),
           b.deaf => b.have = <<>> /\ b.cells = <<>>
    PROVE  StreamInv(b)
<1>1. b.sent = a.sent /\ b.got = a.got /\ LastSent(b) = LastSent(a)
  BY DEF Still, LastSent
<1>. QED  BY <1>1 DEF StreamInv

(* Either side goes away, or gives up sending.                             *)
LEMMA EndsKept ==
    \A st : StreamInv(st) =>
        /\ StreamInv(Closed(st)) /\ Still(st, Closed(st)) /\ Closed(st).deaf = st.deaf
        /\ StreamInv(Cut(st)) /\ Still(st, Cut(st)) /\ Cut(st).deaf = st.deaf
        /\ StreamInv(Deaf(st)) /\ Still(st, Deaf(st)) /\ Deaf(st).deaf
        /\ StreamInv(Abandoned(st)) /\ Still(st, Abandoned(st))
        /\ Abandoned(st).deaf = st.deaf
<1>. SUFFICES ASSUME NEW st, StreamInv(st)
              PROVE  /\ StreamInv(Closed(st)) /\ Still(st, Closed(st)) /\ Closed(st).deaf = st.deaf
                     /\ StreamInv(Cut(st)) /\ Still(st, Cut(st)) /\ Cut(st).deaf = st.deaf
                     /\ StreamInv(Deaf(st)) /\ Still(st, Deaf(st)) /\ Deaf(st).deaf
                     /\ StreamInv(Abandoned(st)) /\ Still(st, Abandoned(st))
                     /\ Abandoned(st).deaf = st.deaf
  OBVIOUS
<1>. USE DEF StreamInv, Still, LastSent
<1>1. StreamInv(Closed(st)) /\ Still(st, Closed(st)) /\ Closed(st).deaf = st.deaf
  BY DEF Closed
<1>2. StreamInv(Cut(st)) /\ Still(st, Cut(st)) /\ Cut(st).deaf = st.deaf
  BY DEF Cut, Closed
<1>3. StreamInv(Deaf(st)) /\ Still(st, Deaf(st)) /\ Deaf(st).deaf
  BY DEF Deaf
<1>4. StreamInv(Abandoned(st)) /\ Still(st, Abandoned(st)) /\ Abandoned(st).deaf = st.deaf
  BY DEF Abandoned
<1>. QED  BY <1>1, <1>2, <1>3, <1>4

(* send_all and recv_all move one chunk.                                   *)
LEMMA ChunksKept ==
    \A st : StreamInv(st) =>
        /\ st.out # <<>> /\ ~st.deaf =>
              StreamInv(Pushed(st)) /\ Still(st, Pushed(st)) /\ Pushed(st).deaf = st.deaf
        /\ st.out # <<>> /\ st.deaf =>
              StreamInv(Deaf(Pushed(st))) /\ Still(st, Deaf(Pushed(st))) /\ Deaf(Pushed(st)).deaf
        /\ st.cells # <<>> =>
              StreamInv(Pulled(st)) /\ Still(st, Pulled(st)) /\ Pulled(st).deaf = st.deaf
<1>. SUFFICES ASSUME NEW st, StreamInv(st)
              PROVE  /\ st.out # <<>> /\ ~st.deaf =>
                           /\ StreamInv(Pushed(st)) /\ Still(st, Pushed(st))
                           /\ Pushed(st).deaf = st.deaf
                     /\ st.out # <<>> /\ st.deaf =>
                           /\ StreamInv(Deaf(Pushed(st))) /\ Still(st, Deaf(Pushed(st)))
                           /\ Deaf(Pushed(st)).deaf
                     /\ st.cells # <<>> =>
                           /\ StreamInv(Pulled(st)) /\ Still(st, Pulled(st))
                           /\ Pulled(st).deaf = st.deaf
  OBVIOUS
<1>. DEFINE C == ChunksOf(LastSent(st))
<1>1. st.out \in Seq(C) /\ st.cells \in Seq(C) /\ st.have \in Seq(C)
  BY DEF StreamInv
<1>2. Len(st.out) \in Nat /\ Len(st.cells) \in Nat /\ Len(st.have) \in Nat
  BY <1>1
<1>3. ASSUME NEW s \in Seq(C), NEW t \in Seq(C), s # <<>>
      PROVE  /\ Tail(s) \in Seq(C) /\ Append(t, Head(s)) \in Seq(C)
             /\ Len(Tail(s)) = Len(s) - 1 /\ Len(Append(t, Head(s))) = Len(t) + 1
  BY <1>3
<1>. HIDE DEF C
<1>4. ASSUME st.out # <<>>, ~st.deaf
      PROVE  StreamInv(Pushed(st)) /\ Still(st, Pushed(st)) /\ Pushed(st).deaf = st.deaf
  <2>1. /\ DOMAIN Pushed(st) = DOMAIN st
        /\ Pushed(st).out = Tail(st.out) /\ Pushed(st).cells = Append(st.cells, Head(st.out))
        /\ Pushed(st).have = st.have /\ Still(st, Pushed(st)) /\ Pushed(st).deaf = st.deaf
    BY DEF StreamInv, Pushed, Still
  <2>2. /\ Tail(st.out) \in Seq(C) /\ Append(st.cells, Head(st.out)) \in Seq(C)
        /\ Len(Tail(st.out)) = Len(st.out) - 1
        /\ Len(Append(st.cells, Head(st.out))) = Len(st.cells) + 1
    BY <1>1, <1>3, <1>4
  <2>3. /\ Len(st.have) + Len(st.cells) + Len(st.out) <= 3
        /\ Len(st.got) # Len(st.sent)
    BY <1>4 DEF StreamInv
  <2>4. Len(Pushed(st).have) + Len(Pushed(st).cells) + Len(Pushed(st).out) <= 3
    <3>1. /\ Len(Pushed(st).have) = Len(st.have) /\ Len(Pushed(st).cells) = Len(st.cells) + 1
          /\ Len(Pushed(st).out) = Len(st.out) - 1
      BY <2>1, <2>2, Zenon
    <3>2. \A a, b, c \in Nat : a + b + c <= 3 => a + (b + 1) + (c - 1) <= 3
      OBVIOUS
    <3>. QED  BY <1>2, <2>3, <3>1, <3>2, Zenon
  <2>5. StreamInv(Pushed(st))
    BY <1>1, <1>4, <2>1, <2>2, <2>3, <2>4, Rearranged DEF StreamInv, C
  <2>. QED  BY <1>4, <2>1, <2>5
<1>5. ASSUME st.out # <<>>, st.deaf
      PROVE  /\ StreamInv(Deaf(Pushed(st))) /\ Still(st, Deaf(Pushed(st)))
             /\ Deaf(Pushed(st)).deaf
  <2>1. /\ DOMAIN Deaf(Pushed(st)) = DOMAIN st
        /\ Deaf(Pushed(st)).out = Tail(st.out) /\ Deaf(Pushed(st)).cells = <<>>
        /\ Deaf(Pushed(st)).have = <<>> /\ Still(st, Deaf(Pushed(st)))
        /\ Deaf(Pushed(st)).deaf = TRUE
    BY DEF StreamInv, Pushed, Deaf, Still
  <2>2. Tail(st.out) \in Seq(C) /\ Len(Tail(st.out)) = Len(st.out) - 1
    BY <1>1, <1>3, <1>5
  <2>3. <<>> \in Seq(C) /\ Len(<<>>) = 0
    OBVIOUS
  <2>4. /\ Len(st.have) + Len(st.cells) + Len(st.out) <= 3
        /\ Len(st.got) # Len(st.sent)
    BY <1>5 DEF StreamInv
  <2>5. Len(Deaf(Pushed(st)).have) + Len(Deaf(Pushed(st)).cells) + Len(Deaf(Pushed(st)).out) <= 3
    <3>1. /\ Len(Deaf(Pushed(st)).have) = 0 /\ Len(Deaf(Pushed(st)).cells) = 0
          /\ Len(Deaf(Pushed(st)).out) = Len(st.out) - 1
      BY <2>1, <2>2, <2>3, Zenon
    <3>2. \A a, b, c \in Nat : a + b + c <= 3 => 0 + 0 + (c - 1) <= 3
      OBVIOUS
    <3>. QED  BY <1>2, <2>4, <3>1, <3>2, Zenon
  <2>6. StreamInv(Deaf(Pushed(st)))
    BY <1>5, <2>1, <2>2, <2>3, <2>4, <2>5, Rearranged DEF C
  <2>. QED  BY <1>5, <2>1, <2>6
<1>6. ASSUME st.cells # <<>>
      PROVE  StreamInv(Pulled(st)) /\ Still(st, Pulled(st)) /\ Pulled(st).deaf = st.deaf
  <2>1. /\ DOMAIN Pulled(st) = DOMAIN st
        /\ Pulled(st).cells = Tail(st.cells) /\ Pulled(st).have = Append(st.have, Head(st.cells))
        /\ Pulled(st).out = st.out /\ Still(st, Pulled(st)) /\ Pulled(st).deaf = st.deaf
    BY DEF StreamInv, Pulled, Still
  <2>2. /\ Tail(st.cells) \in Seq(C) /\ Append(st.have, Head(st.cells)) \in Seq(C)
        /\ Len(Tail(st.cells)) = Len(st.cells) - 1
        /\ Len(Append(st.have, Head(st.cells))) = Len(st.have) + 1
    BY <1>1, <1>3, <1>6
  <2>3. /\ Len(st.have) + Len(st.cells) + Len(st.out) <= 3
        /\ Len(st.got) # Len(st.sent) /\ ~st.deaf /\ st.deaf \in BOOLEAN
    BY <1>6 DEF StreamInv
  <2>4. Len(Pulled(st).have) + Len(Pulled(st).cells) + Len(Pulled(st).out) <= 3
    <3>1. /\ Len(Pulled(st).have) = Len(st.have) + 1 /\ Len(Pulled(st).cells) = Len(st.cells) - 1
          /\ Len(Pulled(st).out) = Len(st.out)
      BY <2>1, <2>2, Zenon
    <3>2. \A a, b, c \in Nat : a + b + c <= 3 => (a + 1) + (b - 1) + c <= 3
      OBVIOUS
    <3>. QED  BY <1>2, <2>3, <3>1, <3>2, Zenon
  <2>5. StreamInv(Pulled(st))
    BY <1>1, <1>6, <2>1, <2>2, <2>3, <2>4, Rearranged DEF C
  <2>. QED  BY <2>1, <2>5
<1>. QED  BY <1>4, <1>5, <1>6

(* A sequence over a set is one over a larger set.                         *)
LEMMA SeqWider ==
    \A S, T, s : s \in Seq(S) => s \in Seq(S \cup T)
OBVIOUS

(* send_frame is given a frame on a stream that is clear.                  *)
LEMMA SendingKept ==
    \A st, frame : StreamInv(st) /\ Clear(st) =>
        /\ StreamInv(Sending(st, frame))
        /\ ChannelStep(st, Sending(st, frame))
        /\ Sending(st, frame).got = st.got
        /\ Len(Sending(st, frame).sent) = Len(st.sent) + 1
        /\ Sending(st, frame).deaf = st.deaf
<1>. SUFFICES ASSUME NEW st, NEW frame, StreamInv(st), Clear(st)
              PROVE  /\ StreamInv(Sending(st, frame))
                     /\ ChannelStep(st, Sending(st, frame))
                     /\ Sending(st, frame).got = st.got
                     /\ Len(Sending(st, frame).sent) = Len(st.sent) + 1
                     /\ Sending(st, frame).deaf = st.deaf
  OBVIOUS
<1>1. PICK S : st.sent \in Seq(S) /\ st.got \in Seq(S)
  BY DEF StreamInv
<1>. DEFINE T == S \cup {frame}
            b == Sending(st, frame)
<1>2. st.sent \in Seq(T) /\ st.got \in Seq(T) /\ frame \in T
  BY <1>1, SeqWider
<1>3. /\ DOMAIN b = DOMAIN st /\ b.out = EncodeFrame(frame)
      /\ b.sent = Append(st.sent, frame) /\ b.got = st.got /\ b.deaf = st.deaf
      /\ b.cells = <<>> /\ b.have = <<>>
  BY DEF StreamInv, Clear, Sending
<1>4. EncodeFrame(frame) \in Seq(ChunksOf(frame)) /\ Len(EncodeFrame(frame)) = 3
  <2>1. \A i \in 1 .. 3 : FrameParts[i] \in {"header", "payload", "trailer"}
    BY DEF FrameParts
  <2>2. EncodeFrame(frame) \in [1 .. 3 -> ChunksOf(frame)]
    BY <2>1 DEF EncodeFrame, ChunksOf, Damages
  <2>3. ASSUME NEW C, NEW f \in [1 .. 3 -> C]
        PROVE  f \in Seq(C) /\ Len(f) = 3
    <3>1. [i \in 1 .. 3 |-> f[i]] \in Seq(C) /\ Len([i \in 1 .. 3 |-> f[i]]) = 3
      OBVIOUS
    <3>2. f = [i \in 1 .. 3 |-> f[i]]
      OBVIOUS
    <3>. QED  BY <3>1, <3>2, Zenon
  <2>. QED  BY <2>2, <2>3, Zenon
<1>5. ASSUME NEW s \in Seq(T), NEW g \in Seq(T)
      PROVE  /\ Append(s, frame) \in Seq(T)
             /\ Len(s) \in Nat /\ Len(Append(s, frame)) = Len(s) + 1
             /\ Append(s, frame)[Len(s) + 1] = frame
             /\ SubSeq(Append(s, frame), 1, Len(s)) = s
             /\ Len(g) \in Nat
             /\ Len(g) <= Len(s) => Len(g) <= Len(s) + 1 /\ Len(g) # Len(s) + 1
             /\ Len(g) = Len(s) => Len(s) + 1 <= Len(g) + 1
  BY <1>2
<1>6. /\ b.sent \in Seq(T) /\ Len(b.sent) = Len(st.sent) + 1 /\ LastSent(b) = frame
      /\ Len(b.got) <= Len(b.sent) /\ Len(b.got) # Len(b.sent)
      /\ ~b.deaf => Len(b.sent) <= Len(b.got) + 1
      /\ SubSeq(b.sent, 1, Len(st.sent)) = st.sent
  <2>1. Len(st.got) <= Len(st.sent) /\ (~st.deaf => Len(st.got) = Len(st.sent))
    BY DEF StreamInv, Clear
  <2>2. /\ Append(st.sent, frame) \in Seq(T)
        /\ Len(Append(st.sent, frame)) = Len(st.sent) + 1
        /\ Append(st.sent, frame)[Len(st.sent) + 1] = frame
        /\ SubSeq(Append(st.sent, frame), 1, Len(st.sent)) = st.sent
        /\ Len(st.got) <= Len(st.sent) + 1 /\ Len(st.got) # Len(st.sent) + 1
        /\ ~st.deaf => Len(st.sent) + 1 <= Len(st.got) + 1
    BY <1>2, <1>5, <2>1, Zenon
  <2>. HIDE DEF b, T
  <2>. QED  BY <1>3, <2>2, Zenon DEF LastSent
<1>7. StreamInv(b)
  <2>1. /\ b.cells \in Seq(ChunksOf(frame)) /\ b.have \in Seq(ChunksOf(frame))
        /\ Len(b.have) = 0 /\ Len(b.cells) = 0
    BY <1>3
  <2>2. 0 + 0 + 3 <= 3
    OBVIOUS
  <2>3. Len(b.have) + Len(b.cells) + Len(b.out) <= 3
    BY <1>3, <1>4, <2>1, <2>2, Zenon
  <2>. HIDE DEF b, T
  <2>4. \E R : b.sent \in Seq(R) /\ b.got \in Seq(R)
    BY <1>2, <1>3, <1>6, Zenon
  <2>5. st.deaf \in BOOLEAN /\ DOMAIN st = {"out", "cells", "have", "closed", "deaf", "sent", "got"}
    BY DEF StreamInv
  <2>. QED
    BY <1>3, <1>4, <1>6, <2>1, <2>3, <2>4, <2>5, Zenon DEF StreamInv
<1>. QED  BY <1>3, <1>6, <1>7, Zenon DEF ChannelStep

(* What recv_frame returns is the frame sent last: nothing altered and     *)
(* nothing incomplete is taken for a frame.                                *)
LEMMA ReceivedIsSent ==
    \A st : StreamInv(st) /\ Received(st) =>
        /\ Incoming(st) = LastSent(st)
        /\ ~st.deaf
        /\ Len(st.sent) = Len(st.got) + 1
        /\ st.cells = <<>> /\ st.out = <<>>
<1>. SUFFICES ASSUME NEW st, StreamInv(st), Received(st)
              PROVE  /\ Incoming(st) = LastSent(st)
                     /\ ~st.deaf
                     /\ Len(st.sent) = Len(st.got) + 1
                     /\ st.cells = <<>> /\ st.out = <<>>
  OBVIOUS
<1>1. Len(st.have) = 3 /\ DecodeFrame(st.have) = "OK"
  BY DEF Received, Complete
<1>2. \A i \in 1 .. 3 : st.have[i].damage = "none"
  BY <1>1, Zenon DEF DecodeFrame
<1>3. \A i \in 1 .. 3 : st.have[i] \in ChunksOf(LastSent(st))
  BY <1>1 DEF StreamInv
<1>4. DOMAIN st.have = 1 .. 3
  BY <1>1 DEF StreamInv
<1>5. Incoming(st) = LastSent(st)
  BY <1>2, <1>3, <1>4 DEF Incoming, ChunksOf
<1>6. st.have # <<>>
  BY <1>1
<1>7. ~st.deaf /\ Len(st.got) # Len(st.sent)
  BY <1>6 DEF StreamInv
<1>8. Len(st.sent) = Len(st.got) + 1
  <2>1. PICK S : st.sent \in Seq(S) /\ st.got \in Seq(S)
    BY DEF StreamInv
  <2>2. \A s, g \in Seq(S) : Len(g) <= Len(s) /\ Len(s) <= Len(g) + 1 /\ Len(g) # Len(s)
                                => Len(s) = Len(g) + 1
    OBVIOUS
  <2>. QED  BY <1>7, <2>1, <2>2 DEF StreamInv
<1>9. st.cells = <<>> /\ st.out = <<>>
  <2>. DEFINE C == ChunksOf(LastSent(st))
  <2>1. st.out \in Seq(C) /\ st.cells \in Seq(C) /\ 3 + Len(st.cells) + Len(st.out) <= 3
    BY <1>1 DEF StreamInv
  <2>. HIDE DEF C
  <2>2. \A o, c \in Seq(C) : 3 + Len(c) + Len(o) <= 3 => c = <<>> /\ o = <<>>
    <3>1. \A s \in Seq(C) : Len(s) \in Nat /\ (Len(s) = 0 => s = <<>>)
      OBVIOUS
    <3>2. \A a, d \in Nat : 3 + a + d <= 3 => a = 0 /\ d = 0
      OBVIOUS
    <3>. QED  BY <3>1, <3>2, Zenon
  <2>. QED  BY <2>1, <2>2, Zenon
<1>. QED  BY <1>5, <1>7, <1>8, <1>9

(* recv_frame returns the frame and forgets its chunks.                    *)
LEMMA TakenKept ==
    \A st : StreamInv(st) /\ Received(st) =>
        /\ StreamInv(Taken(st))
        /\ ChannelStep(st, Taken(st))
        /\ Taken(st).sent = st.sent
        /\ Len(Taken(st).got) = Len(st.got) + 1
        /\ Len(Taken(st).got) = Len(st.sent)
        /\ Taken(st).deaf = st.deaf
<1>. SUFFICES ASSUME NEW st, StreamInv(st), Received(st)
              PROVE  /\ StreamInv(Taken(st))
                     /\ ChannelStep(st, Taken(st))
                     /\ Taken(st).sent = st.sent
                     /\ Len(Taken(st).got) = Len(st.got) + 1
                     /\ Len(Taken(st).got) = Len(st.sent)
                     /\ Taken(st).deaf = st.deaf
  OBVIOUS
<1>. DEFINE b == Taken(st)
<1>1. /\ Incoming(st) = LastSent(st) /\ ~st.deaf /\ Len(st.sent) = Len(st.got) + 1
      /\ st.cells = <<>> /\ st.out = <<>>
  BY ReceivedIsSent
<1>2. PICK S : st.sent \in Seq(S) /\ st.got \in Seq(S)
  BY DEF StreamInv
<1>3. /\ DOMAIN b = {"out", "cells", "have", "closed", "deaf", "sent", "got"}
      /\ b.out = <<>> /\ b.cells = <<>> /\ b.have = <<>> /\ b.deaf = st.deaf
      /\ b.sent = st.sent /\ b.got = Append(st.got, Incoming(st))
      /\ st.deaf \in BOOLEAN
  BY <1>1 DEF StreamInv, Taken
<1>4. ASSUME NEW s \in Seq(S), NEW g \in Seq(S), Len(s) = Len(g) + 1
      PROVE  /\ Append(g, s[Len(s)]) \in Seq(S) /\ Len(Append(g, s[Len(s)])) = Len(g) + 1
             /\ s[Len(s)] = s[Len(g) + 1] /\ Len(g) < Len(s) /\ Len(s) <= Len(s)
             /\ Len(s) <= Len(s) + 1
  BY <1>4
<1>5. /\ b.got \in Seq(S) /\ Len(b.got) = Len(st.got) + 1 /\ Len(b.got) = Len(st.sent)
      /\ b.got = Append(st.got, st.sent[Len(st.got) + 1])
      /\ Len(st.got) < Len(st.sent) /\ Len(st.sent) <= Len(st.sent)
      /\ Len(st.sent) <= Len(st.sent) + 1
  <2>. DEFINE s == st.sent
              g == st.got
  <2>1. s \in Seq(S) /\ g \in Seq(S) /\ Len(s) = Len(g) + 1
    BY <1>1, <1>2
  <2>. HIDE DEF b, s, g
  <2>2. /\ Append(g, s[Len(s)]) \in Seq(S) /\ Len(Append(g, s[Len(s)])) = Len(g) + 1
        /\ s[Len(s)] = s[Len(g) + 1] /\ Len(g) < Len(s) /\ Len(s) <= Len(s)
        /\ Len(s) <= Len(s) + 1
    BY <1>4, <2>1, Zenon
  <2>3. b.got = Append(g, s[Len(s)])
    BY <1>1, <1>3, Zenon DEF LastSent, s, g
  <2>4. /\ b.got \in Seq(S) /\ Len(b.got) = Len(g) + 1 /\ Len(b.got) = Len(s)
        /\ b.got = Append(g, s[Len(g) + 1])
        /\ Len(g) < Len(s) /\ Len(s) <= Len(s) /\ Len(s) <= Len(s) + 1
    BY <2>1, <2>2, <2>3, Zenon
  <2>. QED  BY <2>4, Zenon DEF s, g
<1>6. StreamInv(b)
  <2>1. \A C : <<>> \in Seq(C)
    OBVIOUS
  <2>2. Len(<<>>) + Len(<<>>) + Len(<<>>) <= 3
    OBVIOUS
  <2>. HIDE DEF b
  <2>3. \E R : b.sent \in Seq(R) /\ b.got \in Seq(R)
    BY <1>2, <1>3, <1>5, Zenon
  <2>. QED  BY <1>1, <1>3, <1>5, <2>1, <2>2, <2>3, Zenon DEF StreamInv
<1>. QED  BY <1>3, <1>5, <1>6, Zenon DEF ChannelStep

(* A chunk is altered on its way.                                          *)
AlteredStream(st, damage) == [st EXCEPT !.cells[1].damage = damage]

LEMMA AlteredKept ==
    \A st, damage : StreamInv(st) /\ st.cells # <<>> /\ damage \in Damages =>
        /\ StreamInv(AlteredStream(st, damage))
        /\ Still(st, AlteredStream(st, damage))
        /\ AlteredStream(st, damage).deaf = st.deaf
<1>. SUFFICES ASSUME NEW st, NEW damage \in Damages, StreamInv(st), st.cells # <<>>
              PROVE  /\ StreamInv(AlteredStream(st, damage))
                     /\ Still(st, AlteredStream(st, damage))
                     /\ AlteredStream(st, damage).deaf = st.deaf
  OBVIOUS
<1>. DEFINE C == ChunksOf(LastSent(st))
            b == AlteredStream(st, damage)
<1>1. /\ st.cells \in Seq(C) /\ st.out \in Seq(C) /\ st.have \in Seq(C)
      /\ Len(st.have) + Len(st.cells) + Len(st.out) <= 3
      /\ Len(st.got) # Len(st.sent) /\ ~st.deaf /\ st.deaf \in BOOLEAN
  BY DEF StreamInv
<1>2. /\ DOMAIN b = DOMAIN st /\ b.out = st.out /\ b.have = st.have /\ b.deaf = st.deaf
      /\ Still(st, b)
      /\ b.cells = [st.cells EXCEPT ![1] = [st.cells[1] EXCEPT !.damage = damage]]
  BY DEF StreamInv, Still, AlteredStream
<1>3. 1 \in 1 .. Len(st.cells) /\ st.cells[1] \in C
  <2>1. \A s \in Seq(C) : s # <<>> => 1 \in 1 .. Len(s) /\ s[1] \in C
    <3>. HIDE DEF C
    <3>. QED  OBVIOUS
  <2>. QED  BY <1>1, <2>1, Zenon
<1>4. [st.cells[1] EXCEPT !.damage = damage] \in C
  BY <1>3 DEF ChunksOf
<1>5. b.cells \in Seq(C) /\ Len(b.cells) = Len(st.cells)
  <2>1. ASSUME NEW s \in Seq(C), 1 \in 1 .. Len(s), NEW e \in C
        PROVE  [s EXCEPT ![1] = e] \in Seq(C) /\ Len([s EXCEPT ![1] = e]) = Len(s)
    BY <2>1, ExceptSeq
  <2>. HIDE DEF b, C
  <2>. QED  BY <1>1, <1>2, <1>3, <1>4, <2>1, ZenonT(30)
<1>6. Len(b.have) + Len(b.cells) + Len(b.out) <= 3
  <2>. HIDE DEF b
  <2>. QED  BY <1>1, <1>2, <1>5, Zenon
<1>7. StreamInv(b)
  <2>. HIDE DEF b
  <2>. QED  BY <1>1, <1>2, <1>5, <1>6, Rearranged DEF C
<1>. QED  BY <1>2, <1>7

------------------------------------------------------------------------------
(* All streams together.                                                   *)

Wired(wr) == DOMAIN wr = Workers /\ \A w \in Workers : DOMAIN wr[w] = Directions
Streams(wr) == \A w \in Workers, d \in Directions : StreamInv(wr[w][d])

(* No frame enters or leaves the stream, and nobody comes back.            *)
Quietly(a, b) == StreamInv(b) /\ Still(a, b) /\ (a.deaf => b.deaf)
Quiet(wr, wr2) ==
    Wired(wr2) /\ \A w \in Workers, d \in Directions : Quietly(wr[w][d], wr2[w][d])

LEMMA QuietStreams ==
    \A st : StreamInv(st) =>
        /\ Quietly(st, st) /\ Quietly(st, Closed(st)) /\ Quietly(st, Cut(st))
        /\ Quietly(st, Deaf(st)) /\ Quietly(st, Abandoned(st))
        /\ st.out # <<>> =>
              Quietly(st, IF st.deaf THEN Deaf(Pushed(st)) ELSE Pushed(st))
        /\ st.out # <<>> =>
              Quietly(st, IF st.deaf THEN Abandoned(st) ELSE Pushed(st))
        /\ st.cells # <<>> => Quietly(st, Pulled(st))
        /\ \A damage \in Damages : st.cells # <<>> => Quietly(st, AlteredStream(st, damage))
<1>. TAKE st
<1>. HAVE StreamInv(st)
<1>1. Quietly(st, st)
  BY Zenon DEF Quietly, Still
<1>2. /\ Quietly(st, Closed(st)) /\ Quietly(st, Cut(st)) /\ Quietly(st, Deaf(st))
      /\ Quietly(st, Abandoned(st))
  BY EndsKept, Zenon DEF Quietly
<1>3. st.out # <<>> => Quietly(st, IF st.deaf THEN Deaf(Pushed(st)) ELSE Pushed(st))
  BY ChunksKept, Zenon DEF Quietly
<1>4. st.out # <<>> => Quietly(st, IF st.deaf THEN Abandoned(st) ELSE Pushed(st))
  BY <1>2, ChunksKept, Zenon DEF Quietly
<1>5. st.cells # <<>> => Quietly(st, Pulled(st))
  BY ChunksKept, Zenon DEF Quietly
<1>6. \A damage \in Damages : st.cells # <<>> => Quietly(st, AlteredStream(st, damage))
  BY AlteredKept, Zenon DEF Quietly
<1>. QED  BY <1>1, <1>2, <1>3, <1>4, <1>5, <1>6, Zenon

(* A step that changes one stream, or both of a connection.                *)
LEMMA OneStream ==
    \A wr : Wired(wr) /\ Streams(wr) =>
        \A w \in Workers, d \in Directions : \A b :
            Quietly(wr[w][d], b) => Quiet(wr, [wr EXCEPT ![w][d] = b])
<1>. TAKE wr
<1>. HAVE Wired(wr) /\ Streams(wr)
<1>. TAKE w \in Workers, d \in Directions
<1>. TAKE b
<1>. HAVE Quietly(wr[w][d], b)
<1>. DEFINE wr2 == [wr EXCEPT ![w][d] = b]
<1>1. Wired(wr2)
  BY DEF Wired
<1>2. ASSUME NEW v \in Workers, NEW e \in Directions
      PROVE  Quietly(wr[v][e], wr2[v][e])
  <2>1. Quietly(wr[v][e], wr[v][e])
    BY QuietStreams, Zenon DEF Streams
  <2>2. wr2[v][e] = IF v = w /\ e = d THEN b ELSE wr[v][e]
    BY DEF Wired
  <2>. HIDE DEF wr2
  <2>. QED  BY <2>1, <2>2, Zenon
<1>. QED  BY <1>1, <1>2, Zenon DEF Quiet

LEMMA OneConnection ==
    \A wr : Wired(wr) /\ Streams(wr) =>
        \A w \in Workers : \A a, b :
            Quietly(wr[w]["up"], a) /\ Quietly(wr[w]["down"], b) =>
                Quiet(wr, [wr EXCEPT ![w]["up"] = a, ![w]["down"] = b])
<1>. TAKE wr
<1>. HAVE Wired(wr) /\ Streams(wr)
<1>. TAKE w \in Workers
<1>. TAKE a, b
<1>. HAVE Quietly(wr[w]["up"], a) /\ Quietly(wr[w]["down"], b)
<1>. DEFINE wr2 == [wr EXCEPT ![w]["up"] = a, ![w]["down"] = b]
<1>1. Wired(wr2)
  BY DEF Wired
<1>2. ASSUME NEW v \in Workers, NEW e \in Directions
      PROVE  Quietly(wr[v][e], wr2[v][e])
  <2>1. Quietly(wr[v][e], wr[v][e])
    BY QuietStreams, Zenon DEF Streams
  <2>2. e = "up" \/ e = "down"
    BY DEF Directions
  <2>3. wr2[v][e] = IF v # w THEN wr[v][e] ELSE IF e = "up" THEN a ELSE b
    BY <2>2 DEF Wired, Directions
  <2>. HIDE DEF wr2
  <2>. QED  BY <2>1, <2>2, <2>3, Zenon
<1>. QED  BY <1>1, <1>2, Zenon DEF Quiet

(* The end of a worker, and of the coordinator.                            *)
LEMMA HangupQuiet ==
    \A wr : Wired(wr) /\ Streams(wr) =>
        \A w \in Workers, lost \in BOOLEAN :
            Quiet(wr, [wr EXCEPT ![w] = Hangup(@, lost)])
<1>. TAKE wr
<1>. HAVE Wired(wr) /\ Streams(wr)
<1>. TAKE w \in Workers, lost \in BOOLEAN
<1>. DEFINE a == IF lost THEN Cut(wr[w]["up"]) ELSE Closed(wr[w]["up"])
            b == Deaf(wr[w]["down"])
<1>1. Quietly(wr[w]["up"], a) /\ Quietly(wr[w]["down"], b)
  BY QuietStreams, Zenon DEF Streams, Directions
<1>2. [wr EXCEPT ![w] = Hangup(@, lost)]
        = [wr EXCEPT ![w]["up"] = a, ![w]["down"] = b]
  BY DEF Hangup
<1>. HIDE DEF a, b
<1>3. Quiet(wr, [wr EXCEPT ![w]["up"] = a, ![w]["down"] = b])
  BY <1>1, OneConnection, Zenon
<1>. QED  BY <1>2, <1>3

------------------------------------------------------------------------------
(* Whose turn it is.                                                       *)

Sent(wr, w, d) == Len(wr[w][d].sent)
Got(wr, w, d) == Len(wr[w][d].got)

LEMMA Counted ==
    \A wr : Streams(wr) =>
        \A w \in Workers, d \in Directions :
            /\ Sent(wr, w, d) \in Nat /\ Got(wr, w, d) \in Nat
            /\ Got(wr, w, d) <= Sent(wr, w, d)
            /\ Sent(wr, w, d) = 0 <=> wr[w][d].sent = <<>>
            /\ ~wr[w][d].deaf => Sent(wr, w, d) <= Got(wr, w, d) + 1
<1>. TAKE wr
<1>. HAVE Streams(wr)
<1>. TAKE w \in Workers, d \in Directions
<1>1. StreamInv(wr[w][d])
  BY Zenon DEF Streams
<1>2. PICK S : wr[w][d].sent \in Seq(S) /\ wr[w][d].got \in Seq(S)
  BY <1>1 DEF StreamInv
<1>3. \A s \in Seq(S) : Len(s) \in Nat /\ (Len(s) = 0 <=> s = <<>>)
  OBVIOUS
<1>. QED  BY <1>1, <1>2, <1>3, Zenon DEF StreamInv, Sent, Got

CoordFields ==
    {"pc", "worker", "nextBoot", "boot", "reg", "regA", "keyGenA", "failures", "exit"}
WorkerFields == {"pc", "args", "boot", "epoch", "ok", "reg", "keyGen", "exit"}

(* The records have their fields; A is killed once B has been served.      *)
Staffed(c, ws) ==
    /\ DOMAIN c = CoordFields /\ c.worker \in Workers
    /\ c.pc \in {"kill", "restart", "old", "revoke"} => c.worker = "B"
    /\ DOMAIN ws = Workers /\ \A w \in Workers : DOMAIN ws[w] = WorkerFields

(* The workers the coordinator comes to after the one it serves.           *)
Later(c, w) ==
    \/ c.worker = "A" /\ w \in {"B", "A2"}
    \/ c.worker = "B" /\ w = "A2"

NotStarted(c, w) ==
    Later(c, w) \/ (w = c.worker /\ c.pc \in {"attach", "incarnate", "domain", "spawn"})
NotGreeted(c, w) ==
    NotStarted(c, w) \/ (w = c.worker /\ c.pc \in {"accept", "hello"})

(* A connection carries HELLO, its acknowledgement, a request and the      *)
(* answer, each sent when the one before has come out at the other end, or *)
(* nobody is left at that end.                                             *)
WorkerTurn(c, ws, wr, w) ==
    /\ NotStarted(c, w) => ws[w].pc = "none"
    /\ NotGreeted(c, w) => Sent(wr, w, "down") = 0 /\ Got(wr, w, "up") = 0
    /\ ws[w].pc \in {"none", "connecting"} => Sent(wr, w, "up") = 0
    /\ ws[w].pc \in {"hello", "ack"} => Sent(wr, w, "up") = 1
    /\ Sent(wr, w, "up") <= 2
    /\ Sent(wr, w, "up") = 2 => wr[w]["down"].deaf \/ Got(wr, w, "down") >= 1
    /\ Sent(wr, w, "down") # 0 => Got(wr, w, "up") >= 1

CoordTurn(c, wr) ==
    /\ c.pc \in {"greeting", "request"} =>
          Sent(wr, c.worker, "down") = 1 /\ Got(wr, c.worker, "up") = 1
    /\ c.pc \in {"create", "register", "registering"} =>
          /\ Sent(wr, c.worker, "down") = 1
          /\ wr[c.worker]["down"].deaf \/ Got(wr, c.worker, "down") >= 1

Turns(c, ws, wr) == CoordTurn(c, wr) /\ \A w \in Workers : WorkerTurn(c, ws, wr, w)

ScenarioInv ==
    Staffed(coord, workers) /\ Wired(wire) /\ Streams(wire) /\ Turns(coord, workers, wire)

(* What every step has to do.                                              *)
Flows(wr, wr2) ==
    \A w \in Workers, d \in Directions : ChannelStep(wr[w][d], wr2[w][d])

(* The coordinator speaks when it greets and when it answers.              *)
Silent(c, c2, wr, wr2) ==
    c2.pc = c.pc \/ c2.pc \notin {"greeting", "answering"} =>
        \A w \in Workers : wr2[w]["down"].sent = wr[w]["down"].sent

FlowStep ==
    /\ Staffed(coord', workers') /\ Wired(wire') /\ Streams(wire')
    /\ Turns(coord', workers', wire') /\ Flows(wire, wire')
    /\ Silent(coord, coord', wire, wire')

LEMMA QuietIsSilent == \A c, c2, wr, wr2 : Quiet(wr, wr2) => Silent(c, c2, wr, wr2)
BY DEF Quiet, Quietly, Still, Silent, Directions

(* A step on which no frame enters or leaves a stream.                     *)
CoordMoves(p, q) ==
    \/ q = p
    \/ q \in {"answering", "kill", "restart", "old", "revoke", "ended"}
    \/ <<p, q>> \in {<<"attach", "incarnate">>, <<"incarnate", "domain">>,
                     <<"domain", "spawn">>, <<"spawn", "accept">>, <<"accept", "hello">>,
                     <<"greeting", "request">>, <<"create", "register">>,
                     <<"register", "registering">>}

WorkerMoves(c, c2, w, p, q) ==
    \/ q = p
    \/ p # "none" /\ q \in {"answer", "exited", "dead"}
    \/ p = "hello" /\ q = "ack"
    \/ w = c.worker /\ c.pc = "spawn" /\ c2.pc = "accept" /\ q = "connecting"

QuietMove(c, ws, wr, c2, ws2, wr2) ==
    /\ Staffed(c2, ws2) /\ Quiet(wr, wr2)
    /\ c2.worker = c.worker /\ CoordMoves(c.pc, c2.pc)
    /\ \A w \in Workers : WorkerMoves(c, c2, w, ws[w].pc, ws2[w].pc)

LEMMA QuietCounts ==
    \A wr, wr2 : Quiet(wr, wr2) =>
        \A w \in Workers, d \in Directions :
            /\ Sent(wr2, w, d) = Sent(wr, w, d) /\ Got(wr2, w, d) = Got(wr, w, d)
            /\ wr[w][d].deaf => wr2[w][d].deaf
            /\ ChannelStep(wr[w][d], wr2[w][d])
<1>. TAKE wr, wr2
<1>. HAVE Quiet(wr, wr2)
<1>. TAKE w \in Workers, d \in Directions
<1>. DEFINE a == wr[w][d]
            b == wr2[w][d]
<1>1. b.sent = a.sent /\ b.got = a.got /\ (a.deaf => b.deaf)
  BY Zenon DEF Quiet, Quietly, Still
<1>. QED  BY <1>1 DEF Sent, Got, ChannelStep

LEMMA QuietTurns ==
    \A c, ws, wr, c2, ws2, wr2 :
        Staffed(c, ws) /\ Turns(c, ws, wr) /\ QuietMove(c, ws, wr, c2, ws2, wr2)
            => Turns(c2, ws2, wr2)
<1>. TAKE c, ws, wr, c2, ws2, wr2
<1>. HAVE Staffed(c, ws) /\ Turns(c, ws, wr) /\ QuietMove(c, ws, wr, c2, ws2, wr2)
<1>. "up" \in Directions /\ "down" \in Directions
  BY DEF Directions
<1>1. c.worker \in Workers /\ c2.worker = c.worker /\ CoordMoves(c.pc, c2.pc)
  BY Zenon DEF Staffed, QuietMove
<1>2. ASSUME NEW w \in Workers
      PROVE  /\ Sent(wr2, w, "up") = Sent(wr, w, "up")
             /\ Sent(wr2, w, "down") = Sent(wr, w, "down")
             /\ Got(wr2, w, "up") = Got(wr, w, "up")
             /\ Got(wr2, w, "down") = Got(wr, w, "down")
             /\ wr[w]["down"].deaf => wr2[w]["down"].deaf
  BY QuietCounts, Zenon DEF QuietMove
<1>3. CoordTurn(c2, wr2)
  <2>1. CoordTurn(c, wr)
    BY Zenon DEF Turns
  <2>. QED  BY <1>1, <1>2, <2>1 DEF CoordTurn, CoordMoves
<1>4. ASSUME NEW w \in Workers
      PROVE  WorkerTurn(c2, ws2, wr2, w)
  <2>1. WorkerTurn(c, ws, wr, w) /\ WorkerMoves(c, c2, w, ws[w].pc, ws2[w].pc)
    BY Zenon DEF Turns, QuietMove
  <2>2. /\ Later(c2, w) <=> Later(c, w)
        /\ NotStarted(c2, w) => NotStarted(c, w)
        /\ NotGreeted(c2, w) => NotGreeted(c, w)
        /\ c2.pc = "accept" /\ w = c.worker => ~NotStarted(c2, w)
    BY <1>1 DEF Later, NotStarted, NotGreeted, CoordMoves
  <2>3. NotStarted(c, c.worker) <=> c.pc \in {"attach", "incarnate", "domain", "spawn"}
    BY <1>1 DEF NotStarted, Later
  <2>. QED  BY <1>2, <2>1, <2>2, <2>3 DEF WorkerTurn, WorkerMoves
<1>. QED  BY <1>3, <1>4, Zenon DEF Turns

LEMMA QuietFlow ==
    ASSUME ScenarioInv, QuietMove(coord, workers, wire, coord', workers', wire')
    PROVE  FlowStep
<1>1. Staffed(coord', workers') /\ Quiet(wire, wire') /\ Turns(coord', workers', wire')
  BY QuietTurns, Zenon DEF ScenarioInv, QuietMove
<1>2. Wired(wire') /\ Streams(wire') /\ Flows(wire, wire')
  BY <1>1, QuietCounts, Zenon DEF Quiet, Quietly, Streams, Flows
<1>. QED  BY <1>1, <1>2, QuietIsSilent, Zenon DEF FlowStep

------------------------------------------------------------------------------
(* The coordinator's steps that put no frame in and take none out.         *)

LEMMA WireAsIs == ASSUME Wired(wire), Streams(wire) PROVE Quiet(wire, wire)
BY QuietStreams, Zenon DEF Quiet, Streams

(* Only the coordinator's record and, quietly, the streams change.         *)
LEMMA CoordinatorMoves ==
    ASSUME ScenarioInv, workers' = workers, Quiet(wire, wire'),
           DOMAIN coord' = CoordFields, coord'.worker = coord.worker,
           CoordMoves(coord.pc, coord'.pc),
           coord'.pc \in {"kill", "restart", "old", "revoke"} => coord.worker = "B"
    PROVE  FlowStep
<1>1. Staffed(coord', workers')
  BY Zenon DEF ScenarioInv, Staffed
<1>2. \A w \in Workers : WorkerMoves(coord, coord', w, workers[w].pc, workers'[w].pc)
  BY Zenon DEF WorkerMoves
<1>. QED  BY <1>1, <1>2, QuietFlow, Zenon DEF QuietMove

LEMMA StartingFlows ==
    ASSUME ScenarioInv,
           Attach \/ Incarnate \/ MakeDomain \/ SpawnFails \/ AcceptWorker \/ Greeted
               \/ Create \/ Register \/ Registering \/ NoteRestart \/ JudgeOld
    PROVE  FlowStep
<1>1. /\ DOMAIN coord = CoordFields /\ coord.worker \in Workers /\ Quiet(wire, wire)
      /\ coord.pc \in {"kill", "restart", "old", "revoke"} => coord.worker = "B"
  BY WireAsIs, Zenon DEF ScenarioInv, Staffed
<1>2. ASSUME NEW c, workers' = workers, wire' = wire, DOMAIN c = DOMAIN coord,
             c.worker = coord.worker, CoordMoves(coord.pc, c.pc), coord' = c,
             c.pc \in {"kill", "restart", "old", "revoke"} => coord.worker = "B"
      PROVE  FlowStep
  BY <1>1, <1>2, CoordinatorMoves
<1>3. \A pc : /\ DOMAIN Goto(pc) = DOMAIN coord /\ Goto(pc).worker = coord.worker
              /\ Goto(pc).pc = pc
  BY <1>1 DEF Goto, CoordFields
<1>4. ASSUME NEW pc, workers' = workers, wire' = wire, coord' = Goto(pc),
             CoordMoves(coord.pc, pc),
             pc \in {"kill", "restart", "old", "revoke"} => coord.worker = "B"
      PROVE  FlowStep
  BY <1>2, <1>3, <1>4, Zenon
<1>5. CASE Attach
  BY <1>4, <1>5 DEF Attach, CoordMoves
<1>6. CASE Incarnate
  BY <1>4, <1>6 DEF Incarnate, CoordMoves
<1>7. CASE MakeDomain
  BY <1>4, <1>7 DEF MakeDomain, CoordMoves
<1>8. CASE SpawnFails
  BY <1>4, <1>8 DEF SpawnFails, CoordMoves
<1>9. CASE AcceptWorker
  BY <1>4, <1>9 DEF AcceptWorker, CoordMoves
<1>10. CASE Greeted
  BY <1>4, <1>10 DEF Greeted, CoordMoves
<1>11. CASE Create
  BY <1>4, <1>11 DEF Create, CoordMoves
<1>12. CASE Register
  <2>1. PICK r : /\ coord.pc = "register" /\ UNCHANGED <<workers, wire>>
                 /\ coord' = [coord EXCEPT !.pc = "registering", !.reg = r]
    BY <1>12 DEF Register
  <2>2. /\ DOMAIN coord' = DOMAIN coord /\ coord'.worker = coord.worker
        /\ coord'.pc = "registering"
    BY <1>1, <2>1 DEF CoordFields
  <2>. QED  BY <1>2, <2>1, <2>2 DEF CoordMoves
<1>13. CASE Registering
  BY <1>1, <1>2, <1>13 DEF Registering, processVars, CoordMoves
<1>14. CASE NoteRestart
  BY <1>1, <1>4, <1>14 DEF NoteRestart, CoordMoves
<1>15. CASE JudgeOld
  <2>1. PICK f : /\ coord.pc = "old" /\ UNCHANGED <<workers, wire>>
                 /\ \/ coord' = Goto("revoke")
                    \/ coord' = [Goto("revoke") EXCEPT !.failures = f]
    BY <1>15 DEF JudgeOld, Proof
  <2>2. /\ DOMAIN coord' = DOMAIN coord /\ coord'.worker = coord.worker
        /\ coord'.pc = "revoke"
    BY <1>1, <2>1 DEF Goto, CoordFields
  <2>. QED  BY <1>1, <1>2, <2>1, <2>2 DEF CoordMoves
<1>. QED  BY <1>5, <1>6, <1>7, <1>8, <1>9, <1>10, <1>11, <1>12, <1>13, <1>14, <1>15

(* The same, with the streams of the connection or of all of them.         *)
LEMMA AllStreams ==
    ASSUME ScenarioInv
    PROVE  /\ Wired(wire) /\ Streams(wire) /\ coord.worker \in Workers
           /\ DOMAIN coord = CoordFields
           /\ coord.pc \in {"kill", "restart", "old", "revoke"} => coord.worker = "B"
           /\ "up" \in Directions /\ "down" \in Directions
           /\ \A w \in Workers, d \in Directions : StreamInv(wire[w][d])
BY DEF ScenarioInv, Staffed, Streams, Directions

LEMMA HangUpQuiet == ASSUME ScenarioInv PROVE Quiet(wire, HangUp)
<1>. DEFINE a == Deaf(Up)
            b == Closed(Down)
<1>1. Quietly(wire[coord.worker]["up"], a) /\ Quietly(wire[coord.worker]["down"], b)
  BY AllStreams, QuietStreams, Zenon DEF Up, Down
<1>. HIDE DEF a, b
<1>2. Quiet(wire, Exchange(a, b))
  BY <1>1, AllStreams, OneConnection, Zenon DEF Exchange
<1>. QED  BY <1>2 DEF HangUp, a, b

LEMMA GoneQuiet ==
    ASSUME ScenarioInv, NEW lost \in BOOLEAN
    PROVE  Quiet(wire, CoordinatorGone(lost))
<1>. DEFINE wr2 == CoordinatorGone(lost)
<1>1. DOMAIN wr2 = Workers
  BY DEF CoordinatorGone
<1>2. ASSUME NEW w \in Workers
      PROVE  /\ DOMAIN wr2[w] = Directions
             /\ \A d \in Directions : Quietly(wire[w][d], wr2[w][d])
  <2>. DEFINE a == Deaf(wire[w]["up"])
              b == IF lost THEN Cut(wire[w]["down"]) ELSE Closed(wire[w]["down"])
  <2>1. Quietly(wire[w]["up"], a) /\ Quietly(wire[w]["down"], b)
    BY AllStreams, QuietStreams, Zenon
  <2>2. wr2[w] = [wire[w] EXCEPT !["up"] = a, !["down"] = b]
    BY DEF CoordinatorGone
  <2>. HIDE DEF a, b, wr2
  <2>3. DOMAIN wire[w] = Directions
    BY AllStreams, Zenon DEF Wired
  <2>. QED  BY <2>1, <2>2, <2>3 DEF Directions
<1>. HIDE DEF wr2
<1>3. Quiet(wire, wr2)
  BY <1>1, <1>2, Zenon DEF Quiet, Wired
<1>. QED  BY <1>3 DEF wr2

LEMMA ReturnFlows ==
    ASSUME ScenarioInv, NEW code, Return(code)
    PROVE  FlowStep
<1>1. /\ DOMAIN coord' = CoordFields /\ coord'.worker = coord.worker
      /\ coord'.pc = "ended" /\ workers' = workers
  BY AllStreams DEF Return, CoordFields
<1>2. PICK lost \in {FALSE, code = 1 /\ Up.have # <<>>} : wire' = CoordinatorGone(lost)
  BY Zenon DEF Return
<1>3. lost \in BOOLEAN
  OBVIOUS
<1>4. Quiet(wire, wire')
  BY <1>2, <1>3, GoneQuiet, Zenon
<1>5. CoordMoves(coord.pc, coord'.pc)
  BY <1>1 DEF CoordMoves
<1>6. coord'.pc \notin {"kill", "restart", "old", "revoke"}
  BY <1>1
<1>. QED  BY <1>1, <1>4, <1>5, <1>6, CoordinatorMoves, Zenon

LEMMA ServingFlows ==
    ASSUME ScenarioInv,
           CoordinatorPulls \/ CoordinatorPushes \/ CoordinatorGivesUp
               \/ ServedB \/ ServedA2
    PROVE  FlowStep
<1>. DEFINE w == coord.worker
<1>1. CASE CoordinatorPulls
  <2>1. Quietly(wire[w]["up"], Pulled(wire[w]["up"]))
    BY <1>1, AllStreams, QuietStreams, Zenon DEF CoordinatorPulls, MayPull, Up
  <2>2. Quiet(wire, [wire EXCEPT ![w]["up"] = Pulled(wire[w]["up"])])
    BY <2>1, AllStreams, OneStream, Zenon
  <2>3. Quiet(wire, wire') /\ UNCHANGED <<coord, workers>>
    BY <1>1, <2>2 DEF CoordinatorPulls
  <2>. QED  BY <2>3, AllStreams, CoordinatorMoves, Zenon DEF CoordMoves
<1>2. CASE CoordinatorPushes
  <2>. DEFINE st == wire[w]["down"]
              b == IF st.deaf THEN Abandoned(st) ELSE Pushed(st)
  <2>1. Quietly(wire[w]["down"], b)
    BY <1>2, AllStreams, QuietStreams, Zenon DEF CoordinatorPushes, Down
  <2>2. Quiet(wire, [wire EXCEPT ![w]["down"] = b])
    BY <2>1, AllStreams, OneStream, Zenon
  <2>3. Quiet(wire, wire') /\ UNCHANGED <<coord, workers>>
    BY <1>2, <2>2 DEF CoordinatorPushes
  <2>. QED  BY <2>3, AllStreams, CoordinatorMoves, Zenon DEF CoordMoves
<1>3. CASE CoordinatorGivesUp
  BY <1>3, ReturnFlows, Zenon DEF CoordinatorGivesUp
<1>4. CASE ServedA2
  BY <1>4, ReturnFlows, Zenon DEF ServedA2
<1>5. CASE ServedB
  <2>1. PICK f : /\ coord.worker = "B" /\ wire' = HangUp /\ workers' = workers
                 /\ \/ coord' = Goto("kill")
                    \/ coord' = [Goto("kill") EXCEPT !.failures = f]
    BY <1>5 DEF ServedB, Proof
  <2>2. /\ DOMAIN coord' = CoordFields /\ coord'.worker = coord.worker
        /\ coord'.pc = "kill"
    BY <2>1, AllStreams DEF Goto, CoordFields
  <2>3. Quiet(wire, wire')
    BY <2>1, HangUpQuiet, Zenon
  <2>4. CoordMoves(coord.pc, coord'.pc)
    BY <2>2 DEF CoordMoves
  <2>. QED  BY <2>1, <2>2, <2>3, <2>4, CoordinatorMoves, Zenon
<1>. QED  BY <1>1, <1>2, <1>3, <1>4, <1>5

(* The next worker's turn: nothing has been said on its connection.        *)
LEMMA TurnPasses ==
    ASSUME ScenarioInv, workers' = workers, Quiet(wire, wire'),
           DOMAIN coord' = CoordFields, coord'.pc = "spawn",
           \/ coord.worker = "A" /\ coord'.worker = "B"
           \/ coord.worker = "B" /\ coord'.worker = "A2"
    PROVE  FlowStep
<1>1. coord'.worker \in Workers /\ \A w \in Workers : NotGreeted(coord', w) => Later(coord, w)
  BY DEF Workers, NotGreeted, NotStarted, Later
<1>2. Staffed(coord', workers')
  <2>1. coord'.pc \notin {"kill", "restart", "old", "revoke"}
    OBVIOUS
  <2>. QED  BY <1>1, <2>1, Zenon DEF ScenarioInv, Staffed
<1>3. CoordTurn(coord', wire')
  BY DEF CoordTurn
<1>4. ASSUME NEW w \in Workers
      PROVE  WorkerTurn(coord', workers', wire', w)
  <2>1. WorkerTurn(coord, workers, wire, w)
    BY Zenon DEF ScenarioInv, Turns
  <2>2. /\ NotStarted(coord', w) => NotStarted(coord, w)
        /\ NotGreeted(coord', w) => NotGreeted(coord, w)
    BY <1>1, Zenon DEF NotGreeted, NotStarted
  <2>3. ASSUME NEW d \in Directions
        PROVE  /\ Sent(wire', w, d) = Sent(wire, w, d) /\ Got(wire', w, d) = Got(wire, w, d)
               /\ wire[w][d].deaf => wire'[w][d].deaf
    BY QuietCounts, Zenon
  <2>4. "up" \in Directions /\ "down" \in Directions
    BY DEF Directions
  <2>. QED  BY <2>1, <2>2, <2>3, <2>4, Zenon DEF WorkerTurn
<1>5. Wired(wire') /\ Streams(wire') /\ Flows(wire, wire')
  BY QuietCounts, Zenon DEF Quiet, Quietly, Streams, Flows
<1>. QED  BY <1>2, <1>3, <1>4, <1>5, QuietIsSilent, Zenon DEF FlowStep, Turns

LEMMA TurnFlows ==
    ASSUME ScenarioInv, ServedA \/ RevokeOld
    PROVE  FlowStep
<1>1. CASE ServedA
  <2>1. /\ coord.worker = "A" /\ coord'.worker = "B" /\ coord'.pc = "spawn"
        /\ DOMAIN coord' = CoordFields /\ workers' = workers /\ wire' = HangUp
    BY <1>1, AllStreams DEF ServedA, CoordFields
  <2>. QED  BY <2>1, HangUpQuiet, TurnPasses, Zenon
<1>2. CASE RevokeOld
  <2>1. /\ coord.pc = "revoke" /\ coord'.worker = "A2" /\ coord'.pc = "spawn"
        /\ DOMAIN coord' = CoordFields /\ workers' = workers /\ wire' = wire
    BY <1>2, AllStreams DEF RevokeOld, CoordFields
  <2>2. coord.worker = "B"
    BY <2>1, AllStreams
  <2>3. Quiet(wire, wire')
    BY <2>1, AllStreams, WireAsIs, Zenon
  <2>. QED  BY <2>1, <2>2, <2>3, TurnPasses, Zenon
<1>. QED  BY <1>1, <1>2

------------------------------------------------------------------------------
(* The workers' steps that put no frame in and take none out.              *)

LEMMA AllWorkers ==
    ASSUME ScenarioInv
    PROVE  DOMAIN workers = Workers /\ \A w \in Workers : DOMAIN workers[w] = WorkerFields
BY Zenon DEF ScenarioInv, Staffed

(* One worker moves.                                                       *)
LEMMA OneWorkerMoves ==
    ASSUME ScenarioInv, NEW w \in Workers, Quiet(wire, wire'), coord' = coord,
           DOMAIN workers' = Workers, DOMAIN workers'[w] = WorkerFields,
           \A v \in Workers : v # w => workers'[v] = workers[v],
           WorkerMoves(coord, coord, w, workers[w].pc, workers'[w].pc)
    PROVE  FlowStep
<1>1. Staffed(coord', workers')
  BY Zenon DEF ScenarioInv, Staffed
<1>2. \A v \in Workers : WorkerMoves(coord, coord', v, workers[v].pc, workers'[v].pc)
  BY Zenon DEF WorkerMoves
<1>3. coord'.worker = coord.worker /\ CoordMoves(coord.pc, coord'.pc)
  BY Zenon DEF CoordMoves
<1>. QED  BY <1>1, <1>2, <1>3, QuietFlow, Zenon DEF QuietMove

LEMMA EndFlows ==
    ASSUME ScenarioInv, NEW w \in Workers, NEW code, WorkerEnds(w, code),
           coord' = coord, workers[w].pc # "none"
    PROVE  FlowStep
<1>1. Quiet(wire, wire')
  BY AllStreams, HangupQuiet, Zenon DEF WorkerEnds
<1>2. /\ DOMAIN workers' = Workers /\ DOMAIN workers'[w] = WorkerFields
      /\ workers'[w].pc = "exited"
      /\ \A v \in Workers : v # w => workers'[v] = workers[v]
  BY AllWorkers DEF WorkerEnds, WorkerFields
<1>3. WorkerMoves(coord, coord, w, workers[w].pc, workers'[w].pc)
  BY <1>2 DEF WorkerMoves
<1>. QED  BY <1>1, <1>2, <1>3, OneWorkerMoves, Zenon

LEMMA DeathFlows ==
    ASSUME ScenarioInv, NEW w \in Workers, WorkerDies(w)
    PROVE  FlowStep
<1>1. PICK lost \in BOOLEAN : wire' = [wire EXCEPT ![w] = Hangup(@, lost)]
  BY Zenon DEF WorkerDies
<1>2. Quiet(wire, wire')
  BY <1>1, AllStreams, HangupQuiet, Zenon
<1>3. /\ DOMAIN workers' = Workers /\ DOMAIN workers'[w] = WorkerFields
      /\ workers'[w].pc = "dead" /\ workers[w].pc # "none" /\ coord' = coord
      /\ \A v \in Workers : v # w => workers'[v] = workers[v]
  BY AllWorkers DEF WorkerDies, WorkerFields, Running
<1>4. WorkerMoves(coord, coord, w, workers[w].pc, workers'[w].pc)
  BY <1>3 DEF WorkerMoves
<1>. QED  BY <1>2, <1>3, <1>4, OneWorkerMoves, Zenon

LEMMA AlterFlows ==
    ASSUME ScenarioInv, NEW w \in Workers, NEW d \in Directions, Alter(w, d)
    PROVE  FlowStep
<1>1. PICK damage \in DamageTo(Head(wire[w][d].cells).part) :
          wire' = [wire EXCEPT ![w][d].cells[1].damage = damage]
  BY Zenon DEF Alter
<1>2. damage \in Damages /\ wire[w][d].cells # <<>>
  BY <1>1 DEF Alter, DamageTo, Damages
<1>3. wire' = [wire EXCEPT ![w][d] = AlteredStream(wire[w][d], damage)]
  BY <1>1 DEF AlteredStream
<1>4. Quietly(wire[w][d], AlteredStream(wire[w][d], damage))
  BY <1>2, AllStreams, QuietStreams, Zenon
<1>5. Quiet(wire, wire')
  BY <1>3, <1>4, AllStreams, OneStream, Zenon
<1>6. UNCHANGED <<coord, workers>>
  BY DEF Alter
<1>. QED  BY <1>5, <1>6, AllStreams, CoordinatorMoves, Zenon DEF CoordMoves

LEMMA WorkingFlows ==
    ASSUME ScenarioInv, NEW w \in Workers, coord' = coord,
           WorkerTurnedAway(w) \/ WorkerPushes(w) \/ WorkerPushFails(w) \/ WorkerSent(w)
               \/ WorkerPulls(w) \/ WorkerGivesUp(w)
    PROVE  FlowStep
<1>1. CASE WorkerTurnedAway(w)
  <2>1. workers[w].pc # "none"
    BY <1>1 DEF WorkerTurnedAway
  <2>. QED  BY <1>1, <2>1, EndFlows, Zenon DEF WorkerTurnedAway
<1>2. CASE WorkerPushes(w)
  <2>. DEFINE st == wire[w]["up"]
              b == IF st.deaf THEN Deaf(Pushed(st)) ELSE Pushed(st)
  <2>1. Quietly(st, b)
    BY <1>2, AllStreams, QuietStreams, Zenon DEF WorkerPushes
  <2>2. Quiet(wire, [wire EXCEPT ![w]["up"] = b])
    BY <2>1, AllStreams, OneStream, Zenon
  <2>3. Quiet(wire, wire') /\ workers' = workers
    BY <1>2, <2>2 DEF WorkerPushes
  <2>. QED  BY <2>3, AllStreams, CoordinatorMoves, Zenon DEF CoordMoves
<1>3. CASE WorkerPushFails(w)
  <2>1. workers[w].pc # "none"
    BY <1>3 DEF WorkerPushFails
  <2>. QED  BY <1>3, <2>1, EndFlows, Zenon DEF WorkerPushFails
<1>4. CASE WorkerSent(w)
  <2>1. Quiet(wire, wire')
    BY <1>4, AllStreams, WireAsIs, Zenon DEF WorkerSent
  <2>2. /\ DOMAIN workers' = Workers /\ DOMAIN workers'[w] = WorkerFields
        /\ \/ workers[w].pc = "hello" /\ workers'[w].pc = "ack"
           \/ workers[w].pc = "request" /\ workers'[w].pc = "answer"
        /\ \A v \in Workers : v # w => workers'[v] = workers[v]
    BY <1>4, AllWorkers DEF WorkerSent, WorkerFields
  <2>3. WorkerMoves(coord, coord, w, workers[w].pc, workers'[w].pc)
    BY <2>2 DEF WorkerMoves
  <2>. QED  BY <2>1, <2>2, <2>3, OneWorkerMoves, Zenon
<1>5. CASE WorkerPulls(w)
  <2>. DEFINE st == wire[w]["down"]
  <2>1. Quietly(st, Pulled(st))
    BY <1>5, AllStreams, QuietStreams, Zenon DEF WorkerPulls, MayPull
  <2>2. Quiet(wire, [wire EXCEPT ![w]["down"] = Pulled(st)])
    BY <2>1, AllStreams, OneStream, Zenon
  <2>3. Quiet(wire, wire') /\ workers' = workers
    BY <1>5, <2>2 DEF WorkerPulls
  <2>. QED  BY <2>3, AllStreams, CoordinatorMoves, Zenon DEF CoordMoves
<1>6. CASE WorkerGivesUp(w)
  <2>1. workers[w].pc # "none"
    BY <1>6 DEF WorkerGivesUp, Listening
  <2>2. PICK code : WorkerEnds(w, code)
    BY <1>6, Zenon DEF WorkerGivesUp
  <2>. QED  BY <2>1, <2>2, EndFlows, Zenon
<1>. QED  BY <1>1, <1>2, <1>3, <1>4, <1>5, <1>6

LEMMA SpawnFlows ==
    ASSUME ScenarioInv, SpawnWorker
    PROVE  FlowStep
<1>. DEFINE w == coord.worker
<1>1. /\ DOMAIN coord' = CoordFields /\ coord'.worker = w /\ coord'.pc = "accept"
      /\ coord.pc = "spawn" /\ wire' = wire
  BY AllStreams DEF SpawnWorker, Goto, CoordFields
<1>2. /\ DOMAIN workers' = Workers /\ DOMAIN workers'[w] = WorkerFields
      /\ workers'[w].pc = "connecting"
      /\ \A v \in Workers : v # w => workers'[v] = workers[v]
  BY AllWorkers, AllStreams DEF SpawnWorker, NoWorker, WorkerFields
<1>3. Staffed(coord', workers')
  <2>1. coord'.pc \notin {"kill", "restart", "old", "revoke"}
    BY <1>1
  <2>. QED  BY <1>1, <1>2, <2>1, AllWorkers, AllStreams, Zenon DEF Staffed
<1>4. \A v \in Workers : WorkerMoves(coord, coord', v, workers[v].pc, workers'[v].pc)
  BY <1>1, <1>2, Zenon DEF WorkerMoves
<1>5. CoordMoves(coord.pc, coord'.pc)
  BY <1>1 DEF CoordMoves
<1>6. Quiet(wire, wire')
  BY <1>1, AllStreams, WireAsIs, Zenon
<1>. QED  BY <1>1, <1>3, <1>4, <1>5, <1>6, QuietFlow, Zenon DEF QuietMove

LEMMA KillFlows ==
    ASSUME ScenarioInv, KillA
    PROVE  FlowStep
<1>1. /\ DOMAIN coord' = CoordFields /\ coord'.worker = coord.worker
      /\ coord'.pc = "restart" /\ coord.worker = "B"
  BY AllStreams DEF KillA, Goto, CoordFields
<1>2. CoordMoves(coord.pc, coord'.pc)
  BY <1>1 DEF CoordMoves
<1>3. CASE Running("A")
  <2>1. "A" \in Workers /\ TRUE \in BOOLEAN
    BY DEF Workers
  <2>2. Quiet(wire, wire')
    <3>1. wire' = [wire EXCEPT !["A"] = Hangup(@, TRUE)]
      BY <1>3, Zenon DEF KillA
    <3>. QED  BY <2>1, <3>1, AllStreams, HangupQuiet, Zenon
  <2>3. /\ DOMAIN workers' = Workers /\ DOMAIN workers'["A"] = WorkerFields
        /\ workers'["A"].pc = "dead" /\ workers["A"].pc # "none"
        /\ \A v \in Workers : v # "A" => workers'[v] = workers[v]
    BY <1>3, <2>1, AllWorkers DEF KillA, Running, WorkerFields
  <2>4. \A v \in Workers : WorkerMoves(coord, coord', v, workers[v].pc, workers'[v].pc)
    BY <2>3 DEF WorkerMoves
  <2>5. Staffed(coord', workers')
    BY <1>1, <2>3, AllWorkers, AllStreams, Zenon DEF Staffed
  <2>. QED  BY <1>1, <1>2, <2>2, <2>4, <2>5, QuietFlow, Zenon DEF QuietMove
<1>4. CASE ~Running("A")
  <2>1. UNCHANGED <<workers, wire>>
    BY <1>4 DEF KillA
  <2>2. Quiet(wire, wire')
    BY <2>1, AllStreams, WireAsIs, Zenon
  <2>. QED  BY <1>1, <1>2, <2>1, <2>2, CoordinatorMoves, Zenon
<1>. QED  BY <1>3, <1>4

------------------------------------------------------------------------------
(* The steps on which frames enter or leave the streams of a connection.   *)

Rewired(wr, w, a, b) == [wr EXCEPT ![w]["up"] = a, ![w]["down"] = b]

LEMMA ConnectionFlows ==
    \A wr : Wired(wr) /\ Streams(wr) =>
        \A w \in Workers : \A a, b, wr2 :
            /\ StreamInv(a) /\ ChannelStep(wr[w]["up"], a)
            /\ StreamInv(b) /\ ChannelStep(wr[w]["down"], b)
            /\ wr2 = Rewired(wr, w, a, b)
            =>
               /\ Wired(wr2) /\ Streams(wr2) /\ Flows(wr, wr2)
               /\ wr2[w]["up"] = a /\ wr2[w]["down"] = b
               /\ \A v \in Workers : v # w => wr2[v] = wr[v]
<1>. TAKE wr
<1>. HAVE Wired(wr) /\ Streams(wr)
<1>. TAKE w \in Workers
<1>. TAKE a, b, wr2
<1>. HAVE /\ StreamInv(a) /\ ChannelStep(wr[w]["up"], a)
          /\ StreamInv(b) /\ ChannelStep(wr[w]["down"], b)
          /\ wr2 = Rewired(wr, w, a, b)
<1>1. Wired(wr2)
  BY DEF Wired, Rewired
<1>2. wr2[w]["up"] = a /\ wr2[w]["down"] = b
  BY DEF Wired, Directions, Rewired
<1>3. \A v \in Workers : v # w => wr2[v] = wr[v]
  BY DEF Wired, Rewired
<1>4. ASSUME NEW v \in Workers, NEW e \in Directions
      PROVE  StreamInv(wr2[v][e]) /\ ChannelStep(wr[v][e], wr2[v][e])
  <2>1. ChannelStep(wr[v][e], wr[v][e])
    BY Zenon DEF ChannelStep
  <2>2. e = "up" \/ e = "down"
    BY DEF Directions
  <2>. QED  BY <1>2, <1>3, <2>1, <2>2, Zenon DEF Streams
<1>. QED  BY <1>1, <1>2, <1>3, <1>4, Zenon DEF Streams, Flows

(* The connections that are not concerned.                                 *)
LEMMA OthersTurn ==
    \A c, ws, wr, c2, ws2, wr2, v :
        /\ WorkerTurn(c, ws, wr, v) /\ wr2[v] = wr[v] /\ ws2[v].pc = ws[v].pc
        /\ c2.worker = c.worker /\ (c2.pc = c.pc \/ v # c.worker)
        => WorkerTurn(c2, ws2, wr2, v)
<1>. TAKE c, ws, wr, c2, ws2, wr2, v
<1>. HAVE /\ WorkerTurn(c, ws, wr, v) /\ wr2[v] = wr[v] /\ ws2[v].pc = ws[v].pc
          /\ c2.worker = c.worker /\ (c2.pc = c.pc \/ v # c.worker)
<1>1. \A d : Sent(wr2, v, d) = Sent(wr, v, d) /\ Got(wr2, v, d) = Got(wr, v, d)
  BY Zenon DEF Sent, Got
<1>2. (NotStarted(c2, v) <=> NotStarted(c, v)) /\ (NotGreeted(c2, v) <=> NotGreeted(c, v))
  BY Zenon DEF NotStarted, NotGreeted, Later
<1>. QED  BY <1>1, <1>2, Zenon DEF WorkerTurn

LEMMA StepsOfOne ==
    \A st : ChannelStep(st, st) /\ \A a, b : ChannelStep(st, a) /\ Still(a, b) => ChannelStep(st, b)
BY ZenonT(30) DEF ChannelStep, Still

(* The state of a connection, as far as turns go.                          *)
LEMMA TurnOf ==
    ASSUME ScenarioInv, NEW w \in Workers
    PROVE  /\ WorkerTurn(coord, workers, wire, w)
           /\ CoordTurn(coord, wire)
           /\ Sent(wire, w, "up") \in Nat /\ Got(wire, w, "up") \in Nat
           /\ Sent(wire, w, "down") \in Nat /\ Got(wire, w, "down") \in Nat
           /\ Got(wire, w, "up") <= Sent(wire, w, "up")
           /\ Got(wire, w, "down") <= Sent(wire, w, "down")
           /\ StreamInv(wire[w]["up"]) /\ StreamInv(wire[w]["down"])
BY AllStreams, Counted, Zenon DEF ScenarioInv, Turns

(* A step of one connection, whatever its new streams are.                 *)
LEMMA ConnectionStep ==
    ASSUME ScenarioInv, NEW w \in Workers
    PROVE  \A a, b :
               /\ StreamInv(a) /\ ChannelStep(wire[w]["up"], a)
               /\ StreamInv(b) /\ ChannelStep(wire[w]["down"], b)
               /\ wire' = Rewired(wire, w, a, b)
               => /\ Wired(wire') /\ Streams(wire') /\ Flows(wire, wire')
                  /\ wire'[w]["up"] = a /\ wire'[w]["down"] = b
                  /\ \A v \in Workers : v # w => wire'[v] = wire[v]
<1>1. Wired(wire) /\ Streams(wire)
  BY AllStreams, Zenon
<1>. TAKE a, b
<1>. HAVE /\ StreamInv(a) /\ ChannelStep(wire[w]["up"], a)
          /\ StreamInv(b) /\ ChannelStep(wire[w]["down"], b)
          /\ wire' = Rewired(wire, w, a, b)
<1>2. \A wr2 : wr2 = Rewired(wire, w, a, b) =>
          /\ Wired(wr2) /\ Streams(wr2) /\ Flows(wire, wr2)
          /\ wr2[w]["up"] = a /\ wr2[w]["down"] = b
          /\ \A v \in Workers : v # w => wr2[v] = wire[v]
  BY <1>1, ConnectionFlows
<1>3. wire' = Rewired(wire, w, a, b)
  OBVIOUS
<1>. QED  BY <1>2, <1>3, Zenon

LEMMA ConnectFlows ==
    ASSUME ScenarioInv, NEW w \in Workers, WorkerConnects(w), coord' = coord
    PROVE  FlowStep
<1>. DEFINE frame == Frame("HELLO", 1, [role |-> Role(w)])
            up == wire[w]["up"]
            a == Sending(up, frame)
            b == wire[w]["down"]
<1>1. Sent(wire, w, "up") = 0 /\ Got(wire, w, "up") = 0
  BY TurnOf DEF WorkerConnects, WorkerTurn
<1>2. /\ StreamInv(a) /\ ChannelStep(up, a) /\ a.got = up.got
      /\ Len(a.sent) = Len(up.sent) + 1
  <2>1. StreamInv(up) /\ Clear(up)
    BY <1>1, TurnOf DEF Clear, Sent, Got
  <2>. HIDE DEF frame, up
  <2>. QED  BY <2>1, SendingKept, Zenon
<1>3. wire' = Rewired(wire, w, a, b)
  <2>1. wire' = [wire EXCEPT ![w]["up"] = a]
    BY DEF WorkerConnects
  <2>. HIDE DEF a
  <2>. QED  BY <2>1, AllStreams DEF Wired, Directions, Rewired
<1>4. /\ Wired(wire') /\ Streams(wire') /\ Flows(wire, wire')
      /\ wire'[w]["up"] = a /\ wire'[w]["down"] = b
      /\ \A v \in Workers : v # w => wire'[v] = wire[v]
  <2>. HIDE DEF a, up
  <2>1. ChannelStep(b, b) /\ StreamInv(b)
    BY StepsOfOne, TurnOf, Zenon
  <2>2. wire[w]["up"] = up
    BY DEF up
  <2>. HIDE DEF b
  <2>3. wire[w]["down"] = b
    BY DEF b
  <2>. QED  BY <1>2, <1>3, <2>1, <2>2, <2>3, ConnectionStep, ZenonT(30)
<1>5. /\ DOMAIN workers' = Workers /\ DOMAIN workers'[w] = WorkerFields
      /\ workers'[w].pc = "hello" /\ workers[w].pc = "connecting"
      /\ \A v \in Workers : v # w => workers'[v] = workers[v]
  BY AllWorkers DEF WorkerConnects, WorkerFields
<1>6. Staffed(coord', workers')
  BY <1>5, Zenon DEF ScenarioInv, Staffed
<1>7. /\ Sent(wire', w, "up") = 1 /\ Got(wire', w, "up") = Got(wire, w, "up")
      /\ Sent(wire', w, "down") = Sent(wire, w, "down")
      /\ Got(wire', w, "down") = Got(wire, w, "down")
      /\ wire'[w]["down"].deaf = wire[w]["down"].deaf
  BY <1>1, <1>2, <1>4 DEF Sent, Got
<1>8. WorkerTurn(coord', workers', wire', w)
  BY <1>5, <1>7, TurnOf DEF WorkerTurn, NotStarted, NotGreeted, Later
<1>9. CoordTurn(coord', wire')
  BY <1>4, <1>7, TurnOf, AllStreams DEF CoordTurn, Sent, Got
<1>10. \A v \in Workers : v # w => WorkerTurn(coord', workers', wire', v)
  BY <1>4, <1>5, TurnOf, OthersTurn, Zenon
<1>11. Silent(coord, coord', wire, wire')
  <2>. HIDE DEF a
  <2>. QED  BY <1>4, Zenon DEF Silent
<1>. QED  BY <1>4, <1>6, <1>8, <1>9, <1>10, <1>11, Zenon DEF FlowStep, Turns

LEMMA OneConnectionFlows ==
    ASSUME ScenarioInv, NEW w \in Workers,
           Wired(wire'), Streams(wire'), Flows(wire, wire'),
           \A v \in Workers : v # w => wire'[v] = wire[v] /\ workers'[v] = workers[v],
           Staffed(coord', workers'),
           coord'.worker = coord.worker, coord'.pc = coord.pc \/ w = coord.worker,
           WorkerTurn(coord', workers', wire', w), CoordTurn(coord', wire'),
           Silent(coord, coord', wire, wire')
    PROVE  FlowStep
<1>1. \A v \in Workers : v # w => WorkerTurn(coord', workers', wire', v)
  BY TurnOf, OthersTurn, Zenon
<1>. QED  BY <1>1, Zenon DEF FlowStep, Turns

(* The coordinator stays where it is while a worker sends or receives.     *)
LEMMA CoordStays ==
    ASSUME ScenarioInv, coord' = coord,
           \A v \in Workers :
               /\ Sent(wire', v, "down") = Sent(wire, v, "down")
               /\ Got(wire', v, "up") = Got(wire, v, "up")
               /\ Got(wire', v, "down") \in {Got(wire, v, "down"), Got(wire, v, "down") + 1}
               /\ wire[v]["down"].deaf => wire'[v]["down"].deaf
    PROVE  CoordTurn(coord', wire')
<1>1. coord.worker \in Workers /\ CoordTurn(coord, wire)
  BY TurnOf, AllStreams
<1>2. Got(wire, coord.worker, "down") \in Nat
  BY <1>1, TurnOf
<1>3. /\ Sent(wire', coord.worker, "down") = Sent(wire, coord.worker, "down")
      /\ Got(wire', coord.worker, "up") = Got(wire, coord.worker, "up")
      /\ Got(wire', coord.worker, "down") \in
            {Got(wire, coord.worker, "down"), Got(wire, coord.worker, "down") + 1}
      /\ wire[coord.worker]["down"].deaf => wire'[coord.worker]["down"].deaf
  BY <1>1, Zenon
<1>4. ASSUME wire[coord.worker]["down"].deaf \/ Got(wire, coord.worker, "down") >= 1
      PROVE  wire'[coord.worker]["down"].deaf \/ Got(wire', coord.worker, "down") >= 1
  BY <1>2, <1>3, <1>4
<1>. QED  BY <1>1, <1>3, <1>4, Zenon DEF CoordTurn

LEMMA WorkerGreetedFlows ==
    ASSUME ScenarioInv, NEW w \in Workers, WorkerGreeted(w), coord' = coord
    PROVE  FlowStep
<1>. DEFINE up == wire[w]["up"]
            down == wire[w]["down"]
            a == Sending(up, RequestOf(w))
            b == Taken(down)
<1>1. Received(down) /\ workers[w].pc = "ack"
  BY DEF WorkerGreeted
<1>2. /\ StreamInv(b) /\ ChannelStep(down, b) /\ b.sent = down.sent
      /\ Len(b.got) = Len(down.got) + 1 /\ Len(b.got) = Len(down.sent)
      /\ b.deaf = down.deaf
  BY <1>1, TurnOf, TakenKept, Zenon
<1>3. /\ Sent(wire, w, "up") = 1 /\ Got(wire, w, "up") = 1
      /\ Sent(wire, w, "down") = Got(wire, w, "down") + 1
  <2>1. Sent(wire, w, "down") = Got(wire, w, "down") + 1
    BY <1>2, Zenon DEF Sent, Got
  <2>. QED  BY <1>1, <2>1, TurnOf DEF WorkerTurn
<1>4. /\ StreamInv(a) /\ ChannelStep(up, a) /\ a.got = up.got
      /\ Len(a.sent) = Len(up.sent) + 1
  <2>1. StreamInv(up) /\ Clear(up)
    BY <1>3, TurnOf DEF Clear, Sent, Got
  <2>. HIDE DEF up
  <2>. QED  BY <2>1, SendingKept, Zenon
<1>5. wire' = Rewired(wire, w, a, b)
  <2>1. wire' = [wire EXCEPT ![w]["down"] = b, ![w]["up"] = a]
    BY DEF WorkerGreeted
  <2>. HIDE DEF a, b
  <2>. QED  BY <2>1, AllStreams DEF Wired, Directions, Rewired
<1>6. /\ Wired(wire') /\ Streams(wire') /\ Flows(wire, wire')
      /\ wire'[w]["up"] = a /\ wire'[w]["down"] = b
      /\ \A v \in Workers : v # w => wire'[v] = wire[v]
  <2>. HIDE DEF a, b
  <2>. QED  BY <1>2, <1>4, <1>5, ConnectionStep, Zenon
<1>7. /\ DOMAIN workers' = Workers /\ DOMAIN workers'[w] = WorkerFields
      /\ workers'[w].pc = "request"
      /\ \A v \in Workers : v # w => workers'[v] = workers[v]
  BY AllWorkers DEF WorkerGreeted, WorkerFields
<1>8. Staffed(coord', workers')
  BY <1>7, Zenon DEF ScenarioInv, Staffed
<1>9. /\ Sent(wire', w, "up") = 2 /\ Got(wire', w, "up") = Got(wire, w, "up")
      /\ Sent(wire', w, "down") = Sent(wire, w, "down")
      /\ Got(wire', w, "down") = Got(wire, w, "down") + 1
      /\ wire'[w]["down"].deaf = wire[w]["down"].deaf
  <2>. HIDE DEF a, b
  <2>. QED  BY <1>2, <1>3, <1>4, <1>6 DEF Sent, Got
<1>10. WorkerTurn(coord', workers', wire', w)
  BY <1>1, <1>3, <1>7, <1>9, TurnOf DEF WorkerTurn, NotStarted, NotGreeted, Later
<1>11. CoordTurn(coord', wire')
  <2>1. \A v \in Workers : Got(wire, v, "down") \in Nat
    BY TurnOf
  <2>. QED  BY <1>6, <1>9, <2>1, CoordStays DEF Sent, Got
<1>12. Silent(coord, coord', wire, wire')
  <2>. HIDE DEF a, b
  <2>. QED  BY <1>2, <1>6, Zenon DEF Silent
<1>. QED  BY <1>6, <1>7, <1>8, <1>10, <1>11, <1>12, OneConnectionFlows, Zenon

LEMMA WorkerAnsweredFlows ==
    ASSUME ScenarioInv, NEW w \in Workers, WorkerAnswered(w), coord' = coord
    PROVE  FlowStep
<1>. DEFINE up == wire[w]["up"]
            down == wire[w]["down"]
<1>1. Received(down) /\ workers[w].pc = "answer"
  BY DEF WorkerAnswered
<1>2. /\ StreamInv(Taken(down)) /\ ChannelStep(down, Taken(down))
      /\ Taken(down).sent = down.sent
      /\ Len(Taken(down).got) = Len(down.got) + 1
      /\ Taken(down).deaf = down.deaf
  BY <1>1, TurnOf, TakenKept, Zenon
<1>3. PICK a, b : /\ a = up \/ a = Closed(up)
                  /\ b = Taken(down) \/ b = Deaf(Taken(down))
                  /\ wire' = Rewired(wire, w, a, b)
  <2>1. \/ wire' = [wire EXCEPT ![w]["down"] = Taken(down)]
        \/ wire' = [wire EXCEPT ![w]["down"] = Deaf(Taken(down)), ![w]["up"] = Closed(up)]
    BY DEF WorkerAnswered
  <2>2. \A a, b : [wire EXCEPT ![w]["down"] = b, ![w]["up"] = a] = Rewired(wire, w, a, b)
    BY AllStreams DEF Wired, Directions, Rewired
  <2>3. \A b : [wire EXCEPT ![w]["down"] = b] = Rewired(wire, w, up, b)
    BY AllStreams DEF Wired, Directions, Rewired
  <2>. HIDE DEF up, down
  <2>. QED  BY <2>1, <2>2, <2>3
<1>4. StreamInv(a) /\ Still(up, a) /\ ChannelStep(up, a)
  BY <1>3, TurnOf, EndsKept, Zenon DEF Still, ChannelStep
<1>5. /\ StreamInv(b) /\ ChannelStep(down, b) /\ Still(Taken(down), b)
      /\ down.deaf => b.deaf
  <2>1. StreamInv(b) /\ Still(Taken(down), b) /\ (Taken(down).deaf => b.deaf)
    BY <1>2, <1>3, EndsKept, ZenonT(30) DEF Still
  <2>. QED  BY <1>2, <2>1, StepsOfOne, Zenon
<1>6. /\ Wired(wire') /\ Streams(wire') /\ Flows(wire, wire')
      /\ wire'[w]["up"] = a /\ wire'[w]["down"] = b
      /\ \A v \in Workers : v # w => wire'[v] = wire[v]
  BY <1>3, <1>4, <1>5, ConnectionStep, Zenon
<1>7. /\ DOMAIN workers' = Workers /\ DOMAIN workers'[w] = WorkerFields
      /\ workers'[w].pc \in {"hold", "exited"}
      /\ \A v \in Workers : v # w => workers'[v] = workers[v]
  BY AllWorkers DEF WorkerAnswered, WorkerFields
<1>8. Staffed(coord', workers')
  BY <1>7, Zenon DEF ScenarioInv, Staffed
<1>9. /\ Sent(wire', w, "up") = Sent(wire, w, "up")
      /\ Got(wire', w, "up") = Got(wire, w, "up")
      /\ Sent(wire', w, "down") = Sent(wire, w, "down")
      /\ Got(wire', w, "down") = Got(wire, w, "down") + 1
      /\ wire[w]["down"].deaf => wire'[w]["down"].deaf
  BY <1>2, <1>4, <1>5, <1>6, Zenon DEF Sent, Got, Still
<1>10. WorkerTurn(coord', workers', wire', w)
  <2>1. workers[w].pc \notin {"none", "connecting", "hello", "ack"}
    BY <1>1
  <2>. QED  BY <1>7, <1>9, <2>1, TurnOf DEF WorkerTurn, NotStarted, NotGreeted, Later
<1>11. CoordTurn(coord', wire')
  <2>1. \A v \in Workers : Got(wire, v, "down") \in Nat
    BY TurnOf
  <2>. QED  BY <1>6, <1>9, <2>1, CoordStays DEF Sent, Got
<1>12. Silent(coord, coord', wire, wire')
  <2>. HIDE DEF up, down
  <2>. QED  BY <1>2, <1>5, <1>6, Zenon DEF Silent, Still, down
<1>. QED  BY <1>6, <1>7, <1>8, <1>10, <1>11, <1>12, OneConnectionFlows, Zenon

(* A frame comes out of the stream that leads to the coordinator.          *)
LEMMA UpTaken ==
    ASSUME ScenarioInv, Received(Up)
    PROVE  /\ StreamInv(Taken(Up)) /\ ChannelStep(wire[coord.worker]["up"], Taken(Up))
           /\ Len(Taken(Up).sent) = Sent(wire, coord.worker, "up")
           /\ Len(Taken(Up).got) = Got(wire, coord.worker, "up") + 1
           /\ Sent(wire, coord.worker, "up") = Got(wire, coord.worker, "up") + 1
<1>1. StreamInv(Up)
  BY TurnOf, AllStreams, Zenon DEF Up
<1>2. Taken(Up).sent = Up.sent /\ Len(Taken(Up).got) = Len(Up.got) + 1
  BY <1>1, TakenKept, Zenon
<1>3. /\ StreamInv(Taken(Up)) /\ ChannelStep(Up, Taken(Up))
      /\ Len(Taken(Up).got) = Len(Up.sent)
  BY <1>1, TakenKept, Zenon
<1>. QED  BY <1>2, <1>3, Zenon DEF Up, Sent, Got

(* A frame goes into the stream that leads away from it.                   *)
LEMMA DownSent ==
    ASSUME ScenarioInv,
           wire[coord.worker]["down"].deaf
               \/ Got(wire, coord.worker, "down") = Sent(wire, coord.worker, "down")
    PROVE  \A frame :
           /\ StreamInv(Sending(Down, frame))
           /\ ChannelStep(wire[coord.worker]["down"], Sending(Down, frame))
           /\ Len(Sending(Down, frame).got) = Got(wire, coord.worker, "down")
           /\ Len(Sending(Down, frame).sent) = Sent(wire, coord.worker, "down") + 1
           /\ Sending(Down, frame).deaf = wire[coord.worker]["down"].deaf
<1>1. StreamInv(Down) /\ Clear(Down)
  BY TurnOf, AllStreams, Zenon DEF Down, Clear, Sent, Got
<1>2. \A frame :
           /\ StreamInv(Sending(Down, frame)) /\ ChannelStep(Down, Sending(Down, frame))
           /\ Sending(Down, frame).got = Down.got
           /\ Len(Sending(Down, frame).sent) = Len(Down.sent) + 1
           /\ Sending(Down, frame).deaf = Down.deaf
  BY <1>1, SendingKept, Zenon
<1>. QED  BY <1>2, Zenon DEF Down, Sent, Got

(* The coordinator goes on in main, a worker's state being untouched.      *)
LEMMA ServedFlows ==
    ASSUME ScenarioInv, workers' = workers,
           Wired(wire'), Streams(wire'), Flows(wire, wire'),
           \A v \in Workers : v # coord.worker => wire'[v] = wire[v],
           DOMAIN coord' = CoordFields, coord'.worker = coord.worker,
           coord'.pc \in {"greeting", "create", "answering"},
           WorkerTurn(coord', workers', wire', coord.worker), CoordTurn(coord', wire'),
           Silent(coord, coord', wire, wire')
    PROVE  FlowStep
<1>1. Staffed(coord', workers')
  <2>1. coord'.pc \notin {"kill", "restart", "old", "revoke"}
    OBVIOUS
  <2>. QED  BY <2>1, AllStreams, AllWorkers, Zenon DEF Staffed
<1>. QED  BY <1>1, AllStreams, OneConnectionFlows, Zenon

LEMMA GreetFlows ==
    ASSUME ScenarioInv, Greet
    PROVE  FlowStep
<1>. DEFINE w == coord.worker
            a == Taken(Up)
<1>1. PICK frame : wire' = Exchange(a, Sending(Down, frame))
  BY Zenon DEF Greet
<1>. DEFINE b == Sending(Down, frame)
<1>2. /\ coord.pc = "hello" /\ Received(Up) /\ workers' = workers
      /\ coord'.pc = "greeting" /\ coord'.worker = w /\ DOMAIN coord' = CoordFields
  BY AllStreams DEF Greet, BootTaken, CoordFields
<1>3. Sent(wire, w, "down") = 0 /\ Got(wire, w, "up") = 0 /\ Got(wire, w, "down") = 0
  BY <1>2, TurnOf, AllStreams DEF WorkerTurn, NotGreeted
<1>4. /\ StreamInv(a) /\ ChannelStep(wire[w]["up"], a)
      /\ Len(a.sent) = Sent(wire, w, "up") /\ Len(a.got) = Got(wire, w, "up") + 1
  BY <1>2, UpTaken, Zenon
<1>5. /\ StreamInv(b) /\ ChannelStep(wire[w]["down"], b)
      /\ Len(b.got) = Got(wire, w, "down") /\ Len(b.sent) = Sent(wire, w, "down") + 1
      /\ b.deaf = wire[w]["down"].deaf
  BY <1>3, DownSent, Zenon
<1>. HIDE DEF a, b
<1>6. wire' = Rewired(wire, w, a, b)
  BY <1>1, Zenon DEF Exchange, Rewired, b
<1>7. /\ Wired(wire') /\ Streams(wire') /\ Flows(wire, wire')
      /\ wire'[w]["up"] = a /\ wire'[w]["down"] = b
      /\ \A v \in Workers : v # w => wire'[v] = wire[v]
  BY <1>4, <1>5, <1>6, AllStreams, ConnectionStep, Zenon
<1>8. /\ Sent(wire', w, "up") = Sent(wire, w, "up")
      /\ Got(wire', w, "up") = 1 /\ Sent(wire', w, "down") = 1
      /\ Got(wire', w, "down") = Got(wire, w, "down")
      /\ wire'[w]["down"].deaf = wire[w]["down"].deaf
  BY <1>3, <1>4, <1>5, <1>7 DEF Sent, Got
<1>9. WorkerTurn(coord', workers', wire', w)
  BY <1>2, <1>8, TurnOf, AllStreams DEF WorkerTurn, NotStarted, NotGreeted, Later
<1>10. CoordTurn(coord', wire')
  BY <1>2, <1>8 DEF CoordTurn
<1>11. Silent(coord, coord', wire, wire')
  BY <1>2 DEF Silent
<1>. QED  BY <1>2, <1>7, <1>9, <1>10, <1>11, ServedFlows

LEMMA TakeRegisterFlows ==
    ASSUME ScenarioInv, TakeRegister
    PROVE  FlowStep
<1>. DEFINE w == coord.worker
            a == Taken(Up)
            b == wire[w]["down"]
<1>1. /\ coord.pc = "request" /\ Received(Up) /\ workers' = workers
      /\ coord'.pc = "create" /\ coord'.worker = w /\ DOMAIN coord' = CoordFields
  BY AllStreams DEF TakeRegister, Goto, CoordFields
<1>2. /\ StreamInv(a) /\ ChannelStep(wire[w]["up"], a)
      /\ Len(a.sent) = Sent(wire, w, "up") /\ Len(a.got) = Got(wire, w, "up") + 1
      /\ Sent(wire, w, "up") = Got(wire, w, "up") + 1
  BY <1>1, UpTaken, Zenon
<1>3. /\ Sent(wire, w, "down") = 1 /\ Got(wire, w, "up") = 1
      /\ wire[w]["down"].deaf \/ Got(wire, w, "down") >= 1
  <2>1. Sent(wire, w, "down") = 1 /\ Got(wire, w, "up") = 1
    BY <1>1, TurnOf, AllStreams DEF CoordTurn
  <2>. QED  BY <1>2, <2>1, TurnOf, AllStreams DEF WorkerTurn
<1>4. StreamInv(b) /\ ChannelStep(wire[w]["down"], b)
  BY TurnOf, AllStreams, StepsOfOne, Zenon
<1>5. wire' = Rewired(wire, w, a, b)
  <2>1. wire' = [wire EXCEPT ![w]["up"] = a]
    BY DEF TakeRegister, Up
  <2>. HIDE DEF a
  <2>. QED  BY <2>1, AllStreams DEF Wired, Directions, Rewired
<1>. HIDE DEF a, b
<1>6. /\ Wired(wire') /\ Streams(wire') /\ Flows(wire, wire')
      /\ wire'[w]["up"] = a /\ wire'[w]["down"] = b
      /\ \A v \in Workers : v # w => wire'[v] = wire[v]
  BY <1>2, <1>4, <1>5, AllStreams, ConnectionStep, Zenon
<1>7. /\ Sent(wire', w, "up") = Sent(wire, w, "up") /\ Got(wire', w, "up") = 2
      /\ Sent(wire', w, "down") = Sent(wire, w, "down")
      /\ Got(wire', w, "down") = Got(wire, w, "down")
      /\ wire'[w]["down"].deaf = wire[w]["down"].deaf
  BY <1>2, <1>3, <1>6 DEF Sent, Got, b
<1>8. WorkerTurn(coord', workers', wire', w)
  BY <1>1, <1>7, TurnOf, AllStreams DEF WorkerTurn, NotStarted, NotGreeted, Later
<1>9. CoordTurn(coord', wire')
  BY <1>1, <1>3, <1>7 DEF CoordTurn
<1>10. Silent(coord, coord', wire, wire')
  BY <1>6, Zenon DEF Silent, b
<1>. QED  BY <1>1, <1>6, <1>8, <1>9, <1>10, ServedFlows

LEMMA AnswerRegisterFlows ==
    ASSUME ScenarioInv, AnswerRegister
    PROVE  FlowStep
<1>. DEFINE w == coord.worker
            a == wire[w]["up"]
<1>1. PICK frame : wire' = Reply(frame)
  BY Zenon DEF AnswerRegister
<1>. DEFINE b == Sending(Down, frame)
<1>2. PICK r, k, f : /\ coord.pc = "registering" /\ workers' = workers
                     /\ \/ coord' = [coord EXCEPT !.pc = "answering", !.regA = r, !.keyGenA = k]
                        \/ coord' = [[coord EXCEPT !.pc = "answering", !.regA = r, !.keyGenA = k]
                                        EXCEPT !.failures = f]
  BY DEF AnswerRegister, Proof
<1>3. coord'.pc = "answering" /\ coord'.worker = w /\ DOMAIN coord' = CoordFields
  BY <1>2, AllStreams DEF CoordFields
<1>4. /\ wire[w]["down"].deaf \/ Got(wire, w, "down") = Sent(wire, w, "down")
      /\ Sent(wire, w, "down") = 1 /\ Got(wire, w, "up") >= 1
  BY <1>2, TurnOf, AllStreams DEF CoordTurn, WorkerTurn
<1>5. /\ StreamInv(b) /\ ChannelStep(wire[w]["down"], b)
      /\ Len(b.got) = Got(wire, w, "down") /\ Len(b.sent) = Sent(wire, w, "down") + 1
      /\ b.deaf = wire[w]["down"].deaf
  BY <1>4, DownSent, Zenon
<1>6. StreamInv(a) /\ ChannelStep(wire[w]["up"], a)
  BY TurnOf, AllStreams, StepsOfOne, Zenon
<1>7. wire' = Rewired(wire, w, a, b)
  <2>1. wire' = [wire EXCEPT ![w]["down"] = b]
    BY <1>1 DEF Reply, Down
  <2>. HIDE DEF b
  <2>. QED  BY <2>1, AllStreams DEF Wired, Directions, Rewired
<1>. HIDE DEF a, b
<1>8. /\ Wired(wire') /\ Streams(wire') /\ Flows(wire, wire')
      /\ wire'[w]["up"] = a /\ wire'[w]["down"] = b
      /\ \A v \in Workers : v # w => wire'[v] = wire[v]
  BY <1>5, <1>6, <1>7, AllStreams, ConnectionStep, Zenon
<1>9. /\ Sent(wire', w, "up") = Sent(wire, w, "up")
      /\ Got(wire', w, "up") = Got(wire, w, "up")
      /\ Got(wire', w, "down") = Got(wire, w, "down")
      /\ wire'[w]["down"].deaf = wire[w]["down"].deaf
  BY <1>5, <1>8, Zenon DEF Sent, Got, a
<1>10. WorkerTurn(coord', workers', wire', w)
  BY <1>2, <1>3, <1>4, <1>9, TurnOf, AllStreams DEF WorkerTurn, NotStarted, NotGreeted, Later
<1>11. CoordTurn(coord', wire')
  BY <1>3 DEF CoordTurn
<1>12. Silent(coord, coord', wire, wire')
  BY <1>2, <1>3 DEF Silent
<1>. QED  BY <1>2, <1>3, <1>8, <1>10, <1>11, <1>12, ServedFlows

LEMMA JudgeAccessFlows ==
    ASSUME ScenarioInv, JudgeAccess
    PROVE  FlowStep
<1>. DEFINE w == coord.worker
            a == Taken(Up)
<1>1. PICK frame : wire' = Exchange(a, Sending(Down, frame))
  BY Zenon DEF JudgeAccess
<1>. DEFINE b == Sending(Down, frame)
<1>2. PICK f : /\ coord.pc = "request" /\ Received(Up) /\ workers' = workers
               /\ \/ coord' = Goto("answering")
                  \/ coord' = [Goto("answering") EXCEPT !.failures = f]
  BY DEF JudgeAccess, Proof
<1>3. coord'.pc = "answering" /\ coord'.worker = w /\ DOMAIN coord' = CoordFields
  BY <1>2, AllStreams DEF Goto, CoordFields
<1>4. /\ StreamInv(a) /\ ChannelStep(wire[w]["up"], a)
      /\ Len(a.sent) = Sent(wire, w, "up") /\ Len(a.got) = Got(wire, w, "up") + 1
      /\ Sent(wire, w, "up") = Got(wire, w, "up") + 1
  BY <1>2, UpTaken, Zenon
<1>5. /\ Sent(wire, w, "down") = 1 /\ Got(wire, w, "up") = 1
      /\ wire[w]["down"].deaf \/ Got(wire, w, "down") = Sent(wire, w, "down")
  <2>1. Sent(wire, w, "down") = 1 /\ Got(wire, w, "up") = 1
    BY <1>2, TurnOf, AllStreams DEF CoordTurn
  <2>. QED  BY <1>4, <2>1, TurnOf, AllStreams DEF WorkerTurn
<1>6. /\ StreamInv(b) /\ ChannelStep(wire[w]["down"], b)
      /\ Len(b.got) = Got(wire, w, "down") /\ b.deaf = wire[w]["down"].deaf
  BY <1>5, DownSent, Zenon
<1>. HIDE DEF a, b
<1>7. wire' = Rewired(wire, w, a, b)
  BY <1>1, Zenon DEF Exchange, Rewired, b
<1>8. /\ Wired(wire') /\ Streams(wire') /\ Flows(wire, wire')
      /\ wire'[w]["up"] = a /\ wire'[w]["down"] = b
      /\ \A v \in Workers : v # w => wire'[v] = wire[v]
  BY <1>4, <1>6, <1>7, AllStreams, ConnectionStep, Zenon
<1>9. /\ Sent(wire', w, "up") = Sent(wire, w, "up") /\ Got(wire', w, "up") = 2
      /\ Got(wire', w, "down") = Got(wire, w, "down")
      /\ wire'[w]["down"].deaf = wire[w]["down"].deaf
  BY <1>4, <1>5, <1>6, <1>8 DEF Sent, Got
<1>10. WorkerTurn(coord', workers', wire', w)
  BY <1>2, <1>3, <1>9, TurnOf, AllStreams DEF WorkerTurn, NotStarted, NotGreeted, Later
<1>11. CoordTurn(coord', wire')
  BY <1>3 DEF CoordTurn
<1>12. Silent(coord, coord', wire, wire')
  BY <1>2, <1>3 DEF Silent
<1>. QED  BY <1>2, <1>3, <1>8, <1>10, <1>11, <1>12, ServedFlows

------------------------------------------------------------------------------
LEMMA ScenarioStarts == ScenarioInit => ScenarioInv
<1>. SUFFICES ASSUME ScenarioInit PROVE ScenarioInv
  OBVIOUS
<1>1. Staffed(coord, workers) /\ coord.worker = "A" /\ coord.pc = "attach"
  BY DEF ScenarioInit, Staffed, Workers, CoordFields, WorkerFields, NoWorker
<1>2. \A w \in Workers : workers[w].pc = "none"
  BY DEF ScenarioInit, NoWorker
<1>3. \A w \in Workers, d \in Directions : wire[w][d] = NewStream
  BY DEF ScenarioInit
<1>4. Wired(wire)
  BY DEF ScenarioInit, Wired
<1>5. Streams(wire)
  BY <1>3, NewStreamKept, Zenon DEF Streams
<1>6. \A w \in Workers, d \in Directions : Sent(wire, w, d) = 0 /\ Got(wire, w, d) = 0
  BY <1>3 DEF Sent, Got, NewStream
<1>7. \A w \in Workers : WorkerTurn(coord, workers, wire, w)
  BY <1>2, <1>6 DEF WorkerTurn, Directions
<1>8. CoordTurn(coord, wire)
  BY <1>1 DEF CoordTurn
<1>. QED  BY <1>1, <1>4, <1>5, <1>7, <1>8, Zenon DEF ScenarioInv, Turns

LEMMA ScenarioFlows == ScenarioInv /\ [ScenarioNext]_scenarioVars => FlowStep
<1>. SUFFICES ASSUME ScenarioInv, [ScenarioNext]_scenarioVars PROVE FlowStep
  OBVIOUS
<1>1. CASE CoordinatorStep
  BY <1>1, StartingFlows, ServingFlows, TurnFlows, SpawnFlows, KillFlows, GreetFlows,
     TakeRegisterFlows, AnswerRegisterFlows, JudgeAccessFlows, Zenon DEF CoordinatorStep
<1>2. ASSUME NEW w \in Workers, WorkerStep(w)
      PROVE  FlowStep
  <2>1. coord' = coord
    BY <1>2, Zenon DEF WorkerStep
  <2>. QED
    BY <1>2, <2>1, ConnectFlows, WorkingFlows, WorkerGreetedFlows, WorkerAnsweredFlows,
       Zenon DEF WorkerStep
<1>3. CASE Fault
  BY <1>3, StartingFlows, DeathFlows, AlterFlows, Zenon DEF Fault
<1>4. CASE UNCHANGED scenarioVars
  <2>1. UNCHANGED <<coord, workers, wire>>
    BY <1>4 DEF scenarioVars, processVars
  <2>2. Quiet(wire, wire')
    BY <2>1, AllStreams, WireAsIs, Zenon
  <2>. QED  BY <2>1, <2>2, AllStreams, CoordinatorMoves, Zenon DEF CoordMoves
<1>. QED  BY <1>1, <1>2, <1>3, <1>4, Zenon DEF ScenarioNext

LEMMA ScenarioInvHolds == ScenarioSpec => []ScenarioInv
<1>1. ScenarioInv /\ [ScenarioNext]_scenarioVars => ScenarioInv'
  BY ScenarioFlows, Zenon DEF FlowStep, ScenarioInv
<1>. QED  BY <1>1, ScenarioStarts, PTL DEF ScenarioSpec

(* Frames come out of every connection of the scenario in the order in     *)
(* which they went in, unaltered and each once, whichever process dies and *)
(* whatever chunk is altered: recv_frame (coordinator.cpp:86,              *)
(* worker.cpp:63) never takes a damaged or an old frame for the one it     *)
(* waits for.                                                              *)
THEOREM InOrder == ScenarioSpec => FramesInOrder
<1>. DEFINE S == [c \in Connections |-> wire[c[1]][c[2]].sent]
            G == [c \in Connections |-> wire[c[1]][c[2]].got]
<1>1. ScenarioInit => Channel!ChannelInit
  <2>. SUFFICES ASSUME ScenarioInit PROVE Channel!ChannelInit
    OBVIOUS
  <2>1. \A c \in Connections : wire[c[1]][c[2]] = NewStream
    BY DEF ScenarioInit, Connections
  <2>2. S = [c \in Connections |-> <<>>] /\ G = [c \in Connections |-> <<>>]
    BY <2>1 DEF NewStream
  <2>. QED  BY <2>2 DEF Channel!ChannelInit
<1>2. FlowStep => Channel!ChannelNext
  <2>. SUFFICES ASSUME FlowStep, NEW c \in Connections
                PROVE  /\ S'[c] = S[c] \/ Channel!Send(c)
                       /\ G'[c] = G[c] \/ Channel!Deliver(c)
    BY DEF Channel!ChannelNext
  <2>1. ChannelStep(wire[c[1]][c[2]], wire'[c[1]][c[2]])
    BY DEF FlowStep, Flows, Connections
  <2>2. /\ S[c] = wire[c[1]][c[2]].sent /\ S'[c] = wire'[c[1]][c[2]].sent
        /\ G[c] = wire[c[1]][c[2]].got /\ G'[c] = wire'[c[1]][c[2]].got
    OBVIOUS
  <2>. HIDE DEF S, G
  <2>. QED  BY <2>1, <2>2, Zenon DEF ChannelStep, Channel!Send, Channel!Deliver, S, G
<1>3. ScenarioInv /\ [ScenarioNext]_scenarioVars => Channel!ChannelNext
  BY <1>2, ScenarioFlows, Zenon
<1>. QED
  BY <1>1, <1>3, ScenarioInvHolds, PTL
  DEF ScenarioSpec, FramesInOrder, Channel!ChannelSpec

------------------------------------------------------------------------------
(* What is true of the registry, and what the workers are told of it.      *)

RecordFields ==
    {"life", "fresh", "desc", "dom", "bgen", "handle", "keyGen", "keyRevoked", "boot",
     "epoch", "leases"}
CallFields == {"pc", "reg", "desc", "dom", "bgen", "boot", "epoch", "handle"}
AuthorityFields == {"epoch", "boot", "owner", "ownerGen", "workerGen", "node"}

(* The tables of the coordinator's registry.  It registers one buffer, and *)
(* the registration in force is the one in the slot of that buffer.        *)
Books ==
    /\ DOMAIN regs = RegIds
    /\ \A r \in RegIds : DOMAIN regs[r] = RecordFields /\ regs[r].keyGen \in Nat
    /\ DOMAIN slot = BufIds
    /\ DOMAIN next = {"buf", "reg", "dom", "lease"} /\ next.reg \in Nat
    /\ \A r \in RegIds : Present(r) => r < next.reg
    /\ \A r \in RegIds : InForce(r) => slot[TheBuffer.buf] = r /\ regs[r].desc = TheBuffer

(* The one call that can be in progress, and what it comes to.             *)
InProgress ==
    /\ coord.pc = "registering"
    /\ call[Main].pc \in RegisterPoints
    /\ call[Main].reg = coord.reg /\ call[Main].boot = coord.boot
    /\ call[Main].desc = TheBuffer
    /\ TheBuffer.buf \in BufIds /\ slot[TheBuffer.buf] = 0
    /\ coord.reg \in RegIds /\ coord.reg < next.reg /\ ~Present(coord.reg)
Calls ==
    /\ DOMAIN call = Threads /\ DOMAIN call[Main] = CallFields
    /\ Idle(Main) \/ InProgress
    /\ coord.pc = "registering" /\ Present(coord.reg) => regs[coord.reg].boot = coord.boot

(* The boots in the order in which they are given out.                     *)
WorkerBoot(w) == [A |-> 1, B |-> 2, A2 |-> 3][w]
Starting == {"attach", "incarnate", "domain"}
Waiting == {"spawn", "accept", "hello"}
Serving == {"greeting", "request", "create", "register", "registering", "answering"}
Restarting == {"kill", "restart", "old", "revoke"}
Boots(c) ==
    /\ c.pc \in Starting => c.worker = "A"
    /\ c.worker = "A" => c.nextBoot = 2
    /\ c.worker = "B" /\ c.pc \in Waiting => c.nextBoot = 2
    /\ c.worker = "B" /\ c.pc \in Serving \cup Restarting => c.nextBoot = 3
    /\ c.worker = "A2" /\ c.pc \in Waiting => c.nextBoot = 3
    /\ c.pc \in Serving => c.boot = WorkerBoot(c.worker)

Epochs ==
    /\ DOMAIN authority = AuthorityFields /\ authority.epoch \in Nat
    /\ IF coord.pc \in {"attach", "incarnate"} THEN authority.epoch = 0
       ELSE authority.epoch >= 1

(* What a worker may be told, and what it believes.                        *)
Granted(w, r, keyGen) ==
    /\ Present(r) /\ regs[r].boot = WorkerBoot(w)
    /\ keyGen \in Nat /\ keyGen <= regs[r].keyGen
TrueFrame(w, frame) ==
    /\ frame.kind = "HELLO_ACK" =>
          /\ frame.payload.boot = WorkerBoot(w)
          /\ frame.payload.epoch \in Nat /\ frame.payload.epoch <= authority.epoch
    /\ frame.kind = "REGISTER_BUFFER_ACK" =>
          (frame.payload.ok => Granted(w, frame.payload.reg, frame.payload.keyGen))
Words(w) ==
    wire[w]["down"].sent # <<>> => TrueFrame(w, LastSent(wire[w]["down"]))
Beliefs(w) ==
    /\ Told(w) => /\ workers[w].boot = WorkerBoot(w)
                  /\ workers[w].epoch \in Nat /\ workers[w].epoch <= authority.epoch
    /\ workers[w].pc \in {"request", "answer"} => Told(w)
    /\ workers[w].ok => Told(w) /\ Granted(w, workers[w].reg, workers[w].keyGen)

RegistryTruth == Books /\ Calls /\ Boots(coord) /\ Epochs
TruthInv == RegistryTruth /\ \A w \in Workers : Words(w) /\ Beliefs(w)

(* What no step takes back.                                                *)
Keeps ==
    /\ \A r \in RegIds : Present(r) =>
          /\ Present(r)' /\ regs'[r].boot = regs[r].boot
          /\ regs'[r].keyGen \in Nat /\ regs[r].keyGen <= regs'[r].keyGen
    /\ authority'.epoch \in Nat /\ authority.epoch <= authority'.epoch

BootMoves(p, q) ==
    \/ q = p
    \/ q = "ended"
    \/ p \in Starting /\ q \in Starting \cup {"spawn"}
    \/ p \in Waiting /\ q \in Waiting
    \/ p \in Serving /\ q \in Serving \cup Restarting
    \/ p \in Restarting /\ q \in Restarting

LEMMA BootsKept ==
    \A c, c2 :
        /\ Boots(c) /\ c.worker \in Workers /\ c2.worker = c.worker
        /\ c2.nextBoot = c.nextBoot /\ c2.boot = c.boot /\ BootMoves(c.pc, c2.pc)
        => Boots(c2)
BY DEF Boots, BootMoves, Starting, Waiting, Serving, Restarting, Workers

(* A step that leaves registrations, slots, calls and authority alone.     *)
Calm ==
    /\ UNCHANGED <<regs, slot, call, authority>>
    /\ DOMAIN next' = DOMAIN next /\ next'.reg = next.reg

LEMMA CalmBooks ==
    ASSUME Books, regs' = regs, slot' = slot, DOMAIN next' = DOMAIN next,
           next'.reg = next.reg
    PROVE  Books'
<1>1. \A r : Present(r)' <=> Present(r)
  BY DEF Present
<1>2. \A r : InForce(r)' <=> InForce(r)
  BY DEF InForce
<1>. QED  BY <1>1, <1>2 DEF Books

LEMMA RegsKept ==
    ASSUME Books, regs' = regs
    PROVE  \A r \in RegIds : Present(r) =>
               /\ Present(r)' /\ regs'[r].boot = regs[r].boot
               /\ regs'[r].keyGen \in Nat /\ regs[r].keyGen <= regs'[r].keyGen
<1>1. \A r : Present(r)' <=> Present(r)
  BY DEF Present
<1>2. \A n \in Nat : n <= n
  OBVIOUS
<1>. QED  BY <1>1, <1>2 DEF Books

LEMMA CalmTruth ==
    ASSUME RegistryTruth, Calm, Boots(coord'),
           coord'.pc # "registering" \/ coord' = coord,
           coord.pc # "registering" \/ coord' = coord \/ Idle(Main),
           coord'.pc \in {"attach", "incarnate"} <=> coord.pc \in {"attach", "incarnate"}
    PROVE  RegistryTruth' /\ Keeps
<1>1. Books' /\ Keeps
  <2>1. authority'.epoch \in Nat /\ authority.epoch <= authority'.epoch
    BY DEF RegistryTruth, Epochs, Calm
  <2>. QED  BY <2>1, CalmBooks, RegsKept DEF RegistryTruth, Calm, Keeps
<1>2. Epochs'
  BY DEF RegistryTruth, Epochs, Calm
<1>3. Calls'
  <2>1. CASE coord' = coord
    <3>1. InProgress => InProgress'
      BY <2>1 DEF InProgress, Calm, Present
    <3>2. Idle(Main)' <=> Idle(Main)
      BY DEF Idle, Calm
    <3>. QED  BY <2>1, <3>1, <3>2 DEF RegistryTruth, Calls, Calm, Present
  <2>2. CASE coord' # coord
    <3>1. Idle(Main)
      BY <2>2 DEF RegistryTruth, Calls, InProgress
    <3>2. coord'.pc # "registering"
      BY <2>2
    <3>. QED  BY <3>1, <3>2 DEF RegistryTruth, Calls, Calm, Idle
  <2>. QED  BY <2>1, <2>2
<1>4. (Boots(coord))'
  OBVIOUS
<1>. QED  BY <1>1, <1>2, <1>3, <1>4, Zenon DEF RegistryTruth

LEMMA TruthStarts == ScenarioInit => TruthInv
<1>. SUFFICES ASSUME ScenarioInit PROVE TruthInv
  OBVIOUS
<1>1. Init
  BY DEF ScenarioInit
<1>2. \A r \in RegIds : regs[r] = NoRecord /\ ~Present(r) /\ ~InForce(r)
  BY <1>1 DEF Init, Present, InForce, NoRecord
<1>3. Books
  BY <1>1, <1>2 DEF Init, Books, RecordFields, NoRecord
<1>4. Calls
  BY <1>1, ScenarioAssumption DEF Init, ScenarioInit, Calls, CallFields, NoCall, Idle
<1>5. Boots(coord)
  BY DEF ScenarioInit, Boots, Starting, Waiting, Serving, Restarting
<1>6. Epochs
  BY <1>1 DEF Init, ScenarioInit, Epochs, AuthorityFields, NoAuthority
<1>7. \A w \in Workers : workers[w] = NoWorker /\ wire[w]["down"] = NewStream
  BY DEF ScenarioInit, Directions
<1>8. \A w \in Workers : Words(w) /\ Beliefs(w)
  BY <1>7 DEF Words, Beliefs, NewStream, NoWorker, Told
<1>. QED  BY <1>3, <1>4, <1>5, <1>6, <1>8 DEF TruthInv, RegistryTruth

(* Steps of the coordinator that leave the registry alone, as far as this  *)
(* goes: most of them go on in main and touch nothing else.                *)
LEMMA CalmMove ==
    ASSUME ScenarioInv, RegistryTruth, Calm,
           coord'.worker = coord.worker, coord'.nextBoot = coord.nextBoot,
           coord'.boot = coord.boot, BootMoves(coord.pc, coord'.pc),
           coord'.pc # "registering", coord.pc # "registering" \/ Idle(Main),
           coord'.pc \in {"attach", "incarnate"} <=> coord.pc \in {"attach", "incarnate"}
    PROVE  RegistryTruth' /\ Keeps
<1>1. Boots(coord')
  BY AllStreams, BootsKept, Zenon DEF RegistryTruth
<1>. QED  BY <1>1, CalmTruth, Zenon

LEMMA NothingCalm == UNCHANGED vars => Calm
BY DEF vars, registryVars, Calm

LEMMA SameTruth ==
    ASSUME RegistryTruth, Calm, coord' = coord
    PROVE  RegistryTruth' /\ Keeps
<1>1. Boots(coord')
  BY DEF RegistryTruth
<1>. QED  BY <1>1, CalmTruth

(* The fields of the coordinator's record that Boots is about.             *)
LEMMA GotoFields ==
    ASSUME ScenarioInv
    PROVE  \A pc : /\ Goto(pc).pc = pc /\ Goto(pc).worker = coord.worker
                   /\ Goto(pc).nextBoot = coord.nextBoot /\ Goto(pc).boot = coord.boot
                   /\ \A h : /\ Proof(Goto(pc), h).pc = pc
                            /\ Proof(Goto(pc), h).worker = coord.worker
                            /\ Proof(Goto(pc), h).nextBoot = coord.nextBoot
                            /\ Proof(Goto(pc), h).boot = coord.boot
BY AllStreams DEF Goto, Proof, CoordFields

LEMMA GoneTruth ==
    ASSUME ScenarioInv, RegistryTruth, NEW code, Return(code),
           coord.pc \in Waiting \cup Serving, coord.pc # "registering"
    PROVE  RegistryTruth' /\ Keeps
<1>1. /\ coord'.worker = coord.worker /\ coord'.nextBoot = coord.nextBoot
      /\ coord'.boot = coord.boot /\ coord'.pc = "ended"
  BY AllStreams DEF Return, CoordFields
<1>2. Calm
  BY NothingCalm DEF Return
<1>3. BootMoves(coord.pc, coord'.pc)
  BY <1>1 DEF BootMoves
<1>4. coord.pc \notin {"attach", "incarnate"} /\ coord'.pc # "registering"
  BY <1>1 DEF Waiting, Serving
<1>. QED  BY <1>1, <1>2, <1>3, <1>4, CalmMove

LEMMA MoveTruth ==
    ASSUME ScenarioInv, RegistryTruth,
           Attach \/ MakeDomain \/ SpawnWorker \/ SpawnFails \/ AcceptWorker
               \/ Greeted \/ TakeRegister \/ KillA
    PROVE  RegistryTruth' /\ Keeps
<1>. USE DEF Starting, Waiting, Serving, Restarting
<1>1. ASSUME NEW p, NEW q, coord.pc = p, coord' = Goto(q), Calm, BootMoves(p, q),
             p # "registering", q # "registering",
             p \in {"attach", "incarnate"} <=> q \in {"attach", "incarnate"}
      PROVE  RegistryTruth' /\ Keeps
  BY <1>1, GotoFields, CalmMove
<1>2. CASE Attach
  <2>1. Calm
    BY <1>2 DEF Attach, AddBackend, Calm
  <2>. QED  BY <1>1, <1>2, <2>1 DEF Attach, BootMoves
<1>3. CASE MakeDomain
  <2>1. Calm
    BY <1>3 DEF MakeDomain, CreateProtectionDomain, Calm, RegistryTruth, Books
  <2>. QED  BY <1>1, <1>3, <2>1 DEF MakeDomain, BootMoves
<1>4. CASE SpawnWorker
  BY <1>1, <1>4, NothingCalm DEF SpawnWorker, BootMoves
<1>5. CASE SpawnFails
  BY <1>1, <1>5, NothingCalm DEF SpawnFails, BootMoves
<1>6. CASE AcceptWorker
  BY <1>1, <1>6, NothingCalm DEF AcceptWorker, BootMoves
<1>7. CASE Greeted
  BY <1>1, <1>7, NothingCalm DEF Greeted, BootMoves
<1>8. CASE TakeRegister
  BY <1>1, <1>8, NothingCalm DEF TakeRegister, BootMoves
<1>9. CASE KillA
  BY <1>1, <1>9, NothingCalm DEF KillA, BootMoves
<1>. QED  BY <1>2, <1>3, <1>4, <1>5, <1>6, <1>7, <1>8, <1>9

(* Judging changes counters only.                                          *)
LEMMA JudgeCalm == \A q : Judge(q) => Calm
BY NothingCalm DEF Judge, ValidateRemoteAccess, Calm

LEMMA ServingTruth ==
    ASSUME ScenarioInv, RegistryTruth,
           JudgeAccess \/ ServedB \/ JudgeOld \/ AnswerRegister \/ CoordinatorPulls
               \/ CoordinatorPushes \/ CoordinatorGivesUp \/ ServedA2
    PROVE  RegistryTruth' /\ Keeps
<1>1. ASSUME NEW q, NEW pc, NEW h, Judge(q), coord' = Proof(Goto(pc), h),
             BootMoves(coord.pc, pc), pc # "registering", coord.pc # "registering",
             coord.pc \notin {"attach", "incarnate"}, pc \notin {"attach", "incarnate"}
      PROVE  RegistryTruth' /\ Keeps
  BY <1>1, JudgeCalm, GotoFields, CalmMove
<1>2. CASE JudgeAccess
  <2>1. PICK q, h : Judge(q) /\ coord' = Proof(Goto("answering"), h)
    BY <1>2, Zenon DEF JudgeAccess
  <2>. QED  BY <1>1, <1>2, <2>1 DEF JudgeAccess, BootMoves, Serving
<1>3. CASE ServedB
  <2>1. PICK q, h : Judge(q) /\ coord' = Proof(Goto("kill"), h)
    BY <1>3, Zenon DEF ServedB
  <2>. QED  BY <1>1, <1>3, <2>1 DEF ServedB, BootMoves, Serving, Restarting
<1>4. CASE JudgeOld
  <2>1. PICK q, h : Judge(q) /\ coord' = Proof(Goto("revoke"), h)
    BY <1>4, Zenon DEF JudgeOld
  <2>. QED  BY <1>1, <1>4, <2>1 DEF JudgeOld, BootMoves, Restarting
<1>5. CASE AnswerRegister
  <2>1. /\ coord'.worker = coord.worker /\ coord'.nextBoot = coord.nextBoot
        /\ coord'.boot = coord.boot /\ coord'.pc = "answering"
        /\ coord.pc = "registering" /\ Idle(Main)
    BY <1>5, AllStreams DEF AnswerRegister, Proof, CoordFields
  <2>2. Calm
    BY <1>5, NothingCalm DEF AnswerRegister
  <2>3. BootMoves(coord.pc, coord'.pc)
    BY <2>1 DEF BootMoves, Serving
  <2>4. coord'.pc # "registering" /\ coord'.pc \notin {"attach", "incarnate"}
        /\ coord.pc \notin {"attach", "incarnate"}
    BY <2>1
  <2>. QED  BY <2>1, <2>2, <2>3, <2>4, CalmMove, Zenon
<1>6. CASE CoordinatorPulls
  BY <1>6, NothingCalm, SameTruth, Zenon DEF CoordinatorPulls
<1>7. CASE CoordinatorPushes
  BY <1>7, NothingCalm, SameTruth, Zenon DEF CoordinatorPushes
<1>8. CASE CoordinatorGivesUp
  <2>1. coord.pc \in Waiting \cup Serving /\ coord.pc # "registering" /\ Return(1)
    BY <1>8 DEF CoordinatorGivesUp, Waiting, Serving
  <2>. QED  BY <2>1, GoneTruth, Zenon
<1>9. CASE ServedA2
  <2>1. coord.pc \in Waiting \cup Serving /\ coord.pc # "registering"
    BY <1>9 DEF ServedA2, Serving
  <2>2. PICK code : Return(code)
    BY <1>9, Zenon DEF ServedA2
  <2>. QED  BY <2>1, <2>2, GoneTruth, Zenon
<1>. QED  BY <1>2, <1>3, <1>4, <1>5, <1>6, <1>7, <1>8, <1>9

(* The next worker: its boot is the one counted last.                      *)
LEMMA ServedATruth ==
    ASSUME ScenarioInv, RegistryTruth, ServedA
    PROVE  RegistryTruth' /\ Keeps
<1>1. /\ coord.pc = "answering" /\ coord.worker = "A" /\ coord'.pc = "spawn"
      /\ coord'.worker = "B" /\ coord'.nextBoot = coord.nextBoot
  BY AllStreams DEF ServedA, CoordFields
<1>2. Boots(coord')
  BY <1>1 DEF RegistryTruth, Boots, Starting, Waiting, Serving, Restarting
<1>3. Calm
  BY NothingCalm DEF ServedA
<1>4. coord'.pc # "registering" /\ coord.pc # "registering"
      /\ (coord'.pc \in {"attach", "incarnate"} <=> coord.pc \in {"attach", "incarnate"})
  BY <1>1
<1>. QED  BY <1>2, <1>3, <1>4, CalmTruth

(* A step that changes the authority and nothing else of the registry.     *)
LEMMA AuthorityTruth ==
    ASSUME RegistryTruth, UNCHANGED <<regs, slot, call>>,
           DOMAIN next' = DOMAIN next, next'.reg = next.reg,
           Boots(coord'), coord'.pc # "registering", coord.pc # "registering",
           DOMAIN authority' = AuthorityFields, authority'.epoch \in Nat,
           authority'.epoch >= authority.epoch,
           IF coord'.pc \in {"attach", "incarnate"} THEN authority'.epoch = 0
           ELSE authority'.epoch >= 1
    PROVE  RegistryTruth' /\ Keeps
<1>1. Books'
  BY CalmBooks DEF RegistryTruth
<1>2. Keeps
  <2>1. authority.epoch <= authority'.epoch
    BY DEF RegistryTruth, Epochs
  <2>. QED  BY <2>1, RegsKept DEF RegistryTruth, Keeps
<1>3. Calls'
  BY DEF RegistryTruth, Calls, InProgress, Idle
<1>4. Epochs'
  BY DEF Epochs
<1>. QED  BY <1>1, <1>2, <1>3, <1>4 DEF RegistryTruth

LEMMA IncarnateTruth ==
    ASSUME ScenarioInv, RegistryTruth, Incarnate
    PROVE  RegistryTruth' /\ Keeps
<1>1. coord.pc = "incarnate" /\ coord' = Goto("domain")
  BY DEF Incarnate
<1>2. /\ coord'.worker = coord.worker /\ coord'.nextBoot = coord.nextBoot
      /\ coord'.boot = coord.boot /\ coord'.pc = "domain"
  BY <1>1, GotoFields
<1>3. Boots(coord')
  <2>1. BootMoves(coord.pc, coord'.pc)
    BY <1>1, <1>2 DEF BootMoves, Starting
  <2>. QED  BY <1>2, <2>1, AllStreams, BootsKept, Zenon DEF RegistryTruth
<1>4. authority' = FirstSnapshot /\ UNCHANGED <<regs, slot, call, next>>
  BY DEF Incarnate, SetAuthority
<1>5. /\ DOMAIN authority' = AuthorityFields /\ authority'.epoch = 1
      /\ authority.epoch = 0
  BY <1>1, <1>4 DEF FirstSnapshot, Snapshot, AuthorityFields, RegistryTruth, Epochs
<1>6. /\ authority'.epoch \in Nat /\ authority'.epoch >= authority.epoch
      /\ authority'.epoch >= 1 /\ coord'.pc \notin {"attach", "incarnate"}
      /\ coord'.pc # "registering" /\ coord.pc # "registering"
  BY <1>1, <1>2, <1>5
<1>. QED  BY <1>3, <1>4, <1>5, <1>6, AuthorityTruth

LEMMA RestartTruth ==
    ASSUME ScenarioInv, RegistryTruth, NoteRestart
    PROVE  RegistryTruth' /\ Keeps
<1>1. coord.pc = "restart" /\ coord' = Goto("old")
  BY DEF NoteRestart
<1>2. /\ coord'.worker = coord.worker /\ coord'.nextBoot = coord.nextBoot
      /\ coord'.boot = coord.boot /\ coord'.pc = "old"
  BY <1>1, GotoFields
<1>3. Boots(coord')
  <2>1. BootMoves(coord.pc, coord'.pc)
    BY <1>1, <1>2 DEF BootMoves, Restarting
  <2>. QED  BY <1>2, <2>1, AllStreams, BootsKept, Zenon DEF RegistryTruth
<1>4. UNCHANGED <<regs, slot, call, next>>
  BY DEF NoteRestart, NoteParticipantRestart
<1>5. DOMAIN authority' = AuthorityFields /\ authority'.epoch = authority.epoch + 1
  BY DEF NoteRestart, NoteParticipantRestart, AuthorityFields, RegistryTruth, Epochs
<1>6. authority.epoch \in Nat /\ authority.epoch >= 1
  BY <1>1 DEF RegistryTruth, Epochs
<1>7. /\ authority'.epoch \in Nat /\ authority'.epoch >= authority.epoch
      /\ authority'.epoch >= 1 /\ coord'.pc \notin {"attach", "incarnate"}
      /\ coord'.pc # "registering" /\ coord.pc # "registering"
  BY <1>1, <1>2, <1>5, <1>6
<1>. QED  BY <1>3, <1>4, <1>5, <1>7, AuthorityTruth

LEMMA GreetTruth ==
    ASSUME ScenarioInv, RegistryTruth, Greet
    PROVE  RegistryTruth' /\ Keeps /\ coord'.boot = WorkerBoot(coord.worker)
<1>1. /\ coord.pc = "hello" /\ coord'.pc = "greeting" /\ coord'.worker = coord.worker
      /\ coord'.boot = IF coord.worker = "A" THEN 1 ELSE coord.nextBoot
      /\ coord'.nextBoot = IF coord.worker = "A" THEN coord.nextBoot ELSE coord.nextBoot + 1
  BY AllStreams DEF Greet, BootTaken, FirstBoot, CoordFields
<1>2. /\ coord.worker = "B" => coord.nextBoot = 2
      /\ coord.worker = "A2" => coord.nextBoot = 3
      /\ coord.worker = "A" => coord.nextBoot = 2
  BY <1>1 DEF RegistryTruth, Boots, Waiting
<1>3. coord.worker = "A" \/ coord.worker = "B" \/ coord.worker = "A2"
  BY AllStreams DEF Workers
<1>4. coord'.boot = WorkerBoot(coord.worker)
  BY <1>1, <1>2, <1>3 DEF WorkerBoot
<1>5. Boots(coord')
  BY <1>1, <1>2, <1>3, <1>4 DEF Boots, Starting, Waiting, Serving, Restarting
<1>6. /\ coord'.pc # "registering" /\ coord.pc # "registering"
      /\ coord'.pc \notin {"attach", "incarnate"} /\ coord.pc \notin {"attach", "incarnate"}
  BY <1>1
<1>7. CASE UNCHANGED vars
  BY <1>4, <1>5, <1>6, <1>7, NothingCalm, CalmTruth
<1>8. CASE ~UNCHANGED vars
  <2>1. PICK b : SetAuthority(Snapshot(authority.epoch, b))
    BY <1>8 DEF Greet, Incarnated
  <2>2. authority' = Snapshot(authority.epoch, b) /\ UNCHANGED <<regs, slot, call, next>>
    BY <2>1 DEF SetAuthority
  <2>3. DOMAIN authority' = AuthorityFields /\ authority'.epoch = authority.epoch
    BY <2>2 DEF Snapshot, AuthorityFields
  <2>4. authority.epoch \in Nat /\ authority.epoch >= 1
    BY <1>6 DEF RegistryTruth, Epochs
  <2>5. authority'.epoch \in Nat /\ authority'.epoch >= authority.epoch /\ authority'.epoch >= 1
    BY <2>3, <2>4
  <2>. QED  BY <1>4, <1>5, <1>6, <2>2, <2>3, <2>5, AuthorityTruth
<1>. QED  BY <1>7, <1>8

(* create_buffer may only take registrations out of force.                 *)
LEMMA CreateTruth ==
    ASSUME ScenarioInv, RegistryTruth, Create
    PROVE  RegistryTruth' /\ Keeps
<1>1. coord.pc = "create" /\ coord' = Goto("register")
  BY DEF Create
<1>2. /\ coord'.worker = coord.worker /\ coord'.nextBoot = coord.nextBoot
      /\ coord'.boot = coord.boot /\ coord'.pc = "register"
  BY <1>1, GotoFields
<1>3. BootMoves(coord.pc, coord'.pc)
  BY <1>1, <1>2 DEF BootMoves, Serving
<1>4. /\ coord'.pc # "registering" /\ coord.pc # "registering"
      /\ coord'.pc \notin {"attach", "incarnate"} /\ coord.pc \notin {"attach", "incarnate"}
  BY <1>1, <1>2
<1>5. ASSUME Calm PROVE RegistryTruth' /\ Keeps
  BY <1>2, <1>3, <1>4, <1>5, CalmMove
<1>6. DOMAIN NextAfterCreate(TheBuffer) = DOMAIN next /\ NextAfterCreate(TheBuffer).reg = next.reg
  BY DEF RegistryTruth, Books, NextAfterCreate
<1>7. CASE CreateNewBuffer(TheBuffer)
  BY <1>5, <1>6, <1>7 DEF CreateNewBuffer, Calm
<1>8. CASE CreateRefused(TheBuffer)
  BY <1>5, <1>6, <1>8 DEF CreateRefused, Calm
<1>9. CASE UNCHANGED vars
  BY <1>5, <1>9, NothingCalm
<1>10. CASE ReallocateBuffer(TheBuffer)
  <2>1. /\ UNCHANGED <<authority, slot, call>>
        /\ next' = NextAfterCreate(TheBuffer)
    BY <1>10 DEF ReallocateBuffer
  <2>2. /\ DOMAIN regs' = RegIds
        /\ \A r \in RegIds : \/ regs'[r] = regs[r]
                             \/ regs'[r] = [regs[r] EXCEPT !.life = "STALE", !.fresh = "STALE"]
    BY <1>10 DEF ReallocateBuffer
  <2>3. \A r \in RegIds :
            /\ DOMAIN regs'[r] = RecordFields /\ regs'[r].keyGen = regs[r].keyGen
            /\ regs'[r].boot = regs[r].boot /\ regs'[r].desc = regs[r].desc
            /\ regs'[r].life = regs[r].life \/ regs'[r].life = "STALE"
    <3>. SUFFICES ASSUME NEW r \in RegIds
                  PROVE  /\ DOMAIN regs'[r] = RecordFields /\ regs'[r].keyGen = regs[r].keyGen
                         /\ regs'[r].boot = regs[r].boot /\ regs'[r].desc = regs[r].desc
                         /\ regs'[r].life = regs[r].life \/ regs'[r].life = "STALE"
      OBVIOUS
    <3>1. PICK rec : rec = regs[r]
      OBVIOUS
    <3>2. DOMAIN rec = RecordFields
      BY <3>1 DEF RegistryTruth, Books
    <3>3. regs'[r] = rec \/ regs'[r] = [rec EXCEPT !.life = "STALE", !.fresh = "STALE"]
      BY <2>2, <3>1
    <3>. QED  BY ONLY <3>1, <3>2, <3>3 DEF RecordFields
  <2>4. \A r \in RegIds : /\ InForce(r)' => InForce(r)
                          /\ Present(r) => Present(r)'
    BY <2>3 DEF Present, InForce
  <2>5. \A r \in RegIds : Present(r)' => r < next.reg
    <3>. SUFFICES ASSUME NEW r \in RegIds, Present(r)' PROVE r < next.reg
      OBVIOUS
    <3>1. CASE regs'[r] = regs[r]
      BY <3>1 DEF Present, RegistryTruth, Books
    <3>2. CASE regs'[r] # regs[r]
      <4>1. r \in RegsOfBuffer(ChosenId(TheBuffer))
        BY <1>10, <3>2 DEF ReallocateBuffer
      <4>2. Present(r)
        BY <4>1 DEF RegsOfBuffer, InForce, Present
      <4>. QED  BY <4>2 DEF RegistryTruth, Books
    <3>. QED  BY <3>1, <3>2
  <2>6. Books'
    BY <1>6, <2>1, <2>2, <2>3, <2>4, <2>5 DEF RegistryTruth, Books
  <2>7. Keeps
    <3>1. \A n \in Nat : n <= n
      OBVIOUS
    <3>. QED  BY <2>1, <2>3, <2>4, <3>1 DEF RegistryTruth, Books, Epochs, Keeps
  <2>8. Calls'
    BY <1>4, <2>1 DEF RegistryTruth, Calls, InProgress, Idle
  <2>9. (Boots(coord))'
    BY <1>2, <1>3, AllStreams, BootsKept, Zenon DEF RegistryTruth
  <2>10. Epochs'
    BY <1>4, <2>1 DEF RegistryTruth, Epochs
  <2>. QED  BY <2>6, <2>7, <2>8, <2>9, <2>10 DEF RegistryTruth
<1>. QED  BY <1>7, <1>8, <1>9, <1>10 DEF Create, CreateBuffer

(* register_buffer judges the request and draws an id, or refuses it.      *)
LEMMA RegisterTruth ==
    ASSUME ScenarioInv, RegistryTruth, Register
    PROVE  RegistryTruth' /\ Keeps
<1>1. /\ coord.pc = "register" /\ coord'.pc = "registering"
      /\ coord'.worker = coord.worker /\ coord'.nextBoot = coord.nextBoot
      /\ coord'.boot = coord.boot
  BY AllStreams DEF Register, CoordFields
<1>2. (Boots(coord))'
  <2>1. BootMoves(coord.pc, coord'.pc)
    BY <1>1 DEF BootMoves, Serving
  <2>. QED  BY <1>1, <2>1, AllStreams, BootsKept, Zenon DEF RegistryTruth
<1>3. Idle(Main)
  BY <1>1 DEF RegistryTruth, Calls, InProgress
<1>4. CASE /\ RegisterAdmit(Main, TheBuffer, Domain, Presented)
           /\ coord' = [coord EXCEPT !.pc = "registering", !.reg = next.reg]
  <2>1. coord'.reg = next.reg
    BY <1>4, AllStreams DEF CoordFields
  <2>2. /\ next.reg \in RegIds /\ next' = [next EXCEPT !.reg = next.reg + 1]
        /\ TheBuffer.buf \in BufIds /\ slot[TheBuffer.buf] = 0
        /\ UNCHANGED <<authority, regs, slot>>
    BY <1>4 DEF RegisterAdmit, Admissible, NextAfterAdmit, SlotFree
  <2>3. DOMAIN next' = DOMAIN next /\ next'.reg = next.reg + 1
    BY <2>2 DEF RegistryTruth, Books
  <2>4. /\ \A r \in RegIds : Present(r)' <=> Present(r)
        /\ \A r \in RegIds : InForce(r)' <=> InForce(r)
    BY <2>2 DEF Present, InForce
  <2>5. \A r \in RegIds : r \in Nat
    BY DEF RegIds
  <2>6. next.reg \in Nat /\ \A r \in RegIds : Present(r) => r < next.reg + 1
    BY <2>5 DEF RegistryTruth, Books
  <2>7. Books'
    BY <2>2, <2>3, <2>4, <2>6 DEF RegistryTruth, Books
  <2>8. ~Present(next.reg)
    BY <2>2, <2>6 DEF RegistryTruth, Books
  <2>9. /\ DOMAIN call' = DOMAIN call /\ DOMAIN call'[Main] = CallFields
        /\ call'[Main].pc = "admitted" /\ call'[Main].reg = next.reg
        /\ call'[Main].desc = TheBuffer /\ call'[Main].boot = coord.boot
    <3>1. call' = [call EXCEPT ![Main] =
                     [pc |-> "admitted", reg |-> next.reg, desc |-> TheBuffer,
                      dom |-> Domain, bgen |-> device.backend, boot |-> coord.boot,
                      epoch |-> authority.epoch, handle |-> 0]]
      BY <1>4 DEF RegisterAdmit, Presented, Snapshot
    <3>2. Main \in DOMAIN call
      BY ScenarioAssumption DEF RegistryTruth, Calls
    <3>. QED  BY <3>1, <3>2 DEF CallFields
  <2>10. InProgress'
    BY <1>1, <2>1, <2>2, <2>3, <2>4, <2>6, <2>8, <2>9
    DEF InProgress, RegisterPoints, Present
  <2>11. Calls'
    <3>1. DOMAIN call' = Threads
      BY <2>9 DEF RegistryTruth, Calls
    <3>2. ~Present(coord.reg)'
      BY <2>10 DEF InProgress
    <3>. QED  BY <2>9, <2>10, <3>1, <3>2 DEF Calls
  <2>12. Keeps
    <3>1. \A n \in Nat : n <= n
      OBVIOUS
    <3>. QED  BY <2>2, <3>1, RegsKept DEF RegistryTruth, Epochs, Keeps
  <2>13. Epochs'
    BY <1>1, <2>2 DEF RegistryTruth, Epochs
  <2>. QED  BY <1>2, <2>7, <2>11, <2>12, <2>13 DEF RegistryTruth
<1>5. CASE UNCHANGED vars /\ coord' = [coord EXCEPT !.pc = "registering", !.reg = 0]
  <2>1. Calm /\ coord'.reg = 0
    BY <1>5, NothingCalm, AllStreams DEF CoordFields
  <2>2. Books' /\ Keeps
    <3>1. authority'.epoch \in Nat /\ authority.epoch <= authority'.epoch
      BY <2>1 DEF RegistryTruth, Epochs, Calm
    <3>. QED  BY <2>1, <3>1, CalmBooks, RegsKept DEF RegistryTruth, Calm, Keeps
  <2>3. Calls'
    BY <1>3, <2>1 DEF RegistryTruth, Calls, Calm, Idle, Present, RegIds
  <2>4. Epochs'
    BY <1>1, <2>1 DEF RegistryTruth, Epochs, Calm
  <2>. QED  BY <1>2, <2>2, <2>3, <2>4 DEF RegistryTruth
<1>. QED  BY <1>4, <1>5 DEF Register

(* The rest of register_buffer: the buffer's slot is still free when the   *)
(* record is published, under the boot the worker was given.               *)
LEMMA RegisteringTruth ==
    ASSUME ScenarioInv, RegistryTruth, Registering
    PROVE  RegistryTruth' /\ Keeps
<1>1. coord.pc = "registering" /\ coord' = coord /\ Continue(Main)
  BY DEF Registering, processVars
<1>2. /\ DOMAIN call = Threads /\ DOMAIN call[Main] = CallFields /\ Main \in Threads
  BY ScenarioAssumption DEF RegistryTruth, Calls
<1>3. call[Main].pc # "idle"
  BY <1>1 DEF Continue, BackendRefuses, BackendNumbers, BackendStores, RegisterCommit,
              BackendReleases, BackendReleaseFails, DeregisterFail, DeregisterFinish, Erase
<1>4. InProgress
  BY <1>3 DEF RegistryTruth, Calls, Idle
<1>5. call[Main].pc \notin DeregisterPoints
  BY <1>4 DEF InProgress, RegisterPoints, DeregisterPoints
<1>6. BackendRefuses(Main) \/ BackendNumbers(Main) \/ BackendStores(Main) \/ RegisterCommit(Main)
  BY <1>1, <1>5 DEF Continue, BackendReleases, BackendReleaseFails, DeregisterFail,
                    DeregisterFinish, DeregisterPoints
<1>7. (Boots(coord))' /\ (UNCHANGED authority => Epochs')
  BY <1>1 DEF RegistryTruth, Epochs
<1>8. ASSUME UNCHANGED <<regs, slot, next, authority>>, Calls'
      PROVE  RegistryTruth' /\ Keeps
  <2>1. authority'.epoch \in Nat /\ authority.epoch <= authority'.epoch
    BY <1>8 DEF RegistryTruth, Epochs
  <2>. QED  BY <1>7, <1>8, <2>1, CalmBooks, RegsKept DEF RegistryTruth, Keeps
<1>9. CASE BackendRefuses(Main)
  <2>1. UNCHANGED <<regs, slot, next, authority>> /\ call' = [call EXCEPT ![Main] = NoCall]
    BY <1>9 DEF BackendRefuses
  <2>2. Calls'
    BY <1>1, <1>2, <1>4, <2>1 DEF Calls, InProgress, Idle, Present, NoCall, CallFields
  <2>. QED  BY <1>8, <2>1, <2>2
<1>10. CASE BackendNumbers(Main) \/ BackendStores(Main)
  <2>1. UNCHANGED <<regs, slot, next, authority>>
    BY <1>10 DEF BackendNumbers, BackendStores
  <2>2. /\ DOMAIN call' = DOMAIN call /\ DOMAIN call'[Main] = CallFields
        /\ call'[Main].pc \in {"numbered", "stored"}
        /\ call'[Main].reg = call[Main].reg /\ call'[Main].boot = call[Main].boot
        /\ call'[Main].desc = call[Main].desc
    BY <1>2, <1>10 DEF BackendNumbers, BackendStores, CallFields
  <2>3. \A r \in RegIds : Present(r)' <=> Present(r)
    BY <2>1 DEF Present
  <2>4. InProgress'
    BY <1>1, <1>4, <2>1, <2>2, <2>3 DEF InProgress, RegisterPoints
  <2>5. Calls'
    BY <1>2, <2>2, <2>4 DEF Calls, InProgress
  <2>. QED  BY <1>8, <2>1, <2>5
<1>11. CASE RegisterCommit(Main)
  <2>. DEFINE r == coord.reg
  <2>1. /\ r \in RegIds /\ r < next.reg /\ ~Present(r)
        /\ call[Main].reg = r /\ call[Main].boot = coord.boot
        /\ call[Main].desc = TheBuffer
        /\ TheBuffer.buf \in BufIds /\ slot[TheBuffer.buf] = 0
    BY <1>4 DEF InProgress
  <2>2. PICK d, g, h, e :
            /\ regs' = [regs EXCEPT ![r] =
                  [life |-> "ACTIVE", fresh |-> "VALID", desc |-> TheBuffer, dom |-> d,
                   bgen |-> g, handle |-> h, keyGen |-> 1, keyRevoked |-> FALSE,
                   boot |-> coord.boot, epoch |-> e, leases |-> 0]]
            /\ slot' = [slot EXCEPT ![TheBuffer.buf] = r]
            /\ call' = [call EXCEPT ![Main] = NoCall]
            /\ UNCHANGED <<authority, next>>
    <3>1. PICK d1, g1, h1, e1 :
              /\ d1 = call[Main].dom /\ g1 = call[Main].bgen
              /\ h1 = call[Main].handle /\ e1 = call[Main].epoch
      OBVIOUS
    <3>2. /\ regs' = [regs EXCEPT ![r] =
                  [life |-> "ACTIVE", fresh |-> "VALID", desc |-> TheBuffer, dom |-> d1,
                   bgen |-> g1, handle |-> h1, keyGen |-> 1, keyRevoked |-> FALSE,
                   boot |-> coord.boot, epoch |-> e1, leases |-> 0]]
          /\ slot' = [slot EXCEPT ![TheBuffer.buf] = r]
          /\ call' = [call EXCEPT ![Main] = NoCall]
          /\ UNCHANGED <<authority, next>>
      BY <1>11, <2>1, <3>1 DEF RegisterCommit
    <3>. QED  BY ONLY <3>2, Zenon
  <2>3. DOMAIN regs = RegIds /\ DOMAIN slot = BufIds
    BY DEF RegistryTruth, Books
  <2>4. /\ DOMAIN regs' = RegIds /\ DOMAIN slot' = BufIds
        /\ regs'[r].life = "ACTIVE" /\ regs'[r].desc = TheBuffer /\ regs'[r].keyGen = 1
        /\ regs'[r].boot = coord.boot /\ DOMAIN regs'[r] = RecordFields
        /\ slot'[TheBuffer.buf] = r
        /\ \A q \in RegIds : q # r => regs'[q] = regs[q]
    BY <2>1, <2>2, <2>3 DEF RecordFields
  <2>5. \A q \in RegIds : q # 0
    BY DEF RegIds
  <2>6. ASSUME NEW q \in RegIds, q # r
        PROVE  (Present(q)' <=> Present(q)) /\ ~InForce(q)'
    <3>1. ~InForce(q)
      BY <2>1, <2>5 DEF RegistryTruth, Books
    <3>. QED  BY <2>4, <2>6, <3>1 DEF Present, InForce
  <2>7. Books'
    <3>1. \A q \in RegIds : /\ DOMAIN regs'[q] = RecordFields
                            /\ regs'[q].keyGen \in Nat
      BY <2>4 DEF RegistryTruth, Books
    <3>2. \A q \in RegIds : Present(q)' => q < next'.reg
      BY <2>1, <2>2, <2>6 DEF RegistryTruth, Books
    <3>3. \A q \in RegIds : InForce(q)' =>
              slot'[TheBuffer.buf] = q /\ regs'[q].desc = TheBuffer
      BY <2>4, <2>6
    <3>4. DOMAIN next' = {"buf", "reg", "dom", "lease"} /\ next'.reg \in Nat
      BY <2>2 DEF RegistryTruth, Books
    <3>. QED  BY <2>4, <3>1, <3>2, <3>3, <3>4 DEF Books
  <2>8. Keeps
    <3>1. \A n \in Nat : n <= n
      OBVIOUS
    <3>2. \A q \in RegIds : Present(q) => q # r
      BY <2>1
    <3>3. authority'.epoch \in Nat /\ authority.epoch <= authority'.epoch
      BY <2>2 DEF RegistryTruth, Epochs
    <3>. QED  BY <2>4, <2>6, <3>1, <3>2, <3>3 DEF RegistryTruth, Books, Keeps
  <2>9. Calls'
    <3>1. DOMAIN call' = Threads /\ call'[Main] = NoCall
      BY <1>2, <2>2
    <3>. QED  BY <1>1, <2>4, <3>1 DEF Calls, NoCall, CallFields, Idle
  <2>. QED  BY <1>7, <2>2, <2>7, <2>8, <2>9 DEF RegistryTruth
<1>. QED  BY <1>6, <1>9, <1>10, <1>11

(* revoke frees the slot for A2's registration.                            *)
LEMMA RevokeTruth ==
    ASSUME ScenarioInv, RegistryTruth, RevokeOld
    PROVE  RegistryTruth' /\ Keeps
<1>1. /\ coord.pc = "revoke" /\ coord.worker = "B" /\ coord'.pc = "spawn"
      /\ coord'.worker = "A2" /\ coord'.nextBoot = coord.nextBoot
  BY AllStreams DEF RevokeOld, CoordFields
<1>2. Boots(coord')
  BY <1>1 DEF RegistryTruth, Boots, Starting, Waiting, Serving, Restarting
<1>3. /\ coord'.pc # "registering" /\ coord.pc # "registering"
      /\ coord'.pc \notin {"attach", "incarnate"} /\ coord.pc \notin {"attach", "incarnate"}
  BY <1>1
<1>4. CASE UNCHANGED vars
  BY <1>2, <1>3, <1>4, NothingCalm, CalmTruth
<1>5. CASE Present(coord.regA) /\ HardRevoke(coord.regA)
  <2>. DEFINE r == coord.regA
  <2>1. /\ r \in RegIds /\ InForce(r) /\ regs' = [regs EXCEPT ![r] = Revoked(regs[r])]
        /\ slot' = [slot EXCEPT ![regs[r].desc.buf] = 0]
        /\ UNCHANGED <<authority, next, call>>
    BY <1>5 DEF HardRevoke, Present
  <2>2. /\ DOMAIN regs = RegIds /\ DOMAIN regs[r] = RecordFields /\ regs[r].keyGen \in Nat
        /\ DOMAIN slot = BufIds /\ slot[TheBuffer.buf] = r
    BY <2>1 DEF RegistryTruth, Books
  <2>3. /\ DOMAIN regs' = RegIds /\ DOMAIN slot' = BufIds
        /\ regs'[r].life = "REVOKED" /\ regs'[r].keyGen = regs[r].keyGen + 1
        /\ regs'[r].boot = regs[r].boot /\ DOMAIN regs'[r] = RecordFields
        /\ \A q \in RegIds : q # r => regs'[q] = regs[q]
    BY <2>1, <2>2 DEF Revoked, RecordFields
  <2>4. \A q \in RegIds : /\ Present(q)' <=> Present(q)
                          /\ ~InForce(q)'
    <3>. SUFFICES ASSUME NEW q \in RegIds
                  PROVE  (Present(q)' <=> Present(q)) /\ ~InForce(q)'
      OBVIOUS
    <3>1. CASE q = r
      BY <2>1, <2>3, <3>1 DEF Present, InForce
    <3>2. CASE q # r
      <4>1. ~InForce(q)
        BY <2>2, <3>2 DEF RegistryTruth, Books
      <4>. QED  BY <2>3, <3>2, <4>1 DEF Present, InForce
    <3>. QED  BY <3>1, <3>2
  <2>5. \A q \in RegIds : /\ DOMAIN regs'[q] = RecordFields /\ regs'[q].boot = regs[q].boot
                          /\ regs'[q].keyGen \in Nat /\ regs[q].keyGen <= regs'[q].keyGen
    BY <2>2, <2>3 DEF RegistryTruth, Books
  <2>6. Books'
    BY <2>1, <2>3, <2>4, <2>5 DEF RegistryTruth, Books
  <2>7. Keeps
    <3>1. authority'.epoch \in Nat /\ authority.epoch <= authority'.epoch
      BY <2>1 DEF RegistryTruth, Epochs
    <3>. QED  BY <2>4, <2>5, <3>1 DEF Keeps
  <2>8. Calls'
    BY <1>3, <2>1 DEF RegistryTruth, Calls, InProgress, Idle
  <2>9. (Boots(coord))'
    BY <1>2
  <2>10. Epochs'
    BY <1>3, <2>1 DEF RegistryTruth, Epochs
  <2>. QED  BY <2>6, <2>7, <2>8, <2>9, <2>10 DEF RegistryTruth
<1>. QED  BY <1>4, <1>5 DEF RevokeOld, RevokedOld, Revoke

LEMMA TruthKept ==
    ASSUME ScenarioInv, RegistryTruth, [ScenarioNext]_scenarioVars
    PROVE  RegistryTruth' /\ Keeps
<1>1. CASE CoordinatorStep
  BY <1>1, MoveTruth, ServingTruth, ServedATruth, IncarnateTruth, RestartTruth, GreetTruth,
     CreateTruth, RegisterTruth, RegisteringTruth, RevokeTruth, Zenon DEF CoordinatorStep
<1>2. ASSUME NEW w \in Workers, WorkerStep(w)
      PROVE  RegistryTruth' /\ Keeps
  BY <1>2, NothingCalm, SameTruth, Zenon DEF WorkerStep
<1>3. CASE Fault
  <2>1. CASE SpawnFails
    BY <2>1, MoveTruth, Zenon
  <2>2. ASSUME NEW w \in Workers, WorkerDies(w) \/ \E dir \in Directions : Alter(w, dir)
        PROVE  RegistryTruth' /\ Keeps
    <3>1. coord' = coord /\ UNCHANGED vars
      BY <2>2 DEF WorkerDies, Alter
    <3>. QED  BY <3>1, NothingCalm, SameTruth, Zenon
  <2>. QED  BY <1>3, <2>1, <2>2, Zenon DEF Fault
<1>4. CASE UNCHANGED scenarioVars
  <2>1. coord' = coord /\ UNCHANGED vars
    BY <1>4 DEF scenarioVars, processVars
  <2>. QED  BY <2>1, NothingCalm, SameTruth, Zenon
<1>. QED  BY <1>1, <1>2, <1>3, <1>4, Zenon DEF ScenarioNext

------------------------------------------------------------------------------
(* What the workers have been told.                                        *)

(* What was true to say stays true.                                        *)
LEMMA TrueForGood ==
    ASSUME RegistryTruth, Keeps
    PROVE  /\ \A w, r, k : Granted(w, r, k) => Granted(w, r, k)'
           /\ \A w, frame : TrueFrame(w, frame) => TrueFrame(w, frame)'
           /\ \A e \in Nat : e <= authority.epoch => e <= authority'.epoch
<1>1. \A a, b, c \in Nat : a <= b /\ b <= c => a <= c
  OBVIOUS
<1>2. \A e \in Nat : e <= authority.epoch => e <= authority'.epoch
  BY <1>1 DEF RegistryTruth, Epochs, Keeps
<1>3. ASSUME NEW w, NEW r, NEW k, Granted(w, r, k)
      PROVE  Granted(w, r, k)'
  <2>1. r \in RegIds /\ Present(r) /\ k \in Nat /\ k <= regs[r].keyGen
    BY <1>3 DEF Granted, Present
  <2>2. Present(r)' /\ regs'[r].boot = regs[r].boot /\ regs'[r].keyGen \in Nat
        /\ regs[r].keyGen <= regs'[r].keyGen
    BY <2>1 DEF Keeps
  <2>3. regs[r].keyGen \in Nat
    BY <2>1 DEF RegistryTruth, Books
  <2>4. k <= regs'[r].keyGen
    BY <1>1, <2>1, <2>2, <2>3
  <2>. QED  BY <1>3, <2>1, <2>2, <2>4 DEF Granted
<1>4. ASSUME NEW w, NEW frame, TrueFrame(w, frame)
      PROVE  TrueFrame(w, frame)'
  BY <1>2, <1>3, <1>4 DEF TrueFrame
<1>. QED  BY <1>2, <1>3, <1>4

LEMMA WordsKept ==
    ASSUME RegistryTruth, Keeps, NEW w \in Workers, Words(w),
           wire'[w]["down"].sent = wire[w]["down"].sent
    PROVE  Words(w)'
<1>1. LastSent(wire[w]["down"])' = LastSent(wire[w]["down"])
  BY DEF LastSent
<1>2. PICK frame : frame = LastSent(wire[w]["down"])
  OBVIOUS
<1>3. TrueFrame(w, frame) => TrueFrame(w, frame)'
  BY TrueForGood, Zenon
<1>. QED  BY <1>1, <1>2, <1>3 DEF Words

LEMMA BeliefsKept ==
    ASSUME RegistryTruth, Keeps, NEW w \in Workers, Beliefs(w),
           workers'[w].boot = workers[w].boot, workers'[w].epoch = workers[w].epoch,
           workers'[w].ok = workers[w].ok, workers'[w].reg = workers[w].reg,
           workers'[w].keyGen = workers[w].keyGen,
           workers'[w].pc \in {"request", "answer"} => workers[w].pc \in {"request", "answer"}
    PROVE  Beliefs(w)'
<1>1. Told(w)' <=> Told(w)
  BY DEF Told
<1>2. Told(w) => workers[w].epoch <= authority'.epoch
  BY TrueForGood DEF Beliefs
<1>3. PICK r, k : r = workers[w].reg /\ k = workers[w].keyGen
  OBVIOUS
<1>4. Granted(w, r, k) => Granted(w, r, k)'
  BY TrueForGood, Zenon
<1>5. workers[w].ok => Granted(w, workers[w].reg, workers[w].keyGen)'
  BY <1>3, <1>4 DEF Beliefs
<1>. QED  BY <1>1, <1>2, <1>5 DEF Beliefs

(* send_frame to the worker being served.                                  *)
LEMMA Spoken == \A st, frame : StreamInv(st) => LastSent(Sending(st, frame)) = frame
<1>. TAKE st, frame
<1>. HAVE StreamInv(st)
<1>1. PICK S : st.sent \in Seq(S)
  BY DEF StreamInv
<1>2. Sending(st, frame).sent = Append(st.sent, frame)
  BY DEF StreamInv, Sending
<1>3. \A s \in Seq(S) : Append(s, frame)[Len(Append(s, frame))] = frame
  OBVIOUS
<1>. QED  BY <1>1, <1>2, <1>3, Zenon DEF LastSent

LEMMA SaysTruth ==
    ASSUME ScenarioInv, RegistryTruth, Keeps, \A v \in Workers : Words(v),
           NEW w \in Workers, NEW frame, NEW a, w = coord.worker,
           wire' = Exchange(a, Sending(Down, frame)), TrueFrame(w, frame)'
    PROVE  \A v \in Workers : Words(v)'
<1>. DEFINE b == Sending(Down, frame)
<1>1. wire' = [wire EXCEPT ![w]["up"] = a, ![w]["down"] = b]
  BY DEF Exchange
<1>2. LastSent(b) = frame
  BY Spoken, TurnOf, Zenon DEF Down
<1>. HIDE DEF b
<1>3. wire'[w]["down"] = b /\ \A v \in Workers : v # w => wire'[v] = wire[v]
  BY <1>1, AllStreams DEF Wired, Directions
<1>4. ASSUME NEW v \in Workers, v # w
      PROVE  Words(v)'
  BY <1>3, <1>4, WordsKept, Zenon
<1>5. LastSent(wire[w]["down"])' = frame
  BY <1>2, <1>3 DEF LastSent
<1>6. Words(w)'
  BY <1>5 DEF Words
<1>. QED  BY <1>4, <1>6

LEMMA GreetSays ==
    ASSUME ScenarioInv, TruthInv, Greet, Keeps
    PROVE  \A v \in Workers : Words(v)'
<1>1. PICK w, frame, a : w = coord.worker /\ wire' = Exchange(a, Sending(Down, frame))
          /\ frame = HelloAck(BootTaken(coord).boot,
                        IF coord.worker = "A2" THEN authority.epoch ELSE FirstSnapshot.epoch)
  BY DEF Greet
<1>2. BootTaken(coord).boot = coord'.boot /\ coord.pc = "hello"
  BY AllStreams DEF Greet, BootTaken, CoordFields
<1>3. coord'.boot = WorkerBoot(w)
  BY <1>1, GreetTruth DEF TruthInv
<1>4. authority.epoch \in Nat /\ 1 <= authority.epoch
  BY <1>2 DEF TruthInv, RegistryTruth, Epochs
<1>5. /\ frame.kind = "HELLO_ACK" /\ frame.payload.boot = WorkerBoot(w)
      /\ frame.payload.epoch \in {1, authority.epoch}
  BY <1>1, <1>2, <1>3 DEF HelloAck, Frame, FirstSnapshot, Snapshot
<1>6. frame.payload.epoch \in Nat /\ frame.payload.epoch <= authority.epoch
  BY <1>4, <1>5
<1>7. TrueFrame(w, frame)
  BY <1>5, <1>6 DEF TrueFrame
<1>8. TrueFrame(w, frame)'
  BY <1>7, TrueForGood, Zenon DEF TruthInv
<1>. QED  BY <1>1, <1>8, AllStreams, SaysTruth, Zenon DEF TruthInv

LEMMA AnswerSays ==
    ASSUME ScenarioInv, TruthInv, AnswerRegister, Keeps
    PROVE  \A v \in Workers : Words(v)'
<1>. DEFINE ok == Present(coord.reg)
            keyGen == IF ok /\ coord.worker = "A" THEN regs[coord.reg].keyGen ELSE 0
<1>1. PICK w, frame, a : /\ w = coord.worker /\ a = Up /\ wire' = Reply(frame)
                         /\ \E seq : frame = Frame("REGISTER_BUFFER_ACK", seq,
                               [ok |-> ok, reg |-> coord.reg, keyGen |-> keyGen])
  BY DEF AnswerRegister
<1>2. wire' = Exchange(a, Sending(Down, frame))
  <2>. DEFINE b == Sending(Down, frame)
  <2>1. wire' = [wire EXCEPT ![w]["down"] = b] /\ a = wire[w]["up"]
    BY <1>1 DEF Reply, Down, Up
  <2>. HIDE DEF b
  <2>2. w \in Workers /\ Wired(wire)
    BY <1>1, AllStreams
  <2>3. \A c : [wire EXCEPT ![w]["down"] = c]
                 = [wire EXCEPT ![w]["up"] = wire[w]["up"], ![w]["down"] = c]
    BY <2>2 DEF Wired, Directions
  <2>. QED  BY <1>1, <2>1, <2>3 DEF Exchange, b
<1>3. /\ frame.kind = "REGISTER_BUFFER_ACK" /\ frame.payload.ok = ok
      /\ frame.payload.reg = coord.reg /\ frame.payload.keyGen = keyGen
  BY <1>1 DEF Frame
<1>4. ASSUME ok
      PROVE  Granted(w, coord.reg, keyGen)
  <2>1. coord.pc = "registering" /\ coord.boot = WorkerBoot(w)
    BY <1>1 DEF AnswerRegister, TruthInv, RegistryTruth, Boots, Serving
  <2>2. regs[coord.reg].boot = coord.boot
    BY <1>4, <2>1 DEF TruthInv, RegistryTruth, Calls
  <2>3. regs[coord.reg].keyGen \in Nat
    BY <1>4 DEF Present, TruthInv, RegistryTruth, Books
  <2>4. keyGen \in Nat /\ keyGen <= regs[coord.reg].keyGen
    BY <2>3
  <2>. QED  BY <1>4, <2>1, <2>2, <2>4 DEF Granted
<1>. HIDE DEF ok, keyGen
<1>5. TrueFrame(w, frame)
  BY <1>3, <1>4 DEF TrueFrame
<1>6. TrueFrame(w, frame)'
  BY <1>5, TrueForGood, Zenon DEF TruthInv
<1>. QED  BY <1>1, <1>2, <1>6, AllStreams, SaysTruth, Zenon DEF TruthInv

LEMMA JudgeSays ==
    ASSUME ScenarioInv, TruthInv, JudgeAccess, Keeps
    PROVE  \A v \in Workers : Words(v)'
<1>1. PICK w, frame, a : /\ w = coord.worker /\ wire' = Exchange(a, Sending(Down, frame))
                         /\ \E p : frame = Frame("REQUEST_ACCESS_ACK", 4, p)
  BY DEF JudgeAccess
<1>2. TrueFrame(w, frame)
  BY <1>1 DEF Frame, TrueFrame
<1>3. TrueFrame(w, frame)'
  BY <1>2, TrueForGood, Zenon DEF TruthInv
<1>. QED  BY <1>1, <1>3, AllStreams, SaysTruth, Zenon DEF TruthInv

(* At every other step the coordinator says nothing.                       *)
LEMMA Unspoken ==
    ASSUME ScenarioInv, [ScenarioNext]_scenarioVars, ~Greet, ~AnswerRegister, ~JudgeAccess
    PROVE  coord'.pc = coord.pc \/ coord'.pc \notin {"greeting", "answering"}
<1>. DEFINE Silence == {"incarnate", "domain", "spawn", "accept", "hello", "request",
                        "create", "register", "kill", "restart", "old", "revoke"}
<1>1. ASSUME NEW pc \in Silence,
             coord' = Goto(pc) \/ \E h : coord' = Proof(Goto(pc), h)
      PROVE  coord'.pc \notin {"greeting", "answering"}
  BY <1>1, GotoFields
<1>2. ASSUME NEW code, Return(code)
      PROVE  coord'.pc \notin {"greeting", "answering"}
  BY <1>2, AllStreams DEF Return, CoordFields
<1>3. CASE CoordinatorStep
  <2>1. CASE Attach \/ Incarnate \/ MakeDomain \/ SpawnWorker \/ AcceptWorker \/ Greeted
             \/ TakeRegister \/ Create \/ KillA \/ NoteRestart
    <3>1. PICK pc : coord' = Goto(pc) /\ pc \in Silence
      BY <2>1
      DEF Attach, Incarnate, MakeDomain, SpawnWorker, AcceptWorker, Greeted, TakeRegister,
          Create, KillA, NoteRestart
    <3>. QED  BY <1>1, <3>1
  <2>2. CASE ServedB \/ JudgeOld
    <3>1. PICK h : coord' = Proof(Goto("kill"), h) \/ coord' = Proof(Goto("revoke"), h)
      BY <2>2, Zenon DEF ServedB, JudgeOld
    <3>. QED  BY <1>1, <3>1
  <2>3. CASE CoordinatorPulls \/ CoordinatorPushes \/ Registering
    BY <2>3 DEF CoordinatorPulls, CoordinatorPushes, Registering, processVars
  <2>4. CASE CoordinatorGivesUp \/ ServedA2
    BY <1>2, <2>4, Zenon DEF CoordinatorGivesUp, ServedA2
  <2>5. CASE Register \/ ServedA \/ RevokeOld
    BY <2>5, AllStreams DEF Register, ServedA, RevokeOld, CoordFields
  <2>. QED  BY <1>3, <2>1, <2>2, <2>3, <2>4, <2>5, Zenon DEF CoordinatorStep
<1>4. ASSUME NEW w \in Workers, WorkerStep(w)
      PROVE  coord'.pc = coord.pc
  BY <1>4 DEF WorkerStep
<1>5. CASE Fault
  <2>1. CASE SpawnFails
    BY <1>1, <2>1 DEF SpawnFails
  <2>2. ASSUME NEW w \in Workers, WorkerDies(w) \/ \E dir \in Directions : Alter(w, dir)
        PROVE  coord'.pc = coord.pc
    BY <2>2 DEF WorkerDies, Alter
  <2>. QED  BY <1>5, <2>1, <2>2, Zenon DEF Fault
<1>6. CASE UNCHANGED scenarioVars
  BY <1>6 DEF scenarioVars, processVars
<1>. QED  BY <1>3, <1>4, <1>5, <1>6, Zenon DEF ScenarioNext

LEMMA WordsTrue ==
    ASSUME ScenarioInv, TruthInv, [ScenarioNext]_scenarioVars, FlowStep, Keeps
    PROVE  \A v \in Workers : Words(v)'
<1>1. CASE Greet \/ AnswerRegister \/ JudgeAccess
  BY <1>1, GreetSays, AnswerSays, JudgeSays, Zenon
<1>2. CASE ~(Greet \/ AnswerRegister \/ JudgeAccess)
  <2>1. coord'.pc = coord.pc \/ coord'.pc \notin {"greeting", "answering"}
    BY <1>2, Unspoken, Zenon
  <2>2. \A v \in Workers : wire'[v]["down"].sent = wire[v]["down"].sent
    BY <2>1, Zenon DEF FlowStep, Silent
  <2>. QED  BY <2>2, WordsKept, Zenon DEF TruthInv
<1>. QED  BY <1>1, <1>2

------------------------------------------------------------------------------
(* What the workers believe.                                               *)

(* What a worker takes from its connection is what it was told last.       *)
LEMMA Heard ==
    ASSUME ScenarioInv, TruthInv, NEW w \in Workers, Received(wire[w]["down"])
    PROVE  TrueFrame(w, Incoming(wire[w]["down"]))
<1>. DEFINE st == wire[w]["down"]
<1>1. StreamInv(st)
  BY TurnOf
<1>2. Incoming(st) = LastSent(st) /\ Len(st.sent) = Len(st.got) + 1
  BY <1>1, ReceivedIsSent, Zenon
<1>3. Len(st.got) \in Nat
  BY <1>1 DEF StreamInv
<1>4. st.sent # <<>>
  BY <1>2, <1>3
<1>. QED  BY <1>2, <1>4 DEF TruthInv, Words

LEMMA BootsNamed == \A w \in Workers : WorkerBoot(w) # 0
BY DEF Workers, WorkerBoot

LEMMA GreetedBelieves ==
    ASSUME ScenarioInv, TruthInv, Keeps, NEW w \in Workers, WorkerGreeted(w), UNCHANGED vars
    PROVE  Beliefs(w)' /\ \A v \in Workers : v # w => workers'[v] = workers[v]
<1>. DEFINE frame == Incoming(wire[w]["down"])
<1>1. /\ Received(wire[w]["down"]) /\ frame.kind = "HELLO_ACK"
      /\ workers' = [workers EXCEPT ![w].pc = "request",
                                    ![w].boot = frame.payload.boot,
                                    ![w].epoch = frame.payload.epoch]
  BY DEF WorkerGreeted, Awaited
<1>2. TrueFrame(w, frame)
  BY <1>1, Heard
<1>. HIDE DEF frame
<1>3. /\ workers'[w].pc = "request" /\ workers'[w].boot = frame.payload.boot
      /\ workers'[w].epoch = frame.payload.epoch /\ workers'[w].ok = workers[w].ok
      /\ workers'[w].reg = workers[w].reg /\ workers'[w].keyGen = workers[w].keyGen
      /\ \A v \in Workers : v # w => workers'[v] = workers[v]
  BY <1>1, AllWorkers DEF WorkerFields
<1>4. /\ frame.payload.boot = WorkerBoot(w) /\ frame.payload.epoch \in Nat
      /\ frame.payload.epoch <= authority.epoch
  BY <1>1, <1>2 DEF TrueFrame
<1>5. Told(w)'
  BY <1>3, <1>4, BootsNamed DEF Told
<1>6. frame.payload.epoch <= authority'.epoch
  BY <1>4, TrueForGood DEF TruthInv
<1>7. PICK r, k : r = workers[w].reg /\ k = workers[w].keyGen
  OBVIOUS
<1>8. Granted(w, r, k) => Granted(w, r, k)'
  BY TrueForGood, Zenon DEF TruthInv
<1>9. workers[w].ok => Granted(w, workers[w].reg, workers[w].keyGen)'
  BY <1>3, <1>7, <1>8 DEF TruthInv, Beliefs
<1>. QED  BY <1>3, <1>4, <1>5, <1>6, <1>9 DEF Beliefs

LEMMA AnsweredBelieves ==
    ASSUME ScenarioInv, TruthInv, Keeps, NEW w \in Workers, WorkerAnswered(w), UNCHANGED vars
    PROVE  Beliefs(w)' /\ \A v \in Workers : v # w => workers'[v] = workers[v]
<1>. DEFINE frame == Incoming(wire[w]["down"])
<1>1. /\ Received(wire[w]["down"]) /\ frame.kind = Awaited(w) /\ workers[w].pc = "answer"
  BY DEF WorkerAnswered
<1>2. TrueFrame(w, frame)
  BY <1>1, Heard
<1>3. Told(w) /\ Beliefs(w)
  BY <1>1 DEF TruthInv, Beliefs
<1>4. CASE Registers(w)
  <2>1. PICK pc, exit : /\ workers' = [workers EXCEPT ![w].ok = frame.payload.ok,
                               ![w].reg = frame.payload.reg,
                               ![w].keyGen = frame.payload.keyGen,
                               ![w].pc = pc, ![w].exit = exit]
                        /\ pc \in {"hold", "exited"}
    BY <1>4 DEF WorkerAnswered
  <2>2. frame.kind = "REGISTER_BUFFER_ACK"
    BY <1>1, <1>4 DEF Awaited
  <2>. HIDE DEF frame
  <2>3. /\ workers'[w].boot = workers[w].boot /\ workers'[w].epoch = workers[w].epoch
        /\ workers'[w].ok = frame.payload.ok /\ workers'[w].reg = frame.payload.reg
        /\ workers'[w].keyGen = frame.payload.keyGen /\ workers'[w].pc = pc
        /\ \A v \in Workers : v # w => workers'[v] = workers[v]
    BY <2>1, AllWorkers DEF WorkerFields
  <2>4. Told(w)'
    BY <1>3, <2>3 DEF Told
  <2>5. workers[w].epoch <= authority'.epoch
    BY <1>3, TrueForGood DEF TruthInv, Beliefs
  <2>6. PICK r, k : r = frame.payload.reg /\ k = frame.payload.keyGen
    OBVIOUS
  <2>7. Granted(w, r, k) => Granted(w, r, k)'
    BY TrueForGood, Zenon DEF TruthInv
  <2>8. frame.payload.ok => Granted(w, workers[w].reg, workers[w].keyGen)'
    BY <1>2, <2>2, <2>3, <2>6, <2>7 DEF TrueFrame
  <2>. QED  BY <1>3, <2>1, <2>3, <2>4, <2>5, <2>8 DEF Beliefs
<1>5. CASE ~Registers(w)
  <2>1. workers' = [workers EXCEPT ![w].pc = "exited"]
    BY <1>5 DEF WorkerAnswered
  <2>2. /\ workers'[w].boot = workers[w].boot /\ workers'[w].epoch = workers[w].epoch
        /\ workers'[w].ok = workers[w].ok /\ workers'[w].reg = workers[w].reg
        /\ workers'[w].keyGen = workers[w].keyGen /\ workers'[w].pc = "exited"
        /\ \A v \in Workers : v # w => workers'[v] = workers[v]
    BY <2>1, AllWorkers DEF WorkerFields
  <2>. QED  BY <1>3, <2>2, BeliefsKept DEF TruthInv
<1>. QED  BY <1>4, <1>5

(* A worker that changes nothing but its place in main and its exit code.  *)
SamePlans(p, q) ==
    /\ q.boot = p.boot /\ q.epoch = p.epoch /\ q.ok = p.ok /\ q.reg = p.reg
    /\ q.keyGen = p.keyGen
    /\ q.pc \in {"request", "answer"} => p.pc \in {"request", "answer"}

LEMMA WorkingBelieves ==
    ASSUME ScenarioInv, NEW w \in Workers,
           WorkerConnects(w) \/ WorkerTurnedAway(w) \/ WorkerPushes(w) \/ WorkerPushFails(w)
               \/ WorkerSent(w) \/ WorkerPulls(w) \/ WorkerGivesUp(w) \/ WorkerDies(w)
    PROVE  \A v \in Workers : SamePlans(workers[v], workers'[v])
<1>1. ASSUME UNCHANGED workers
      PROVE  \A v \in Workers : SamePlans(workers[v], workers'[v])
  BY <1>1 DEF SamePlans
<1>2. ASSUME NEW pc, workers' = [workers EXCEPT ![w].pc = pc],
             pc \in {"request", "answer"} => workers[w].pc \in {"request", "answer"}
      PROVE  \A v \in Workers : SamePlans(workers[v], workers'[v])
  BY <1>2, AllWorkers DEF SamePlans, WorkerFields
<1>3. ASSUME NEW code, WorkerEnds(w, code)
      PROVE  \A v \in Workers : SamePlans(workers[v], workers'[v])
  BY <1>3, AllWorkers DEF WorkerEnds, SamePlans, WorkerFields
<1>4. CASE WorkerConnects(w)
  BY <1>2, <1>4 DEF WorkerConnects
<1>5. CASE WorkerTurnedAway(w) \/ WorkerPushFails(w) \/ WorkerGivesUp(w)
  BY <1>3, <1>5, Zenon DEF WorkerTurnedAway, WorkerPushFails, WorkerGivesUp
<1>6. CASE WorkerPushes(w) \/ WorkerPulls(w)
  BY <1>1, <1>6, Zenon DEF WorkerPushes, WorkerPulls
<1>7. CASE WorkerSent(w)
  <2>1. PICK pc : /\ workers' = [workers EXCEPT ![w].pc = pc]
                  /\ \/ pc = "ack"
                     \/ pc = "answer" /\ workers[w].pc = "request"
    BY <1>7 DEF WorkerSent
  <2>. QED  BY <1>2, <2>1
<1>8. CASE WorkerDies(w)
  BY <1>2, <1>8 DEF WorkerDies
<1>. QED  BY <1>4, <1>5, <1>6, <1>7, <1>8

LEMMA BeliefsTrue ==
    ASSUME ScenarioInv, TruthInv, [ScenarioNext]_scenarioVars, Keeps
    PROVE  \A v \in Workers : Beliefs(v)'
<1>1. ASSUME NEW v \in Workers, SamePlans(workers[v], workers'[v])
      PROVE  Beliefs(v)'
  BY <1>1, BeliefsKept, Zenon DEF SamePlans, TruthInv
<1>2. ASSUME NEW v \in Workers, workers'[v] = workers[v]
      PROVE  Beliefs(v)'
  BY <1>1, <1>2 DEF SamePlans
<1>3. CASE CoordinatorStep
  <2>1. CASE SpawnWorker
    <3>1. ASSUME NEW v \in Workers, v # coord.worker
          PROVE  Beliefs(v)'
      BY <1>2, <2>1, <3>1, AllWorkers DEF SpawnWorker
    <3>2. /\ workers'[coord.worker].pc = "connecting" /\ workers'[coord.worker].boot = 0
          /\ workers'[coord.worker].ok = FALSE
      BY <2>1, AllWorkers, AllStreams DEF SpawnWorker, NoWorker
    <3>3. ASSUME NEW v \in Workers, v = coord.worker
          PROVE  Beliefs(v)'
      BY <3>2, <3>3 DEF Beliefs, Told
    <3>. QED  BY <3>1, <3>3
  <2>2. CASE KillA
    <3>1. "A" \in Workers
      BY DEF Workers
    <3>2. ASSUME workers' = [workers EXCEPT !["A"].pc = "dead"]
          PROVE  \A v \in Workers : SamePlans(workers[v], workers'[v])
      BY <3>1, <3>2, AllWorkers DEF SamePlans, WorkerFields
    <3>3. \A v \in Workers : workers'[v] = workers[v] \/ SamePlans(workers[v], workers'[v])
      BY <2>2, <3>2 DEF KillA
    <3>. QED  BY <1>1, <1>2, <3>3
  <2>3. CASE ~SpawnWorker /\ ~KillA
    <3>1. UNCHANGED workers
      BY <1>3, <2>3
      DEF CoordinatorStep, Attach, Incarnate, MakeDomain, AcceptWorker, CoordinatorPulls,
          CoordinatorGivesUp, CoordinatorPushes, Greet, Greeted, TakeRegister, Create,
          Register, Registering, AnswerRegister, JudgeAccess, ServedA, ServedB, ServedA2,
          NoteRestart, JudgeOld, RevokeOld, Return, processVars
    <3>. QED  BY <1>2, <3>1
  <2>. QED  BY <2>1, <2>2, <2>3
<1>4. ASSUME NEW w \in Workers, WorkerStep(w)
      PROVE  \A v \in Workers : Beliefs(v)'
  <2>1. UNCHANGED vars
    BY <1>4, Zenon DEF WorkerStep
  <2>2. CASE WorkerGreeted(w)
    BY <1>2, <2>1, <2>2, GreetedBelieves, Zenon
  <2>3. CASE WorkerAnswered(w)
    BY <1>2, <2>1, <2>3, AnsweredBelieves, Zenon
  <2>4. CASE ~WorkerGreeted(w) /\ ~WorkerAnswered(w)
    BY <1>1, <1>4, <2>4, WorkingBelieves, Zenon DEF WorkerStep
  <2>. QED  BY <2>2, <2>3, <2>4
<1>5. CASE Fault
  <2>1. CASE SpawnFails
    BY <1>2, <2>1 DEF SpawnFails
  <2>2. ASSUME NEW w \in Workers, WorkerDies(w) \/ \E dir \in Directions : Alter(w, dir)
        PROVE  \A v \in Workers : Beliefs(v)'
    <3>1. CASE WorkerDies(w)
      BY <1>1, <3>1, WorkingBelieves, Zenon
    <3>2. CASE \E dir \in Directions : Alter(w, dir)
      BY <1>2, <3>2 DEF Alter
    <3>. QED  BY <2>2, <3>1, <3>2
  <2>. QED  BY <1>5, <2>1, <2>2, Zenon DEF Fault
<1>6. CASE UNCHANGED scenarioVars
  BY <1>2, <1>6 DEF scenarioVars, processVars
<1>. QED  BY <1>3, <1>4, <1>5, <1>6, Zenon DEF ScenarioNext

LEMMA TruthInvHolds == ScenarioSpec => []TruthInv
<1>1. ScenarioInv /\ TruthInv /\ [ScenarioNext]_scenarioVars => TruthInv'
  <2>. SUFFICES ASSUME ScenarioInv, TruthInv, [ScenarioNext]_scenarioVars PROVE TruthInv'
    OBVIOUS
  <2>1. RegistryTruth' /\ Keeps
    BY TruthKept, Zenon DEF TruthInv
  <2>2. FlowStep
    BY ScenarioFlows, Zenon
  <2>. QED  BY <2>1, <2>2, WordsTrue, BeliefsTrue, Zenon DEF TruthInv
<1>. QED  BY <1>1, TruthStarts, ScenarioInvHolds, PTL DEF ScenarioSpec

(* What a worker was told stays true of the registry whatever happens to   *)
(* the others (coordinator.cpp:182-208, 278-290): its boot is its own, its *)
(* epoch was reached, its registration is there under its boot with a key  *)
(* generation no older than the one it was given, and the buffer is not    *)
(* registered for two workers at a time.                                   *)
THEOREM TruthKnown == ScenarioSpec => []WorkersKnowTheTruth
<1>1. TruthInv => WorkersKnowTheTruth
  <2>. SUFFICES ASSUME TruthInv PROVE WorkersKnowTheTruth
    OBVIOUS
  <2>1. \A w \in Workers : Beliefs(w)
    BY DEF TruthInv
  <2>2. \A w1, w2 \in Workers : w1 # w2 => WorkerBoot(w1) # WorkerBoot(w2)
    BY DEF Workers, WorkerBoot
  <2>3. ASSUME NEW w1 \in Workers, NEW w2 \in Workers, Holds(w1), Holds(w2)
        PROVE  w1 = w2
    <3>1. /\ workers[w1].reg \in RegIds /\ InForce(workers[w1].reg)
          /\ regs[workers[w1].reg].boot = WorkerBoot(w1)
          /\ workers[w2].reg \in RegIds /\ InForce(workers[w2].reg)
          /\ regs[workers[w2].reg].boot = WorkerBoot(w2)
      BY <2>1, <2>3 DEF Holds, Beliefs, Granted, Present
    <3>2. workers[w1].reg = workers[w2].reg
      BY <3>1 DEF TruthInv, RegistryTruth, Books
    <3>. QED  BY <2>2, <3>1, <3>2
  <2>. QED  BY <2>1, <2>2, <2>3 DEF WorkersKnowTheTruth, Beliefs, Granted
<1>. QED  BY <1>1, TruthInvHolds, PTL

------------------------------------------------------------------------------
(* Why no PROOF line comes out as PROOF-FAIL: the script.  Between two     *)
(* steps of main the registry is in the one state the next step counts on. *)

TheBuf == TheBuffer.buf

(* The scenario after the restart has been noted (coordinator.cpp:248).    *)
Late(c) == c.worker = "A2" \/ (c.worker = "B" /\ c.pc \in {"old", "revoke"})

(* The authority at each point of main.                                    *)
BootHeld(c) ==
    IF ~Late(c) THEN 1 ELSE IF c.worker = "A2" /\ c.pc \in Serving THEN 3 ELSE 2
Current(c) ==
    c.pc \notin {"attach", "incarnate", "ended"} =>
        authority = Snapshot(IF Late(c) THEN 2 ELSE 1, BootHeld(c))

(* The backend is there, and the domain, and from the first create_buffer  *)
(* on the buffer, which never has another generation.                      *)
Created(c) ==
    c.pc # "ended"
    /\ (c.worker # "A" \/ c.pc \in {"register", "registering", "answering"})
Furnished(c) ==
    /\ profile \in Profiles
    /\ DOMAIN domains = DomainIds /\ DOMAIN buffers = BufIds /\ DOMAIN entries = Handles
    /\ DOMAIN buffers[TheBuf] = {"made", "id", "gen", "len"}
    /\ buffers[TheBuf].made => buffers[TheBuf].gen = TheBuffer.gen
    /\ c.pc # "attach" => attached
    /\ c.pc \in Starting => next.dom = 1
    /\ c.pc \notin Starting => domains[Domain] = "ACTIVE"
    /\ Created(c) => buffers[TheBuf].made

(* A registration as register_buffer publishes it, and the entry behind it.*)
Sound(r) ==
    /\ r \in RegIds
    /\ regs[r].life = "ACTIVE" /\ regs[r].fresh = "VALID" /\ regs[r].desc = TheBuffer
    /\ regs[r].dom = Domain /\ regs[r].bgen = device.backend
    /\ regs[r].keyGen = 1 /\ regs[r].keyRevoked = FALSE
    /\ regs[r].handle \in Handles /\ entries[regs[r].handle] = EntryFor(TheBuffer)

(* The call that makes it.                                                 *)
Underway ==
    /\ call[Main].dom = Domain /\ call[Main].bgen = device.backend
    /\ call[Main].pc \in {"numbered", "stored"} => call[Main].handle \in Handles
    /\ call[Main].pc = "stored" => entries[call[Main].handle] = EntryFor(TheBuffer)

(* The slot is free when a buffer is to be registered, and what A got      *)
(* stays as it is until it is revoked.                                     *)
Vacant(c) ==
    c.worker \in {"A", "A2"} /\ c.pc \notin {"registering", "answering", "ended"}
Granting(c) ==
    \/ c.worker = "A" /\ c.pc = "answering"
    \/ c.worker = "B" /\ c.pc # "ended"
Recorded(c) ==
    /\ c.pc \in {"create", "register", "registering"} => c.worker # "B"
    /\ Vacant(c) => slot[TheBuf] = 0
    /\ c.pc = "registering" => IF Idle(Main) THEN Sound(c.reg) ELSE Underway
    /\ Granting(c) => Sound(c.regA) /\ c.keyGenA = 1

Stage(c) == Current(c) /\ Furnished(c) /\ Recorded(c)

(* B asks for what its command line names: what A was given.               *)
Asked ==
    /\ workers["B"].pc # "none" =>
          workers["B"].args = [reg |-> coord.regA, boot |-> FirstBoot,
                               keyGen |-> coord.keyGenA]
    /\ wire["B"]["up"].sent # <<>> /\ LastSent(wire["B"]["up"]).kind = "REQUEST_ACCESS" =>
          LastSent(wire["B"]["up"]).payload = workers["B"].args

Script == Stage(coord) /\ Asked /\ NoProofFails
ScriptInv == ScenarioInv /\ TruthInv /\ Script

(* The registry as far as the script goes.                                 *)
Steady ==
    /\ UNCHANGED <<authority, attached, domains, buffers, regs, slot, call, profile, device,
                   entries>>
    /\ next'.dom = next.dom

(* Where main goes while the registry is left alone.                       *)
SceneMoves(c, q) ==
    \/ q = c.pc
    \/ q = "ended" /\ c.pc \notin Starting
    \/ <<c.pc, q>> \in {<<"spawn", "accept">>, <<"accept", "hello">>,
                        <<"greeting", "request">>, <<"kill", "restart">>,
                        <<"old", "revoke">>}
    \/ c.pc = "request" /\ q = "create" /\ c.worker # "B"
    \/ c.pc = "hello" /\ q = "greeting" /\ c.worker # "A2"
    \/ <<c.pc, q>> \in {<<"request", "answering">>, <<"answering", "kill">>}
       /\ c.worker = "B"

LEMMA ScriptStarts == ScenarioInit => Script
<1>. SUFFICES ASSUME ScenarioInit PROVE Script
  OBVIOUS
<1>1. Init /\ BackendInit
  BY DEF ScenarioInit, Init
<1>2. coord.pc = "attach" /\ coord.worker = "A" /\ coord.failures = 0
  BY DEF ScenarioInit
<1>3. Current(coord)
  BY <1>2 DEF Current
<1>4. Furnished(coord)
  <2>1. buffers[TheBuf] = NoBuffer
    BY <1>1, WorkerAssumption DEF Init, TheBuf
  <2>. QED  BY <1>1, <1>2, <2>1 DEF Init, BackendInit, Furnished, Created, Starting, NoBuffer
<1>5. Recorded(coord)
  BY <1>1, <1>2, WorkerAssumption DEF Recorded, Vacant, Granting, Init, TheBuf
<1>6. Asked
  <2>1. workers["B"] = NoWorker /\ wire["B"]["up"] = NewStream
    BY DEF ScenarioInit, Workers, Directions
  <2>. QED  BY <2>1 DEF Asked, NoWorker, NewStream
<1>. QED  BY <1>2, <1>3, <1>4, <1>5, <1>6 DEF Script, Stage, NoProofFails

(* A step of main, or of anybody else, that leaves all this alone.         *)
LEMMA SteadyStage ==
    ASSUME ScenarioInv, Stage(coord), Steady, SceneMoves(coord, coord'.pc),
           coord'.worker = coord.worker, coord'.reg = coord.reg,
           coord'.regA = coord.regA, coord'.keyGenA = coord.keyGenA
    PROVE  (Stage(coord))'
<1>0. /\ coord.worker \in {"A", "B", "A2"}
      /\ coord.pc \in {"kill", "restart", "old", "revoke"} => coord.worker = "B"
  BY AllStreams DEF Workers
<1>. USE DEF Starting, Serving
<1>1. (Current(coord))'
  <2>1. coord'.pc \notin {"attach", "incarnate", "ended"}
            => coord.pc \notin {"attach", "incarnate", "ended"}
    BY DEF SceneMoves
  <2>2. coord'.pc # "ended" => (Late(coord') <=> Late(coord))
    BY <1>0 DEF SceneMoves, Late
  <2>3. coord'.pc # "ended" => BootHeld(coord') = BootHeld(coord)
    BY <1>0, <2>2 DEF SceneMoves, BootHeld
  <2>. QED  BY <2>1, <2>2, <2>3 DEF Stage, Current, Steady, BootHeld, Late
<1>2. (Furnished(coord))'
  <2>1. /\ Created(coord') => Created(coord)
        /\ coord'.pc \in Starting <=> coord.pc \in Starting
        /\ coord'.pc = "attach" <=> coord.pc = "attach"
    BY <1>0 DEF SceneMoves, Created
  <2>. QED  BY <2>1 DEF Stage, Furnished, Steady, Created
<1>3. (Recorded(coord))'
  <2>1. /\ Vacant(coord') => Vacant(coord)
        /\ Granting(coord') => Granting(coord)
        /\ coord'.pc = "registering" => coord.pc = "registering"
        /\ coord'.pc \in {"create", "register", "registering"} /\ coord.worker = "B"
              => coord.pc \in {"create", "register", "registering"}
    BY <1>0 DEF SceneMoves, Vacant, Granting
  <2>2. Idle(Main)' <=> Idle(Main)
    BY DEF Steady, Idle
  <2>3. Underway' <=> Underway
    BY DEF Steady, Underway
  <2>4. Sound(coord.reg)' <=> Sound(coord.reg)
    BY DEF Steady, Sound
  <2>5. Sound(coord.regA)' <=> Sound(coord.regA)
    BY DEF Steady, Sound
  <2>. QED  BY <2>1, <2>2, <2>3, <2>4, <2>5 DEF Stage, Recorded, Steady, Vacant, Granting
<1>. QED  BY <1>1, <1>2, <1>3 DEF Stage

LEMMA NothingSteady == UNCHANGED vars => Steady
BY DEF vars, registryVars, backendVars, Steady

LEMMA JudgeSteady == \A q : Judge(q) => Steady
BY NothingSteady DEF Judge, ValidateRemoteAccess, Steady, backendVars

(* The fields of the coordinator's record the script is about.             *)
LEMMA GotoKeeps ==
    ASSUME ScenarioInv
    PROVE  \A pc : /\ Goto(pc).pc = pc /\ Goto(pc).worker = coord.worker
                   /\ Goto(pc).reg = coord.reg /\ Goto(pc).regA = coord.regA
                   /\ Goto(pc).keyGenA = coord.keyGenA
                   /\ Goto(pc).failures = coord.failures
BY AllStreams DEF Goto, CoordFields

(* What each step of main has to do.                                       *)
StageKept ==
    /\ (Stage(coord))' /\ NoProofFails'
    /\ coord'.regA = coord.regA /\ coord'.keyGenA = coord.keyGenA

(* Main goes on, the registry is left alone and nothing is to be proved.   *)
LEMMA SceneGoesOn ==
    ASSUME ScenarioInv, Stage(coord), NoProofFails, NEW pc, Steady,
           coord' = Goto(pc),
           SceneMoves(coord, pc)
    PROVE  StageKept
<1>1. /\ coord'.pc = pc /\ coord'.worker = coord.worker /\ coord'.reg = coord.reg
      /\ coord'.regA = coord.regA /\ coord'.keyGenA = coord.keyGenA
      /\ coord'.failures = coord.failures
  BY GotoKeeps
<1>. QED  BY <1>1, SteadyStage DEF NoProofFails, StageKept

LEMMA SameStage ==
    ASSUME ScenarioInv, Stage(coord), NoProofFails, Steady, coord' = coord
    PROVE  StageKept
<1>1. SceneMoves(coord, coord'.pc)
  BY DEF SceneMoves
<1>. QED  BY <1>1, SteadyStage DEF NoProofFails, StageKept

LEMMA ReturnStage ==
    ASSUME ScenarioInv, Stage(coord), NoProofFails, NEW code, Return(code),
           coord.pc \notin Starting
    PROVE  StageKept
<1>1. /\ coord'.pc = "ended" /\ coord'.worker = coord.worker /\ coord'.reg = coord.reg
      /\ coord'.regA = coord.regA /\ coord'.keyGenA = coord.keyGenA
      /\ coord'.failures = coord.failures
  BY AllStreams DEF Return, CoordFields
<1>2. Steady
  BY NothingSteady DEF Return
<1>3. SceneMoves(coord, coord'.pc)
  BY <1>1 DEF SceneMoves
<1>. QED  BY <1>1, <1>2, <1>3, SteadyStage DEF NoProofFails, StageKept

LEMMA QuietStage ==
    ASSUME ScenarioInv, Stage(coord), NoProofFails,
           SpawnWorker \/ SpawnFails \/ AcceptWorker \/ CoordinatorPulls
               \/ CoordinatorGivesUp \/ CoordinatorPushes \/ Greeted \/ TakeRegister
               \/ ServedA2 \/ KillA
    PROVE  StageKept
<1>1. ASSUME NEW pc, UNCHANGED vars, coord' = Goto(pc), SceneMoves(coord, pc)
      PROVE  StageKept
  BY <1>1, NothingSteady, SceneGoesOn
<1>2. CASE SpawnWorker
  BY <1>1, <1>2 DEF SpawnWorker, SceneMoves
<1>3. CASE SpawnFails
  BY <1>1, <1>3 DEF SpawnFails, SceneMoves
<1>4. CASE AcceptWorker
  BY <1>1, <1>4 DEF AcceptWorker, SceneMoves
<1>5. CASE Greeted
  BY <1>1, <1>5 DEF Greeted, SceneMoves
<1>6. CASE TakeRegister
  BY <1>1, <1>6 DEF TakeRegister, SceneMoves, Registers
<1>7. CASE KillA
  BY <1>1, <1>7 DEF KillA, SceneMoves
<1>8. CASE CoordinatorPulls \/ CoordinatorPushes
  BY <1>8, NothingSteady, SameStage DEF CoordinatorPulls, CoordinatorPushes
<1>9. CASE CoordinatorGivesUp
  <2>1. coord.pc \notin Starting /\ Return(1)
    BY <1>9 DEF CoordinatorGivesUp, Starting
  <2>. QED  BY <2>1, ReturnStage, Zenon
<1>10. CASE ServedA2
  <2>1. coord.pc \notin Starting
    BY <1>10 DEF ServedA2, Starting
  <2>2. PICK code : Return(code)
    BY <1>10, Zenon DEF ServedA2
  <2>. QED  BY <2>1, <2>2, ReturnStage, Zenon
<1>. QED  BY <1>2, <1>3, <1>4, <1>5, <1>6, <1>7, <1>8, <1>9, <1>10

(* Main starts: worker A is the one it will serve.                         *)
LEMMA StartingStage ==
    ASSUME ScenarioInv, RegistryTruth, Stage(coord), NoProofFails,
           Attach \/ Incarnate \/ MakeDomain
    PROVE  StageKept
<1>. USE DEF Starting
<1>1. coord.pc \in Starting /\ coord.worker = "A"
  BY DEF Attach, Incarnate, MakeDomain, RegistryTruth, Boots
<1>2. PICK pc \in {"incarnate", "domain", "spawn"} : coord' = Goto(pc)
  BY DEF Attach, Incarnate, MakeDomain
<1>3. /\ coord'.pc = pc /\ coord'.worker = "A" /\ coord'.regA = coord.regA
      /\ coord'.keyGenA = coord.keyGenA /\ coord'.failures = coord.failures
  BY <1>1, <1>2, GotoKeeps
<1>4. /\ coord.pc = "attach" <=> pc = "incarnate"
      /\ coord.pc = "incarnate" <=> pc = "domain"
      /\ coord.pc = "domain" <=> pc = "spawn"
  BY <1>2, <1>3, GotoKeeps DEF Attach, Incarnate, MakeDomain
<1>5. UNCHANGED <<buffers, slot, profile, entries>>
  BY DEF Attach, AddBackend, Incarnate, SetAuthority, MakeDomain, CreateProtectionDomain,
         backendVars
<1>6. (Recorded(coord))'
  <2>1. slot'[TheBuf] = 0
    BY <1>1, <1>5 DEF Stage, Recorded, Vacant
  <2>. QED  BY <1>3, <2>1 DEF Recorded, Granting
<1>7. ~Created(coord') /\ ~Late(coord')
  BY <1>3 DEF Created, Late
<1>8. CASE Attach
  <2>1. attached' = TRUE /\ UNCHANGED <<domains, next>>
    BY <1>8 DEF Attach, AddBackend
  <2>2. pc = "incarnate"
    BY <1>4, <1>8 DEF Attach
  <2>3. (Current(coord))'
    BY <1>3, <2>2 DEF Current
  <2>4. (Furnished(coord))'
    BY <1>1, <1>3, <1>5, <1>7, <2>1, <2>2 DEF Stage, Furnished
  <2>. QED  BY <1>3, <1>6, <2>3, <2>4 DEF StageKept, Stage, NoProofFails
<1>9. CASE Incarnate
  <2>1. authority' = Snapshot(1, 1) /\ UNCHANGED <<attached, domains, next>>
    BY <1>9 DEF Incarnate, SetAuthority, FirstSnapshot, FirstBoot
  <2>2. pc = "domain" /\ coord.pc = "incarnate"
    BY <1>4, <1>9 DEF Incarnate
  <2>3. (Current(coord))'
    BY <1>7, <2>1 DEF Current, BootHeld
  <2>4. (Furnished(coord))'
    BY <1>1, <1>3, <1>5, <1>7, <2>1, <2>2 DEF Stage, Furnished
  <2>. QED  BY <1>3, <1>6, <2>3, <2>4 DEF StageKept, Stage, NoProofFails
<1>10. CASE MakeDomain
  <2>1. pc = "spawn" /\ coord.pc = "domain"
    BY <1>4, <1>10 DEF MakeDomain
  <2>2. next.dom = 1 /\ DOMAIN domains = DomainIds
    BY <1>1 DEF Stage, Furnished
  <2>3. /\ 1 \in DomainIds /\ domains' = [domains EXCEPT ![1] = "ACTIVE"]
        /\ UNCHANGED <<authority, attached>>
    BY <1>10, <2>2 DEF MakeDomain, CreateProtectionDomain
  <2>4. DOMAIN domains' = DomainIds /\ domains'[Domain] = "ACTIVE"
    BY <2>2, <2>3 DEF Domain
  <2>5. ~Late(coord)
    BY <1>1 DEF Late
  <2>6. (Current(coord))'
    BY <1>7, <2>1, <2>3, <2>5 DEF Stage, Current, BootHeld
  <2>7. (Furnished(coord))'
    BY <1>3, <1>5, <1>7, <2>1, <2>3, <2>4 DEF Stage, Furnished
  <2>. QED  BY <1>3, <1>6, <2>6, <2>7 DEF StageKept, Stage, NoProofFails
<1>. QED  BY <1>8, <1>9, <1>10

(* A2's boot becomes the authority before it is told; the others change    *)
(* nothing.                                                                *)
LEMMA GreetStage ==
    ASSUME ScenarioInv, RegistryTruth, Stage(coord), NoProofFails, Greet
    PROVE  StageKept
<1>. USE DEF Starting, Serving
<1>1. /\ coord.pc = "hello" /\ coord'.pc = "greeting" /\ coord'.worker = coord.worker
      /\ coord'.reg = coord.reg /\ coord'.regA = coord.regA
      /\ coord'.keyGenA = coord.keyGenA /\ coord'.failures = coord.failures
      /\ coord'.boot = BootTaken(coord).boot
  BY AllStreams DEF Greet, BootTaken, CoordFields
<1>2. CASE coord.worker # "A2"
  <2>1. Steady
    BY <1>2, NothingSteady DEF Greet
  <2>2. SceneMoves(coord, coord'.pc)
    BY <1>1, <1>2 DEF SceneMoves
  <2>. QED  BY <1>1, <2>1, <2>2, SteadyStage DEF StageKept, NoProofFails
<1>3. CASE coord.worker = "A2"
  <2>1. authority = Snapshot(2, 2) /\ Late(coord) /\ Late(coord')
    BY <1>1, <1>3 DEF Stage, Current, BootHeld, Late
  <2>2. BootTaken(coord).boot = 3
    BY <1>1, <1>3, GreetTruth DEF WorkerBoot
  <2>3. Incarnated(Snapshot(2, 3))
    BY <1>3, <2>1, <2>2 DEF Greet, Snapshot
  <2>4. /\ authority' = Snapshot(2, 3)
        /\ UNCHANGED <<attached, domains, buffers, regs, slot, call, profile, device,
                       entries, next>>
    BY <2>3 DEF Incarnated, SetAuthority, vars, registryVars, backendVars
  <2>5. (Current(coord))'
    BY <1>1, <1>3, <2>1, <2>4 DEF Current, BootHeld
  <2>6. (Furnished(coord))'
    BY <1>1, <1>3, <2>4 DEF Stage, Furnished, Created
  <2>7. (Recorded(coord))'
    BY <1>1, <1>3, <2>4 DEF Stage, Recorded, Vacant, Granting
  <2>. QED  BY <1>1, <2>5, <2>6, <2>7 DEF StageKept, Stage, NoProofFails
<1>. QED  BY <1>2, <1>3

(* The backend takes the descriptor of worker.cpp.                         *)
LEMMA BufferTaken ==
    ASSUME profile \in Profiles
    PROVE  CanRegister(TheBuffer) = "OK"
BY WorkerAssumption DEF CanRegister

(* create_buffer makes the buffer, or finds it as it is.                   *)
LEMMA CreateStage ==
    ASSUME ScenarioInv, Stage(coord), NoProofFails, Create
    PROVE  StageKept
<1>. USE DEF Starting, Serving
<1>1. coord.pc = "create" /\ coord' = Goto("register")
  BY DEF Create
<1>2. /\ coord'.pc = "register" /\ coord'.worker = coord.worker /\ coord'.reg = coord.reg
      /\ coord'.regA = coord.regA /\ coord'.keyGenA = coord.keyGenA
      /\ coord'.failures = coord.failures
  BY <1>1, GotoKeeps
<1>3. /\ TheBuf \in BufIds /\ TheBuf # 0 /\ TheBuffer.gen = 1
      /\ ChosenId(TheBuffer) = TheBuf
  BY WorkerAssumption DEF TheBuf, ChosenId
<1>4. ~ReallocateBuffer(TheBuffer) /\ ~CreateRefused(TheBuffer)
  <2>1. ReallocateBuffer(TheBuffer) =>
            buffers[TheBuf].made /\ TheBuffer.gen > buffers[TheBuf].gen
    BY <1>3, Zenon DEF ReallocateBuffer
  <2>2. buffers[TheBuf].made => buffers[TheBuf].gen = 1
    BY <1>3 DEF Stage, Furnished
  <2>3. ~CreateRefused(TheBuffer)
    BY <1>3 DEF CreateRefused, TheBuf
  <2>. QED  BY <1>3, <2>1, <2>2, <2>3
<1>5. /\ UNCHANGED <<authority, attached, domains, regs, slot, call, profile, device,
                     entries>>
      /\ DOMAIN buffers' = BufIds /\ DOMAIN buffers'[TheBuf] = {"made", "id", "gen", "len"}
      /\ buffers'[TheBuf].made /\ buffers'[TheBuf].gen = TheBuffer.gen
  <2>1. CASE CreateNewBuffer(TheBuffer)
    <3>1. buffers' = [buffers EXCEPT ![TheBuf] = EntryOf(TheBuffer)]
      BY <1>3, <2>1 DEF CreateNewBuffer
    <3>2. DOMAIN buffers = BufIds
      BY DEF Stage, Furnished
    <3>3. /\ UNCHANGED <<authority, attached, domains, regs, slot, call, profile, device,
                         entries>>
      BY <2>1 DEF CreateNewBuffer, backendVars
    <3>. QED  BY <1>3, <3>1, <3>2, <3>3 DEF EntryOf
  <2>2. CASE CreateDuplicate(TheBuffer) /\ UNCHANGED vars
    BY <2>2 DEF CreateDuplicate, vars, registryVars, backendVars, Stage, Furnished, TheBuf
  <2>. QED  BY <1>4, <2>1, <2>2 DEF Create, CreateBuffer
<1>6. (Current(coord))'
  BY <1>1, <1>2, <1>5 DEF Stage, Current, BootHeld, Late
<1>7. (Furnished(coord))'
  BY <1>1, <1>2, <1>5 DEF Stage, Furnished
<1>8. (Recorded(coord))'
  BY <1>1, <1>2, <1>5 DEF Stage, Recorded, Vacant, Granting
<1>. QED  BY <1>2, <1>6, <1>7, <1>8 DEF StageKept, Stage, NoProofFails

(* register_buffer admits the request.                                     *)
LEMMA RegisterStage ==
    ASSUME ScenarioInv, RegistryTruth, Stage(coord), NoProofFails, Register
    PROVE  StageKept
<1>. USE DEF Starting, Serving
<1>1. coord.pc = "register" /\ coord.worker \in {"A", "A2"}
  BY AllStreams DEF Register, Stage, Recorded, Workers
<1>2. /\ coord.boot = WorkerBoot(coord.worker)
      /\ authority = IF coord.worker = "A" THEN Snapshot(1, 1) ELSE Snapshot(2, 3)
  BY <1>1 DEF RegistryTruth, Boots, Stage, Current, BootHeld, Late
<1>3. ValidateAuthority(authority, Presented) = "ALLOW"
  <2>1. CASE coord.worker = "A"
    BY <1>2, <2>1 DEF Presented, Snapshot, WorkerBoot, ValidateAuthority, Matches, MatchesIfKnown
  <2>2. CASE coord.worker = "A2"
    BY <1>2, <2>2 DEF Presented, Snapshot, WorkerBoot, ValidateAuthority, Matches, MatchesIfKnown
  <2>. QED  BY <1>1, <2>1, <2>2
<1>4. Created(coord) /\ Vacant(coord)
  BY <1>1 DEF Created, Vacant
<1>5. /\ attached /\ domains[Domain] = "ACTIVE" /\ buffers[TheBuf].made
      /\ buffers[TheBuf].gen = TheBuffer.gen /\ slot[TheBuf] = 0 /\ profile \in Profiles
  BY <1>1, <1>4 DEF Stage, Furnished, Recorded
<1>6. Admissible(TheBuffer, Domain, Presented)
  BY <1>3, <1>5, BufferTaken, WorkerAssumption DEF Admissible, SlotFree, TheBuf
<1>7. /\ RegisterAdmit(Main, TheBuffer, Domain, Presented)
      /\ coord' = [coord EXCEPT !.pc = "registering", !.reg = next.reg]
  BY <1>6 DEF Register
<1>8. /\ coord'.pc = "registering" /\ coord'.worker = coord.worker
      /\ coord'.regA = coord.regA /\ coord'.keyGenA = coord.keyGenA
      /\ coord'.failures = coord.failures
  BY <1>7, AllStreams DEF CoordFields
<1>9. UNCHANGED <<authority, attached, domains, buffers, regs, slot, profile, device, entries>>
  BY <1>7 DEF RegisterAdmit, backendVars
<1>10. /\ call'[Main].pc = "admitted" /\ call'[Main].dom = Domain
       /\ call'[Main].bgen = device.backend
  <2>1. Main \in DOMAIN call
    BY ScenarioAssumption DEF RegistryTruth, Calls
  <2>. QED  BY <1>7, <2>1 DEF RegisterAdmit
<1>11. (Current(coord))'
  BY <1>1, <1>8, <1>9 DEF Stage, Current, BootHeld, Late
<1>12. (Furnished(coord))'
  BY <1>1, <1>5, <1>8, <1>9 DEF Stage, Furnished
<1>13. (Recorded(coord))'
  BY <1>1, <1>8, <1>9, <1>10 DEF Recorded, Vacant, Granting, Idle, Underway
<1>. QED  BY <1>8, <1>11, <1>12, <1>13 DEF StageKept, Stage, NoProofFails

(* The backend takes the buffer, stores its entry, and the record is       *)
(* published as it was judged.                                             *)
LEMMA RegisteringStage ==
    ASSUME ScenarioInv, RegistryTruth, Stage(coord), NoProofFails, Registering
    PROVE  StageKept
<1>. USE DEF Starting, Serving
<1>1. coord.pc = "registering" /\ coord' = coord /\ coord.worker \in {"A", "A2"}
  BY AllStreams DEF Registering, processVars, Stage, Recorded, Workers
<1>2. /\ Main \in DOMAIN call /\ DOMAIN call[Main] = CallFields
  BY ScenarioAssumption DEF RegistryTruth, Calls
<1>3. call[Main].pc # "idle" /\ Continue(Main)
  BY DEF Registering, Continue, BackendRefuses, BackendNumbers, BackendStores,
         RegisterCommit, BackendReleases, BackendReleaseFails, DeregisterFail,
         DeregisterFinish, Erase
<1>4. InProgress /\ Underway
  BY <1>1, <1>3 DEF RegistryTruth, Calls, Idle, Stage, Recorded
<1>5. /\ call[Main].pc \in RegisterPoints /\ call[Main].reg = coord.reg
      /\ call[Main].desc = TheBuffer /\ coord.reg \in RegIds
  BY <1>4 DEF InProgress
<1>6. CanRegister(call[Main].desc) = "OK"
  BY <1>5, BufferTaken DEF Stage, Furnished
<1>7. BackendNumbers(Main) \/ BackendStores(Main) \/ RegisterCommit(Main)
  BY <1>3, <1>5, <1>6
  DEF Continue, BackendRefuses, BackendReleases, BackendReleaseFails, DeregisterFail,
      DeregisterFinish, RegisterPoints
<1>8. /\ ~Vacant(coord) /\ ~Granting(coord)
      /\ coord.pc \in {"create", "register", "registering"} => coord.worker # "B"
  BY <1>1 DEF Vacant, Granting
<1>9. UNCHANGED <<authority, attached, domains, buffers, profile, device, next>>
  BY <1>7 DEF BackendNumbers, BackendStores, BackendStore, RegisterCommit, backendVars
<1>10. (Current(coord))'
  BY <1>1, <1>9 DEF Stage, Current, BootHeld, Late
<1>11. ASSUME DOMAIN entries' = Handles, (Recorded(coord))'
       PROVE  StageKept
  <2>1. (Furnished(coord))'
    BY <1>1, <1>9, <1>11 DEF Stage, Furnished, Created
  <2>. QED  BY <1>1, <1>10, <1>11, <2>1 DEF StageKept, Stage, NoProofFails
<1>12. DOMAIN entries = Handles
  BY DEF Stage, Furnished
<1>13. CASE BackendNumbers(Main)
  <2>1. /\ call' = [call EXCEPT ![Main].pc = "numbered", ![Main].handle = nextSeq]
        /\ nextSeq \in Handles /\ entries' = entries
    BY <1>13 DEF BackendNumbers, backendVars
  <2>2. /\ call'[Main].pc = "numbered" /\ call'[Main].handle \in Handles
        /\ call'[Main].dom = call[Main].dom /\ call'[Main].bgen = call[Main].bgen
    BY <1>2, <2>1 DEF CallFields
  <2>3. Underway' /\ ~Idle(Main)'
    BY <1>4, <1>9, <2>2 DEF Underway, Idle
  <2>4. (Recorded(coord))'
    BY <1>1, <1>8, <2>3 DEF Recorded, Vacant, Granting
  <2>. QED  BY <1>11, <1>12, <2>1, <2>4
<1>14. CASE BackendStores(Main)
  <2>1. /\ call' = [call EXCEPT ![Main].pc = "stored"] /\ call[Main].pc = "numbered"
        /\ entries' = [entries EXCEPT ![call[Main].handle] = EntryFor(TheBuffer)]
    BY <1>5, <1>14 DEF BackendStores, BackendStore
  <2>2. /\ call'[Main].pc = "stored" /\ call'[Main].handle = call[Main].handle
        /\ call'[Main].dom = call[Main].dom /\ call'[Main].bgen = call[Main].bgen
    BY <1>2, <2>1 DEF CallFields
  <2>3. call[Main].handle \in Handles
    BY <1>4, <2>1 DEF Underway
  <2>4. /\ DOMAIN entries' = Handles
        /\ entries'[call[Main].handle] = EntryFor(TheBuffer)
    BY <1>12, <2>1, <2>3
  <2>5. Underway' /\ ~Idle(Main)'
    BY <1>4, <1>9, <2>2, <2>3, <2>4 DEF Underway, Idle
  <2>6. (Recorded(coord))'
    BY <1>1, <1>8, <2>5 DEF Recorded, Vacant, Granting
  <2>. QED  BY <1>11, <2>4, <2>6
<1>15. CASE RegisterCommit(Main)
  <2>. DEFINE r == coord.reg
              h == call[Main].handle
  <2>1. /\ call[Main].pc = "stored" /\ entries' = entries
        /\ call' = [call EXCEPT ![Main] = NoCall]
        /\ regs' = [regs EXCEPT ![call[Main].reg] =
              [life |-> "ACTIVE", fresh |-> "VALID", desc |-> call[Main].desc,
               dom |-> call[Main].dom, bgen |-> call[Main].bgen, handle |-> h,
               keyGen |-> 1, keyRevoked |-> FALSE, boot |-> call[Main].boot,
               epoch |-> call[Main].epoch, leases |-> 0]]
    BY <1>15 DEF RegisterCommit, backendVars
  <2>2. DOMAIN regs = RegIds
    BY DEF RegistryTruth, Books
  <2>3. /\ regs'[r].life = "ACTIVE" /\ regs'[r].fresh = "VALID"
        /\ regs'[r].desc = TheBuffer /\ regs'[r].dom = call[Main].dom
        /\ regs'[r].bgen = call[Main].bgen /\ regs'[r].handle = h
        /\ regs'[r].keyGen = 1 /\ regs'[r].keyRevoked = FALSE
    BY <1>5, <2>1, <2>2
  <2>4. /\ h \in Handles /\ entries[h] = EntryFor(TheBuffer)
        /\ call[Main].dom = Domain /\ call[Main].bgen = device.backend
    BY <1>4, <2>1 DEF Underway
  <2>5. Sound(coord.reg)'
    BY <1>1, <1>5, <1>9, <2>1, <2>3, <2>4 DEF Sound, EntryFor
  <2>6. Idle(Main)'
    BY <1>2, <2>1 DEF Idle, NoCall
  <2>7. (Recorded(coord))'
    BY <1>1, <1>8, <2>5, <2>6 DEF Recorded, Vacant, Granting
  <2>. QED  BY <1>11, <1>12, <2>1, <2>7
<1>. QED  BY <1>7, <1>13, <1>14, <1>15

(* The acknowledgement: rr.ok.                                             *)
LEMMA AnswerStage ==
    ASSUME ScenarioInv, RegistryTruth, Stage(coord), NoProofFails, AnswerRegister
    PROVE  /\ (Stage(coord))' /\ NoProofFails'
           /\ coord.worker # "A" => coord'.regA = coord.regA /\ coord'.keyGenA = coord.keyGenA
<1>. USE DEF Starting, Serving
<1>1. /\ coord.pc = "registering" /\ Idle(Main) /\ coord.worker \in {"A", "A2"}
      /\ UNCHANGED vars
  BY AllStreams DEF AnswerRegister, Stage, Recorded, Workers
<1>2. Sound(coord.reg)
  BY <1>1 DEF Stage, Recorded
<1>3. Present(coord.reg) /\ regs[coord.reg].keyGen = 1
  BY <1>2 DEF Sound, Present
<1>4. /\ coord'.pc = "answering" /\ coord'.worker = coord.worker
      /\ coord'.regA = IF coord.worker = "A" THEN coord.reg ELSE coord.regA
      /\ coord'.keyGenA = IF coord.worker = "A" THEN 1 ELSE coord.keyGenA
      /\ coord'.failures = coord.failures
  BY <1>3, AllStreams DEF AnswerRegister, Proof, CoordFields
<1>5. UNCHANGED <<authority, attached, domains, buffers, regs, slot, call, profile, device,
                  entries>>
  BY <1>1 DEF vars, registryVars, backendVars
<1>6. (Current(coord))'
  BY <1>1, <1>4, <1>5 DEF Stage, Current, BootHeld, Late
<1>7. (Furnished(coord))'
  BY <1>1, <1>4, <1>5 DEF Stage, Furnished, Created
<1>8. (Recorded(coord))'
  <2>1. Granting(coord') => coord'.regA = coord.reg /\ coord'.keyGenA = 1
    BY <1>1, <1>4 DEF Granting
  <2>2. Granting(coord') => Sound(coord.regA)'
    BY <1>2, <1>5, <2>1 DEF Sound
  <2>. QED  BY <1>4, <2>1, <2>2 DEF Recorded, Vacant, Granting
<1>. QED  BY <1>4, <1>6, <1>7, <1>8 DEF Stage, NoProofFails

(* A has its registration, and B is the next to be served.                 *)
LEMMA ServedAStage ==
    ASSUME ScenarioInv, Stage(coord), NoProofFails, ServedA
    PROVE  StageKept
<1>. USE DEF Starting, Serving
<1>1. /\ coord.pc = "answering" /\ coord.worker = "A" /\ coord'.pc = "spawn"
      /\ coord'.worker = "B" /\ coord'.regA = coord.regA /\ coord'.keyGenA = coord.keyGenA
      /\ coord'.failures = coord.failures /\ UNCHANGED vars
  BY AllStreams DEF ServedA, CoordFields
<1>2. UNCHANGED <<authority, attached, domains, buffers, regs, slot, call, profile, device,
                  entries>>
  BY <1>1 DEF vars, registryVars, backendVars
<1>3. (Current(coord))'
  BY <1>1, <1>2 DEF Stage, Current, BootHeld, Late
<1>4. (Furnished(coord))'
  BY <1>1, <1>2 DEF Stage, Furnished, Created
<1>5. (Recorded(coord))'
  <2>1. Sound(coord.regA) /\ coord.keyGenA = 1
    BY <1>1 DEF Stage, Recorded, Granting
  <2>2. Sound(coord.regA)'
    BY <1>1, <1>2, <2>1 DEF Sound
  <2>. QED  BY <1>1, <2>1, <2>2 DEF Recorded, Vacant
<1>. QED  BY <1>1, <1>3, <1>4, <1>5 DEF StageKept, Stage, NoProofFails

(* A new epoch and a new boot.                                             *)
LEMMA RestartStage ==
    ASSUME ScenarioInv, Stage(coord), NoProofFails, NoteRestart
    PROVE  StageKept
<1>. USE DEF Starting, Serving
<1>1. coord.pc = "restart" /\ coord' = Goto("old") /\ coord.worker = "B"
  BY AllStreams DEF NoteRestart
<1>2. /\ coord'.pc = "old" /\ coord'.worker = "B" /\ coord'.regA = coord.regA
      /\ coord'.keyGenA = coord.keyGenA /\ coord'.failures = coord.failures
  BY <1>1, GotoKeeps
<1>3. authority = Snapshot(1, 1)
  BY <1>1 DEF Stage, Current, BootHeld, Late
<1>4. /\ authority' = [authority EXCEPT !.epoch = @ + 1, !.boot = @ + 1]
      /\ UNCHANGED <<attached, domains, buffers, regs, slot, profile, device, entries>>
  BY DEF NoteRestart, NoteParticipantRestart, backendVars
<1>5. authority' = Snapshot(2, 2)
  <2>1. authority.epoch + 1 = 2 /\ authority.boot + 1 = 2
    BY <1>3 DEF Snapshot
  <2>2. authority' = [authority EXCEPT !.epoch = 2, !.boot = 2]
    BY <1>4, <2>1
  <2>. QED  BY <1>3, <2>2 DEF Snapshot
<1>6. (Current(coord))'
  BY <1>2, <1>5 DEF Current, BootHeld, Late
<1>7. (Furnished(coord))'
  BY <1>1, <1>2, <1>4 DEF Stage, Furnished, Created
<1>8. (Recorded(coord))'
  <2>1. Sound(coord.regA) /\ coord.keyGenA = 1
    BY <1>1 DEF Stage, Recorded, Granting
  <2>2. Sound(coord.regA)'
    BY <1>2, <1>4, <2>1 DEF Sound
  <2>. QED  BY <1>2, <2>1, <2>2 DEF Recorded, Vacant
<1>. QED  BY <1>2, <1>6, <1>7, <1>8 DEF StageKept, Stage, NoProofFails

(* A's registration is revoked and the slot is free again.                 *)
LEMMA RevokeStage ==
    ASSUME ScenarioInv, RegistryTruth, Stage(coord), NoProofFails, RevokeOld
    PROVE  StageKept
<1>. USE DEF Starting, Serving
<1>1. /\ coord.pc = "revoke" /\ coord.worker = "B" /\ coord'.pc = "spawn"
      /\ coord'.worker = "A2" /\ coord'.regA = coord.regA /\ coord'.keyGenA = coord.keyGenA
      /\ coord'.failures = coord.failures
  BY AllStreams DEF RevokeOld, CoordFields
<1>2. Sound(coord.regA)
  BY <1>1 DEF Stage, Recorded, Granting
<1>3. HardRevoke(coord.regA)
  BY <1>2 DEF RevokeOld, RevokedOld, Revoke, Sound, Present, InForce
<1>4. /\ slot' = [slot EXCEPT ![TheBuf] = 0]
      /\ UNCHANGED <<authority, attached, domains, buffers, profile, device, entries>>
  BY <1>2, <1>3 DEF HardRevoke, Sound, TheBuf, backendVars
<1>5. slot'[TheBuf] = 0
  BY <1>4, WorkerAssumption DEF RegistryTruth, Books, TheBuf
<1>6. (Current(coord))'
  BY <1>1, <1>4 DEF Stage, Current, BootHeld, Late
<1>7. (Furnished(coord))'
  BY <1>1, <1>4 DEF Stage, Furnished, Created
<1>8. (Recorded(coord))'
  BY <1>1, <1>5 DEF Recorded, Granting
<1>. QED  BY <1>1, <1>6, <1>7, <1>8 DEF StageKept, Stage, NoProofFails

------------------------------------------------------------------------------
(* The three accesses that are judged.                                     *)

(* Bytes from the start of the buffer are inside it.                       *)
LEMMA AccessInside ==
    /\ RangeInside(TheBuffer, 0, AccessLength)
    /\ BackendRangeInside(TheBuffer.len, 0, AccessLength)
<1>1. /\ WordModulus \in Nat \ {0} /\ TheBuffer.len \in Word
      /\ AccessLength \in Word /\ 0 \in Word /\ 0 + AccessLength <= TheBuffer.len
  BY WordAssumption, WorkerAssumption DEF Word
<1>. QED  BY <1>1, BoundsExact

(* B's access, with what A was given: allowed by registry and backend.     *)
LEMMA AccessAllowed ==
    ASSUME Stage(coord), coord.worker = "B", coord.pc = "request"
    PROVE  Allowed(AccessRequest(coord.regA, coord.keyGenA, FirstBoot))
<1>. USE DEF Starting, Serving
<1>. DEFINE r == coord.regA
            q == AccessRequest(r, coord.keyGenA, FirstBoot)
<1>1. /\ Sound(r) /\ coord.keyGenA = 1 /\ authority = Snapshot(1, 1)
      /\ attached /\ profile \in Profiles
  BY DEF Stage, Recorded, Granting, Current, BootHeld, Late, Furnished
<1>2. /\ q.reg = r /\ q.kind = "WRITE" /\ q.offset = 0 /\ q.length = AccessLength
      /\ q.rights = {"REMOTE_WRITE"} /\ q.bufGen = 1 /\ q.regGen = 1 /\ q.keyGen = 1
      /\ q.env = Snapshot(1, 1) /\ q.backend = TheBackend /\ q.transport = NoTransport
      /\ q.dom = Domain
  BY <1>1 DEF AccessRequest, FirstSnapshot, FirstBoot, Snapshot
<1>. HIDE DEF q, r
<1>3. /\ r \in RegIds /\ regs[r].life = "ACTIVE" /\ regs[r].fresh = "VALID"
      /\ regs[r].desc = TheBuffer /\ regs[r].dom = Domain /\ regs[r].bgen = device.backend
      /\ regs[r].keyGen = 1 /\ regs[r].keyRevoked = FALSE
      /\ regs[r].handle \in Handles /\ entries[regs[r].handle] = EntryFor(TheBuffer)
  BY <1>1 DEF Sound
<1>4. LifecycleVerdict(q.reg) = "ALLOW"
  BY <1>2, <1>3 DEF LifecycleVerdict, Present
<1>5. ValidateAuthority(authority, q.env) = "ALLOW"
  BY <1>1, <1>2 DEF ValidateAuthority, Snapshot, Matches, MatchesIfKnown
<1>6. GenerationVerdict(q) = "ALLOW"
  BY <1>2, <1>3, WorkerAssumption DEF GenerationVerdict, Differs, RegistrationGeneration
<1>7. PlacementVerdict(q) = "ALLOW"
  BY <1>1, <1>2, <1>3 DEF PlacementVerdict, Differs
<1>8. IntrinsicRight("WRITE") = "REMOTE_WRITE" /\ "REMOTE_WRITE" \in TheBuffer.rights
  BY WorkerAssumption DEF IntrinsicRight
<1>9. RightsVerdict(q) = "ALLOW"
  BY <1>2, <1>3, <1>8, AccessInside DEF RightsVerdict, AccessSuperset
<1>10. Supports("REMOTE_WRITE")
  BY <1>1, <1>8, WorkerAssumption DEF Supports, RemoteRights
<1>11. BackendVerdict(q) = "ALLOW"
  <2>. DEFINE e == entries[regs[r].handle]
  <2>1. /\ e.live = TRUE /\ e.revalidate = FALSE /\ e.keyGen = 1 /\ e.len = TheBuffer.len
        /\ e.rights = TheBuffer.rights
    BY <1>3 DEF EntryFor
  <2>2. BackendVerdict(q) = QueryRemoteAccess(regs[r].handle, 1, "WRITE", 0, AccessLength)
    BY <1>2, <1>3 DEF BackendVerdict
  <2>. QED  BY <1>3, <1>8, <1>10, <2>1, <2>2, AccessInside DEF QueryRemoteAccess, LiveEntry
<1>12. Allowed(q)
  BY <1>4, <1>5, <1>6, <1>7, <1>9, <1>11 DEF Allowed, AccessOutcome
<1>. QED  BY <1>12 DEF q, r

(* An access whose envelope is not current is not allowed.                 *)
LEMMA AccessStale ==
    ASSUME NEW q, ValidateAuthority(authority, q.env) # "ALLOW"
    PROVE  ~Allowed(q)
BY DEF Allowed, AccessOutcome

LEMMA JudgingStage ==
    ASSUME ScenarioInv, Script, JudgeAccess \/ ServedB \/ JudgeOld
    PROVE  StageKept
<1>. USE DEF Starting, Serving
<1>0. Stage(coord) /\ NoProofFails
  BY DEF Script
<1>1. ASSUME NEW q, Judge(q), NEW pc, NEW ok, ok, coord' = Proof(Goto(pc), ok),
             SceneMoves(coord, pc)
      PROVE  StageKept
  <2>1. coord' = Goto(pc)
    BY <1>1 DEF Proof
  <2>2. Steady
    BY <1>1, JudgeSteady, Zenon
  <2>. QED  BY <1>0, <1>1, <2>1, <2>2, SceneGoesOn, Zenon
<1>2. CASE JudgeAccess
  <2>. DEFINE asked == Incoming(Up).payload
              q == AccessRequest(asked.reg, asked.keyGen, asked.boot)
  <2>1. /\ coord.pc = "request" /\ Received(Up) /\ Incoming(Up).kind = Wanted
        /\ ~Registers(coord.worker) /\ Judge(q)
        /\ coord' = Proof(Goto("answering"), Allowed(q))
    BY <1>2 DEF JudgeAccess
  <2>2. coord.worker = "B" /\ Wanted = "REQUEST_ACCESS" /\ Up = wire["B"]["up"]
    BY <2>1, AllStreams DEF Workers, Registers, Wanted, Up
  <2>3. /\ Incoming(Up) = LastSent(wire["B"]["up"]) /\ wire["B"]["up"].sent # <<>>
        /\ workers["B"].pc # "none"
    <3>1. "B" \in Workers
      BY DEF Workers
    <3>2. /\ StreamInv(wire["B"]["up"]) /\ WorkerTurn(coord, workers, wire, "B")
          /\ Got(wire, "B", "up") \in Nat /\ Sent(wire, "B", "up") \in Nat
      BY <3>1, TurnOf
    <3>3. /\ Incoming(Up) = LastSent(wire["B"]["up"])
          /\ Sent(wire, "B", "up") = Got(wire, "B", "up") + 1
      BY <2>1, <2>2, <3>2, ReceivedIsSent, Zenon DEF Sent, Got
    <3>4. Sent(wire, "B", "up") # 0
      BY <3>2, <3>3
    <3>5. wire["B"]["up"].sent # <<>>
      BY <3>1, <3>4, AllStreams, Counted, Zenon
    <3>. QED  BY <3>2, <3>3, <3>4, <3>5 DEF WorkerTurn
  <2>4. asked = [reg |-> coord.regA, boot |-> FirstBoot, keyGen |-> coord.keyGenA]
    BY <2>1, <2>2, <2>3 DEF Script, Asked
  <2>5. q = AccessRequest(coord.regA, coord.keyGenA, FirstBoot)
    BY <2>4 DEF AccessRequest
  <2>6. Allowed(q)
    BY <1>0, <2>1, <2>2, <2>5, AccessAllowed
  <2>7. SceneMoves(coord, "answering")
    BY <2>1, <2>2 DEF SceneMoves
  <2>. QED  BY <1>1, <2>1, <2>6, <2>7, Zenon
<1>3. CASE ServedB
  <2>1. PICK q : /\ coord.pc = "answering" /\ coord.worker = "B" /\ Judge(q)
                 /\ q.env = Snapshot(1, 99) /\ coord' = Proof(Goto("kill"), ~Allowed(q))
    BY <1>3 DEF ServedB, AccessRequest, FirstSnapshot, Snapshot
  <2>2. authority = Snapshot(1, 1)
    BY <1>0, <2>1 DEF Stage, Current, BootHeld, Late
  <2>3. ~Allowed(q)
    BY <2>1, <2>2, AccessStale DEF ValidateAuthority, Snapshot, Matches
  <2>4. SceneMoves(coord, "kill")
    BY <2>1 DEF SceneMoves
  <2>. QED  BY <1>1, <2>1, <2>3, <2>4, Zenon
<1>4. CASE JudgeOld
  <2>1. PICK q : /\ coord.pc = "old" /\ Judge(q)
                 /\ q.env = Snapshot(1, 1) /\ coord' = Proof(Goto("revoke"), ~Allowed(q))
    BY <1>4 DEF JudgeOld, AccessRequest, FirstSnapshot, Snapshot, FirstBoot
  <2>2. authority = Snapshot(2, 2)
    BY <1>0, <2>1, AllStreams DEF Stage, Current, BootHeld, Late
  <2>3. ~Allowed(q)
    BY <2>1, <2>2, AccessStale DEF ValidateAuthority, Snapshot, Matches
  <2>4. SceneMoves(coord, "revoke")
    BY <2>1 DEF SceneMoves
  <2>. QED  BY <1>1, <2>1, <2>3, <2>4, Zenon
<1>. QED  BY <1>2, <1>3, <1>4

LEMMA StageStep ==
    ASSUME ScriptInv, [ScenarioNext]_scenarioVars
    PROVE  /\ (Stage(coord))' /\ NoProofFails'
           /\ ~(AnswerRegister /\ coord.worker = "A") =>
                 coord'.regA = coord.regA /\ coord'.keyGenA = coord.keyGenA
<1>0. ScenarioInv /\ RegistryTruth /\ Script /\ Stage(coord) /\ NoProofFails
  BY Zenon DEF ScriptInv, TruthInv, Script
<1>1. CASE AnswerRegister
  BY <1>0, <1>1, AnswerStage, Zenon
<1>2. CASE StageKept
  BY <1>2, Zenon DEF StageKept
<1>3. CASE CoordinatorStep
  BY <1>0, <1>1, <1>2, <1>3, StartingStage, QuietStage, GreetStage, CreateStage,
     RegisterStage, RegisteringStage, JudgingStage, ServedAStage, RestartStage, RevokeStage,
     Zenon
  DEF CoordinatorStep
<1>4. ASSUME UNCHANGED <<coord, vars>>
      PROVE  StageKept
  BY <1>0, <1>4, NothingSteady, SameStage
<1>5. ASSUME NEW w \in Workers,
             WorkerStep(w) \/ WorkerDies(w) \/ \E dir \in Directions : Alter(w, dir)
      PROVE  StageKept
  <2>1. UNCHANGED <<coord, vars>>
    <3>1. CASE WorkerStep(w)
      BY <3>1 DEF WorkerStep
    <3>2. CASE WorkerDies(w)
      BY <3>2 DEF WorkerDies
    <3>3. CASE \E dir \in Directions : Alter(w, dir)
      BY <3>3 DEF Alter
    <3>. QED  BY <1>5, <3>1, <3>2, <3>3
  <2>. QED  BY <1>4, <2>1
<1>6. CASE Fault
  BY <1>0, <1>2, <1>5, <1>6, QuietStage, Zenon DEF Fault
<1>7. CASE UNCHANGED scenarioVars
  BY <1>2, <1>4, <1>7 DEF scenarioVars, processVars
<1>. QED  BY <1>2, <1>3, <1>5, <1>6, <1>7, Zenon DEF ScenarioNext

------------------------------------------------------------------------------
(* What B asks for.                                                        *)

(* A worker's command line is fixed when it is started.                    *)
SameTask(p, q) == q.args = p.args /\ (q.pc # "none" => p.pc # "none")

LEMMA WorkingTasks ==
    ASSUME ScenarioInv, NEW w \in Workers, WorkerStep(w) \/ WorkerDies(w)
    PROVE  \A v \in Workers : SameTask(workers[v], workers'[v])
<1>1. ASSUME UNCHANGED workers
      PROVE  \A v \in Workers : SameTask(workers[v], workers'[v])
  BY <1>1 DEF SameTask
<1>2. ASSUME NEW pc, workers' = [workers EXCEPT ![w].pc = pc], workers[w].pc # "none"
      PROVE  \A v \in Workers : SameTask(workers[v], workers'[v])
  BY <1>2, AllWorkers DEF SameTask, WorkerFields
<1>3. ASSUME NEW code, WorkerEnds(w, code), workers[w].pc # "none"
      PROVE  \A v \in Workers : SameTask(workers[v], workers'[v])
  BY <1>3, AllWorkers DEF WorkerEnds, SameTask, WorkerFields
<1>4. CASE WorkerConnects(w)
  BY <1>2, <1>4 DEF WorkerConnects
<1>5. CASE WorkerTurnedAway(w) \/ WorkerPushFails(w) \/ WorkerGivesUp(w)
  <2>1. workers[w].pc # "none"
    BY <1>5 DEF WorkerTurnedAway, WorkerPushFails, WorkerGivesUp, Listening
  <2>. QED
    BY <1>3, <1>5, <2>1, Zenon DEF WorkerTurnedAway, WorkerPushFails, WorkerGivesUp
<1>6. CASE WorkerPushes(w) \/ WorkerPulls(w)
  BY <1>1, <1>6, Zenon DEF WorkerPushes, WorkerPulls
<1>7. CASE WorkerSent(w)
  <2>1. PICK pc : workers' = [workers EXCEPT ![w].pc = pc]
    BY <1>7 DEF WorkerSent
  <2>2. workers[w].pc # "none"
    BY <1>7 DEF WorkerSent
  <2>. QED  BY <1>2, <2>1, <2>2
<1>8. CASE WorkerDies(w)
  BY <1>2, <1>8 DEF WorkerDies, Running
<1>9. CASE WorkerGreeted(w)
  <2>1. PICK pc, boot, epoch : workers' = [workers EXCEPT ![w].pc = pc, ![w].boot = boot,
                                                          ![w].epoch = epoch]
    BY <1>9 DEF WorkerGreeted
  <2>2. workers[w].pc # "none"
    BY <1>9 DEF WorkerGreeted
  <2>. QED  BY <2>1, <2>2, AllWorkers DEF SameTask, WorkerFields
<1>10. CASE WorkerAnswered(w)
  <2>1. workers[w].pc # "none"
    BY <1>10 DEF WorkerAnswered
  <2>2. CASE Registers(w)
    <3>. DEFINE answer == Incoming(wire[w]["down"]).payload
                pc == IF Role(w) = "register-hold" THEN "hold" ELSE "exited"
                exit == IF answer.ok \/ Role(w) = "register-hold" THEN 0 ELSE 5
    <3>1. workers' = [workers EXCEPT ![w].ok = answer.ok, ![w].reg = answer.reg,
                                     ![w].keyGen = answer.keyGen,
                                     ![w].pc = pc, ![w].exit = exit]
      BY <1>10, <2>2, Zenon DEF WorkerAnswered
    <3>. HIDE DEF answer, pc, exit
    <3>2. /\ workers'[w].args = workers[w].args
          /\ \A v \in Workers : v # w => workers'[v] = workers[v]
      BY <3>1, AllWorkers DEF WorkerFields
    <3>. QED  BY <2>1, <3>2, Zenon DEF SameTask
  <2>3. CASE ~Registers(w)
    BY <1>2, <1>10, <2>1, <2>3 DEF WorkerAnswered
  <2>. QED  BY <2>2, <2>3
<1>. QED  BY <1>4, <1>5, <1>6, <1>7, <1>8, <1>9, <1>10, Zenon DEF WorkerStep

LEMMA TasksKept ==
    ASSUME ScenarioInv, [ScenarioNext]_scenarioVars
    PROVE  \A v \in Workers :
               SameTask(workers[v], workers'[v]) \/ (SpawnWorker /\ v = coord.worker)
<1>1. ASSUME UNCHANGED workers
      PROVE  \A v \in Workers : SameTask(workers[v], workers'[v])
  BY <1>1 DEF SameTask
<1>2. CASE CoordinatorStep
  <2>1. CASE SpawnWorker
    BY <2>1, AllWorkers DEF SpawnWorker, SameTask
  <2>2. CASE KillA
    <3>1. "A" \in Workers
      BY DEF Workers
    <3>2. ASSUME Running("A"), workers' = [workers EXCEPT !["A"].pc = "dead"]
          PROVE  \A v \in Workers : SameTask(workers[v], workers'[v])
      BY <3>1, <3>2, AllWorkers DEF SameTask, WorkerFields, Running
    <3>. QED  BY <1>1, <2>2, <3>2, Zenon DEF KillA
  <2>3. CASE ~SpawnWorker /\ ~KillA
    <3>1. UNCHANGED workers
      BY <1>2, <2>3
      DEF CoordinatorStep, Attach, Incarnate, MakeDomain, AcceptWorker, CoordinatorPulls,
          CoordinatorGivesUp, CoordinatorPushes, Greet, Greeted, TakeRegister, Create,
          Register, Registering, AnswerRegister, JudgeAccess, ServedA, ServedB, ServedA2,
          NoteRestart, JudgeOld, RevokeOld, Return, processVars
    <3>. QED  BY <1>1, <3>1
  <2>. QED  BY <2>1, <2>2, <2>3
<1>3. ASSUME NEW w \in Workers,
             WorkerStep(w) \/ WorkerDies(w) \/ \E dir \in Directions : Alter(w, dir)
      PROVE  \A v \in Workers : SameTask(workers[v], workers'[v])
  <2>1. CASE \E dir \in Directions : Alter(w, dir)
    BY <1>1, <2>1 DEF Alter
  <2>. QED  BY <1>3, <2>1, WorkingTasks, Zenon
<1>4. CASE Fault
  <2>1. CASE SpawnFails
    BY <1>1, <2>1 DEF SpawnFails
  <2>. QED  BY <1>3, <1>4, <2>1, Zenon DEF Fault
<1>5. CASE UNCHANGED scenarioVars
  BY <1>1, <1>5 DEF scenarioVars, processVars
<1>. QED  BY <1>2, <1>3, <1>4, <1>5, Zenon DEF ScenarioNext

(* No worker says anything.                                                *)
Unsaid == \A v \in Workers : wire'[v]["up"].sent = wire[v]["up"].sent

LEMMA UnsaidSteps ==
    ASSUME ScenarioInv
    PROVE  /\ wire' = wire \/ Quiet(wire, wire') => Unsaid
           /\ \A w \in Workers : \A a, b :
                  wire' = Rewired(wire, w, a, b) /\ a.sent = wire[w]["up"].sent => Unsaid
           /\ \A w \in Workers : \A b : wire' = [wire EXCEPT ![w]["down"] = b] => Unsaid
           /\ \A w \in Workers : \A a :
                  wire' = [wire EXCEPT ![w]["up"] = a] /\ a.sent = wire[w]["up"].sent => Unsaid
<1>1. wire' = wire \/ Quiet(wire, wire') => Unsaid
  BY AllStreams, Zenon DEF Unsaid, Quiet, Quietly, Still
<1>2. ASSUME NEW w \in Workers, NEW a, NEW b, wire' = Rewired(wire, w, a, b),
             a.sent = wire[w]["up"].sent
      PROVE  Unsaid
  <2>1. wire'[w]["up"] = a /\ \A v \in Workers : v # w => wire'[v] = wire[v]
    BY <1>2, AllStreams DEF Wired, Directions, Rewired
  <2>. QED  BY <1>2, <2>1 DEF Unsaid
<1>3. ASSUME NEW w \in Workers, NEW b, wire' = [wire EXCEPT ![w]["down"] = b]
      PROVE  Unsaid
  BY <1>3, AllStreams DEF Wired, Directions, Unsaid
<1>4. ASSUME NEW w \in Workers, NEW a, wire' = [wire EXCEPT ![w]["up"] = a],
             a.sent = wire[w]["up"].sent
      PROVE  Unsaid
  BY <1>4, AllStreams DEF Wired, Directions, Unsaid
<1>. QED  BY <1>1, <1>2, <1>3, <1>4

LEMMA MainListens ==
    ASSUME ScenarioInv, CoordinatorStep
    PROVE  Unsaid
<1>. DEFINE w == coord.worker
<1>0. w \in Workers /\ Up = wire[w]["up"] /\ StreamInv(Up)
  BY AllStreams DEF Up
<1>1. CASE UNCHANGED wire
  BY <1>1, UnsaidSteps
<1>2. ASSUME NEW code, Return(code)
      PROVE  Unsaid
  <2>1. PICK lost \in BOOLEAN : wire' = CoordinatorGone(lost)
    BY <1>2 DEF Return
  <2>. QED  BY <2>1, GoneQuiet, UnsaidSteps, Zenon
<1>3. CASE CoordinatorGivesUp \/ ServedA2
  BY <1>2, <1>3, Zenon DEF CoordinatorGivesUp, ServedA2
<1>4. CASE CoordinatorPulls
  <2>1. Quietly(Up, Pulled(Up))
    BY <1>0, <1>4, QuietStreams, Zenon DEF CoordinatorPulls, MayPull
  <2>2. wire' = [wire EXCEPT ![w]["up"] = Pulled(Up)]
    BY <1>0, <1>4 DEF CoordinatorPulls
  <2>3. Pulled(Up).sent = wire[w]["up"].sent
    BY <1>0, <2>1, Zenon DEF Quietly, Still
  <2>. QED  BY <1>0, <2>2, <2>3, UnsaidSteps, Zenon
<1>5. CASE CoordinatorPushes \/ AnswerRegister
  <2>1. PICK b : wire' = [wire EXCEPT ![w]["down"] = b]
    BY <1>5 DEF CoordinatorPushes, AnswerRegister, Reply
  <2>. QED  BY <1>0, <2>1, UnsaidSteps, Zenon
<1>6. CASE Greet \/ JudgeAccess \/ TakeRegister
  <2>1. Received(Up)
    BY <1>6 DEF Greet, JudgeAccess, TakeRegister
  <2>2. Taken(Up).sent = wire[w]["up"].sent
    BY <1>0, <2>1, TakenKept, Zenon
  <2>3. CASE TakeRegister
    <3>1. wire' = [wire EXCEPT ![w]["up"] = Taken(Up)]
      BY <1>0, <2>3 DEF TakeRegister
    <3>. QED  BY <1>0, <2>2, <3>1, UnsaidSteps, Zenon
  <2>4. CASE Greet \/ JudgeAccess
    <3>1. PICK b : wire' = Exchange(Taken(Up), b)
      BY <2>4, Zenon DEF Greet, JudgeAccess
    <3>2. wire' = Rewired(wire, w, Taken(Up), b)
      BY <3>1, Zenon DEF Exchange, Rewired
    <3>. QED  BY <1>0, <2>2, <3>2, UnsaidSteps, Zenon
  <2>. QED  BY <1>6, <2>3, <2>4
<1>7. CASE ServedA \/ ServedB
  <2>1. wire' = HangUp
    BY <1>7, Zenon DEF ServedA, ServedB
  <2>. QED  BY <2>1, HangUpQuiet, UnsaidSteps, Zenon
<1>8. CASE KillA
  <2>1. "A" \in Workers /\ TRUE \in BOOLEAN
    BY DEF Workers
  <2>2. wire' = wire \/ wire' = [wire EXCEPT !["A"] = Hangup(@, TRUE)]
    BY <1>8 DEF KillA
  <2>3. CASE wire' = [wire EXCEPT !["A"] = Hangup(@, TRUE)]
    <3>1. Quiet(wire, wire')
      BY <2>1, <2>3, AllStreams, HangupQuiet, Zenon
    <3>. QED  BY <3>1, UnsaidSteps, Zenon
  <2>. QED  BY <1>1, <2>2, <2>3
<1>9. CASE Attach \/ Incarnate \/ MakeDomain \/ SpawnWorker \/ AcceptWorker \/ Greeted
           \/ Create \/ Register \/ Registering \/ NoteRestart \/ JudgeOld \/ RevokeOld
  BY <1>1, <1>9
  DEF Attach, Incarnate, MakeDomain, SpawnWorker, AcceptWorker, Greeted, Create, Register,
      Registering, NoteRestart, JudgeOld, RevokeOld, processVars
<1>. QED
  BY <1>3, <1>4, <1>5, <1>6, <1>7, <1>8, <1>9, Zenon DEF CoordinatorStep

(* A worker says HELLO and its request, on its own connection.             *)
LEMMA WorkerSays ==
    ASSUME ScenarioInv, NEW w \in Workers,
           WorkerStep(w) \/ WorkerDies(w) \/ \E dir \in Directions : Alter(w, dir)
    PROVE  \/ Unsaid
           \/ /\ WorkerConnects(w) \/ WorkerGreeted(w)
              /\ \A v \in Workers : v # w => wire'[v] = wire[v]
<1>. DEFINE up == wire[w]["up"]
            down == wire[w]["down"]
<1>0. StreamInv(up) /\ StreamInv(down) /\ Wired(wire) /\ Streams(wire)
  BY AllStreams
<1>1. CASE WorkerConnects(w) \/ WorkerGreeted(w)
  <2>1. \A v \in Workers : v # w => wire'[v] = wire[v]
    BY <1>0, <1>1 DEF Wired, WorkerConnects, WorkerGreeted
  <2>. QED  BY <1>1, <2>1
<1>2. ASSUME NEW code, WorkerEnds(w, code)
      PROVE  Unsaid
  BY <1>0, <1>2, HangupQuiet, UnsaidSteps, Zenon DEF WorkerEnds
<1>3. CASE WorkerTurnedAway(w) \/ WorkerPushFails(w) \/ WorkerGivesUp(w)
  BY <1>2, <1>3, Zenon DEF WorkerTurnedAway, WorkerPushFails, WorkerGivesUp
<1>4. CASE WorkerPushes(w)
  <2>. DEFINE b == IF up.deaf THEN Deaf(Pushed(up)) ELSE Pushed(up)
  <2>1. b.sent = up.sent
    BY <1>0, <1>4, QuietStreams, Zenon DEF WorkerPushes, Quietly, Still
  <2>2. wire' = [wire EXCEPT ![w]["up"] = b]
    BY <1>4 DEF WorkerPushes
  <2>. HIDE DEF b
  <2>. QED  BY <2>1, <2>2, UnsaidSteps, Zenon
<1>5. CASE WorkerPulls(w)
  <2>1. wire' = [wire EXCEPT ![w]["down"] = Pulled(down)]
    BY <1>5 DEF WorkerPulls
  <2>. QED  BY <2>1, UnsaidSteps, Zenon
<1>6. CASE WorkerSent(w)
  BY <1>6, UnsaidSteps, Zenon DEF WorkerSent
<1>7. CASE WorkerAnswered(w)
  <2>1. CASE Role(w) = "register-hold"
    <3>1. wire' = [wire EXCEPT ![w]["down"] = Taken(down)]
      BY <1>7, <2>1, Zenon DEF WorkerAnswered
    <3>. QED  BY <3>1, UnsaidSteps, Zenon
  <2>2. CASE Role(w) # "register-hold"
    <3>. DEFINE a == Closed(up)
                b == Deaf(Taken(down))
    <3>1. wire' = [wire EXCEPT ![w]["down"] = b, ![w]["up"] = a]
      BY <1>7, <2>2, Zenon DEF WorkerAnswered
    <3>2. a.sent = up.sent
      BY <1>0, QuietStreams, Zenon DEF Quietly, Still
    <3>. HIDE DEF a, b
    <3>3. wire' = Rewired(wire, w, a, b)
      BY <1>0, <3>1 DEF Rewired, Wired, Directions
    <3>. QED  BY <3>2, <3>3, UnsaidSteps, Zenon
  <2>. QED  BY <2>1, <2>2
<1>8. CASE WorkerDies(w)
  <2>1. PICK lost \in BOOLEAN : wire' = [wire EXCEPT ![w] = Hangup(@, lost)]
    BY <1>8, Zenon DEF WorkerDies
  <2>. QED  BY <1>0, <2>1, HangupQuiet, UnsaidSteps, Zenon
<1>9. ASSUME NEW d \in Directions, Alter(w, d)
      PROVE  Unsaid
  <2>1. PICK damage \in DamageTo(Head(wire[w][d].cells).part) :
            wire' = [wire EXCEPT ![w][d].cells[1].damage = damage]
    BY <1>9, Zenon DEF Alter
  <2>2. damage \in Damages /\ wire[w][d].cells # <<>>
    BY <1>9, <2>1 DEF Alter, DamageTo, Damages
  <2>3. wire' = [wire EXCEPT ![w][d] = AlteredStream(wire[w][d], damage)]
    BY <2>1 DEF AlteredStream
  <2>4. Quietly(wire[w][d], AlteredStream(wire[w][d], damage))
    BY <2>2, AllStreams, QuietStreams, Zenon
  <2>5. Quiet(wire, wire')
    BY <1>0, <2>3, <2>4, OneStream, Zenon
  <2>. QED  BY <2>5, UnsaidSteps, Zenon
<1>. QED
  BY <1>1, <1>3, <1>4, <1>5, <1>6, <1>7, <1>8, <1>9, Zenon DEF WorkerStep

LEMMA WhoSays ==
    ASSUME ScenarioInv, [ScenarioNext]_scenarioVars
    PROVE  \/ Unsaid
           \/ \E w \in Workers : /\ WorkerConnects(w) \/ WorkerGreeted(w)
                                 /\ \A v \in Workers : v # w => wire'[v] = wire[v]
<1>1. ASSUME UNCHANGED wire
      PROVE  Unsaid
  BY <1>1 DEF Unsaid
<1>2. CASE Fault
  <2>1. CASE SpawnFails
    BY <1>1, <2>1 DEF SpawnFails
  <2>. QED  BY <1>2, <2>1, WorkerSays, Zenon DEF Fault
<1>3. CASE UNCHANGED scenarioVars
  BY <1>1, <1>3 DEF scenarioVars, processVars
<1>. QED  BY <1>2, <1>3, MainListens, WorkerSays, Zenon DEF ScenarioNext

LEMMA AskedKept ==
    ASSUME ScriptInv, [ScenarioNext]_scenarioVars
    PROVE  Asked'
<1>0. ScenarioInv /\ Asked /\ "B" \in Workers
  BY DEF ScriptInv, Script, Workers
<1>1. NotStarted(coord, "B") => workers["B"].pc = "none" /\ wire["B"]["up"].sent = <<>>
  <2>1. WorkerTurn(coord, workers, wire, "B")
    BY <1>0, TurnOf
  <2>2. Sent(wire, "B", "up") = 0 => wire["B"]["up"].sent = <<>>
    BY <1>0, AllStreams, Counted, Zenon
  <2>. QED  BY <2>1, <2>2 DEF WorkerTurn
<1>2. CASE SpawnWorker /\ coord.worker = "B"
  <2>1. /\ workers'["B"].args = [reg |-> coord.regA, boot |-> FirstBoot,
                                 keyGen |-> coord.keyGenA]
        /\ wire' = wire
    BY <1>0, <1>2, AllWorkers DEF SpawnWorker, NoWorker
  <2>2. coord'.regA = coord.regA /\ coord'.keyGenA = coord.keyGenA
    BY <1>0, <1>2, GotoKeeps DEF SpawnWorker
  <2>3. wire["B"]["up"].sent = <<>>
    BY <1>1, <1>2 DEF SpawnWorker, NotStarted
  <2>. QED  BY <2>1, <2>2, <2>3 DEF Asked
<1>3. CASE SameTask(workers["B"], workers'["B"])
  <2>1. workers'["B"].args = workers["B"].args
    BY <1>3 DEF SameTask
  <2>2. workers'["B"].pc # "none" =>
            workers'["B"].args = [reg |-> coord'.regA, boot |-> FirstBoot,
                                  keyGen |-> coord'.keyGenA]
    <3>. SUFFICES ASSUME workers'["B"].pc # "none"
                  PROVE  workers'["B"].args = [reg |-> coord'.regA, boot |-> FirstBoot,
                                               keyGen |-> coord'.keyGenA]
      OBVIOUS
    <3>1. workers["B"].pc # "none"
      BY <1>3 DEF SameTask
    <3>2. coord.worker # "A"
      BY <1>1, <3>1 DEF NotStarted, Later
    <3>3. coord'.regA = coord.regA /\ coord'.keyGenA = coord.keyGenA
      BY <3>2, StageStep, Zenon
    <3>. QED  BY <1>0, <2>1, <3>1, <3>3 DEF Asked
  <2>3. ASSUME wire'["B"]["up"].sent # <<>>,
               LastSent(wire'["B"]["up"]).kind = "REQUEST_ACCESS"
        PROVE  LastSent(wire'["B"]["up"]).payload = workers'["B"].args
    <3>1. CASE wire'["B"]["up"].sent = wire["B"]["up"].sent
      BY <1>0, <2>1, <2>3, <3>1 DEF Asked, LastSent
    <3>2. CASE WorkerConnects("B") \/ WorkerGreeted("B")
      <4>1. PICK frame : /\ wire'["B"]["up"] = Sending(wire["B"]["up"], frame)
                         /\ \/ frame = Frame("HELLO", 1, [role |-> Role("B")])
                            \/ frame = RequestOf("B")
        BY <1>0, <3>2, AllStreams DEF WorkerConnects, WorkerGreeted, Wired, Directions
      <4>2. LastSent(wire'["B"]["up"]) = frame
        BY <1>0, <4>1, AllStreams, Spoken, Zenon
      <4>3. frame.kind = "REQUEST_ACCESS"
        BY <2>3, <4>2
      <4>4. frame = RequestOf("B")
        BY <4>1, <4>3 DEF Frame
      <4>5. frame.payload = workers["B"].args
        BY <4>4 DEF RequestOf, Registers, Frame
      <4>. QED  BY <2>1, <4>2, <4>5
    <3>3. \/ wire'["B"]["up"].sent = wire["B"]["up"].sent
          \/ WorkerConnects("B") \/ WorkerGreeted("B")
      <4>1. CASE Unsaid
        BY <1>0, <4>1 DEF Unsaid
      <4>2. ASSUME NEW w \in Workers, WorkerConnects(w) \/ WorkerGreeted(w),
                   \A v \in Workers : v # w => wire'[v] = wire[v]
            PROVE  \/ wire'["B"]["up"].sent = wire["B"]["up"].sent
                   \/ WorkerConnects("B") \/ WorkerGreeted("B")
        <5>1. CASE w = "B"
          BY <4>2, <5>1, Zenon
        <5>2. CASE w # "B"
          BY <1>0, <4>2, <5>2, Zenon
        <5>. QED  BY <5>1, <5>2
      <4>. QED  BY <1>0, <4>1, <4>2, WhoSays, Zenon
    <3>. QED  BY <3>1, <3>2, <3>3
  <2>. QED  BY <2>2, <2>3 DEF Asked
<1>. QED  BY <1>0, <1>2, <1>3, TasksKept, Zenon

LEMMA ScriptInvHolds == ScenarioSpec => []ScriptInv
<1>1. ScenarioInv /\ TruthInv /\ ScenarioInv' /\ TruthInv' /\ Script
          /\ [ScenarioNext]_scenarioVars => Script'
  <2>. SUFFICES ASSUME ScenarioInv, TruthInv, Script, [ScenarioNext]_scenarioVars
                PROVE  Script'
    OBVIOUS
  <2>1. ScriptInv
    BY Zenon DEF ScriptInv
  <2>2. (Stage(coord))' /\ NoProofFails'
    BY <2>1, StageStep, Zenon
  <2>3. Asked'
    BY <2>1, AskedKept, Zenon
  <2>. QED  BY <2>2, <2>3, Zenon DEF Script
<1>. QED
  BY <1>1, ScriptStarts, ScenarioInvHolds, TruthInvHolds, PTL DEF ScenarioSpec, ScriptInv

(* No PROOF line comes out as PROOF-FAIL (coordinator.cpp:193, 229, 233,   *)
(* 257, 289), whatever worker dies, fails to start or sends what was       *)
(* altered on its way: both registrations are granted, B's access is       *)
(* allowed under A's boot and refused under another, and what A held is    *)
(* refused once A's restart has been noted.                                *)
THEOREM AllProofsPass == ScenarioSpec => []NoProofFails
<1>1. ScriptInv => NoProofFails
  BY DEF ScriptInv, Script
<1>. QED  BY <1>1, ScriptInvHolds, PTL
==============================================================================

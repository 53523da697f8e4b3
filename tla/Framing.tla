-------------------------------- MODULE Framing --------------------------------
(***************************************************************************)
(* Frames over a byte stream (src/protocol.cpp, and the send_frame and     *)
(* recv_frame of tools/coordinator.cpp and tools/worker.cpp).              *)
(*                                                                         *)
(* A frame travels as three chunks, header, payload and trailer, which the *)
(* stream delivers one at a time and in order.  A chunk may arrive altered *)
(* in one way, named by its damage; that is what the magic, the bounds and *)
(* the checksum are there to notice.                                       *)
(***************************************************************************)
EXTENDS Sequences, Naturals

FrameParts == <<"header", "payload", "trailer">>

(* Ways of being altered.  "longer" is a length field that promises more   *)
(* than follows, and "bits" whatever no field of the header gives away.    *)
DamageTo(part) ==
    IF part = "header"
    THEN {"magic", "version", "kind", "oversized", "longer", "bits"}
    ELSE {"bits"}

(* encode_frame; a payload beyond max_payload gives nothing to send.  No   *)
(* message of the coordinator or of a worker comes near it.                *)
EncodeFrame(frame) ==
    [i \in 1 .. 3 |-> [part |-> FrameParts[i], frame |-> frame, damage |-> "none"]]

(* decode_frame, applied to the chunks of one frame.  An altered kind is   *)
(* either no kind at all or makes the checksum wrong.                      *)
DecodeUnsummed(chunks) ==                          \* mutant: no checksum
    CASE chunks[1].damage = "magic" -> "BAD_MAGIC"
      [] chunks[1].damage = "version" -> "BAD_VERSION"
      [] chunks[1].damage = "kind" -> "INVALID_ENUM"
      [] OTHER -> "OK"
DecodeFrame(chunks) ==
    CASE chunks = <<>> -> "TRUNCATED"
      [] chunks[1].damage = "magic" -> "BAD_MAGIC"
      [] chunks[1].damage = "version" -> "BAD_VERSION"
      [] chunks[1].damage = "kind" -> "INVALID_ENUM"
      [] chunks[1].damage = "oversized" -> "OVERSIZED"
      [] chunks[1].damage = "longer" \/ Len(chunks) < 3 -> "TRUNCATED"
      [] \E i \in 1 .. 3 : chunks[i].damage # "none" -> "CHECKSUM_MISMATCH"
      [] OTHER -> "OK"

------------------------------------------------------------------------------
(* One direction of a connection.                                          *)

(* out is what send_all still has to send, cells what is on the way, have  *)
(* what recv_frame has read of the current frame.  closed: the sending     *)
(* side is gone.  deaf: the receiving side is.  sent and got are a history *)
(* of the frames handed to send_frame and returned by recv_frame.          *)
NewStream ==
    [out |-> <<>>, cells |-> <<>>, have |-> <<>>, closed |-> FALSE, deaf |-> FALSE,
     sent |-> <<>>, got |-> <<>>]

(* send_frame is called; its result is known when out is empty.            *)
Sending(st, frame) ==
    [st EXCEPT !.out = EncodeFrame(frame), !.sent = Append(@, frame)]

(* send_all gets one chunk out, or fails because nobody is there to read.  *)
Pushed(st) ==
    [st EXCEPT !.out = Tail(@), !.cells = Append(@, Head(st.out))]
Abandoned(st) == [st EXCEPT !.out = <<>>]

(* recv_all gets one chunk.                                                *)
Pulled(st) == [st EXCEPT !.cells = Tail(@), !.have = Append(@, Head(st.cells))]

(* The header is judged before anything else is read.                      *)
BadHeader(st) ==
    st.have # <<>> /\ st.have[1].damage \in {"magic", "version", "oversized"}

(* The header names three chunks, or more than there are.                  *)
Complete(st) == Len(st.have) = 3 /\ st.have[1].damage # "longer"

MayPull(st) == st.cells # <<>> /\ ~BadHeader(st) /\ ~Complete(st)

(* recv returns 0 or an error: nothing is left and nobody will send more.  *)
EofBetweenFrames(st) ==                            \* mutant: not inside a frame
    st.cells = <<>> /\ st.closed /\ st.have = <<>>
Eof(st) == st.cells = <<>> /\ st.closed /\ ~Complete(st) /\ ~BadHeader(st)

(* recv_frame returns true with a frame, or false.                         *)
Received(st) == Complete(st) /\ DecodeFrame(st.have) = "OK"
NotReceived(st) ==
    BadHeader(st) \/ Eof(st) \/ (Complete(st) /\ DecodeFrame(st.have) # "OK")

(* A frame whose chunks were altered is some other frame.                  *)
Garbled == [kind |-> "UNKNOWN", seq |-> 0, payload |-> <<>>]
Incoming(st) ==
    IF \E i \in DOMAIN st.have : st.have[i].damage # "none" THEN Garbled
    ELSE st.have[1].frame
Taken(st) == [st EXCEPT !.have = <<>>, !.got = Append(@, Incoming(st))]

(* The sending side is gone: closed, or killed with some of what it sent   *)
(* not delivered.  The receiving side is gone.                             *)
Closed(st) == [st EXCEPT !.closed = TRUE, !.out = <<>>]
Cut(st) == [Closed(st) EXCEPT !.cells = <<>>]
Deaf(st) == [st EXCEPT !.deaf = TRUE, !.cells = <<>>, !.have = <<>>]
==============================================================================

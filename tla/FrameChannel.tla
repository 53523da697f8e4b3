------------------------------ MODULE FrameChannel ------------------------------
(***************************************************************************)
(* What framing promises: on each channel the receiver gets the frames     *)
(* that were sent, unaltered, in order, each once, up to the point where   *)
(* it gives up.                                                            *)
(***************************************************************************)
EXTENDS Sequences, Naturals

CONSTANT Channels

VARIABLES
    sent,        \* channel -> the frames handed to it
    got          \* channel -> the frames that came out of it

ChannelInit ==
    /\ sent = [c \in Channels |-> <<>>]
    /\ got = [c \in Channels |-> <<>>]

Send(c) ==
    /\ Len(sent'[c]) = Len(sent[c]) + 1
    /\ SubSeq(sent'[c], 1, Len(sent[c])) = sent[c]

Deliver(c) ==
    /\ Len(got[c]) < Len(sent[c])
    /\ got'[c] = Append(got[c], sent[c][Len(got[c]) + 1])

(* A process may receive on one channel and send on another in one step.   *)
ChannelNext ==
    \A c \in Channels :
        /\ sent'[c] = sent[c] \/ Send(c)
        /\ got'[c] = got[c] \/ Deliver(c)

ChannelSpec == ChannelInit /\ [][ChannelNext]_<<sent, got>>
==============================================================================

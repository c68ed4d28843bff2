--------------------------- MODULE MppDecoderInv ---------------------------
(***************************************************************************)
(* The inductive invariant of MppDecoder, in named parts.                  *)
(***************************************************************************)
EXTENDS MppDecoder

Waiting == IF Announced THEN Len(mpp_out) - 1 ELSE Len(mpp_out)

(* Pictures that left the decoder: handed to the callback or about to be.  *)
Taken == Len(delivered) + (IF pc = "deliver" THEN 1 ELSE 0)

(* The pictures are numbered through from the callback to the decoder.     *)
PicturesInOrder ==
    /\ \A i \in 1..Len(delivered) : delivered[i] = i
    /\ pc = "deliver" => frame = Len(delivered) + 1
    /\ \A i \in 1..Waiting : mpp_out[i] = Taken + i
    /\ decoded = Taken + Waiting

(* There is one announcement at a time, behind every picture, and none     *)
(* after a handshake failed.                                               *)
Handshake ==
    /\ Announced => stalled /\ ~ setup_failed /\ pc # "change"
    /\ setup_failed => stalled /\ mpp_out = <<>> /\ pc \notin {"change", "deliver"}
    /\ pc = "change" => frame = InfoChange /\ stalled /\ mpp_out = <<>>

(* A decoder made no more pictures than it was given packets for; it came  *)
(* with a packet, and without one nothing has been sent or held.           *)
Lifecycle ==
    /\ decoded + Len(mpp_in) <= Len(sent)
    /\ decoder => lost < pkt
    /\ pc \in InCall => decoder
    /\ ~ decoder /\ pc # "gone" =>
          pc \in {"idle", "crashed"} /\ sent = <<>> /\ frame = NoFrame

DecInv ==
    /\ TypeOK /\ PicturesInOrder /\ Handshake /\ Lifecycle
    /\ PacketsPutOnce /\ FramesAccounted /\ InitLeaksBounded
    /\ StallIsBeingAnswered

(* Decode and the decoder never wait for each other: while Decode offers a *)
(* packet and finds no frame, the decoder does not stand still and none of *)
(* its buffers is out of the pool (none in mpp_out, none in the member).   *)
(* Only a failed handshake ends that (mpp_decoder.cpp:135-307).            *)
NeverBothWait ==
    pc \in {"put", "get", "end"} /\ mpp_out = <<>> /\ ~ setup_failed =>
        ~ stalled /\ frame = NoFrame
=============================================================================

----------------------------- MODULE MppDecoder -----------------------------
(***************************************************************************)
(* The player callbacks of main.cpp and MppDecoder, from the first packet  *)
(* of a track to the deletion in main.  on_mk_play_event_func adds the     *)
(* delegate; the delegate makes the decoder when it can and calls Decode   *)
(* for one packet after the other, against the Rockchip decoder behind     *)
(* MppApi (external): a bounded packet queue, a bounded pool of frame      *)
(* buffers, and the information change handshake, during which the decoder *)
(* stands still until it is told MPP_DEC_SET_INFO_CHANGE_READY.  Time, and *)
(* the frame rate that only paces the callback, are left out.              *)
(***************************************************************************)
EXTENDS Naturals, Sequences

CONSTANTS
    MaxPackets,  \* bound on the packets the stream delivers
    MaxChanges,  \* bound on changes of geometry within the stream
    QueueSize,   \* packets the decoder queues (external)
    Buffers,     \* frame buffers of the group (24 in the code)
    Retries      \* the local `times': 5 in the code

ASSUME BoundAssumption ==
    /\ MaxPackets \in Nat /\ MaxChanges \in Nat
    /\ QueueSize \in Nat \ {0} /\ Buffers \in Nat \ {0} /\ Retries \in Nat

(* What decode_get_frame hands out: a picture, numbered in stream order,   *)
(* or an empty frame that announces new geometry.  Pictures are numbered   *)
(* from 1 and each takes a packet of its own.                              *)
InfoChange == 0
NoFrame == MaxPackets + 1

VARIABLES
    codec_known,                  \* ConvertCodecType knows the stream's codec
    delegate,                     \* on_track_frame_out is installed
    decoder,                      \* ctx->decoder exists
    contexts, cfgs,               \* MppCtx and MppDecCfg made and not given back
    lost,                         \* packets that met no decoder
    pc, pkt, pkt_done, times,     \* Decode: program counter and locals
    frame,                        \* the member frame
    frm_grp,                      \* the buffer group exists
    leaked,                       \* frames overwritten without mpp_frame_deinit
    setup_failed,                 \* a call of the handshake failed
    delivered,                    \* what the callback was given
    sent,                         \* every packet the decoder ever took
    mpp_in, mpp_out, decoded,     \* the decoder's queues, pictures made so far
    known, stalled, changes       \* geometry announced, handshake open, changes so far

playVars == <<codec_known, delegate>>
lifeVars == <<decoder, contexts, cfgs, lost>>
decodeVars == <<pc, pkt, pkt_done, times, frame, frm_grp, leaked, setup_failed, delivered>>
mppVars == <<sent, mpp_in, mpp_out, decoded, known, stalled, changes>>
outerVars == <<playVars, lifeVars>>
vars == <<outerVars, decodeVars, mppVars>>

-----------------------------------------------------------------------------
Init ==
    /\ codec_known \in BOOLEAN
    /\ delegate = FALSE /\ decoder = FALSE
    /\ contexts = 0 /\ cfgs = 0 /\ lost = 0
    /\ pc = "idle" /\ pkt = 0 /\ pkt_done = FALSE /\ times = 0
    /\ frame = NoFrame /\ frm_grp = FALSE /\ leaked = 0 /\ setup_failed = FALSE
    /\ delivered = <<>>
    /\ sent = <<>> /\ mpp_in = <<>> /\ mpp_out = <<>> /\ decoded = 0
    /\ known = FALSE /\ stalled = FALSE /\ changes = 0

(* on_mk_play_event_func, for a video track.                               *)
AddDelegate ==
    /\ ~ delegate /\ delegate' = TRUE
    /\ UNCHANGED <<codec_known, lifeVars, decodeVars, mppVars>>

(* on_track_frame_out: the media thread brings the next packet.            *)
PacketArrives ==
    /\ delegate
    /\ pc = "idle" /\ pkt < MaxPackets
    /\ pkt' = pkt + 1
    /\ pkt_done' = FALSE

(* The destructor of a decoder Init never reached looks at loop_data,      *)
(* which nothing has written: it may find zeros or give back rubbish.      *)
UnsupportedCodec ==
    /\ PacketArrives
    /\ ~ decoder /\ ~ codec_known
    /\ lost' = lost + 1
    /\ pc' \in {"idle", "crashed"}
    /\ UNCHANGED <<playVars, decoder, contexts, cfgs, times, frame, frm_grp,
                   leaked, setup_failed, delivered, mppVars>>

(* Init fails at one of mpp_create, mpp_init, MPP_DEC_GET_CFG,             *)
(* mpp_dec_cfg_set_u32 and MPP_DEC_SET_CFG.  The decoder is deleted; the   *)
(* context is a local of Init, which the destructor cannot see, and cfg is *)
(* given back only at the end.  The next packet tries again.               *)
InitFails ==
    /\ PacketArrives
    /\ ~ decoder /\ codec_known
    /\ \E call \in 1..5 :
          /\ contexts' = contexts + (IF call > 1 THEN 1 ELSE 0)
          /\ cfgs' = cfgs + (IF call > 2 THEN 1 ELSE 0)
    /\ lost' = lost + 1
    /\ pc' = "idle"
    /\ UNCHANGED <<playVars, decoder, times, frame, frm_grp,
                   leaked, setup_failed, delivered, mppVars>>

(* Mutant: Init succeeds and keeps its configuration.                      *)
InitSucceedsKeepsCfg ==
    /\ PacketArrives
    /\ ~ decoder /\ codec_known
    /\ contexts' = contexts + 1 /\ cfgs' = cfgs + 1
    /\ decoder' = TRUE
    /\ pc' = "put"
    /\ UNCHANGED <<playVars, lost, times, frame, frm_grp, leaked, setup_failed,
                   delivered, mppVars>>

(* Init succeeds, and the packet goes to Decode.                           *)
InitSucceeds ==
    /\ PacketArrives
    /\ ~ decoder /\ codec_known
    /\ contexts' = contexts + 1
    /\ decoder' = TRUE
    /\ pc' = "put"
    /\ UNCHANGED <<playVars, cfgs, lost, times, frame, frm_grp, leaked, setup_failed,
                   delivered, mppVars>>

Decode ==
    /\ PacketArrives
    /\ decoder
    /\ pc' = "put"
    /\ UNCHANGED <<outerVars, times, frame, frm_grp, leaked, setup_failed, delivered, mppVars>>

(* Mutant: that the packet was taken is not remembered.                    *)
PutPacketForgets ==
    /\ pc = "put"
    /\ IF ~ pkt_done /\ Len(mpp_in) < QueueSize
          THEN mpp_in' = Append(mpp_in, pkt) /\ sent' = Append(sent, pkt)
          ELSE UNCHANGED <<mpp_in, sent>>
    /\ times' = Retries
    /\ pc' = "get"
    /\ UNCHANGED <<outerVars, pkt, pkt_done, frame, frm_grp, leaked, setup_failed, delivered,
                   mpp_out, decoded, known, stalled, changes>>

(* The outer loop: the packet, unless it was taken, and five tries to come.*)
PutPacket ==
    /\ pc = "put"
    /\ IF ~ pkt_done /\ Len(mpp_in) < QueueSize
          THEN /\ mpp_in' = Append(mpp_in, pkt) /\ sent' = Append(sent, pkt)
               /\ pkt_done' = TRUE
          ELSE UNCHANGED <<mpp_in, sent, pkt_done>>
    /\ times' = Retries
    /\ pc' = "get"
    /\ UNCHANGED <<outerVars, pkt, frame, frm_grp, leaked, setup_failed, delivered,
                   mpp_out, decoded, known, stalled, changes>>

(* decode_get_frame overwrites the member, whatever it still held.         *)
GetFrame ==
    /\ pc = "get" /\ mpp_out # <<>>
    /\ frame' = Head(mpp_out) /\ mpp_out' = Tail(mpp_out)
    /\ leaked' = leaked + (IF frame = NoFrame THEN 0 ELSE 1)
    /\ pc' = IF Head(mpp_out) = InfoChange THEN "change" ELSE "deliver"
    /\ UNCHANGED <<outerVars, pkt, pkt_done, times, frm_grp, setup_failed, delivered,
                   sent, mpp_in, decoded, known, stalled, changes>>

(* Mutant: one try too many.                                               *)
GetTimesOutOnceMore ==
    /\ pc = "get" /\ mpp_out = <<>>
    /\ IF times + 1 > 0 THEN times' = times - 1 /\ pc' = "get"
                        ELSE pc' = "end" /\ UNCHANGED times
    /\ UNCHANGED <<outerVars, pkt, pkt_done, frame, frm_grp, leaked, setup_failed, delivered, mppVars>>

(* MPP_ERR_TIMEOUT: sleep and try again while tries are left.              *)
GetTimesOut ==
    /\ pc = "get" /\ mpp_out = <<>>
    /\ IF times > 0 THEN times' = times - 1 /\ pc' = "get"
                    ELSE pc' = "end" /\ UNCHANGED times
    /\ UNCHANGED <<outerVars, pkt, pkt_done, frame, frm_grp, leaked, setup_failed, delivered, mppVars>>

(* No frame and no timeout: an error (the member is left alone), or MPP_OK *)
(* with a NULL frame (the member is overwritten).  Either ends the turn.   *)
GetNothing ==
    /\ pc = "get" /\ mpp_out = <<>>
    /\ \/ UNCHANGED <<frame, leaked>>
       \/ frame' = NoFrame /\ leaked' = leaked + (IF frame = NoFrame THEN 0 ELSE 1)
    /\ pc' = "end"
    /\ UNCHANGED <<outerVars, pkt, pkt_done, times, frm_grp, setup_failed, delivered, mppVars>>

(* Mutant: the decoder is not told to go on.                               *)
InfoChangeNotAnswered ==
    /\ pc = "change"
    /\ frm_grp' = TRUE
    /\ frame' = NoFrame
    /\ pc' = "get"
    /\ UNCHANGED <<outerVars, pkt, pkt_done, times, leaked, setup_failed, delivered, mppVars>>

(* Mutant: the empty frame is not given back.                              *)
InfoChangeKeepsFrame ==
    /\ pc = "change"
    /\ frm_grp' = TRUE
    /\ stalled' = FALSE
    /\ pc' = "get"
    /\ UNCHANGED <<outerVars, pkt, pkt_done, times, frame, leaked, setup_failed, delivered,
                   sent, mpp_in, mpp_out, decoded, known, changes>>

(* New geometry: a buffer group is made, or the old one cleared, its limit *)
(* is set and the decoder is told to go on.                                *)
InfoChangeReady ==
    /\ pc = "change"
    /\ frm_grp' = TRUE
    /\ stalled' = FALSE
    /\ frame' = NoFrame
    /\ pc' = "get"
    /\ UNCHANGED <<outerVars, pkt, pkt_done, times, leaked, setup_failed, delivered,
                   sent, mpp_in, mpp_out, decoded, known, changes>>

(* One of its calls fails: out of the inner loop, the frame not given back.*)
(* The group stays when it is a later call than its creation that fails.   *)
InfoChangeFails ==
    /\ pc = "change"
    /\ frm_grp' \in {frm_grp, TRUE}
    /\ setup_failed' = TRUE
    /\ pc' = "end"
    /\ UNCHANGED <<outerVars, pkt, pkt_done, times, frame, leaked, delivered, mppVars>>

(* Mutant: the picture is given back without the callback.                 *)
DeliverFrameDropped ==
    /\ pc = "deliver"
    /\ frame' = NoFrame
    /\ pc' = "get"
    /\ UNCHANGED <<outerVars, pkt, pkt_done, times, frm_grp, leaked, setup_failed, delivered, mppVars>>

(* The callback with the picture, the pause that keeps the frame rate, and *)
(* the frame is given back; then the next frame is asked for.              *)
DeliverFrame ==
    /\ pc = "deliver"
    /\ delivered' = Append(delivered, frame)
    /\ frame' = NoFrame
    /\ pc' = "get"
    /\ UNCHANGED <<outerVars, pkt, pkt_done, times, frm_grp, leaked, setup_failed, mppVars>>

(* The end of the outer loop: return when the packet was taken, else sleep *)
(* and offer it again.                                                     *)
EndTurn ==
    /\ pc = "end"
    /\ pc' = IF pkt_done THEN "idle" ELSE "put"
    /\ UNCHANGED <<outerVars, pkt, pkt_done, times, frame, frm_grp, leaked, setup_failed,
                   delivered, mppVars>>

(* main, after the player was released: ~MppDecoder gives back a frame a   *)
(* failed handshake left and the group; the member mpp_ctx is still NULL,  *)
(* so that the context stays.                                              *)
DeleteDecoder ==
    /\ pc = "idle"
    /\ pc' = "gone"
    /\ decoder' = FALSE
    /\ frame' = NoFrame /\ frm_grp' = FALSE
    /\ UNCHANGED <<playVars, contexts, cfgs, lost, pkt, pkt_done, times,
                   leaked, setup_failed, delivered, mppVars>>

-----------------------------------------------------------------------------
(* The Rockchip decoder (external).                                        *)

(* Buffers out of the pool: pictures waiting and the one being delivered.  *)
BuffersInUse ==
    Len(SelectSeq(mpp_out, LAMBDA f : f # InfoChange))
        + (IF frame \in {NoFrame, InfoChange} THEN 0 ELSE 1)

MppDecodePacket ==
    /\ mpp_in # <<>> /\ known /\ ~ stalled
    /\ BuffersInUse < Buffers
    /\ mpp_in' = Tail(mpp_in)
    /\ \/ /\ decoded' = decoded + 1              \* a picture
          /\ mpp_out' = Append(mpp_out, decoded + 1)
       \/ UNCHANGED <<decoded, mpp_out>>         \* parameter sets, damage
    /\ UNCHANGED <<outerVars, decodeVars, sent, known, stalled, changes>>

MppInfoChange ==
    /\ mpp_in # <<>> /\ ~ stalled
    /\ \/ ~ known /\ UNCHANGED changes
       \/ known /\ changes < MaxChanges /\ changes' = changes + 1
    /\ known' = TRUE /\ stalled' = TRUE
    /\ mpp_out' = Append(mpp_out, InfoChange)
    /\ UNCHANGED <<outerVars, decodeVars, sent, mpp_in, decoded>>

DecodeStep ==
    \/ PutPacket \/ GetFrame \/ GetTimesOut \/ GetNothing \/ InfoChangeReady
    \/ InfoChangeFails \/ DeliverFrame \/ EndTurn

MppStep == MppDecodePacket \/ MppInfoChange

TrackFrame == UnsupportedCodec \/ InitFails \/ InitSucceeds \/ Decode

Next == AddDelegate \/ TrackFrame \/ DecodeStep \/ DeleteDecoder \/ MppStep

Spec == Init /\ [][Next]_vars

(* The media thread runs, and so does the decoder when it can.  No packet  *)
(* need arrive.                                                            *)
Fairness == WF_vars(DecodeStep) /\ WF_vars(MppStep)

FairSpec == Spec /\ Fairness

-----------------------------------------------------------------------------
Frames == 0..MaxPackets

InCall == {"put", "get", "change", "deliver", "end"}

(* Every variable has its type.                                            *)
TypeOK ==
    /\ codec_known \in BOOLEAN /\ delegate \in BOOLEAN /\ decoder \in BOOLEAN
    /\ contexts \in Nat /\ cfgs \in Nat /\ lost \in Nat
    /\ pc \in InCall \cup {"idle", "crashed", "gone"}
    /\ pkt \in 0..MaxPackets /\ pkt_done \in BOOLEAN /\ times \in 0..Retries
    /\ frame \in Frames \cup {NoFrame}
    /\ frm_grp \in BOOLEAN /\ setup_failed \in BOOLEAN /\ leaked \in Nat
    /\ delivered \in Seq(Frames)
    /\ sent \in Seq(1..MaxPackets)
    /\ mpp_in \in Seq(1..MaxPackets) /\ Len(mpp_in) <= QueueSize
    /\ mpp_out \in Seq(Frames)
    /\ decoded \in Nat /\ changes \in 0..MaxChanges
    /\ known \in BOOLEAN /\ stalled \in BOOLEAN

Announced == mpp_out # <<>> /\ mpp_out[Len(mpp_out)] = InfoChange

(* Every picture the decoder made reaches the callback once, in stream     *)
(* order, or is still waiting, before any announcement of new geometry:    *)
(* retries, timeouts, errors and changes of geometry skip none             *)
(* (mpp_decoder.cpp:145-288).                                              *)
NoPictureSkipped ==
    LET waiting == IF Announced THEN SubSeq(mpp_out, 1, Len(mpp_out) - 1) ELSE mpp_out
        inHand  == IF pc = "deliver" THEN <<frame>> ELSE <<>>
    IN  delivered \o inHand \o waiting = [i \in 1..decoded |-> i]

(* The decoder is given every packet from the one it was made with, each   *)
(* once and in order, however often Decode has to offer one; only packets  *)
(* that met no decoder are missing (main.cpp:312-329, mpp_decoder.cpp:135).*)
PacketsPutOnce ==
    LET offered == IF decoder /\ pc # "idle" /\ ~ pkt_done THEN 1 ELSE 0
    IN  /\ \A i \in 1..Len(sent) : sent[i] = lost + i
        /\ pkt = lost + Len(sent) + offered

(* Every frame taken from the decoder is given back before the next one is *)
(* asked for, and by the destructor at the latest, so that the pool cannot *)
(* run dry.  A failed handshake costs the one empty frame in its hands, no *)
(* more: it is kept in the member until it is overwritten                  *)
(* (mpp_decoder.cpp:150, 182-218, 250).                                    *)
FramesAccounted ==
    LET stale == IF frame # NoFrame /\ pc \in {"idle", "put", "get", "end"} THEN 1 ELSE 0
        cost  == IF setup_failed THEN 1 ELSE 0
    IN  IF pc = "gone" THEN frame = NoFrame /\ leaked <= cost
                       ELSE leaked + stale = cost

(* A working decoder costs one context and no configuration; what failed   *)
(* attempts leave behind is bounded by the packets they lost               *)
(* (mpp_decoder.cpp:53-93, main.cpp:321).                                  *)
InitLeaksBounded ==
    LET made == IF sent # <<>> \/ decoder THEN 1 ELSE 0
    IN  contexts <= lost + made /\ cfgs <= lost /\ made <= contexts

(* The decoder stands still only while its announcement is on the way to   *)
(* Decode or in its hands, unless the handshake failed.                    *)
StallIsBeingAnswered ==
    stalled /\ ~ setup_failed =>
        Announced \/ pc = "change"

(* Every call of Decode returns: the packet finds room because the same    *)
(* loop takes out the pictures and answers the handshake that keep the     *)
(* decoder from making room.  Only a failed handshake may keep the media   *)
(* thread in the loop for good (mpp_decoder.cpp:135-307).                  *)
DecodeReturns == (pc \in InCall) ~> (pc = "idle" \/ setup_failed)
=============================================================================

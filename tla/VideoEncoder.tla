---------------------------- MODULE VideoEncoder ----------------------------
(***************************************************************************)
(* RKEncodeVideo: one owner (the thread that calls Initencoder, WriteData  *)
(* and in the end the destructor; in the program these calls never         *)
(* overlap), the receiving thread EncRecvThread, and the Rockchip encoder  *)
(* behind MppApi, which works asynchronously on the one m_frame_buf.       *)
(***************************************************************************)
EXTENDS Naturals, Sequences

CONSTANTS
    Fps,         \* m_frame_info.fps; main may set it to 0 (main.cpp:343)
    PtsModulus,  \* 2^32 in the code: m_frame_index * 1000 / fps on uint32_t
    MaxPictures, \* bound on the pictures written
    QueueSize,   \* how many frames the encoder accepts ahead (external)
    Pictures,    \* the sizes of pictures the stream may have
    None         \* a null pointer, or no picture

ASSUME FpsAssumption == Fps \in Nat /\ PtsModulus \in Nat \ {0}
ASSUME BoundAssumption == MaxPictures \in Nat /\ QueueSize \in Nat \ {0}
ASSUME NoneAssumption == None \notin Nat

(* The picture and the lines and columns the decoder pads it to, in pixels. *)
Size == [width : Nat, height : Nat, hor_stride : Nat, ver_stride : Nat]
ASSUME PictureAssumption == Pictures \subseteq Size

Resources == {"m_grpbuffer", "m_frame_buf", "m_pkt_buf", "m_mppctx", "m_mppcfg"}

VARIABLES
    opc, init_step,              \* the owner: program counter, step of Initencoder
    ptr, acquired, released,     \* per resource: pointer set, times taken, times given back
    m_is_running, m_put_num, m_encode_num, m_frame_index,
    picture,                     \* the picture WriteData is given, numbered
    rpc, packet,                 \* EncRecvThread: program counter, packet in hand
    packets,                     \* MppPackets it took and has not given back
    geom,                        \* the picture the encoder was made for, the first
    frame_buf, copied,           \* the pixels in m_frame_buf, bytes last copied there
    mpp_in, mpp_out,             \* frames accepted, packets not fetched yet (external)
    coded                        \* what the callback was given

ownerVars == <<opc, init_step, ptr, acquired, released, m_is_running, picture>>
recvVars  == <<rpc, packet, packets, m_encode_num, m_frame_index, coded>>
mppVars   == <<mpp_in, mpp_out>>
sizeVars  == <<geom, copied>>
vars == <<ownerVars, recvVars, mppVars, m_put_num, frame_buf, sizeVars>>

-----------------------------------------------------------------------------
(* InitMppEnc and GetFrameSize, for the one format in use, YUV420SP.       *)
Align16(x) == ((x + 15) \div 16) * 16

(* What m_frame_buf holds: GetFrameSize of InitMppEnc's width and height.  *)
FrameSize == (Align16(geom.width) * Align16(geom.height) * 3) \div 2

(* What WriteData is told to copy: the padded picture, as the decoder gave *)
(* it.                                                                     *)
CopySize(p) == (p.hor_stride * p.ver_stride * 3) \div 2

-----------------------------------------------------------------------------
(* What Initencoder does in order, and what each call acquires; "" for a   *)
(* call that only may fail.                                                *)
InitSteps == <<"m_grpbuffer", "m_frame_buf", "m_pkt_buf",   \* AllocterDrmbuf
               "", "m_mppctx", "", "", "", "m_mppcfg", "",  \* InitMppAPI
               "">>                                         \* SetMppEncCfg

Init ==
    /\ opc = "init" /\ init_step = 1
    /\ ptr = [r \in Resources |-> FALSE]
    /\ acquired = [r \in Resources |-> 0] /\ released = [r \in Resources |-> 0]
    /\ m_is_running = TRUE
    /\ m_put_num = 0 /\ m_encode_num = 0 /\ m_frame_index = 0
    /\ picture = 0
    /\ rpc = "none" /\ packet = None /\ packets = 0
    /\ geom \in Pictures /\ copied = 0
    /\ frame_buf = None /\ mpp_in = <<>> /\ mpp_out = <<>> /\ coded = <<>>

(* One call of Initencoder succeeds.                                       *)
InitStep ==
    /\ opc = "init" /\ init_step <= Len(InitSteps)
    /\ LET r == InitSteps[init_step] IN
          IF r = "" THEN UNCHANGED <<ptr, acquired>>
          ELSE /\ ptr' = [ptr EXCEPT ![r] = TRUE]
               /\ acquired' = [acquired EXCEPT ![r] = @ + 1]
    /\ init_step' = init_step + 1
    /\ UNCHANGED <<opc, released, m_is_running, picture, recvVars, mppVars,
                   m_put_num, frame_buf, sizeVars>>

(* One call fails: Initencoder returns and the owner deletes the object.   *)
InitFails ==
    /\ opc = "init" /\ init_step <= Len(InitSteps)
    /\ opc' = "stop"
    /\ UNCHANGED <<init_step, ptr, acquired, released, m_is_running, picture,
                   recvVars, mppVars, m_put_num, frame_buf, sizeVars>>

(* m_is_running = true and the receiving thread starts.                    *)
StartRecvThread ==
    /\ opc = "init" /\ init_step > Len(InitSteps)
    /\ opc' = "idle" /\ rpc' = "start"
    /\ m_is_running' = TRUE
    /\ UNCHANGED <<init_step, ptr, acquired, released, picture, packet, packets,
                   m_encode_num, m_frame_index, coded, mppVars, m_put_num, frame_buf,
                   sizeVars>>

(* WriteData: a buffer without an address drops the picture; otherwise the *)
(* picture, of whatever size the stream has by now, overwrites the one     *)
(* frame buffer.  Nothing stops it at the buffer's end: writing past it    *)
(* ends the process or, seen from here, does nothing ...                   *)
WriteData ==
    /\ opc = "idle" /\ picture < MaxPictures
    /\ picture' = picture + 1
    /\ \/ opc' = "idle" /\ UNCHANGED <<frame_buf, copied>>
       \/ \E p \in Pictures :
             /\ copied' = CopySize(p)
             /\ frame_buf' = picture + 1
             /\ \/ opc' = "put"
                \/ opc' = "crashed" /\ CopySize(p) > FrameSize
    /\ UNCHANGED <<init_step, ptr, acquired, released, m_is_running, recvVars,
                   mppVars, m_put_num, geom>>

(* Mutant: a frame the encoder refused is counted as well.                 *)
PutFrameCountsRefused ==
    /\ opc = "put"
    /\ \/ /\ Len(mpp_in) < QueueSize
          /\ mpp_in' = Append(mpp_in, picture)
       \/ UNCHANGED mpp_in
    /\ opc' = "count"
    /\ UNCHANGED <<init_step, ptr, acquired, released, m_is_running, picture,
                   recvVars, mpp_out, m_put_num, frame_buf, sizeVars>>

(* ... is offered to the encoder, without waiting: a full encoder or a     *)
(* frame that cannot be made drop the picture ...                          *)
PutFrame ==
    /\ opc = "put"
    /\ \/ /\ Len(mpp_in) < QueueSize
          /\ mpp_in' = Append(mpp_in, picture)
          /\ opc' = "count"
       \/ opc' = "idle" /\ UNCHANGED mpp_in
    /\ UNCHANGED <<init_step, ptr, acquired, released, m_is_running, picture,
                   recvVars, mpp_out, m_put_num, frame_buf, sizeVars>>

(* Mutant: the count is forgotten.                                         *)
CountPutForgotten ==
    /\ opc = "count"
    /\ opc' = "idle"
    /\ UNCHANGED <<init_step, ptr, acquired, released, m_is_running, picture,
                   recvVars, mppVars, m_put_num, frame_buf, sizeVars>>

(* ... and is counted.                                                     *)
CountPut ==
    /\ opc = "count"
    /\ m_put_num' = m_put_num + 1
    /\ opc' = "idle"
    /\ UNCHANGED <<init_step, ptr, acquired, released, m_is_running, picture,
                   recvVars, mppVars, frame_buf, sizeVars>>

(* The destructor: the flag, the join, the resources that are set.         *)
(* Release forgets every pointer but m_mppctx.                             *)
Delete ==
    /\ opc = "idle"
    /\ opc' = "stop"
    /\ UNCHANGED <<init_step, ptr, acquired, released, m_is_running, picture,
                   recvVars, mppVars, m_put_num, frame_buf, sizeVars>>

StopRunning ==
    /\ opc = "stop"
    /\ m_is_running' = FALSE
    /\ opc' = "join"
    /\ UNCHANGED <<init_step, ptr, acquired, released, picture, recvVars, mppVars,
                   m_put_num, frame_buf, sizeVars>>

JoinAndFree ==
    /\ opc = "join" /\ rpc \in {"none", "exit"}
    /\ released' = [r \in Resources |-> released[r] + (IF ptr[r] THEN 1 ELSE 0)]
    /\ ptr' = [r \in Resources |-> r = "m_mppctx" /\ ptr[r]]
    /\ opc' = "gone"
    /\ UNCHANGED <<init_step, acquired, m_is_running, picture, recvVars, mppVars,
                   m_put_num, frame_buf, sizeVars>>

-----------------------------------------------------------------------------
(* EncRecvThread, which ends with the process.                             *)

(* It makes a packet on m_pkt_buf, if that succeeds, and nothing gives it  *)
(* back: encode_get_packet overwrites the handle, or the thread ends.      *)
RecvStart ==
    /\ opc # "crashed" /\ rpc = "start"
    /\ packets' \in {packets, packets + 1}
    /\ rpc' = "loop"
    /\ UNCHANGED <<ownerVars, packet, m_encode_num, m_frame_index, coded, mppVars,
                   m_put_num, frame_buf, sizeVars>>

(* Mutant: while (true).                                                   *)
RecvLoopIgnoresFlag ==
    /\ opc # "crashed" /\ rpc = "loop"
    /\ rpc' = IF m_encode_num = m_put_num THEN "loop" ELSE "get"
    /\ UNCHANGED <<ownerVars, packet, packets, m_encode_num, m_frame_index, coded, mppVars,
                   m_put_num, frame_buf, sizeVars>>

(* The loop test, then: sleep while every frame put has been answered,     *)
(* otherwise wait for the encoder.                                         *)
RecvLoop ==
    /\ opc # "crashed" /\ rpc = "loop"
    /\ rpc' = IF ~ m_is_running THEN "exit"
              ELSE IF m_encode_num = m_put_num THEN "loop" ELSE "get"
    /\ UNCHANGED <<ownerVars, packet, packets, m_encode_num, m_frame_index, coded, mppVars,
                   m_put_num, frame_buf, sizeVars>>

(* Mutant: the packet is not counted.                                      *)
GetPacketUncounted ==
    /\ opc # "crashed" /\ rpc = "get" /\ mpp_out # <<>>
    /\ packet' = Head(mpp_out) /\ mpp_out' = Tail(mpp_out) /\ packets' = packets + 1
    /\ rpc' = "package"
    /\ UNCHANGED <<ownerVars, m_encode_num, m_frame_index, coded, mpp_in, m_put_num,
                   frame_buf, sizeVars>>

(* Mutant: the packet that was finished last is taken first.               *)
GetPacketNewest ==
    /\ opc # "crashed" /\ rpc = "get" /\ mpp_out # <<>>
    /\ packet' = mpp_out[Len(mpp_out)] /\ packets' = packets + 1
    /\ mpp_out' = SubSeq(mpp_out, 1, Len(mpp_out) - 1)
    /\ m_encode_num' = m_encode_num + 1
    /\ rpc' = "package"
    /\ UNCHANGED <<ownerVars, m_frame_index, coded, mpp_in, m_put_num, frame_buf, sizeVars>>

(* encode_get_packet blocks until there is a packet; it may also fail.     *)
GetPacket ==
    /\ opc # "crashed" /\ rpc = "get" /\ mpp_out # <<>>
    /\ packet' = Head(mpp_out) /\ mpp_out' = Tail(mpp_out) /\ packets' = packets + 1
    /\ m_encode_num' = m_encode_num + 1
    /\ rpc' = "package"
    /\ UNCHANGED <<ownerVars, m_frame_index, coded, mpp_in, m_put_num, frame_buf, sizeVars>>

GetPacketFails ==
    /\ opc # "crashed" /\ rpc = "get"
    /\ rpc' = "loop"
    /\ UNCHANGED <<ownerVars, packet, packets, m_encode_num, m_frame_index, coded, mppVars,
                   m_put_num, frame_buf, sizeVars>>

(* Mutant: the product is kept in two bits fewer.                          *)
PtsNarrow(i) == ((i * 1000) % (PtsModulus \div 4)) \div Fps

(* m_frame_index * 1000 / fps: the build multiplies in 32 bits and divides *)
(* as uint32_t, where a division by zero gives 0 (aarch64, no trap).       *)
Pts(i) == IF Fps = 0 THEN 0 ELSE ((i * 1000) % PtsModulus) \div Fps

(* Mutant: the packet is not given back.                                   *)
PackagingKeepsPacket ==
    /\ opc # "crashed" /\ rpc = "package"
    /\ coded' = Append(coded, [packet |-> packet, pts |-> Pts(m_frame_index)])
    /\ m_frame_index' = m_frame_index + 1
    /\ packet' = None
    /\ rpc' = "loop"
    /\ UNCHANGED <<ownerVars, packets, m_encode_num, mppVars, m_put_num, frame_buf,
                   sizeVars>>

(* Packaging: the callback gets the packet and its time; the packet is     *)
(* given back.                                                             *)
Packaging ==
    /\ opc # "crashed" /\ rpc = "package"
    /\ coded' = Append(coded, [packet |-> packet, pts |-> Pts(m_frame_index)])
    /\ m_frame_index' = m_frame_index + 1
    /\ packet' = None /\ packets' = packets - 1
    /\ rpc' = "loop"
    /\ UNCHANGED <<ownerVars, m_encode_num, mppVars, m_put_num, frame_buf, sizeVars>>

-----------------------------------------------------------------------------
(* The Rockchip encoder (external): takes the frames in order and encodes  *)
(* what it then finds in the frame's buffer.                               *)
MppEncode ==
    /\ opc # "crashed" /\ mpp_in # <<>>
    /\ mpp_in' = Tail(mpp_in)
    /\ mpp_out' = Append(mpp_out, [put |-> Head(mpp_in), pixels |-> frame_buf])
    /\ UNCHANGED <<ownerVars, recvVars, m_put_num, frame_buf, sizeVars>>

RecvStep == RecvStart \/ RecvLoop \/ GetPacket \/ GetPacketFails \/ Packaging

OwnerCall == InitStep \/ StartRecvThread \/ PutFrame \/ CountPut \/ StopRunning \/ JoinAndFree

Next ==
    \/ InitStep \/ InitFails \/ StartRecvThread
    \/ WriteData \/ PutFrame \/ CountPut
    \/ Delete \/ StopRunning \/ JoinAndFree
    \/ RecvStart \/ RecvLoop \/ GetPacket \/ GetPacketFails \/ Packaging
    \/ MppEncode

Spec == Init /\ [][Next]_vars

(* Threads run, calls that began are finished, the encoder works and does  *)
(* not fail to hand out a finished packet for ever.  Nobody need write     *)
(* another picture or delete the object.                                   *)
Fairness ==
    /\ WF_vars(OwnerCall)
    /\ WF_vars(RecvStep) /\ SF_vars(GetPacket)
    /\ WF_vars(MppEncode)

FairSpec == Spec /\ Fairness

-----------------------------------------------------------------------------
(* Every variable has its type.                                            *)
Packet == [put : Nat, pixels : Nat]
TypeOK ==
    /\ opc \in {"init", "idle", "put", "count", "stop", "join", "gone", "crashed"}
    /\ init_step \in 1..(Len(InitSteps) + 1)
    /\ ptr \in [Resources -> BOOLEAN]
    /\ acquired \in [Resources -> 0..1] /\ released \in [Resources -> 0..1]
    /\ m_is_running \in BOOLEAN
    /\ m_put_num \in Nat /\ m_encode_num \in Nat /\ m_frame_index \in Nat
    /\ picture \in 0..MaxPictures
    /\ rpc \in {"none", "start", "loop", "get", "package", "exit"}
    /\ packet \in Packet \cup {None} /\ packets \in Nat
    /\ frame_buf \in Nat \cup {None}
    /\ geom \in Pictures /\ copied \in Nat
    /\ mpp_in \in Seq(Nat) /\ mpp_out \in Seq(Packet)
    /\ coded \in Seq([packet : Packet, pts : Nat])

(* The receiving thread waits for the encoder only when the encoder still  *)
(* owes it a packet (encode_video.cpp:401-405): the wait, which nothing    *)
(* else ends, is bounded by the encoder's own work.                        *)
GetOnlyWhenOwed == rpc = "get" => mpp_in # <<>> \/ mpp_out # <<>>

(* The two counters, kept by two threads without a lock, account for every *)
(* frame the encoder accepted: it is in the encoder, in the receiver's     *)
(* hand or delivered, once (encode_video.cpp:401-427, 507-512).            *)
PacketsAccounted ==
    /\ m_put_num + (IF opc = "count" THEN 1 ELSE 0)
          = m_encode_num + Len(mpp_in) + Len(mpp_out)
    /\ m_encode_num = Len(coded) + (IF rpc = "package" THEN 1 ELSE 0)

(* However far Initencoder got, deleting the object gives back each of the *)
(* five things it took, once, and not under the receiving thread.  That    *)
(* thread gives back every packet the encoder gave it.  The one it made    *)
(* itself on m_pkt_buf nobody gives back, and it is the only thing left    *)
(* (encode_video.cpp:18-48, 396, 405, 426).                                *)
ReleasedOnce ==
    opc = "gone" => released = acquired /\ rpc \in {"none", "exit"} /\ packets <= 1

(* "Pushes picture data of the given size, returns 0: success"             *)
(* (encode_video.h:98-102): a picture fits m_frame_buf.  It need not: the  *)
(* encoder is made for the first picture, and a later one may be larger    *)
(* (encode_video.cpp:494, main.cpp:190-197, 268).                          *)
CopyFits == copied <= FrameSize

(* Times do not go back while m_frame_index * 1000 is within an int: for   *)
(* 2147483 pictures, 19 hours at 30 per second (encode_video.cpp:526).     *)
PtsOrdered ==
    \A i, j \in DOMAIN coded :
        i < j /\ (j - 1) * 1000 < PtsModulus \div 2 => coded[i].pts <= coded[j].pts

(* Deleting the object ends: the join of the receiving thread returns.     *)
ReleaseCompletes == (opc = "stop") ~> (opc = "gone")

(* Every picture put is coded and delivered, unless the object is being    *)
(* deleted first or the process ends.                                      *)
PutIsDelivered ==
    \A k \in 0..(MaxPictures - 1) :
        (Len(mpp_in) > 0 /\ Len(coded) = k)
            ~> (Len(coded) > k \/ opc \in {"stop", "join", "gone", "crashed"})

(* "Pushes picture data, returns 0: success" (encode_video.h:98-102): a    *)
(* picture WriteData put is the picture that is coded.  It need not be:    *)
(* the next WriteData overwrites m_frame_buf while the encoder, which is   *)
(* asynchronous (rk_mpi.h:125), still has to read it.                      *)
CodedAsWritten == \A i \in DOMAIN coded : coded[i].packet.pixels = coded[i].packet.put
=============================================================================

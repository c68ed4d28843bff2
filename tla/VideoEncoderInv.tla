-------------------------- MODULE VideoEncoderInv --------------------------
(***************************************************************************)
(* The inductive invariant of VideoEncoder, in named parts.                *)
(***************************************************************************)
EXTENDS VideoEncoder

(* Until it is deleted the object holds what it took, and Initencoder has  *)
(* not taken anything whose step is still to come.                         *)
Holdings ==
    /\ opc # "gone" => \A r \in Resources : /\ released[r] = 0
                                            /\ acquired[r] = (IF ptr[r] THEN 1 ELSE 0)
    /\ opc = "init" => \A k \in init_step..Len(InitSteps) :
                          InitSteps[k] # "" => ~ ptr[InitSteps[k]]
    /\ opc = "init" => rpc = "none"

(* The receiving thread is never ahead of the count of frames put, and     *)
(* waits for a packet only when it is behind.                              *)
CountsInOrder ==
    /\ m_encode_num <= m_put_num
    /\ rpc = "get" => m_encode_num < m_put_num

(* The packets delivered are numbered through, each with its time.         *)
TimesComputed ==
    /\ m_frame_index = Len(coded)
    /\ \A i \in DOMAIN coded : coded[i].pts = Pts(i - 1)
    /\ rpc = "package" => packet \in Packet
    /\ opc = "put" \/ mpp_in # <<>> => frame_buf \in Nat

(* The receiving thread has the packet in its hand and the one it made at  *)
(* its start, if it could.                                                 *)
PacketsHeld ==
    /\ rpc \in {"none", "start"} => packets = 0
    /\ rpc \in {"loop", "get", "exit"} => packets \in {0, 1}
    /\ rpc = "package" => packets \in {1, 2}

EncInv ==
    /\ TypeOK /\ Holdings /\ CountsInOrder /\ TimesComputed
    /\ PacketsHeld /\ PacketsAccounted /\ ReleasedOnce

(* The pictures the encoder has accepted, from the first: those delivered, *)
(* the one in the receiver's hand, those waiting for it, those in the      *)
(* encoder.  Number is which picture the i-th of them is.                  *)
Received == Len(coded) + (IF rpc = "package" THEN 1 ELSE 0)
Accepted == Received + Len(mpp_out) + Len(mpp_in)
Number(i) ==
    IF i <= Len(coded) THEN coded[i].packet.put
    ELSE IF i <= Received THEN packet.put
    ELSE IF i <= Received + Len(mpp_out) THEN mpp_out[i - Received].put
    ELSE mpp_in[i - Received - Len(mpp_out)]

(* They are in the order they were written, none twice, none not written.  *)
InLine ==
    /\ \A i, j \in 1..Accepted : i < j => Number(i) < Number(j)
    /\ \A i \in 1..Accepted : /\ Number(i) \in Nat /\ Number(i) <= picture
                              /\ opc = "put" => Number(i) < picture

(* The callback is given the pictures in the order WriteData was, each at  *)
(* most once, although the encoder may refuse some and works on others     *)
(* while packets wait (encode_video.cpp:401-427, 490-512).                 *)
CodedInOrder ==
    \A i, j \in DOMAIN coded : i < j => coded[i].packet.put < coded[j].packet.put

(* No step takes a picture out of the line, or changes its place there: it *)
(* only gets longer.                                                       *)
LineOnlyGrows ==
    [][Accepted' >= Accepted /\ \A i \in 1..Accepted : Number(i)' = Number(i)]_vars
=============================================================================

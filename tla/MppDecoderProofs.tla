-------------------------- MODULE MppDecoderProofs --------------------------
(***************************************************************************)
(* Proofs about MppDecoder for any number of packets and changes of        *)
(* geometry, any queue and pool and any number of tries: DecInv is         *)
(* inductive, and the safety properties follow from it.                    *)
(***************************************************************************)
EXTENDS MppDecoderInv, SequenceTheorems, TLAPS

(* The parts of the type invariant about sequences.                        *)
LEMMA Types ==
    ASSUME DecInv
    PROVE  /\ mpp_in \in Seq(1..MaxPackets) /\ Len(mpp_in) <= QueueSize
           /\ sent \in Seq(1..MaxPackets) /\ mpp_out \in Seq(Frames)
           /\ lost \in Nat /\ decoded \in Nat
  BY DEF DecInv, TypeOK

(* There are no more pictures than packets, so a picture is never taken    *)
(* for NoFrame.                                                            *)
LEMMA Counts ==
    ASSUME DecInv
    PROVE  /\ Len(sent) \in Nat /\ Len(sent) <= MaxPackets /\ Len(mpp_in) \in Nat
           /\ decoded + Len(mpp_in) <= Len(sent)
           /\ pc = "deliver" => frame \in 1..MaxPackets
<1>1. Len(sent) \in Nat /\ Len(sent) <= MaxPackets /\ Len(mpp_in) \in Nat
  BY BoundAssumption DEF DecInv, TypeOK, PacketsPutOnce
<1>2. decoded + Len(mpp_in) <= Len(sent)
  BY DEF DecInv, Lifecycle
<1>3. Waiting \in Nat /\ Len(delivered) \in Nat
  BY DEF DecInv, TypeOK, Waiting, Announced
<1>4. pc = "deliver" => frame = Len(delivered) + 1 /\ decoded = Len(delivered) + 1 + Waiting
  BY DEF DecInv, PicturesInOrder, Taken
<1> QED
  BY <1>1, <1>2, <1>3, <1>4, BoundAssumption

(* Init establishes every part: nothing has been sent, held or made.       *)
LEMMA InitInv == Init => DecInv
<1> SUFFICES ASSUME Init PROVE DecInv
  OBVIOUS
<1>1. TypeOK
  <2>1. <<>> \in Seq(Frames) /\ <<>> \in Seq(1..MaxPackets) /\ Len(<<>>) = 0
    BY EmptySeq
  <2>2. /\ pkt \in 0..MaxPackets /\ times \in 0..Retries /\ changes \in 0..MaxChanges
        /\ contexts \in Nat /\ cfgs \in Nat /\ lost \in Nat /\ leaked \in Nat
        /\ decoded \in Nat /\ 0 <= QueueSize
    BY BoundAssumption DEF Init
  <2> QED
    BY <2>1, <2>2 DEF Init, TypeOK
<1>2. PicturesInOrder /\ Handshake /\ StallIsBeingAnswered
  BY DEF Init, PicturesInOrder, Handshake, StallIsBeingAnswered, Waiting, Taken, Announced
<1>3. Lifecycle
  BY DEF Init, Lifecycle, InCall
<1>4. PacketsPutOnce /\ FramesAccounted /\ InitLeaksBounded
  BY DEF Init, PacketsPutOnce, FramesAccounted, InitLeaksBounded
<1> QED
  BY <1>1, <1>2, <1>3, <1>4 DEF DecInv

(* The player's callback changes the rate the next decoder gets, no more.  *)
LEMMA AddDelegatePreserves ==
    ASSUME DecInv, AddDelegate
    PROVE  DecInv'
<1>1. /\ UNCHANGED <<codec_known, lifeVars, decodeVars, mppVars>>
      /\ delegate' \in BOOLEAN
  BY DEF DecInv, TypeOK, AddDelegate
<1>2. TypeOK'
  BY <1>1 DEF DecInv, TypeOK, lifeVars, decodeVars, mppVars
<1>3. PicturesInOrder' /\ Handshake' /\ StallIsBeingAnswered'
  BY <1>1 DEF DecInv, PicturesInOrder, Handshake, StallIsBeingAnswered, Waiting, Taken,
     Announced, decodeVars, mppVars
<1>4. Lifecycle'
  BY <1>1 DEF DecInv, Lifecycle, lifeVars, decodeVars, mppVars
<1>5. PacketsPutOnce' /\ FramesAccounted' /\ InitLeaksBounded'
  BY <1>1 DEF DecInv, PacketsPutOnce, FramesAccounted, InitLeaksBounded, lifeVars,
     decodeVars, mppVars
<1> QED
  BY <1>2, <1>3, <1>4, <1>5 DEF DecInv

(* Types after a packet of an unknown codec.                               *)
LEMMA UnsupportedCodecTypes ==
    ASSUME DecInv, UnsupportedCodec
    PROVE  TypeOK'
<1>1. pkt' \in 0..MaxPackets
  BY BoundAssumption DEF DecInv, TypeOK, UnsupportedCodec, PacketArrives
<1>2. lost' \in Nat
  BY DEF DecInv, TypeOK, UnsupportedCodec
<1>3. pc' \in InCall \cup {"idle", "crashed", "gone"} /\ pkt_done' \in BOOLEAN
  BY DEF UnsupportedCodec, PacketArrives, InCall
<1> QED
  BY <1>1, <1>2, <1>3 DEF DecInv, TypeOK, UnsupportedCodec, playVars, mppVars

(* A packet of an unknown codec is lost; nothing has been sent yet.        *)
LEMMA UnsupportedCodecPreserves ==
    ASSUME DecInv, UnsupportedCodec
    PROVE  DecInv'
<1>1. TypeOK'
  BY UnsupportedCodecTypes
<1>2. PicturesInOrder'
  BY BoundAssumption DEF DecInv, PicturesInOrder, Waiting, Taken, Announced,
     UnsupportedCodec, PacketArrives, playVars, mppVars
<1>3. Handshake' /\ StallIsBeingAnswered'
  BY BoundAssumption DEF DecInv, TypeOK, PicturesInOrder, Handshake,
     StallIsBeingAnswered, Waiting, Taken, Announced, InfoChange,
     UnsupportedCodec, PacketArrives, playVars, mppVars
<1>4. Lifecycle'
  BY BoundAssumption DEF DecInv, TypeOK, Lifecycle, InCall,
     PacketsPutOnce, UnsupportedCodec, PacketArrives, playVars, mppVars
<1>5. PacketsPutOnce'
  BY BoundAssumption DEF DecInv, TypeOK, Lifecycle, InCall, PacketsPutOnce,
     UnsupportedCodec, PacketArrives, playVars, mppVars
<1>6. FramesAccounted'
  BY BoundAssumption DEF DecInv, TypeOK, Lifecycle, Handshake, FramesAccounted,
     InCall, NoFrame, InfoChange, Frames, UnsupportedCodec, PacketArrives,
     playVars, mppVars
<1>7. InitLeaksBounded'
  BY BoundAssumption DEF DecInv, TypeOK, Lifecycle, InitLeaksBounded,
     PacketsPutOnce, InCall, UnsupportedCodec, PacketArrives, playVars, mppVars
<1> QED
  BY <1>1, <1>2, <1>3, <1>4, <1>5, <1>6, <1>7 DEF DecInv

(* Types after Init failed.                                                *)
LEMMA InitFailsTypes ==
    ASSUME DecInv, InitFails
    PROVE  TypeOK'
<1>1. pkt' \in 0..MaxPackets
  BY BoundAssumption DEF DecInv, TypeOK, InitFails, PacketArrives
<1>2. contexts' \in Nat /\ cfgs' \in Nat /\ lost' \in Nat
  BY DEF DecInv, TypeOK, InitFails
<1>3. pc' \in InCall \cup {"idle", "crashed", "gone"} /\ pkt_done' \in BOOLEAN
  BY DEF InitFails, PacketArrives, InCall
<1> QED
  BY <1>1, <1>2, <1>3 DEF DecInv, TypeOK, InitFails, playVars, mppVars

(* A failed Init loses its packet and at most one context and one          *)
(* configuration.                                                          *)
LEMMA InitFailsPreserves ==
    ASSUME DecInv, InitFails
    PROVE  DecInv'
<1>1. TypeOK'
  BY InitFailsTypes
<1>2. PicturesInOrder'
  BY BoundAssumption DEF DecInv, PicturesInOrder, Waiting, Taken, Announced,
     InitFails, PacketArrives, playVars, mppVars
<1>3. Handshake' /\ StallIsBeingAnswered'
  BY BoundAssumption DEF DecInv, TypeOK, PicturesInOrder, Handshake,
     StallIsBeingAnswered, Waiting, Taken, Announced, InfoChange, InitFails,
     PacketArrives, playVars, mppVars
<1>4. Lifecycle'
  BY BoundAssumption DEF DecInv, TypeOK, Lifecycle, InCall,
     PacketsPutOnce, InitFails, PacketArrives, playVars, mppVars
<1>5. PacketsPutOnce'
  BY BoundAssumption DEF DecInv, TypeOK, Lifecycle, InCall, PacketsPutOnce,
     InitFails, PacketArrives, playVars, mppVars
<1>6. FramesAccounted'
  BY BoundAssumption DEF DecInv, TypeOK, Lifecycle, Handshake, FramesAccounted,
     InCall, NoFrame, InfoChange, Frames, InitFails, PacketArrives, playVars,
     mppVars
<1>7. InitLeaksBounded'
  BY BoundAssumption DEF DecInv, TypeOK, Lifecycle, InitLeaksBounded,
     PacketsPutOnce, InCall, InitFails, PacketArrives, playVars, mppVars
<1> QED
  BY <1>1, <1>2, <1>3, <1>4, <1>5, <1>6, <1>7 DEF DecInv

(* Types after a decoder was made.                                         *)
LEMMA InitSucceedsTypes ==
    ASSUME DecInv, InitSucceeds
    PROVE  TypeOK'
<1>1. pkt' \in 0..MaxPackets
  BY BoundAssumption DEF DecInv, TypeOK, InitSucceeds, PacketArrives
<1>2. contexts' \in Nat
  BY DEF DecInv, TypeOK, InitSucceeds
<1>3. pc' \in InCall \cup {"idle", "crashed", "gone"} /\ pkt_done' \in BOOLEAN
  BY DEF InitSucceeds, PacketArrives, InCall
<1>4. decoder' \in BOOLEAN
  BY DEF DecInv, TypeOK, InitSucceeds
<1> QED
  BY <1>1, <1>2, <1>3, <1>4 DEF DecInv, TypeOK, InitSucceeds, playVars, mppVars

(* The decoder begins with the packet it was made for.                     *)
LEMMA InitSucceedsPreserves ==
    ASSUME DecInv, InitSucceeds
    PROVE  DecInv'
<1>1. TypeOK'
  BY InitSucceedsTypes
<1>2. PicturesInOrder'
  BY BoundAssumption DEF DecInv, PicturesInOrder, Waiting, Taken, Announced,
     InitSucceeds, PacketArrives, playVars, mppVars
<1>3. Handshake' /\ StallIsBeingAnswered'
  BY BoundAssumption DEF DecInv, TypeOK, PicturesInOrder, Handshake,
     StallIsBeingAnswered, Waiting, Taken, Announced, InfoChange, InitSucceeds,
     PacketArrives, playVars, mppVars
<1>4. Lifecycle'
  BY BoundAssumption DEF DecInv, TypeOK, Lifecycle, InCall,
     PacketsPutOnce, InitSucceeds, PacketArrives, playVars, mppVars
<1>5. PacketsPutOnce'
  BY BoundAssumption DEF DecInv, TypeOK, Lifecycle, InCall, PacketsPutOnce,
     InitSucceeds, PacketArrives, playVars, mppVars
<1>6. FramesAccounted'
  BY BoundAssumption DEF DecInv, TypeOK, Lifecycle, Handshake, FramesAccounted,
     InCall, NoFrame, InfoChange, Frames, InitSucceeds, PacketArrives, playVars,
     mppVars
<1>7. InitLeaksBounded'
  BY BoundAssumption DEF DecInv, TypeOK, Lifecycle, InitLeaksBounded,
     PacketsPutOnce, InCall, InitSucceeds, PacketArrives, playVars, mppVars
<1> QED
  BY <1>1, <1>2, <1>3, <1>4, <1>5, <1>6, <1>7 DEF DecInv

(* Types after a packet came to a decoder that exists.                     *)
LEMMA DecodeTypes ==
    ASSUME DecInv, Decode
    PROVE  TypeOK'
<1>1. pkt' \in 0..MaxPackets
  BY BoundAssumption DEF DecInv, TypeOK, Decode, PacketArrives
<1>2. pc' \in InCall /\ pkt_done' \in BOOLEAN
  BY DEF Decode, PacketArrives, InCall
<1> QED
  BY <1>1, <1>2 DEF DecInv, TypeOK, Decode, outerVars, playVars, lifeVars, mppVars

(* The next packet is offered.                                             *)
LEMMA DecodePreserves ==
    ASSUME DecInv, Decode
    PROVE  DecInv'
<1>1. TypeOK'
  BY DecodeTypes
<1>2. PicturesInOrder'
  BY BoundAssumption DEF DecInv, PicturesInOrder, Waiting, Taken, Announced,
     Decode, PacketArrives, outerVars, mppVars, playVars, lifeVars
<1>3. Handshake' /\ StallIsBeingAnswered'
  BY BoundAssumption DEF DecInv, TypeOK, PicturesInOrder, Handshake,
     StallIsBeingAnswered, Waiting, Taken, Announced, InfoChange, Decode,
     PacketArrives, outerVars, mppVars, playVars, lifeVars
<1>4. Lifecycle'
  BY BoundAssumption DEF DecInv, TypeOK, Lifecycle, InCall,
     PacketsPutOnce, Decode, PacketArrives, outerVars, mppVars, playVars,
     lifeVars
<1>5. PacketsPutOnce'
  BY BoundAssumption DEF DecInv, TypeOK, Lifecycle, InCall, PacketsPutOnce,
     Decode, PacketArrives, outerVars, mppVars, playVars, lifeVars
<1>6. FramesAccounted'
  BY BoundAssumption DEF DecInv, TypeOK, Lifecycle, Handshake, FramesAccounted,
     InCall, NoFrame, InfoChange, Frames, Decode, PacketArrives, outerVars,
     mppVars, playVars, lifeVars
<1>7. InitLeaksBounded'
  BY BoundAssumption DEF DecInv, TypeOK, Lifecycle, InitLeaksBounded,
     PacketsPutOnce, InCall, Decode, PacketArrives, outerVars, mppVars, playVars,
     lifeVars
<1> QED
  BY <1>1, <1>2, <1>3, <1>4, <1>5, <1>6, <1>7 DEF DecInv

(* The packet goes into the queue.                                         *)
PacketTaken ==
    /\ ~ pkt_done /\ Len(mpp_in) < QueueSize /\ pkt_done'
    /\ mpp_in' = Append(mpp_in, pkt) /\ sent' = Append(sent, pkt)

(* The packet is taken, or nothing happened to the queue.                  *)
LEMMA PutPacketTakes ==
    ASSUME PutPacket
    PROVE  PacketTaken \/ UNCHANGED <<mpp_in, sent, pkt_done>>
  BY DEF PutPacket, PacketTaken

(* The queue and the history keep their types; the queue its limit.        *)
LEMMA PutPacketTypes ==
    ASSUME DecInv, PutPacket
    PROVE  TypeOK'
<1>0. pkt \in 1..MaxPackets
  BY DEF DecInv, TypeOK, PutPacket, Lifecycle, InCall
<1>1. mpp_in' \in Seq(1..MaxPackets) /\ Len(mpp_in') <= QueueSize /\ sent' \in Seq(1..MaxPackets)
  <2>1. /\ Append(mpp_in, pkt) \in Seq(1..MaxPackets) /\ Append(sent, pkt) \in Seq(1..MaxPackets)
        /\ Len(Append(mpp_in, pkt)) = Len(mpp_in) + 1 /\ Len(mpp_in) \in Nat
    BY <1>0, Types, AppendProperties
  <2>2. CASE PacketTaken
    BY <2>1, <2>2, BoundAssumption DEF PacketTaken
  <2>3. CASE UNCHANGED <<mpp_in, sent, pkt_done>>
    BY <2>3, Types
  <2> QED
    BY <2>2, <2>3, PutPacketTakes
<1>3. pkt_done' \in BOOLEAN /\ pc' \in InCall
  BY PutPacketTakes DEF DecInv, TypeOK, PacketTaken, PutPacket, InCall
<1>4. times' \in 0..Retries
  BY BoundAssumption DEF PutPacket
<1> QED
  BY <1>1, <1>3, <1>4 DEF DecInv, TypeOK, PutPacket, outerVars, playVars, lifeVars, mppVars

(* The packet is the next one, and taken once.                             *)
LEMMA PutPacketOnce ==
    ASSUME DecInv, PutPacket
    PROVE  PacketsPutOnce'
<1>1. decoder /\ pc = "put" /\ pc' = "get" /\ decoder' = decoder /\ lost' = lost /\ pkt' = pkt
  BY DEF DecInv, Lifecycle, InCall, PutPacket, outerVars, lifeVars
<1>2. CASE PacketTaken
  <2>1. pkt = lost + Len(sent) + 1 /\ Len(sent) \in Nat /\ sent \in Seq(1..MaxPackets)
    BY <1>1, <1>2 DEF DecInv, TypeOK, PacketsPutOnce, PacketTaken
  <2>2. Len(sent') = Len(sent) + 1 /\ sent' = Append(sent, pkt) /\ pkt_done'
    BY <1>2, <2>1 DEF PacketTaken
  <2>3. \A i \in 1..Len(sent') : sent'[i] = lost + i
    <3>1. \A i \in 1..Len(sent) : sent[i] = lost + i
      BY DEF DecInv, PacketsPutOnce
    <3>2. pkt \in 1..MaxPackets
      BY <2>1, Types DEF DecInv, TypeOK
    <3>3. /\ \A i \in 1..Len(sent) : sent'[i] = sent[i]
          /\ sent'[Len(sent) + 1] = pkt
      BY <2>1, <2>2, <3>2, AppendProperties
    <3>4. ASSUME NEW i \in 1..Len(sent') PROVE sent'[i] = lost + i
      <4>1. CASE i \in 1..Len(sent)
        BY <3>1, <3>3, <4>1
      <4>2. CASE i = Len(sent) + 1
        BY <2>1, <3>3, <4>2, Types
      <4> QED
        BY <2>1, <2>2, <4>1, <4>2
    <3> QED
      BY <3>4
  <2>4. pkt = lost + Len(sent')
    BY <2>1, <2>2 DEF DecInv, TypeOK
  <2>5. pkt' = lost' + Len(sent') + 0
    BY <1>1, <2>1, <2>2, <2>4, Types
  <2> QED
    BY <1>1, <2>2, <2>3, <2>5 DEF PacketsPutOnce
<1>3. CASE UNCHANGED <<mpp_in, sent, pkt_done>>
  BY <1>1, <1>3 DEF DecInv, PacketsPutOnce
<1> QED
  BY <1>2, <1>3, PutPacketTakes

(* The offered packet is taken once.                                       *)
LEMMA PutPacketPreserves ==
    ASSUME DecInv, PutPacket
    PROVE  DecInv'
<1>1. TypeOK'
  BY PutPacketTypes
<1>2. PicturesInOrder'
  BY BoundAssumption DEF DecInv, PicturesInOrder, Waiting, Taken, Announced,
     PutPacket, outerVars, playVars, lifeVars
<1>3. Handshake' /\ StallIsBeingAnswered'
  BY BoundAssumption DEF DecInv, TypeOK, PicturesInOrder, Handshake,
     StallIsBeingAnswered, Waiting, Taken, Announced, InfoChange, PutPacket,
     outerVars, playVars, lifeVars
<1>4. Lifecycle'
  BY BoundAssumption DEF DecInv, TypeOK, Lifecycle, InCall,
     PacketsPutOnce, PutPacket, outerVars, playVars, lifeVars
<1>5. PacketsPutOnce'
  BY PutPacketOnce
<1>6. FramesAccounted'
  BY BoundAssumption DEF DecInv, TypeOK, Lifecycle, Handshake, FramesAccounted,
     InCall, NoFrame, InfoChange, Frames, PutPacket, outerVars, playVars,
     lifeVars
<1>7. InitLeaksBounded'
  BY BoundAssumption DEF DecInv, TypeOK, Lifecycle, InitLeaksBounded,
     PacketsPutOnce, InCall, PutPacket, outerVars, playVars, lifeVars
<1> QED
  BY <1>1, <1>2, <1>3, <1>4, <1>5, <1>6, <1>7 DEF DecInv

(* The head of the queue is the next picture, or the one announcement,     *)
(* after which the queue is empty.                                         *)
LEMMA GetFrameInOrder ==
    ASSUME DecInv, GetFrame
    PROVE  PicturesInOrder' /\ Handshake' /\ StallIsBeingAnswered'
<1>1. /\ Len(mpp_out) \in Nat \ {0}
      /\ Len(mpp_out') = Len(mpp_out) - 1
      /\ \A i \in 1..Len(mpp_out') : mpp_out'[i] = mpp_out[i + 1]
      /\ mpp_out' = <<>> <=> Len(mpp_out) = 1
      /\ frame' = mpp_out[1] /\ pc = "get"
  <2>1. mpp_out \in Seq(Frames) /\ mpp_out # <<>> /\ mpp_out' = Tail(mpp_out)
        /\ frame' = Head(mpp_out) /\ pc = "get"
    BY Types DEF GetFrame
  <2>2. Tail(mpp_out) \in Seq(Frames) /\ Len(Tail(mpp_out)) = Len(mpp_out) - 1
    BY <2>1, HeadTailProperties
  <2>3. \A i \in 1..Len(Tail(mpp_out)) : Tail(mpp_out)[i] = mpp_out[i + 1]
    BY <2>1, HeadTailProperties
  <2>4. Tail(mpp_out) = <<>> <=> Len(Tail(mpp_out)) = 0
    BY <2>2, EmptySeq
  <2>5. Len(mpp_out) \in Nat \ {0} /\ Head(mpp_out) = mpp_out[1]
    BY <2>1, EmptySeq
  <2> QED
    BY <2>1, <2>2, <2>3, <2>4, <2>5
<1>0. ~ setup_failed /\ UNCHANGED <<delivered, decoded, stalled, setup_failed>>
  BY DEF DecInv, GetFrame, Handshake
<1>2. CASE Len(mpp_out) = 1 /\ Announced
  <2>1. pc' = "change" /\ frame' = InfoChange /\ mpp_out' = <<>> /\ stalled
    BY <1>1, <1>2 DEF DecInv, GetFrame, Handshake, Announced
  <2>2. Waiting = 0 /\ Waiting' = 0 /\ Taken' = Taken
    BY <1>1, <1>2, <2>1 DEF Waiting, Taken, GetFrame, Announced
  <2> QED
    BY <1>1, <2>1, <2>2 DEF DecInv, GetFrame, Handshake, StallIsBeingAnswered, PicturesInOrder, Announced
<1>3. CASE ~ (Len(mpp_out) = 1 /\ Announced)
  <2>1. Waiting \in Nat \ {0} /\ Waiting' = Waiting - 1 /\ Announced' = Announced
    BY <1>1, <1>3 DEF Waiting, Announced
  <2>2. Len(delivered) \in Nat /\ Taken = Len(delivered) /\ frame' = Len(delivered) + 1
    BY <1>1, <2>1 DEF DecInv, TypeOK, PicturesInOrder, Taken
  <2>3. pc' = "deliver" /\ Taken' = Taken + 1
    BY <1>1, <2>2 DEF GetFrame, InfoChange, Taken
  <2>4. \A i \in 1..Waiting' : mpp_out'[i] = Taken' + i
    <3> SUFFICES ASSUME NEW i \in 1..Waiting' PROVE mpp_out'[i] = Taken' + i
      OBVIOUS
    <3>1. i + 1 \in 1..Waiting /\ i \in 1..Len(mpp_out')
      BY <2>1, <1>1 DEF Waiting
    <3> QED
      BY <3>1, <1>1, <2>1, <2>2, <2>3 DEF DecInv, PicturesInOrder
  <2>5. PicturesInOrder'
    <3>1. decoded' = Taken' + Waiting'
      BY <1>0, <2>1, <2>2, <2>3 DEF DecInv, PicturesInOrder
    <3> QED
      BY <1>0, <2>2, <2>3, <2>4, <3>1 DEF DecInv, PicturesInOrder
  <2>6. Handshake' /\ StallIsBeingAnswered'
    BY <1>0, <1>1, <2>1, <2>3 DEF DecInv, GetFrame, Handshake, StallIsBeingAnswered
  <2> QED
    BY <2>5, <2>6
<1> QED
  BY <1>2, <1>3

(* A frame is taken only when none is held.                                *)
LEMMA GetFramePreserves ==
    ASSUME DecInv, GetFrame
    PROVE  DecInv'
<1>1. TypeOK'
  BY BoundAssumption DEF DecInv, TypeOK, GetFrame, outerVars, playVars, lifeVars,
     Frames, InCall, NoFrame, InfoChange, Lifecycle
<1>2. PicturesInOrder'
  BY GetFrameInOrder
<1>3. Handshake' /\ StallIsBeingAnswered'
  BY GetFrameInOrder
<1>4. Lifecycle'
  BY BoundAssumption DEF DecInv, TypeOK, Lifecycle, InCall,
     PacketsPutOnce, GetFrame, outerVars, playVars, lifeVars
<1>5. PacketsPutOnce'
  BY BoundAssumption DEF DecInv, TypeOK, Lifecycle, InCall, PacketsPutOnce,
     GetFrame, outerVars, playVars, lifeVars
<1>6. FramesAccounted'
  BY BoundAssumption DEF DecInv, TypeOK, Lifecycle, Handshake, FramesAccounted,
     InCall, NoFrame, InfoChange, Frames, GetFrame, outerVars, playVars, lifeVars
<1>7. InitLeaksBounded'
  BY BoundAssumption DEF DecInv, TypeOK, Lifecycle, InitLeaksBounded,
     PacketsPutOnce, InCall, GetFrame, outerVars, playVars, lifeVars
<1> QED
  BY <1>1, <1>2, <1>3, <1>4, <1>5, <1>6, <1>7 DEF DecInv

(* A timeout changes the count of tries only.                              *)
LEMMA GetTimesOutPreserves ==
    ASSUME DecInv, GetTimesOut
    PROVE  DecInv'
<1>1. TypeOK'
  BY BoundAssumption DEF DecInv, TypeOK, GetTimesOut, outerVars, mppVars,
     playVars, lifeVars, Frames, InCall, NoFrame, InfoChange, Lifecycle
<1>2. PicturesInOrder'
  BY BoundAssumption DEF DecInv, PicturesInOrder, Waiting, Taken, Announced,
     GetTimesOut, outerVars, mppVars, playVars, lifeVars
<1>3. Handshake' /\ StallIsBeingAnswered'
  BY BoundAssumption DEF DecInv, TypeOK, PicturesInOrder, Handshake,
     StallIsBeingAnswered, Waiting, Taken, Announced, InfoChange, GetTimesOut,
     outerVars, mppVars, playVars, lifeVars
<1>4. Lifecycle'
  BY BoundAssumption DEF DecInv, TypeOK, Lifecycle, InCall,
     PacketsPutOnce, GetTimesOut, outerVars, mppVars, playVars, lifeVars
<1>5. PacketsPutOnce'
  BY BoundAssumption DEF DecInv, TypeOK, Lifecycle, InCall, PacketsPutOnce,
     GetTimesOut, outerVars, mppVars, playVars, lifeVars
<1>6. FramesAccounted'
  BY BoundAssumption DEF DecInv, TypeOK, Lifecycle, Handshake, FramesAccounted,
     InCall, NoFrame, InfoChange, Frames, GetTimesOut, outerVars, mppVars,
     playVars, lifeVars
<1>7. InitLeaksBounded'
  BY BoundAssumption DEF DecInv, TypeOK, Lifecycle, InitLeaksBounded,
     PacketsPutOnce, InCall, GetTimesOut, outerVars, mppVars, playVars, lifeVars
<1> QED
  BY <1>1, <1>2, <1>3, <1>4, <1>5, <1>6, <1>7 DEF DecInv

(* Types after a try without a frame.                                      *)
LEMMA GetNothingTypes ==
    ASSUME DecInv, GetNothing
    PROVE  TypeOK'
<1>1. frame' \in Frames \cup {NoFrame} /\ pc' \in InCall
  BY DEF DecInv, TypeOK, GetNothing, InCall
<1>2. leaked' \in Nat
  BY DEF DecInv, TypeOK, GetNothing
<1> QED
  BY <1>1, <1>2 DEF DecInv, TypeOK, GetNothing, outerVars, playVars, lifeVars, mppVars

(* What a failed handshake left may be overwritten, once.                  *)
LEMMA GetNothingPreserves ==
    ASSUME DecInv, GetNothing
    PROVE  DecInv'
<1>1. TypeOK'
  BY GetNothingTypes
<1>2. PicturesInOrder'
  BY BoundAssumption DEF DecInv, PicturesInOrder, Waiting, Taken, Announced,
     GetNothing, outerVars, mppVars, playVars, lifeVars
<1>3. Handshake' /\ StallIsBeingAnswered'
  BY BoundAssumption DEF DecInv, TypeOK, PicturesInOrder, Handshake,
     StallIsBeingAnswered, Waiting, Taken, Announced, InfoChange, GetNothing,
     outerVars, mppVars, playVars, lifeVars
<1>4. Lifecycle'
  BY BoundAssumption DEF DecInv, TypeOK, Lifecycle, InCall,
     PacketsPutOnce, GetNothing, outerVars, mppVars, playVars, lifeVars
<1>5. PacketsPutOnce'
  BY BoundAssumption DEF DecInv, TypeOK, Lifecycle, InCall, PacketsPutOnce,
     GetNothing, outerVars, mppVars, playVars, lifeVars
<1>6. FramesAccounted'
  <2>1. /\ pc = "get" /\ pc' = "end" /\ setup_failed' = setup_failed /\ leaked \in Nat
        /\ \/ frame' = frame /\ leaked' = leaked
           \/ frame' = NoFrame /\ leaked' = leaked + (IF frame = NoFrame THEN 0 ELSE 1)
    BY DEF DecInv, TypeOK, GetNothing
  <2>2. leaked + (IF frame # NoFrame THEN 1 ELSE 0) = (IF setup_failed THEN 1 ELSE 0)
    BY <2>1 DEF DecInv, FramesAccounted
  <2>3. leaked' + (IF frame' # NoFrame THEN 1 ELSE 0) = (IF setup_failed THEN 1 ELSE 0)
    BY <2>1, <2>2
  <2>4. NoFrame' = NoFrame
    BY DEF NoFrame
  <2> QED
    BY <2>1, <2>3, <2>4 DEF FramesAccounted
<1>7. InitLeaksBounded'
  BY BoundAssumption DEF DecInv, TypeOK, Lifecycle, InitLeaksBounded,
     PacketsPutOnce, InCall, GetNothing, outerVars, mppVars, playVars, lifeVars
<1> QED
  BY <1>1, <1>2, <1>3, <1>4, <1>5, <1>6, <1>7 DEF DecInv

(* The announcement is answered and given back.                            *)
LEMMA InfoChangeReadyPreserves ==
    ASSUME DecInv, InfoChangeReady
    PROVE  DecInv'
<1>1. TypeOK'
  BY BoundAssumption DEF DecInv, TypeOK, InfoChangeReady, outerVars, playVars,
     lifeVars, Frames, InCall, NoFrame, InfoChange, Lifecycle
<1>2. PicturesInOrder'
  BY BoundAssumption DEF DecInv, PicturesInOrder, Waiting, Taken, Announced,
     InfoChangeReady, outerVars, playVars, lifeVars
<1>3. Handshake' /\ StallIsBeingAnswered'
  BY BoundAssumption DEF DecInv, TypeOK, PicturesInOrder, Handshake,
     StallIsBeingAnswered, Waiting, Taken, Announced, InfoChange,
     InfoChangeReady, outerVars, playVars, lifeVars
<1>4. Lifecycle'
  BY BoundAssumption DEF DecInv, TypeOK, Lifecycle, InCall,
     PacketsPutOnce, InfoChangeReady, outerVars, playVars, lifeVars
<1>5. PacketsPutOnce'
  BY BoundAssumption DEF DecInv, TypeOK, Lifecycle, InCall, PacketsPutOnce,
     InfoChangeReady, outerVars, playVars, lifeVars
<1>6. FramesAccounted'
  BY BoundAssumption DEF DecInv, TypeOK, Lifecycle, Handshake, FramesAccounted,
     InCall, NoFrame, InfoChange, Frames, InfoChangeReady, outerVars, playVars,
     lifeVars
<1>7. InitLeaksBounded'
  BY BoundAssumption DEF DecInv, TypeOK, Lifecycle, InitLeaksBounded,
     PacketsPutOnce, InCall, InfoChangeReady, outerVars, playVars, lifeVars
<1> QED
  BY <1>1, <1>2, <1>3, <1>4, <1>5, <1>6, <1>7 DEF DecInv

(* The first failure leaves the one empty frame in the member.             *)
LEMMA InfoChangeFailsPreserves ==
    ASSUME DecInv, InfoChangeFails
    PROVE  DecInv'
<1>1. TypeOK'
  BY BoundAssumption DEF DecInv, TypeOK, InfoChangeFails, outerVars, mppVars,
     playVars, lifeVars, Frames, InCall, NoFrame, InfoChange, Lifecycle
<1>2. PicturesInOrder'
  BY BoundAssumption DEF DecInv, PicturesInOrder, Waiting, Taken, Announced,
     InfoChangeFails, outerVars, mppVars, playVars, lifeVars
<1>3. Handshake' /\ StallIsBeingAnswered'
  BY BoundAssumption DEF DecInv, TypeOK, PicturesInOrder, Handshake,
     StallIsBeingAnswered, Waiting, Taken, Announced, InfoChange,
     InfoChangeFails, outerVars, mppVars, playVars, lifeVars
<1>4. Lifecycle'
  BY BoundAssumption DEF DecInv, TypeOK, Lifecycle, InCall,
     PacketsPutOnce, InfoChangeFails, outerVars, mppVars, playVars, lifeVars
<1>5. PacketsPutOnce'
  BY BoundAssumption DEF DecInv, TypeOK, Lifecycle, InCall, PacketsPutOnce,
     InfoChangeFails, outerVars, mppVars, playVars, lifeVars
<1>6. FramesAccounted'
  BY BoundAssumption DEF DecInv, TypeOK, Lifecycle, Handshake, FramesAccounted,
     InCall, NoFrame, InfoChange, Frames, InfoChangeFails, outerVars, mppVars,
     playVars, lifeVars
<1>7. InitLeaksBounded'
  BY BoundAssumption DEF DecInv, TypeOK, Lifecycle, InitLeaksBounded,
     PacketsPutOnce, InCall, InfoChangeFails, outerVars, mppVars, playVars,
     lifeVars
<1> QED
  BY <1>1, <1>2, <1>3, <1>4, <1>5, <1>6, <1>7 DEF DecInv

(* The callback gets pictures only.                                        *)
LEMMA DeliverFrameTypes ==
    ASSUME DecInv, DeliverFrame
    PROVE  TypeOK'
<1>0. frame \in Frames
  BY Counts, BoundAssumption DEF DeliverFrame, Frames
<1>1. /\ frame' \in Frames \cup {NoFrame} /\ pc' \in InCall \cup {"idle", "crashed", "gone"}
  BY DEF DecInv, TypeOK, DeliverFrame, InCall
<1>2. delivered' \in Seq(Frames)
  BY <1>0 DEF DecInv, TypeOK, DeliverFrame
<1> QED
  BY <1>1, <1>2 DEF DecInv, TypeOK, DeliverFrame, outerVars, playVars, lifeVars, mppVars

(* The picture in hand is the next one for the callback.                   *)
LEMMA DeliverFrameInOrder ==
    ASSUME DecInv, DeliverFrame
    PROVE  PicturesInOrder'
<1>1. /\ Len(delivered) \in Nat /\ Len(delivered') = Len(delivered) + 1
      /\ \A i \in 1..Len(delivered) : delivered'[i] = delivered[i]
      /\ delivered'[Len(delivered) + 1] = Len(delivered) + 1
      /\ Taken' = Taken /\ Waiting' = Waiting /\ mpp_out' = mpp_out /\ pc' # "deliver"
  BY DEF DecInv, TypeOK, DeliverFrame, PicturesInOrder, Taken, Waiting, Announced, mppVars
<1> QED
  BY <1>1 DEF DecInv, TypeOK, PicturesInOrder, DeliverFrame, mppVars

(* The picture is delivered and given back.                                *)
LEMMA DeliverFramePreserves ==
    ASSUME DecInv, DeliverFrame
    PROVE  DecInv'
<1>1. TypeOK'
  BY DeliverFrameTypes
<1>2. PicturesInOrder'
  BY DeliverFrameInOrder
<1>3. Handshake' /\ StallIsBeingAnswered'
  BY BoundAssumption DEF DecInv, TypeOK, PicturesInOrder, Handshake,
     StallIsBeingAnswered, Waiting, Taken, Announced, InfoChange, DeliverFrame,
     outerVars, mppVars, playVars, lifeVars
<1>4. Lifecycle'
  BY DEF DecInv, Lifecycle, InCall, DeliverFrame, outerVars, mppVars, playVars, lifeVars
<1>5. PacketsPutOnce'
  BY BoundAssumption DEF DecInv, TypeOK, Lifecycle, InCall, PacketsPutOnce,
     DeliverFrame, outerVars, mppVars, playVars, lifeVars
<1>6. FramesAccounted'
  BY BoundAssumption DEF DecInv, TypeOK, Lifecycle, Handshake, FramesAccounted,
     InCall, NoFrame, InfoChange, Frames, DeliverFrame, outerVars, mppVars,
     playVars, lifeVars
<1>7. InitLeaksBounded'
  BY BoundAssumption DEF DecInv, TypeOK, Lifecycle, InitLeaksBounded,
     PacketsPutOnce, InCall, DeliverFrame, outerVars, mppVars, playVars, lifeVars
<1> QED
  BY <1>1, <1>2, <1>3, <1>4, <1>5, <1>6, <1>7 DEF DecInv

(* Decode returns only when the packet was taken.                          *)
LEMMA EndTurnPreserves ==
    ASSUME DecInv, EndTurn
    PROVE  DecInv'
<1>1. TypeOK'
  BY BoundAssumption DEF DecInv, TypeOK, EndTurn, outerVars, mppVars, playVars,
     lifeVars, Frames, InCall, NoFrame, InfoChange, Lifecycle
<1>2. PicturesInOrder'
  BY BoundAssumption DEF DecInv, PicturesInOrder, Waiting, Taken, Announced,
     EndTurn, outerVars, mppVars, playVars, lifeVars
<1>3. Handshake' /\ StallIsBeingAnswered'
  BY BoundAssumption DEF DecInv, TypeOK, PicturesInOrder, Handshake,
     StallIsBeingAnswered, Waiting, Taken, Announced, InfoChange, EndTurn,
     outerVars, mppVars, playVars, lifeVars
<1>4. Lifecycle'
  BY BoundAssumption DEF DecInv, TypeOK, Lifecycle, InCall,
     PacketsPutOnce, EndTurn, outerVars, mppVars, playVars, lifeVars
<1>5. PacketsPutOnce'
  BY BoundAssumption DEF DecInv, TypeOK, Lifecycle, InCall, PacketsPutOnce,
     EndTurn, outerVars, mppVars, playVars, lifeVars
<1>6. FramesAccounted'
  BY BoundAssumption DEF DecInv, TypeOK, Lifecycle, Handshake, FramesAccounted,
     InCall, NoFrame, InfoChange, Frames, EndTurn, outerVars, mppVars, playVars,
     lifeVars
<1>7. InitLeaksBounded'
  BY BoundAssumption DEF DecInv, TypeOK, Lifecycle, InitLeaksBounded,
     PacketsPutOnce, InCall, EndTurn, outerVars, mppVars, playVars, lifeVars
<1> QED
  BY <1>1, <1>2, <1>3, <1>4, <1>5, <1>6, <1>7 DEF DecInv

(* The destructor gives back what is held.                                 *)
LEMMA DeleteDecoderPreserves ==
    ASSUME DecInv, DeleteDecoder
    PROVE  DecInv'
<1>1. TypeOK'
  BY BoundAssumption DEF DecInv, TypeOK, DeleteDecoder, playVars, mppVars,
     Frames, InCall, NoFrame, InfoChange, Lifecycle
<1>2. PicturesInOrder'
  BY BoundAssumption DEF DecInv, PicturesInOrder, Waiting, Taken, Announced,
     DeleteDecoder, playVars, mppVars
<1>3. Handshake' /\ StallIsBeingAnswered'
  BY BoundAssumption DEF DecInv, TypeOK, PicturesInOrder, Handshake,
     StallIsBeingAnswered, Waiting, Taken, Announced, InfoChange, DeleteDecoder,
     playVars, mppVars
<1>4. Lifecycle'
  BY BoundAssumption DEF DecInv, TypeOK, Lifecycle, InCall,
     PacketsPutOnce, DeleteDecoder, playVars, mppVars
<1>5. PacketsPutOnce'
  BY BoundAssumption DEF DecInv, TypeOK, Lifecycle, InCall, PacketsPutOnce,
     DeleteDecoder, playVars, mppVars
<1>6. FramesAccounted'
  BY BoundAssumption DEF DecInv, TypeOK, Lifecycle, Handshake, FramesAccounted,
     InCall, NoFrame, InfoChange, Frames, DeleteDecoder, playVars, mppVars
<1>7. InitLeaksBounded'
  BY BoundAssumption DEF DecInv, TypeOK, Lifecycle, InitLeaksBounded,
     PacketsPutOnce, InCall, DeleteDecoder, playVars, mppVars
<1> QED
  BY <1>1, <1>2, <1>3, <1>4, <1>5, <1>6, <1>7 DEF DecInv

(* The number of a new picture is one of a packet.                         *)
LEMMA MppDecodePacketTypes ==
    ASSUME DecInv, MppDecodePacket
    PROVE  TypeOK'
<1>1. Len(mpp_in) > 0 /\ decoded \in Nat
  BY DEF DecInv, TypeOK, MppDecodePacket
<1>2. decoded + 1 \in Frames
  BY <1>1, Counts, BoundAssumption DEF Frames
<1>3. mpp_in' \in Seq(1..MaxPackets) /\ Len(mpp_in') <= QueueSize
  BY BoundAssumption DEF DecInv, TypeOK, MppDecodePacket
<1>4. \/ decoded' = decoded + 1 /\ mpp_out' = Append(mpp_out, decoded + 1)
      \/ decoded' = decoded /\ mpp_out' = mpp_out
  BY DEF MppDecodePacket
<1>5. mpp_out \in Seq(Frames) /\ Append(mpp_out, decoded + 1) \in Seq(Frames)
  BY <1>2, Types, AppendProperties
<1>6. mpp_out' \in Seq(Frames)
  BY <1>4, <1>5
<1>7. decoded' \in Nat
  BY <1>1, <1>4
<1> QED
  BY <1>3, <1>6, <1>7 DEF DecInv, TypeOK, MppDecodePacket, outerVars, playVars, lifeVars, decodeVars

(* A new picture goes behind the ones that wait; there is no announcement  *)
(* among them.                                                             *)
LEMMA MppDecodePacketInOrder ==
    ASSUME DecInv, MppDecodePacket
    PROVE  PicturesInOrder' /\ Handshake' /\ StallIsBeingAnswered' /\ Lifecycle'
<1>1. ~ stalled /\ ~ Announced /\ Waiting = Len(mpp_out) /\ Len(mpp_out) \in Nat /\ ~ setup_failed
      /\ pc # "change"
  BY DEF DecInv, TypeOK, MppDecodePacket, Handshake, Waiting
<1>2. Len(mpp_in') = Len(mpp_in) - 1 /\ Len(mpp_in) \in Nat
  BY DEF DecInv, TypeOK, MppDecodePacket
<1>3. CASE mpp_out' = Append(mpp_out, decoded + 1) /\ decoded' = decoded + 1
  <2>1. /\ Len(mpp_out') = Len(mpp_out) + 1
        /\ \A i \in 1..Len(mpp_out) : mpp_out'[i] = mpp_out[i]
        /\ mpp_out'[Len(mpp_out) + 1] = decoded + 1
    BY <1>3 DEF DecInv, TypeOK
  <2>2. ~ Announced' /\ Waiting' = Waiting + 1 /\ Taken' = Taken
    BY <1>1, <2>1 DEF DecInv, TypeOK, Announced, Waiting, Taken, InfoChange, MppDecodePacket, decodeVars
  <2>3. Taken \in Nat
    BY DEF DecInv, TypeOK, Taken
  <2>4. PicturesInOrder'
    <3>1. UNCHANGED <<delivered, pc, frame>> /\ decoded = Taken + Waiting
      BY DEF DecInv, PicturesInOrder, MppDecodePacket, decodeVars
    <3>2. decoded' = Taken' + Waiting'
      BY <1>1, <1>3, <2>2, <2>3, <3>1
    <3>3. \A i \in 1..Waiting' : mpp_out'[i] = Taken' + i
      BY <1>1, <2>1, <2>2, <2>3, <3>1 DEF DecInv, PicturesInOrder
    <3> QED
      BY <3>1, <3>2, <3>3 DEF DecInv, PicturesInOrder
  <2> QED
    BY <1>1, <1>2, <1>3, <2>2, <2>4 DEF DecInv, TypeOK, Handshake, StallIsBeingAnswered, Lifecycle,
       MppDecodePacket, decodeVars, outerVars, playVars, lifeVars
<1>4. CASE UNCHANGED <<decoded, mpp_out>>
  <2>1. PicturesInOrder' /\ Handshake' /\ StallIsBeingAnswered'
    BY <1>4 DEF DecInv, PicturesInOrder, Handshake, StallIsBeingAnswered, Waiting, Taken,
       Announced, MppDecodePacket, decodeVars
  <2>2. decoded' + Len(mpp_in') <= Len(sent')
    BY <1>2, <1>4 DEF DecInv, TypeOK, Lifecycle, MppDecodePacket
  <2> QED
    BY <2>1, <2>2 DEF DecInv, Lifecycle, MppDecodePacket, decodeVars, outerVars, playVars, lifeVars
<1> QED
  BY <1>3, <1>4 DEF MppDecodePacket

(* The decoder makes the next picture.                                     *)
LEMMA MppDecodePacketPreserves ==
    ASSUME DecInv, MppDecodePacket
    PROVE  DecInv'
<1>1. TypeOK'
  BY MppDecodePacketTypes
<1>2. PicturesInOrder'
  BY MppDecodePacketInOrder
<1>3. Handshake' /\ StallIsBeingAnswered'
  BY MppDecodePacketInOrder
<1>4. Lifecycle'
  BY MppDecodePacketInOrder
<1>5. PacketsPutOnce'
  BY BoundAssumption DEF DecInv, TypeOK, Lifecycle, InCall, PacketsPutOnce,
     MppDecodePacket, outerVars, decodeVars, playVars, lifeVars
<1>6. FramesAccounted'
  BY BoundAssumption DEF DecInv, TypeOK, Lifecycle, Handshake, FramesAccounted,
     InCall, NoFrame, InfoChange, Frames, MppDecodePacket, outerVars, decodeVars,
     playVars, lifeVars
<1>7. InitLeaksBounded'
  BY BoundAssumption DEF DecInv, TypeOK, Lifecycle, InitLeaksBounded,
     PacketsPutOnce, InCall, MppDecodePacket, outerVars, decodeVars, playVars,
     lifeVars
<1> QED
  BY <1>1, <1>2, <1>3, <1>4, <1>5, <1>6, <1>7 DEF DecInv

(* Types after an announcement.                                            *)
LEMMA MppInfoChangeTypes ==
    ASSUME DecInv, MppInfoChange
    PROVE  TypeOK'
<1>1. mpp_out' \in Seq(Frames)
  BY BoundAssumption DEF DecInv, TypeOK, MppInfoChange, Frames, InfoChange
<1>2. changes' \in 0..MaxChanges /\ known' \in BOOLEAN /\ stalled' \in BOOLEAN
  BY BoundAssumption DEF DecInv, TypeOK, MppInfoChange
<1> QED
  BY <1>1, <1>2 DEF DecInv, TypeOK, MppInfoChange, outerVars, playVars, lifeVars, decodeVars

(* An announcement goes behind every picture.                              *)
LEMMA MppInfoChangeInOrder ==
    ASSUME DecInv, MppInfoChange
    PROVE  PicturesInOrder'
<1>1. /\ ~ Announced /\ Waiting = Len(mpp_out) /\ Len(mpp_out) \in Nat
  BY DEF DecInv, TypeOK, MppInfoChange, Handshake, Waiting
<1>0. mpp_out' = Append(mpp_out, InfoChange)
  BY DEF MppInfoChange
<1>2. /\ Len(mpp_out') = Len(mpp_out) + 1 /\ mpp_out' # <<>>
      /\ \A i \in 1..Len(mpp_out) : mpp_out'[i] = mpp_out[i]
      /\ mpp_out'[Len(mpp_out) + 1] = InfoChange
  BY <1>0, Types, AppendProperties, BoundAssumption DEF InfoChange, Frames
<1>3. Announced' /\ Waiting' = Waiting /\ Taken' = Taken
  BY <1>1, <1>2 DEF Announced, Waiting, Taken, MppInfoChange, decodeVars
<1> QED
  BY <1>1, <1>2, <1>3 DEF DecInv, PicturesInOrder, MppInfoChange, decodeVars

(* The decoder announces new geometry and stands still.                    *)
LEMMA MppInfoChangePreserves ==
    ASSUME DecInv, MppInfoChange
    PROVE  DecInv'
<1>1. TypeOK'
  BY MppInfoChangeTypes
<1>2. PicturesInOrder'
  BY MppInfoChangeInOrder
<1>3. Handshake' /\ StallIsBeingAnswered'
  <2>1. /\ ~ stalled /\ stalled' = TRUE /\ mpp_out' = Append(mpp_out, InfoChange)
        /\ pc' = pc /\ setup_failed' = setup_failed
    BY DEF MppInfoChange, decodeVars
  <2>2. ~ setup_failed /\ pc # "change" /\ mpp_out \in Seq(Frames)
    BY <2>1 DEF DecInv, TypeOK, Handshake
  <2>3. InfoChange \in Frames
    BY BoundAssumption DEF InfoChange, Frames
  <2>4. mpp_out' # <<>> /\ mpp_out'[Len(mpp_out')] = InfoChange
    BY <2>1, <2>2, <2>3, AppendProperties
  <2>5. Announced'
    BY <2>4 DEF Announced, InfoChange
  <2> QED
    BY <2>1, <2>2, <2>5 DEF Handshake, StallIsBeingAnswered
<1>4. Lifecycle'
  BY BoundAssumption DEF DecInv, TypeOK, Lifecycle, InCall,
     PacketsPutOnce, MppInfoChange, outerVars, decodeVars, playVars, lifeVars
<1>5. PacketsPutOnce'
  BY BoundAssumption DEF DecInv, TypeOK, Lifecycle, InCall, PacketsPutOnce,
     MppInfoChange, outerVars, decodeVars, playVars, lifeVars
<1>6. FramesAccounted'
  BY BoundAssumption DEF DecInv, TypeOK, Lifecycle, Handshake, FramesAccounted,
     InCall, NoFrame, InfoChange, Frames, MppInfoChange, outerVars, decodeVars,
     playVars, lifeVars
<1>7. InitLeaksBounded'
  BY BoundAssumption DEF DecInv, TypeOK, Lifecycle, InitLeaksBounded,
     PacketsPutOnce, InCall, MppInfoChange, outerVars, decodeVars, playVars,
     lifeVars
<1> QED
  BY <1>1, <1>2, <1>3, <1>4, <1>5, <1>6, <1>7 DEF DecInv

(* A step that changes nothing preserves everything.                       *)
LEMMA StutterPreserves ==
    ASSUME DecInv, UNCHANGED vars
    PROVE  DecInv'
<1> USE DEF vars, outerVars, playVars, lifeVars, decodeVars, mppVars
<1>1. TypeOK'
  BY DEF DecInv, TypeOK
<1>2. PicturesInOrder' /\ Handshake' /\ StallIsBeingAnswered'
  BY DEF DecInv, PicturesInOrder, Handshake, StallIsBeingAnswered, Waiting, Taken, Announced
<1>3. Lifecycle'
  BY DEF DecInv, Lifecycle
<1>4. PacketsPutOnce' /\ FramesAccounted' /\ InitLeaksBounded'
  BY DEF DecInv, PacketsPutOnce, FramesAccounted, InitLeaksBounded
<1> QED
  BY <1>1, <1>2, <1>3, <1>4 DEF DecInv

(* DecInv holds in every reachable state: whatever the bounds, the order   *)
(* of packets, timeouts, errors and changes of geometry.                   *)
THEOREM Invariance == Spec => []DecInv
<1>1. ASSUME DecInv, [Next]_vars PROVE DecInv'
  <2>1. CASE AddDelegate
    BY <1>1, <2>1, AddDelegatePreserves
  <2>2. CASE TrackFrame
    BY <1>1, <2>2, UnsupportedCodecPreserves, InitFailsPreserves, InitSucceedsPreserves,
       DecodePreserves DEF TrackFrame
  <2>3. CASE DecodeStep
    BY <1>1, <2>3, PutPacketPreserves, GetFramePreserves, GetTimesOutPreserves,
       GetNothingPreserves, InfoChangeReadyPreserves, InfoChangeFailsPreserves,
       DeliverFramePreserves, EndTurnPreserves DEF DecodeStep
  <2>4. CASE DeleteDecoder
    BY <1>1, <2>4, DeleteDecoderPreserves
  <2>5. CASE MppStep
    BY <1>1, <2>5, MppDecodePacketPreserves, MppInfoChangePreserves DEF MppStep
  <2>6. CASE UNCHANGED vars
    BY <1>1, <2>6, StutterPreserves
  <2> QED
    BY <1>1, <2>1, <2>2, <2>3, <2>4, <2>5, <2>6 DEF Next
<1> QED
  BY InitInv, <1>1, PTL DEF Spec

(* The pictures given to the callback, in hand and waiting are all the     *)
(* decoder made, numbered through.                                         *)
LEMMA InOrderSkipsNone == DecInv => NoPictureSkipped
<1> SUFFICES ASSUME DecInv PROVE NoPictureSkipped
  OBVIOUS
<1> DEFINE waiting == IF Announced THEN SubSeq(mpp_out, 1, Len(mpp_out) - 1) ELSE mpp_out
           inHand  == IF pc = "deliver" THEN <<frame>> ELSE <<>>
           first   == delivered \o inHand
           all     == first \o waiting
<1>1. mpp_out \in Seq(Frames) /\ delivered \in Seq(Frames) /\ decoded \in Nat
  BY DEF DecInv, TypeOK
<1>2. /\ waiting \in Seq(Frames) /\ Len(waiting) = Waiting /\ Waiting \in Nat
      /\ \A i \in 1..Waiting : waiting[i] = Taken + i
  <2>1. CASE Announced
    <3> DEFINE n == Len(mpp_out) - 1
    <3>1. Len(mpp_out) \in Nat \ {0}
      BY <1>1, <2>1, EmptySeq DEF Announced
    <3>2. n \in Nat /\ Waiting = n
      BY <2>1, <3>1 DEF Waiting
    <3>3. \A i \in 1..n : mpp_out[i] \in Frames
      BY <1>1, <3>1, ElementOfSeq
    <3>4. waiting = SubSeq(mpp_out, 1, n)
      BY <2>1
    <3> HIDE DEF n
    <3>5. /\ SubSeq(mpp_out, 1, n) \in Seq(Frames)
          /\ Len(SubSeq(mpp_out, 1, n)) = IF 1 <= n THEN n - 1 + 1 ELSE 0
          /\ \A i \in 1..(n - 1 + 1) : SubSeq(mpp_out, 1, n)[i] = mpp_out[1 + i - 1]
      BY <3>2, <3>3, SubSeqProperties
    <3>6. /\ Len(SubSeq(mpp_out, 1, n)) = n
          /\ \A i \in 1..n : SubSeq(mpp_out, 1, n)[i] = mpp_out[i]
      BY <3>2, <3>5
    <3> QED
      BY <3>2, <3>4, <3>5, <3>6 DEF DecInv, PicturesInOrder
  <2>2. CASE ~ Announced
    BY <1>1, <2>2 DEF DecInv, PicturesInOrder, Waiting
  <2> QED
    BY <2>1, <2>2
<1>3. inHand \in Seq(Frames) /\ Len(inHand) = (IF pc = "deliver" THEN 1 ELSE 0)
  <2>1. CASE pc = "deliver"
    <3>1. frame \in Frames
      BY <2>1, Counts, BoundAssumption DEF Frames
    <3> QED
      BY <2>1, <3>1
  <2>2. CASE pc # "deliver"
    BY <2>2, EmptySeq
  <2> QED
    BY <2>1, <2>2
<1>4. /\ first \in Seq(Frames)
      /\ Len(first) = Taken /\ Taken \in Nat
      /\ \A i \in 1..Taken : first[i] = i
  <2>1. Len(delivered) \in Nat /\ Taken = Len(delivered) + Len(inHand)
    BY <1>1, <1>3 DEF Taken
  <2>2. \A i \in 1..Len(delivered) : delivered[i] = i
    BY DEF DecInv, PicturesInOrder
  <2>3. pc = "deliver" => inHand[1] = Len(delivered) + 1
    BY DEF DecInv, PicturesInOrder
  <2> QED
    BY <1>1, <1>3, <2>1, <2>2, <2>3, ConcatProperties
<1> HIDE DEF first, waiting
<1>5. /\ all \in Seq(Frames) /\ Len(all) = decoded
      /\ \A i \in 1..decoded : all[i] = i
  <2>1. decoded = Taken + Waiting
    BY DEF DecInv, PicturesInOrder
  <2>2. /\ all \in Seq(Frames) /\ Len(all) = Taken + Waiting
        /\ \A i \in 1..(Taken + Waiting) : all[i] = IF i <= Taken
              THEN first[i] ELSE waiting[i - Taken]
    BY <1>2, <1>4, ConcatProperties
  <2>3. ASSUME NEW i \in 1..decoded PROVE all[i] = i
    <3>1. CASE i <= Taken
      BY <1>4, <2>1, <2>2, <3>1
    <3>2. CASE ~ (i <= Taken)
      <4>1. i - Taken \in 1..Waiting
        BY <1>2, <1>4, <2>1, <3>2
      <4> QED
        BY <1>2, <1>4, <2>1, <2>2, <3>2, <4>1
    <3> QED
      BY <3>1, <3>2
  <2> QED
    BY <2>1, <2>2, <2>3
<1>6. all = [i \in 1..decoded |-> i]
  BY <1>5, LenProperties
<1> QED
  BY <1>6 DEF NoPictureSkipped, first, waiting

(* Every variable keeps its type, and the packet queue its limit.          *)
THEOREM TypeCorrect == Spec => []TypeOK
  BY Invariance, PTL DEF DecInv

(* No decoded picture is skipped, repeated or delivered out of order.      *)
THEOREM NoPictureIsSkipped == Spec => []NoPictureSkipped
  BY Invariance, InOrderSkipsNone, PTL

(* The decoder gets every packet from its first one on, once and in order. *)
THEOREM PacketsArePutOnce == Spec => []PacketsPutOnce
  BY Invariance, PTL DEF DecInv

(* No frame of the pool is lost, but for one empty frame when a handshake  *)
(* failed.                                                                 *)
THEOREM FramesAreAccounted == Spec => []FramesAccounted
  BY Invariance, PTL DEF DecInv

(* What a decoder that could not be set up leaves behind is bounded by the *)
(* packets it lost.                                                        *)
THEOREM InitLeaksAreBounded == Spec => []InitLeaksBounded
  BY Invariance, PTL DEF DecInv

(* A decoder that stands still will be answered.                           *)
THEOREM StallsAreAnswered == Spec => []StallIsBeingAnswered
  BY Invariance, PTL DEF DecInv

(* Decode and the decoder never wait for each other: until a handshake     *)
(* fails, a decoder whose frames have all been taken has its whole pool    *)
(* and waits for no answer (mpp_decoder.cpp:135-307).                      *)
THEOREM DecoderIsNeverStarved == Spec => []NeverBothWait
<1>1. ASSUME DecInv, pc \in {"put", "get", "end"}, mpp_out = <<>>, ~ setup_failed
      PROVE  ~ stalled /\ frame = NoFrame
  <2>1. ~ stalled
    BY <1>1 DEF DecInv, StallIsBeingAnswered, Announced
  <2>2. frame = NoFrame
    BY <1>1 DEF DecInv, TypeOK, FramesAccounted
  <2> QED
    BY <2>1, <2>2
<1> QED
  BY Invariance, <1>1, PTL DEF NeverBothWait
=============================================================================

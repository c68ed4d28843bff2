------------------------- MODULE VideoEncoderProofs -------------------------
(***************************************************************************)
(* EncInv is an invariant of VideoEncoder: what the object holds is what   *)
(* it took, the counters account for the frames the encoder accepted, the  *)
(* receiving thread has its packets, and the times are those of the        *)
(* packets' numbers.  The properties of the module follow from it.         *)
(***************************************************************************)
EXTENDS VideoEncoderInv, SequenceTheorems, TLAPS

(* The time of a packet is a number.                                       *)
LEMMA PtsType == ASSUME NEW i \in Nat PROVE Pts(i) \in Nat
  BY FpsAssumption DEF Pts

(* The times are in the order of the pictures while the product keeps to   *)
(* an int.                                                                 *)
LEMMA PtsMonotone == ASSUME NEW i \in Nat, NEW j \in Nat, i <= j,
          j * 1000 < PtsModulus \div 2
   PROVE Pts(i) <= Pts(j)
<1>1. i * 1000 \in Nat /\ j * 1000 \in Nat /\ i * 1000 <= j * 1000
  OBVIOUS
<1>2. (i * 1000) % PtsModulus = i * 1000 /\ (j * 1000) % PtsModulus = j * 1000
  <2>1. PtsModulus \div 2 <= PtsModulus
    BY FpsAssumption
  <2> QED
    BY <1>1, <2>1, FpsAssumption
<1>3. Fps # 0 => (i * 1000) \div Fps <= (j * 1000) \div Fps
  BY <1>1, FpsAssumption
<1> QED
  BY <1>2, <1>3 DEF Pts

(* A number of bytes is copied.                                            *)
LEMMA CopySizeType == ASSUME NEW p \in Pictures PROVE CopySize(p) \in Nat
<1>1. p.hor_stride \in Nat /\ p.ver_stride \in Nat
  BY PictureAssumption DEF Size
<1>2. p.hor_stride * p.ver_stride \in Nat
  BY <1>1
<1>3. p.hor_stride * p.ver_stride * 3 \in Nat
  BY <1>2
<1> QED
  BY <1>3 DEF CopySize

(* What the invariant says of the queues and the counters, without the     *)
(* flags.                                                                  *)
LEMMA Types ==
    ASSUME EncInv
    PROVE  /\ mpp_in \in Seq(Nat) /\ mpp_out \in Seq(Packet)
           /\ coded \in Seq([packet : Packet, pts : Nat])
           /\ Len(mpp_in) \in Nat /\ Len(mpp_out) \in Nat /\ Len(coded) \in Nat
           /\ picture \in Nat /\ m_frame_index \in Nat
           /\ m_put_num \in Nat /\ m_encode_num \in Nat
  BY BoundAssumption DEF EncInv, TypeOK

(* Initencoder has eleven calls that may fail.                             *)
LEMMA StepCount == Len(InitSteps) = 11
  BY DEF InitSteps

(* What each of them takes.                                                *)
LEMMA StepValues ==
    /\ InitSteps[1] = "m_grpbuffer" /\ InitSteps[2] = "m_frame_buf" /\ InitSteps[3] = "m_pkt_buf"
    /\ InitSteps[4] = "" /\ InitSteps[5] = "m_mppctx" /\ InitSteps[6] = "" /\ InitSteps[7] = ""
    /\ InitSteps[8] = "" /\ InitSteps[9] = "m_mppcfg" /\ InitSteps[10] = "" /\ InitSteps[11] = ""
  BY DEF InitSteps

(* The numbers of the calls.                                               *)
LEMMA StepNumbers ==
    ASSUME NEW k \in 1..11
    PROVE  \/ k = 1 \/ k = 2 \/ k = 3 \/ k = 4 \/ k = 5 \/ k = 6
           \/ k = 7 \/ k = 8 \/ k = 9 \/ k = 10 \/ k = 11
  OBVIOUS

(* A call takes one of the resources, or nothing.                          *)
LEMMA StepTakes == \A k \in 1..11 : InitSteps[k] # "" => InitSteps[k] \in Resources
  BY StepValues, StepNumbers DEF Resources

(* No two calls take the same resource.                                    *)
LEMMA StepsDistinct ==
    \A j, k \in 1..11 : j < k /\ InitSteps[j] # "" => InitSteps[k] # InitSteps[j]
<1>1. ASSUME NEW j \in 1..11, NEW k \in 1..11, InitSteps[j] # "",
             InitSteps[k] = InitSteps[j]
      PROVE  k = j
  <2>1. j = 1 \/ j = 2 \/ j = 3 \/ j = 5 \/ j = 9
    BY <1>1, StepValues, StepNumbers
  <2>2. k = 1 \/ k = 2 \/ k = 3 \/ k = 5 \/ k = 9
    BY <1>1, StepValues, StepNumbers
  <2>3. CASE j = 1
    BY <1>1, <2>2, <2>3, StepValues
  <2>4. CASE j = 2
    BY <1>1, <2>2, <2>4, StepValues
  <2>5. CASE j = 3
    BY <1>1, <2>2, <2>5, StepValues
  <2>6. CASE j = 5
    BY <1>1, <2>2, <2>6, StepValues
  <2>7. CASE j = 9
    BY <1>1, <2>2, <2>7, StepValues
  <2> QED
    BY <2>1, <2>3, <2>4, <2>5, <2>6, <2>7
<1>2. \A j, k \in 1..11 : j < k => j # k
  OBVIOUS
<1> QED
  BY <1>1, <1>2

(* InitStep keeps the invariant.                                           *)
LEMMA InitStepPreserves == ASSUME EncInv, InitStep PROVE EncInv'
<1>1. TypeOK'
  <2>0. init_step \in 1..(Len(InitSteps) + 1)
    BY DEF EncInv, TypeOK
  <2>1. init_step <= Len(InitSteps) /\ init_step' = init_step + 1 /\ opc = "init"
    BY DEF InitStep
  <2>2. init_step \in 1..11 /\ init_step' \in 1..(Len(InitSteps) + 1)
    BY <2>0, <2>1, StepCount
  <2>3. ptr' \in [Resources -> BOOLEAN] /\ acquired' \in [Resources -> 0..1]
    <3>1. CASE InitSteps[init_step] = ""
      BY <3>1 DEF EncInv, TypeOK, InitStep
    <3>2. CASE InitSteps[init_step] # ""
      <4> DEFINE r == InitSteps[init_step]
      <4>1. r \in Resources
        BY <2>2, <3>2, StepTakes
      <4>2. /\ ptr' = [ptr EXCEPT ![r] = TRUE]
            /\ acquired' = [acquired EXCEPT ![r] = @ + 1]
        BY <3>2 DEF InitStep
      <4>3. \A k \in init_step..11 : InitSteps[k] # "" => ~ ptr[InitSteps[k]]
        BY <2>1, StepCount DEF EncInv, Holdings
      <4>4. init_step \in init_step..11
        BY <2>2
      <4>5. ~ ptr[r]
        BY <4>3, <4>4, <3>2
      <4> HIDE DEF r
      <4>6. ptr \in [Resources -> BOOLEAN] /\ acquired \in [Resources -> 0..1]
        BY DEF EncInv, TypeOK
      <4>7. acquired[r] = 0
        BY <2>1, <4>1, <4>5 DEF EncInv, Holdings
      <4>8. ptr' \in [Resources -> BOOLEAN]
        BY <4>1, <4>2, <4>6
      <4>9. acquired' \in [Resources -> 0..1]
        BY <4>1, <4>2, <4>6, <4>7
      <4> QED
        BY <4>8, <4>9
    <3> QED
      BY <3>1, <3>2
  <2>4. UNCHANGED <<opc, released, m_is_running, picture, recvVars, mppVars, m_put_num,
                    frame_buf, sizeVars>>
    BY DEF InitStep
  <2> QED
    BY <2>2, <2>3, <2>4 DEF EncInv, TypeOK, recvVars, mppVars, sizeVars
<1>2. Holdings' /\ ReleasedOnce'
  <2>0. init_step \in 1..(Len(InitSteps) + 1)
    BY DEF EncInv, TypeOK
  <2>a. init_step <= Len(InitSteps) /\ init_step' = init_step + 1
    BY DEF InitStep
  <2>1. init_step \in 1..11 /\ init_step' = init_step + 1
    BY <2>0, <2>a, StepCount
  <2>2. opc = "init" /\ opc' = "init" /\ released' = released /\ rpc' = rpc
    BY DEF InitStep, recvVars
  <2>3. opc # "gone" /\ opc' # "gone" /\ rpc = "none"
    BY <2>2 DEF EncInv, Holdings
  <2>4. \A k \in init_step..11 : InitSteps[k] # "" => ~ ptr[InitSteps[k]]
    BY <2>2, StepCount DEF EncInv, Holdings
  <2>5. ASSUME NEW k \in init_step'..11
        PROVE  k \in 1..11 /\ k \in init_step..11 /\ init_step < k
    BY <2>1
  <2>6. /\ \A q \in Resources : released'[q] = 0 /\ acquired'[q] = (IF ptr'[q] THEN 1 ELSE 0)
        /\ \A k \in init_step'..11 : InitSteps[k] # "" => ~ ptr'[InitSteps[k]]
    <3>1. CASE InitSteps[init_step] = ""
      <4>1. ptr' = ptr /\ acquired' = acquired
        BY <3>1 DEF InitStep
      <4>2. \A q \in Resources : released'[q] = 0 /\ acquired'[q] = (IF ptr'[q] THEN 1 ELSE 0)
        BY <4>1, <2>2, <2>3 DEF EncInv, Holdings
      <4>3. \A k \in init_step'..11 : InitSteps[k] # "" => ~ ptr'[InitSteps[k]]
        BY <4>1, <2>4, <2>5
      <4> QED
        BY <4>2, <4>3
    <3>2. CASE InitSteps[init_step] # ""
      <4> DEFINE r == InitSteps[init_step]
      <4>1. r \in Resources
        BY <2>1, <3>2, StepTakes
      <4>2. /\ ptr' = [ptr EXCEPT ![r] = TRUE]
            /\ acquired' = [acquired EXCEPT ![r] = @ + 1]
        BY <3>2 DEF InitStep
      <4>3. \A k \in init_step'..11 : InitSteps[k] # r
        BY <2>1, <2>5, <3>2, StepsDistinct
      <4>4. init_step \in init_step..11
        BY <2>1
      <4>5. ~ ptr[r]
        BY <2>4, <4>4, <3>2
      <4> HIDE DEF r
      <4>6. ptr \in [Resources -> BOOLEAN] /\ acquired \in [Resources -> 0..1]
        BY DEF EncInv, TypeOK
      <4>7. \A q \in Resources : released[q] = 0 /\ acquired[q] = (IF ptr[q] THEN 1 ELSE 0)
        BY <2>3 DEF EncInv, Holdings
      <4>8. \A q \in Resources : released'[q] = 0 /\ acquired'[q] = (IF ptr'[q] THEN 1 ELSE 0)
        BY <2>2, <4>1, <4>2, <4>5, <4>6, <4>7
      <4>9. \A k \in init_step'..11 : InitSteps[k] # "" => ~ ptr'[InitSteps[k]]
        <5> SUFFICES ASSUME NEW k \in init_step'..11, InitSteps[k] # ""
                     PROVE  ~ ptr'[InitSteps[k]]
          OBVIOUS
        <5>1. InitSteps[k] \in Resources
          BY <2>5, StepTakes
        <5>2. InitSteps[k] # r /\ ~ ptr[InitSteps[k]]
          BY <2>4, <2>5, <4>3
        <5> QED
          BY <5>1, <5>2, <4>2, <4>6
      <4> QED
        BY <4>8, <4>9
    <3> QED
      BY <3>1, <3>2
  <2>7. Holdings'
    BY <2>2, <2>3, <2>6, StepCount DEF Holdings
  <2> QED
    BY <2>3, <2>7 DEF ReleasedOnce
<1>3. CountsInOrder' /\ PacketsAccounted'
  BY DEF EncInv, TypeOK, CountsInOrder, PacketsAccounted, InitStep, recvVars, mppVars, sizeVars
<1>4. TimesComputed'
  BY DEF EncInv, TypeOK, TimesComputed, InitStep, recvVars, mppVars, sizeVars
<1>5. PacketsHeld'
  BY DEF EncInv, TypeOK, PacketsHeld, InitStep, recvVars, mppVars, sizeVars
<1> QED
  BY <1>1, <1>2, <1>3, <1>4, <1>5 DEF EncInv

(* InitFails keeps the invariant.                                          *)
LEMMA InitFailsPreserves == ASSUME EncInv, InitFails PROVE EncInv'
<1>1. TypeOK'
  BY BoundAssumption DEF EncInv, TypeOK, InitFails, recvVars, mppVars, sizeVars
<1>2. Holdings' /\ ReleasedOnce'
  BY DEF EncInv, TypeOK, Holdings, ReleasedOnce, InitFails, recvVars, mppVars, sizeVars
<1>3. CountsInOrder' /\ PacketsAccounted'
  BY DEF EncInv, TypeOK, CountsInOrder, PacketsAccounted, InitFails, recvVars, mppVars, sizeVars
<1>4. TimesComputed'
  BY DEF EncInv, TypeOK, TimesComputed, InitFails, recvVars, mppVars, sizeVars
<1>5. PacketsHeld'
  BY DEF EncInv, TypeOK, PacketsHeld, InitFails, recvVars, mppVars, sizeVars
<1> QED
  BY <1>1, <1>2, <1>3, <1>4, <1>5 DEF EncInv

(* StartRecvThread keeps the invariant.                                    *)
LEMMA StartRecvThreadPreserves == ASSUME EncInv, StartRecvThread PROVE EncInv'
<1>1. TypeOK'
  BY BoundAssumption DEF EncInv, TypeOK, StartRecvThread, mppVars, sizeVars
<1>2. Holdings' /\ ReleasedOnce'
  BY DEF EncInv, TypeOK, Holdings, ReleasedOnce, StartRecvThread, mppVars, sizeVars
<1>3. CountsInOrder' /\ PacketsAccounted'
  BY
     DEF EncInv, TypeOK, Holdings, CountsInOrder, PacketsAccounted, StartRecvThread, mppVars,
         sizeVars
<1>4. TimesComputed'
  BY DEF EncInv, TypeOK, TimesComputed, StartRecvThread, mppVars, sizeVars
<1>5. PacketsHeld'
  BY DEF EncInv, TypeOK, Holdings, PacketsHeld, StartRecvThread, mppVars, sizeVars
<1> QED
  BY <1>1, <1>2, <1>3, <1>4, <1>5 DEF EncInv

(* WriteData keeps the invariant.                                          *)
LEMMA WriteDataPreserves == ASSUME EncInv, WriteData PROVE EncInv'
<1>1. TypeOK'
  <2>1. picture' \in 0..MaxPictures /\ frame_buf' \in Nat \cup {None}
    BY BoundAssumption DEF EncInv, TypeOK, WriteData
  <2>2. copied' \in Nat
    <3>1. \A p \in Pictures : CopySize(p) \in Nat
      BY CopySizeType
    <3> QED
      BY <3>1 DEF EncInv, TypeOK, WriteData
  <2>3. opc' \in {"idle", "put", "crashed"}
    BY DEF WriteData
  <2>4. UNCHANGED <<init_step, ptr, acquired, released, m_is_running, rpc, packet, packets,
                    m_encode_num, m_frame_index, coded, mpp_in, mpp_out, m_put_num, geom>>
    BY DEF WriteData, recvVars, mppVars
  <2> QED
    BY <2>1, <2>2, <2>3, <2>4 DEF EncInv, TypeOK
<1>2. Holdings' /\ ReleasedOnce'
  BY DEF EncInv, TypeOK, Holdings, ReleasedOnce, WriteData, recvVars, mppVars
<1>3. CountsInOrder' /\ PacketsAccounted'
  BY DEF EncInv, TypeOK, CountsInOrder, PacketsAccounted, WriteData, recvVars, mppVars
<1>4. TimesComputed'
  BY DEF EncInv, TypeOK, TimesComputed, WriteData, recvVars, mppVars
<1>5. PacketsHeld'
  BY DEF EncInv, TypeOK, PacketsHeld, WriteData, recvVars, mppVars
<1> QED
  BY <1>1, <1>2, <1>3, <1>4, <1>5 DEF EncInv

(* PutFrame keeps the invariant.                                           *)
LEMMA PutFramePreserves == ASSUME EncInv, PutFrame PROVE EncInv'
<1>1. TypeOK'
  <2>1. \/ mpp_in' = Append(mpp_in, picture) /\ opc' = "count"
        \/ mpp_in' = mpp_in /\ opc' = "idle"
    BY DEF PutFrame
  <2>2. Append(mpp_in, picture) \in Seq(Nat)
    BY Types, AppendProperties
  <2>3. mpp_in' \in Seq(Nat)
    BY <2>1, <2>2, Types
  <2> QED
    BY <2>1, <2>3 DEF EncInv, TypeOK, PutFrame, recvVars, sizeVars
<1>2. Holdings' /\ ReleasedOnce'
  BY DEF EncInv, TypeOK, Holdings, ReleasedOnce, PutFrame, recvVars, sizeVars
<1>3. CountsInOrder' /\ PacketsAccounted'
  <2>1. opc = "put" /\ UNCHANGED <<m_put_num, m_encode_num, mpp_out, coded, rpc>>
    BY DEF PutFrame, recvVars
  <2>2. CASE mpp_in' = Append(mpp_in, picture) /\ opc' = "count"
    <3>1. Len(mpp_in') = Len(mpp_in) + 1
      BY <2>2, Types, AppendProperties
    <3>2. mpp_out' = mpp_out /\ coded' = coded /\ rpc' = rpc
          /\ m_put_num' = m_put_num /\ m_encode_num' = m_encode_num
      BY <2>1
    <3>3. m_put_num = m_encode_num + Len(mpp_in) + Len(mpp_out)
      <4>1. opc # "count" /\ opc = "put"
        BY <2>1
      <4>2. m_put_num + (IF opc = "count" THEN 1 ELSE 0)
               = m_encode_num + Len(mpp_in) + Len(mpp_out)
        BY DEF EncInv, PacketsAccounted
      <4> QED
        BY <4>1, <4>2, Types
    <3>4. m_put_num' + 1 = m_encode_num' + Len(mpp_in') + Len(mpp_out')
      BY <3>1, <3>2, <3>3, Types
    <3>5. CountsInOrder'
      BY <3>2 DEF EncInv, CountsInOrder
    <3> QED
      BY <2>2, <3>2, <3>4, <3>5 DEF EncInv, PacketsAccounted
  <2>3. CASE mpp_in' = mpp_in /\ opc' = "idle"
    BY <2>1, <2>3 DEF EncInv, CountsInOrder, PacketsAccounted
  <2> QED
    BY <2>2, <2>3 DEF PutFrame
<1>4. TimesComputed'
  BY DEF EncInv, TypeOK, TimesComputed, PutFrame, recvVars, sizeVars
<1>5. PacketsHeld'
  BY DEF EncInv, TypeOK, PacketsHeld, PutFrame, recvVars, sizeVars
<1> QED
  BY <1>1, <1>2, <1>3, <1>4, <1>5 DEF EncInv

(* CountPut keeps the invariant.                                           *)
LEMMA CountPutPreserves == ASSUME EncInv, CountPut PROVE EncInv'
<1>1. TypeOK'
  BY BoundAssumption DEF EncInv, TypeOK, CountPut, recvVars, mppVars, sizeVars
<1>2. Holdings' /\ ReleasedOnce'
  BY DEF EncInv, TypeOK, Holdings, ReleasedOnce, CountPut, recvVars, mppVars, sizeVars
<1>3. CountsInOrder' /\ PacketsAccounted'
  BY DEF EncInv, TypeOK, CountsInOrder, PacketsAccounted, CountPut, recvVars, mppVars, sizeVars
<1>4. TimesComputed'
  BY DEF EncInv, TypeOK, TimesComputed, CountPut, recvVars, mppVars, sizeVars
<1>5. PacketsHeld'
  BY DEF EncInv, TypeOK, PacketsHeld, CountPut, recvVars, mppVars, sizeVars
<1> QED
  BY <1>1, <1>2, <1>3, <1>4, <1>5 DEF EncInv

(* Delete keeps the invariant.                                             *)
LEMMA DeletePreserves == ASSUME EncInv, Delete PROVE EncInv'
<1>1. TypeOK'
  BY BoundAssumption DEF EncInv, TypeOK, Delete, recvVars, mppVars, sizeVars
<1>2. Holdings' /\ ReleasedOnce'
  BY DEF EncInv, TypeOK, Holdings, ReleasedOnce, Delete, recvVars, mppVars, sizeVars
<1>3. CountsInOrder' /\ PacketsAccounted'
  BY DEF EncInv, TypeOK, CountsInOrder, PacketsAccounted, Delete, recvVars, mppVars, sizeVars
<1>4. TimesComputed'
  BY DEF EncInv, TypeOK, TimesComputed, Delete, recvVars, mppVars, sizeVars
<1>5. PacketsHeld'
  BY DEF EncInv, TypeOK, PacketsHeld, Delete, recvVars, mppVars, sizeVars
<1> QED
  BY <1>1, <1>2, <1>3, <1>4, <1>5 DEF EncInv

(* StopRunning keeps the invariant.                                        *)
LEMMA StopRunningPreserves == ASSUME EncInv, StopRunning PROVE EncInv'
<1>1. TypeOK'
  BY BoundAssumption DEF EncInv, TypeOK, StopRunning, recvVars, mppVars, sizeVars
<1>2. Holdings' /\ ReleasedOnce'
  BY DEF EncInv, TypeOK, Holdings, ReleasedOnce, StopRunning, recvVars, mppVars, sizeVars
<1>3. CountsInOrder' /\ PacketsAccounted'
  BY DEF EncInv, TypeOK, CountsInOrder, PacketsAccounted, StopRunning, recvVars, mppVars, sizeVars
<1>4. TimesComputed'
  BY DEF EncInv, TypeOK, TimesComputed, StopRunning, recvVars, mppVars, sizeVars
<1>5. PacketsHeld'
  BY DEF EncInv, TypeOK, PacketsHeld, StopRunning, recvVars, mppVars, sizeVars
<1> QED
  BY <1>1, <1>2, <1>3, <1>4, <1>5 DEF EncInv

(* JoinAndFree keeps the invariant.                                        *)
LEMMA JoinAndFreePreserves == ASSUME EncInv, JoinAndFree PROVE EncInv'
<1>1. TypeOK'
  <2>1. \A r \in Resources : released[r] = 0
    BY DEF EncInv, Holdings, JoinAndFree
  <2>2. released' \in [Resources -> 0..1]
    BY <2>1 DEF JoinAndFree
  <2>3. ptr' \in [Resources -> BOOLEAN]
    BY DEF EncInv, TypeOK, JoinAndFree
  <2> QED
    BY <2>2, <2>3 DEF EncInv, TypeOK, JoinAndFree, recvVars, mppVars, sizeVars
<1>2. Holdings' /\ ReleasedOnce'
  BY DEF EncInv, TypeOK, Holdings, PacketsHeld, ReleasedOnce, JoinAndFree, recvVars, mppVars,
         sizeVars
<1>3. CountsInOrder' /\ PacketsAccounted'
  BY DEF EncInv, TypeOK, CountsInOrder, PacketsAccounted, JoinAndFree, recvVars, mppVars, sizeVars
<1>4. TimesComputed'
  BY DEF EncInv, TypeOK, TimesComputed, JoinAndFree, recvVars, mppVars, sizeVars
<1>5. PacketsHeld'
  BY DEF EncInv, TypeOK, PacketsHeld, JoinAndFree, recvVars, mppVars, sizeVars
<1> QED
  BY <1>1, <1>2, <1>3, <1>4, <1>5 DEF EncInv

(* RecvStart keeps the invariant.                                          *)
LEMMA RecvStartPreserves == ASSUME EncInv, RecvStart PROVE EncInv'
<1>1. TypeOK'
  BY BoundAssumption DEF EncInv, TypeOK, RecvStart, ownerVars, mppVars, sizeVars
<1>2. Holdings' /\ ReleasedOnce'
  BY DEF EncInv, TypeOK, Holdings, ReleasedOnce, RecvStart, ownerVars, mppVars, sizeVars
<1>3. CountsInOrder' /\ PacketsAccounted'
  BY DEF EncInv, TypeOK, CountsInOrder, PacketsAccounted, RecvStart, ownerVars, mppVars, sizeVars
<1>4. TimesComputed'
  BY DEF EncInv, TypeOK, TimesComputed, RecvStart, ownerVars, mppVars, sizeVars
<1>5. PacketsHeld'
  BY DEF EncInv, TypeOK, PacketsHeld, RecvStart, ownerVars, mppVars, sizeVars
<1> QED
  BY <1>1, <1>2, <1>3, <1>4, <1>5 DEF EncInv

(* RecvLoop keeps the invariant.                                           *)
LEMMA RecvLoopPreserves == ASSUME EncInv, RecvLoop PROVE EncInv'
<1>1. TypeOK'
  BY BoundAssumption DEF EncInv, TypeOK, RecvLoop, ownerVars, mppVars, sizeVars
<1>2. Holdings' /\ ReleasedOnce'
  BY DEF EncInv, TypeOK, Holdings, ReleasedOnce, RecvLoop, ownerVars, mppVars, sizeVars
<1>3. CountsInOrder' /\ PacketsAccounted'
  BY DEF EncInv, TypeOK, CountsInOrder, PacketsAccounted, RecvLoop, ownerVars, mppVars, sizeVars
<1>4. TimesComputed'
  BY DEF EncInv, TypeOK, TimesComputed, RecvLoop, ownerVars, mppVars, sizeVars
<1>5. PacketsHeld'
  BY DEF EncInv, TypeOK, PacketsHeld, RecvLoop, ownerVars, mppVars, sizeVars
<1> QED
  BY <1>1, <1>2, <1>3, <1>4, <1>5 DEF EncInv

(* GetPacket keeps the invariant.                                          *)
LEMMA GetPacketPreserves == ASSUME EncInv, GetPacket PROVE EncInv'
<1>1. TypeOK'
  BY BoundAssumption DEF EncInv, TypeOK, GetPacket, ownerVars, sizeVars
<1>2. Holdings' /\ ReleasedOnce'
  BY DEF EncInv, TypeOK, Holdings, ReleasedOnce, GetPacket, ownerVars, sizeVars
<1>3. CountsInOrder' /\ PacketsAccounted'
  <2>1. mpp_out # <<>> /\ mpp_out' = Tail(mpp_out)
    BY DEF GetPacket
  <2>2. Len(mpp_out') = Len(mpp_out) - 1
    BY <2>1, Types, HeadTailProperties
  <2> QED
    BY <2>2, Types DEF EncInv, CountsInOrder, PacketsAccounted, GetPacket, ownerVars, sizeVars
<1>4. TimesComputed'
  BY DEF EncInv, TypeOK, TimesComputed, GetPacket, ownerVars, sizeVars
<1>5. PacketsHeld'
  BY DEF EncInv, TypeOK, PacketsHeld, GetPacket, ownerVars, sizeVars
<1> QED
  BY <1>1, <1>2, <1>3, <1>4, <1>5 DEF EncInv

(* GetPacketFails keeps the invariant.                                     *)
LEMMA GetPacketFailsPreserves == ASSUME EncInv, GetPacketFails PROVE EncInv'
<1>1. TypeOK'
  BY BoundAssumption DEF EncInv, TypeOK, GetPacketFails, ownerVars, mppVars, sizeVars
<1>2. Holdings' /\ ReleasedOnce'
  BY DEF EncInv, TypeOK, Holdings, ReleasedOnce, GetPacketFails, ownerVars, mppVars, sizeVars
<1>3. CountsInOrder' /\ PacketsAccounted'
  BY
     DEF EncInv, TypeOK, CountsInOrder, PacketsAccounted, GetPacketFails, ownerVars, mppVars,
         sizeVars
<1>4. TimesComputed'
  BY DEF EncInv, TypeOK, TimesComputed, GetPacketFails, ownerVars, mppVars, sizeVars
<1>5. PacketsHeld'
  BY DEF EncInv, TypeOK, PacketsHeld, GetPacketFails, ownerVars, mppVars,
         sizeVars
<1> QED
  BY <1>1, <1>2, <1>3, <1>4, <1>5 DEF EncInv

(* Packaging keeps the invariant.                                          *)
LEMMA PackagingPreserves == ASSUME EncInv, Packaging PROVE EncInv'
<1>1. TypeOK'
  <2>1. packet \in Packet /\ Pts(m_frame_index) \in Nat
    BY Types, PtsType DEF EncInv, TimesComputed, Packaging
  <2>2. coded' \in Seq([packet : Packet, pts : Nat])
    BY <2>1, Types, AppendProperties DEF Packaging
  <2>3. m_frame_index' \in Nat
    BY Types DEF Packaging
  <2>4. packets' \in Nat
    BY DEF EncInv, PacketsHeld, Packaging
  <2> QED
    BY <2>2, <2>3, <2>4 DEF EncInv, TypeOK, Packaging, ownerVars, mppVars, sizeVars
<1>2. Holdings' /\ ReleasedOnce'
  BY DEF EncInv, TypeOK, Holdings, ReleasedOnce, Packaging, ownerVars, mppVars, sizeVars
<1>3. CountsInOrder' /\ PacketsAccounted'
  BY DEF EncInv, TypeOK, CountsInOrder, PacketsAccounted, Packaging, ownerVars, mppVars, sizeVars
<1>4. TimesComputed'
  <2> DEFINE c == [packet |-> packet, pts |-> Pts(m_frame_index)]
  <2>1. /\ coded' = Append(coded, c) /\ m_frame_index' = m_frame_index + 1
        /\ rpc' = "loop" /\ UNCHANGED <<opc, mpp_in, frame_buf>>
    BY DEF Packaging, ownerVars, mppVars
  <2>2. packet \in Packet /\ Pts(m_frame_index) \in Nat
    BY Types, PtsType DEF EncInv, TimesComputed, Packaging
  <2>3. c \in [packet : Packet, pts : Nat] /\ c.pts = Pts(m_frame_index)
    BY <2>2
  <2> HIDE DEF c
  <2>4. /\ Len(coded') = Len(coded) + 1 /\ coded'[Len(coded) + 1] = c
        /\ \A k \in 1..Len(coded) : coded'[k] = coded[k]
        /\ DOMAIN coded' = 1..(Len(coded) + 1) /\ DOMAIN coded = 1..Len(coded)
    BY <2>1, <2>3, Types, AppendProperties
  <2>5. m_frame_index = Len(coded) /\ \A k \in DOMAIN coded : coded[k].pts = Pts(k - 1)
    BY DEF EncInv, TimesComputed
  <2>6. ASSUME NEW k \in DOMAIN coded' PROVE coded'[k].pts = Pts(k - 1)
    <3>1. CASE k \in 1..Len(coded)
      BY <2>4, <2>5, <3>1
    <3>2. CASE k = Len(coded) + 1
      <4>1. k - 1 = m_frame_index
        BY <2>5, <3>2, Types
      <4> QED
        BY <2>3, <2>4, <3>2, <4>1
    <3> QED
      BY <2>4, <2>6, <3>1, <3>2, Types
  <2>7. m_frame_index' = Len(coded')
    BY <2>1, <2>4, <2>5
  <2>8. opc' = "put" \/ mpp_in' # <<>> => frame_buf' \in Nat
    BY <2>1 DEF EncInv, TimesComputed
  <2>9. \A k \in DOMAIN coded' : coded'[k].pts = Pts(k - 1)'
    BY <2>6 DEF Pts
  <2> QED
    BY <2>1, <2>7, <2>8, <2>9 DEF TimesComputed
<1>5. PacketsHeld'
  BY DEF EncInv, TypeOK, PacketsHeld, Packaging, ownerVars, mppVars, sizeVars
<1> QED
  BY <1>1, <1>2, <1>3, <1>4, <1>5 DEF EncInv

(* MppEncode keeps the invariant.                                          *)
LEMMA MppEncodePreserves == ASSUME EncInv, MppEncode PROVE EncInv'
<1>1. TypeOK'
  <2>1. mpp_in # <<>> /\ mpp_in' = Tail(mpp_in) /\ frame_buf \in Nat
        /\ mpp_out' = Append(mpp_out, [put |-> Head(mpp_in), pixels |-> frame_buf])
    BY DEF EncInv, TimesComputed, MppEncode
  <2>2. Head(mpp_in) \in Nat /\ mpp_in' \in Seq(Nat)
    BY <2>1, Types, HeadTailProperties
  <2>3. mpp_out' \in Seq(Packet)
    BY <2>1, <2>2, Types, AppendProperties DEF Packet
  <2> QED
    BY <2>2, <2>3 DEF EncInv, TypeOK, MppEncode, ownerVars, recvVars, sizeVars
<1>2. Holdings' /\ ReleasedOnce'
  BY DEF EncInv, TypeOK, Holdings, ReleasedOnce, MppEncode, ownerVars, recvVars, sizeVars
<1>3. CountsInOrder' /\ PacketsAccounted'
  <2>1. mpp_in # <<>> /\ mpp_in' = Tail(mpp_in) /\ frame_buf \in Nat
        /\ mpp_out' = Append(mpp_out, [put |-> Head(mpp_in), pixels |-> frame_buf])
    BY DEF EncInv, TimesComputed, MppEncode
  <2>2. Head(mpp_in) \in Nat /\ Len(mpp_in') = Len(mpp_in) - 1
    BY <2>1, Types, HeadTailProperties
  <2>3. Len(mpp_out') = Len(mpp_out) + 1
    BY <2>1, <2>2, Types, AppendProperties DEF Packet
  <2>4. Len(mpp_in') + Len(mpp_out') = Len(mpp_in) + Len(mpp_out)
    BY <2>2, <2>3, Types
  <2>5. UNCHANGED <<opc, rpc, m_put_num, m_encode_num, coded>>
    BY DEF MppEncode, ownerVars, recvVars
  <2>6. m_encode_num' + Len(mpp_in') + Len(mpp_out')
          = m_encode_num + Len(mpp_in) + Len(mpp_out)
    BY <2>2, <2>3, <2>5, Types
  <2> QED
    BY <2>4, <2>5, <2>6 DEF EncInv, CountsInOrder, PacketsAccounted
<1>4. TimesComputed'
  BY DEF EncInv, TypeOK, TimesComputed, MppEncode, ownerVars, recvVars, sizeVars
<1>5. PacketsHeld'
  BY DEF EncInv, TypeOK, PacketsHeld, MppEncode, ownerVars, recvVars, sizeVars
<1> QED
  BY <1>1, <1>2, <1>3, <1>4, <1>5 DEF EncInv

(* The invariant holds at the start ...                                    *)
LEMMA InitInv == Init => EncInv
<1> SUFFICES ASSUME Init PROVE EncInv
  OBVIOUS
<1>1. TypeOK
  <2>1. <<>> \in Seq(Nat) /\ <<>> \in Seq(Packet) /\ <<>> \in Seq([packet : Packet, pts : Nat])
    BY EmptySeq
  <2>2. init_step \in 1..(Len(InitSteps) + 1) /\ picture \in 0..MaxPictures
    BY StepCount, BoundAssumption DEF Init
  <2>3. ptr \in [Resources -> BOOLEAN]
    BY DEF Init
  <2>4. acquired \in [Resources -> 0..1] /\ released \in [Resources -> 0..1]
    BY DEF Init
  <2> QED
    BY <2>1, <2>2, <2>3, <2>4 DEF Init, TypeOK
<1>2. Holdings
  <2>1. \A k \in 1..Len(InitSteps) : InitSteps[k] # "" => InitSteps[k] \in Resources
    BY StepCount, StepTakes
  <2> QED
    BY <2>1 DEF Init, Holdings
<1>3. ReleasedOnce /\ CountsInOrder /\ PacketsAccounted /\ PacketsHeld
  BY DEF Init, ReleasedOnce, CountsInOrder, PacketsAccounted, PacketsHeld
<1>4. TimesComputed
  BY DEF Init, TimesComputed
<1> QED
  BY <1>1, <1>2, <1>3, <1>4 DEF EncInv

(* ... and in a step that changes nothing ...                              *)
LEMMA StutterPreserves ==
    ASSUME EncInv, UNCHANGED vars
    PROVE  EncInv'
<1> USE DEF vars, ownerVars, recvVars, mppVars, sizeVars
<1>1. TypeOK'
  BY DEF EncInv, TypeOK
<1>2. Holdings' /\ ReleasedOnce' /\ CountsInOrder' /\ PacketsAccounted'
  BY DEF EncInv, Holdings, ReleasedOnce, CountsInOrder, PacketsAccounted
<1>3. TimesComputed' /\ PacketsHeld'
  BY DEF EncInv, TimesComputed, PacketsHeld
<1> QED
  BY <1>1, <1>2, <1>3 DEF EncInv

(* ... so it holds always.                                                 *)
THEOREM Invariance == Spec => []EncInv
<1>1. ASSUME EncInv, [Next]_vars PROVE EncInv'
  <2>1. CASE InitStep \/ InitFails \/ StartRecvThread
    BY <1>1, <2>1, InitStepPreserves, InitFailsPreserves, StartRecvThreadPreserves
  <2>2. CASE WriteData \/ PutFrame \/ CountPut
    BY <1>1, <2>2, WriteDataPreserves, PutFramePreserves, CountPutPreserves
  <2>3. CASE Delete \/ StopRunning \/ JoinAndFree
    BY <1>1, <2>3, DeletePreserves, StopRunningPreserves, JoinAndFreePreserves
  <2>4. CASE RecvStart \/ RecvLoop \/ GetPacket \/ GetPacketFails \/ Packaging
    BY <1>1, <2>4, RecvStartPreserves, RecvLoopPreserves, GetPacketPreserves, GetPacketFailsPreserves,
       PackagingPreserves
  <2>5. CASE MppEncode
    BY <1>1, <2>5, MppEncodePreserves
  <2>6. CASE UNCHANGED vars
    BY <1>1, <2>6, StutterPreserves
  <2> QED
    BY <1>1, <2>1, <2>2, <2>3, <2>4, <2>5, <2>6 DEF Next
<1> QED
  BY InitInv, <1>1, PTL DEF Spec

(* Every variable keeps its type: nothing is taken or given back twice.    *)
THEOREM TypeCorrect == Spec => []TypeOK
  BY Invariance, PTL DEF EncInv

(* The two counters account for every frame the encoder accepted.          *)
THEOREM PacketsAreAccounted == Spec => []PacketsAccounted
  BY Invariance, PTL DEF EncInv

(* The receiving thread waits only for a packet it is owed.                *)
THEOREM WaitsAreOwed == Spec => []GetOnlyWhenOwed
<1>1. EncInv => GetOnlyWhenOwed
  <2> SUFFICES ASSUME EncInv, rpc = "get", mpp_in = <<>>, mpp_out = <<>> PROVE FALSE
    BY DEF GetOnlyWhenOwed
  <2>1. Len(mpp_in) = 0 /\ Len(mpp_out) = 0
    BY EmptySeq
  <2> QED
    BY <2>1, Types DEF EncInv, CountsInOrder, PacketsAccounted
<1> QED
  BY Invariance, <1>1, PTL

(* Deleting the object gives back each of the five things Initencoder      *)
(* took, once, after the receiving thread, and that has given back every   *)
(* packet but the one it may have made on m_pkt_buf.                       *)
THEOREM AllButOnePacketReleased == Spec => []ReleasedOnce
  BY Invariance, PTL DEF EncInv

(* The times of the packets do not go back within an int.                  *)
THEOREM TimesAreOrdered == Spec => []PtsOrdered
<1>1. EncInv => PtsOrdered
  <2> SUFFICES ASSUME EncInv, NEW i \in DOMAIN coded, NEW j \in DOMAIN coded,
                      i < j, (j - 1) * 1000 < PtsModulus \div 2
               PROVE  coded[i].pts <= coded[j].pts
    BY DEF PtsOrdered
  <2>1. i - 1 \in Nat /\ j - 1 \in Nat /\ i - 1 <= j - 1
    <3>1. DOMAIN coded = 1..Len(coded) /\ Len(coded) \in Nat
      BY Types DEF EncInv
    <3> QED
      BY <3>1
  <2>2. Pts(i - 1) <= Pts(j - 1)
    BY <2>1, PtsMonotone
  <2> QED
    BY <2>2 DEF EncInv, TimesComputed
<1> QED
  BY Invariance, <1>1, PTL

-----------------------------------------------------------------------------
(* The line of the pictures the encoder accepted.                          *)

(* A step that touches none of its parts leaves it as it is.               *)
LEMMA LineUnchanged ==
    ASSUME UNCHANGED <<coded, packet, mpp_in, mpp_out>>,
           rpc' = "package" <=> rpc = "package"
    PROVE  Accepted' = Accepted /\ \A i \in 1..Accepted : Number(i)' = Number(i)
<1>1. Received' = Received
  BY DEF Received
<1> QED
  BY <1>1 DEF Accepted, Number

(* A frame the encoder accepts joins it at the end.                        *)
LEMMA PutFrameJoins ==
    ASSUME EncInv, PutFrame, mpp_in' = Append(mpp_in, picture)
    PROVE  /\ Accepted' = Accepted + 1
           /\ \A k \in Nat : k = Accepted + 1 => Number(k)' = picture
           /\ \A i \in 1..Accepted : Number(i)' = Number(i)
<1>1. UNCHANGED <<coded, packet, mpp_out, rpc>>
  BY DEF PutFrame, recvVars
<1>2. Received' = Received /\ Received \in Nat /\ Len(coded) <= Received
  BY <1>1, Types DEF Received
<1>3. /\ Len(mpp_in') = Len(mpp_in) + 1 /\ mpp_in'[Len(mpp_in) + 1] = picture
      /\ \A k \in 1..Len(mpp_in) : mpp_in'[k] = mpp_in[k]
  BY Types, AppendProperties
<1>4. Accepted = Received + Len(mpp_out) + Len(mpp_in) /\ Accepted \in Nat
  BY <1>2, Types DEF Accepted
<1>5. Accepted' = Accepted + 1
  BY <1>1, <1>2, <1>3, <1>4, Types DEF Accepted
<1>6. ASSUME NEW k \in Nat, k = Accepted + 1 PROVE Number(k)' = picture
  <2>1. /\ ~ (k <= Len(coded)) /\ ~ (k <= Received)
        /\ ~ (k <= Received + Len(mpp_out))
        /\ k - Received - Len(mpp_out) = Len(mpp_in) + 1
    BY <1>2, <1>4, <1>6, Types
  <2> QED
    BY <1>1, <1>2, <1>3, <2>1 DEF Number
<1>7. ASSUME NEW i \in 1..Accepted PROVE Number(i)' = Number(i)
  <2>1. CASE i <= Received + Len(mpp_out)
    BY <1>1, <1>2, <2>1 DEF Number
  <2>2. CASE ~ (i <= Received + Len(mpp_out))
    <3>1. /\ i - Received - Len(mpp_out) \in 1..Len(mpp_in)
          /\ ~ (i <= Len(coded)) /\ ~ (i <= Received)
      BY <1>2, <1>4, <2>2, Types
    <3> QED
      BY <1>1, <1>2, <1>3, <2>2, <3>1 DEF Number
  <2> QED
    BY <2>1, <2>2
<1> QED
  BY <1>5, <1>6, <1>7

(* The encoder turns the first frame it has into the last packet waiting.  *)
LEMMA MppEncodeKeepsLine ==
    ASSUME EncInv, MppEncode
    PROVE  Accepted' = Accepted /\ \A i \in 1..Accepted : Number(i)' = Number(i)
<1>1. /\ UNCHANGED <<coded, packet, rpc>>
      /\ mpp_in # <<>> /\ mpp_in' = Tail(mpp_in) /\ frame_buf \in Nat
      /\ mpp_out' = Append(mpp_out, [put |-> Head(mpp_in), pixels |-> frame_buf])
  BY DEF EncInv, TimesComputed, MppEncode, recvVars
<1>2. Received' = Received /\ Received \in Nat /\ Len(coded) <= Received
  BY <1>1, Types DEF Received
<1>3. /\ Len(mpp_in') = Len(mpp_in) - 1 /\ Head(mpp_in) = mpp_in[1] /\ Len(mpp_in) > 0
      /\ Head(mpp_in) \in Nat
      /\ \A k \in 1..(Len(mpp_in) - 1) : mpp_in'[k] = mpp_in[k + 1]
  <2>1. mpp_in \in Seq(Nat) /\ mpp_in # <<>>
    BY <1>1, Types
  <2> QED
    BY <1>1, <2>1, HeadTailProperties
<1> DEFINE p == [put |-> Head(mpp_in), pixels |-> frame_buf]
<1>4. p \in Packet /\ p.put = mpp_in[1]
  BY <1>1, <1>3 DEF Packet
<1> HIDE DEF p
<1>5. /\ Len(mpp_out') = Len(mpp_out) + 1 /\ mpp_out'[Len(mpp_out) + 1] = p
      /\ \A k \in 1..Len(mpp_out) : mpp_out'[k] = mpp_out[k]
  BY <1>1, <1>4, Types, AppendProperties DEF p
<1>6. Accepted = Received + Len(mpp_out) + Len(mpp_in) /\ Accepted' = Accepted
  BY <1>2, <1>3, <1>5, Types DEF Accepted
<1>7. ASSUME NEW i \in 1..Accepted PROVE Number(i)' = Number(i)
  <2>1. CASE i <= Received
    BY <1>1, <1>2, <2>1 DEF Number
  <2>2. CASE ~ (i <= Received) /\ i <= Received + Len(mpp_out)
    <3>1. /\ i - Received \in 1..Len(mpp_out) /\ ~ (i <= Len(coded))
          /\ i <= Received + (Len(mpp_out) + 1)
      BY <1>2, <2>2, Types
    <3> QED
      BY <1>1, <1>2, <1>5, <2>2, <3>1 DEF Number
  <2>3. CASE i = Received + Len(mpp_out) + 1
    <3>1. /\ ~ (i <= Received) /\ ~ (i <= Len(coded)) /\ ~ (i <= Received + Len(mpp_out))
          /\ i <= Received + (Len(mpp_out) + 1)
          /\ i - Received = Len(mpp_out) + 1 /\ i - Received - Len(mpp_out) = 1
      BY <1>2, <2>3, Types
    <3> QED
      BY <1>1, <1>2, <1>4, <1>5, <3>1 DEF Number
  <2>4. CASE i > Received + Len(mpp_out) + 1
    <3>1. /\ ~ (i <= Received) /\ ~ (i <= Len(coded)) /\ ~ (i <= Received + Len(mpp_out))
          /\ ~ (i <= Received + (Len(mpp_out) + 1))
          /\ i - Received - (Len(mpp_out) + 1) \in 1..(Len(mpp_in) - 1)
          /\ i - Received - (Len(mpp_out) + 1) + 1 = i - Received - Len(mpp_out)
      BY <1>2, <1>6, <2>4, Types
    <3> QED
      BY <1>1, <1>2, <1>3, <1>5, <3>1 DEF Number
  <2>5. i \in Int /\ Received \in Int /\ Len(mpp_out) \in Int
    BY <1>2, <1>6, Types
  <2>6. \A a, r, l \in Int : a <= r + l \/ a = r + l + 1 \/ a > r + l + 1
    OBVIOUS
  <2> QED
    BY <2>1, <2>2, <2>3, <2>4, <2>5, <2>6
<1> QED
  BY <1>6, <1>7

(* The receiving thread takes the first packet waiting into its hand ...   *)
LEMMA GetPacketKeepsLine ==
    ASSUME EncInv, GetPacket
    PROVE  Accepted' = Accepted /\ \A i \in 1..Accepted : Number(i)' = Number(i)
<1>1. /\ UNCHANGED <<coded, mpp_in>> /\ rpc = "get" /\ rpc' = "package"
      /\ mpp_out # <<>> /\ mpp_out' = Tail(mpp_out) /\ packet' = Head(mpp_out)
  BY DEF GetPacket
<1>2. Received = Len(coded) /\ Received' = Len(coded) + 1
  BY <1>1, Types DEF Received
<1>3. /\ Len(mpp_out') = Len(mpp_out) - 1 /\ packet' = mpp_out[1] /\ Len(mpp_out) > 0
      /\ \A k \in 1..(Len(mpp_out) - 1) : mpp_out'[k] = mpp_out[k + 1]
  <2>1. mpp_out \in Seq(Packet) /\ mpp_out # <<>>
    BY <1>1, Types
  <2> QED
    BY <1>1, <2>1, HeadTailProperties
<1>4. /\ Accepted = Len(coded) + Len(mpp_out) + Len(mpp_in)
      /\ Accepted' = Accepted
  BY <1>1, <1>2, <1>3, Types DEF Accepted
<1>5. ASSUME NEW i \in 1..Accepted PROVE Number(i)' = Number(i)
  <2>1. CASE i <= Len(coded)
    BY <1>1, <2>1 DEF Number
  <2>2. CASE i = Len(coded) + 1
    <3>1. /\ ~ (i <= Len(coded)) /\ i <= Len(coded) + Len(mpp_out)
          /\ i - Len(coded) = 1
      BY <1>3, <2>2, Types
    <3> QED
      BY <1>1, <1>2, <1>3, <2>2, <3>1 DEF Number
  <2>3. CASE i > Len(coded) + 1 /\ i <= Len(coded) + Len(mpp_out)
    <3>1. /\ ~ (i <= Len(coded)) /\ ~ (i <= Len(coded) + 1)
          /\ i <= Len(coded) + 1 + (Len(mpp_out) - 1)
          /\ i - (Len(coded) + 1) \in 1..(Len(mpp_out) - 1)
          /\ i - (Len(coded) + 1) + 1 = i - Len(coded)
      BY <1>3, <2>3, Types
    <3> QED
      BY <1>1, <1>2, <1>3, <2>3, <3>1 DEF Number
  <2>4. CASE i > Len(coded) + Len(mpp_out)
    <3>1. /\ ~ (i <= Len(coded)) /\ ~ (i <= Len(coded) + 1)
          /\ ~ (i <= Len(coded) + Len(mpp_out))
          /\ ~ (i <= Len(coded) + 1 + (Len(mpp_out) - 1))
          /\ i - (Len(coded) + 1) - (Len(mpp_out) - 1) = i - Len(coded) - Len(mpp_out)
      BY <1>3, <2>4, Types
    <3> QED
      BY <1>1, <1>2, <1>3, <2>4, <3>1 DEF Number
  <2>5. /\ i \in Int /\ Len(coded) \in Nat
        /\ Len(coded) + 1 <= Len(coded) + Len(mpp_out)
    BY <1>3, <1>4, Types
  <2>6. i <= Len(coded) \/ i = Len(coded) + 1 \/ i > Len(coded) + 1
    BY <2>5
  <2>7. i <= Len(coded) + Len(mpp_out) \/ i > Len(coded) + Len(mpp_out)
    BY <2>5, Types
  <2> QED
    BY <2>1, <2>2, <2>3, <2>4, <2>6, <2>7
<1> QED
  BY <1>4, <1>5

(* ... and hands it to the callback.                                       *)
LEMMA PackagingKeepsLine ==
    ASSUME EncInv, Packaging
    PROVE  Accepted' = Accepted /\ \A i \in 1..Accepted : Number(i)' = Number(i)
<1> DEFINE c == [packet |-> packet, pts |-> Pts(m_frame_index)]
<1>1. /\ UNCHANGED <<mpp_in, mpp_out>> /\ rpc = "package" /\ rpc' = "loop"
      /\ coded' = Append(coded, c) /\ packet \in Packet
  BY DEF EncInv, TimesComputed, Packaging, mppVars
<1>2. c \in [packet : Packet, pts : Nat] /\ c.packet = packet
  BY <1>1, PtsType, Types
<1> HIDE DEF c
<1>3. /\ Len(coded') = Len(coded) + 1 /\ coded'[Len(coded) + 1] = c
      /\ \A k \in 1..Len(coded) : coded'[k] = coded[k]
  BY <1>1, <1>2, Types, AppendProperties
<1>4. Received = Len(coded) + 1 /\ Received' = Len(coded) + 1
  BY <1>1, <1>3, Types DEF Received
<1>5. Accepted' = Accepted
  BY <1>1, <1>4 DEF Accepted
<1>6. ASSUME NEW i \in 1..Accepted PROVE Number(i)' = Number(i)
  <2>1. CASE i <= Len(coded)
    <3>1. i \in 1..Len(coded) /\ i <= Len(coded) + 1
      BY <2>1, Types
    <3> QED
      BY <1>3, <2>1, <3>1 DEF Number
  <2>2. CASE i = Len(coded) + 1
    <3>1. ~ (i <= Len(coded)) /\ i <= Len(coded) + 1
      BY <2>2, Types
    <3> QED
      BY <1>2, <1>3, <1>4, <2>2, <3>1 DEF Number
  <2>3. CASE i > Len(coded) + 1
    <3>1. ~ (i <= Len(coded)) /\ ~ (i <= Len(coded) + 1)
      BY <2>3, Types
    <3> QED
      BY <1>1, <1>3, <1>4, <3>1 DEF Number
  <2> QED
    BY <2>1, <2>2, <2>3, Types
<1> QED
  BY <1>5, <1>6

(* Nothing else moves the line.                                            *)
LEMMA LineMoves ==
    ASSUME EncInv, [Next]_vars
    PROVE  \/ Accepted' = Accepted /\ \A i \in 1..Accepted : Number(i)' = Number(i)
           \/ PutFrame /\ mpp_in' = Append(mpp_in, picture)
<1>1. CASE InitStep \/ InitFails \/ WriteData \/ CountPut \/ Delete \/ StopRunning \/ JoinAndFree
  BY <1>1, LineUnchanged DEF InitStep, InitFails, WriteData, CountPut, Delete, StopRunning,
     JoinAndFree, recvVars, mppVars
<1>2. CASE StartRecvThread
  <2>1. rpc = "none"
    BY <1>2 DEF StartRecvThread, EncInv, Holdings
  <2> QED
    BY <1>2, <2>1, LineUnchanged DEF StartRecvThread, mppVars
<1>3. CASE RecvStart \/ RecvLoop \/ GetPacketFails
  BY <1>3, LineUnchanged DEF RecvStart, RecvLoop, GetPacketFails, mppVars
<1>4. CASE PutFrame /\ UNCHANGED mpp_in
  BY <1>4, LineUnchanged DEF PutFrame, recvVars
<1>5. CASE PutFrame /\ mpp_in' = Append(mpp_in, picture)
  BY <1>5
<1>6. PutFrame => mpp_in' = Append(mpp_in, picture) \/ UNCHANGED mpp_in
  BY DEF PutFrame
<1>7. CASE UNCHANGED vars
  BY <1>7, LineUnchanged DEF vars, recvVars, mppVars
<1> QED
  BY <1>1, <1>2, <1>3, <1>4, <1>5, <1>6, <1>7, MppEncodeKeepsLine, GetPacketKeepsLine,
     PackagingKeepsLine DEF Next

(* The line is in order.                                                   *)
LEMMA LineStaysInOrder ==
    ASSUME EncInv, InLine, [Next]_vars
    PROVE  InLine'
<1>1. Accepted \in Nat /\ picture \in Nat
  BY Types DEF Accepted, Received
<1>2. CASE Accepted' = Accepted /\ \A i \in 1..Accepted : Number(i)' = Number(i)
  <2>1. picture' = picture \/ (opc = "idle" /\ picture' = picture + 1)
    BY DEF Next, InitStep, InitFails, StartRecvThread, WriteData, PutFrame, CountPut, Delete,
       StopRunning, JoinAndFree, RecvStart, RecvLoop, GetPacket, GetPacketFails, Packaging, MppEncode,
       vars, ownerVars
  <2>2. opc' = "put" => opc = "put" \/ picture' = picture + 1
    BY DEF Next, InitStep, InitFails, StartRecvThread, WriteData, PutFrame, CountPut, Delete,
       StopRunning, JoinAndFree, RecvStart, RecvLoop, GetPacket, GetPacketFails, Packaging, MppEncode,
       vars, ownerVars
  <2> QED
    BY <1>1, <1>2, <2>1, <2>2 DEF InLine
<1>3. CASE PutFrame /\ mpp_in' = Append(mpp_in, picture)
  <2>1. /\ Accepted' = Accepted + 1
        /\ \A k \in Nat : k = Accepted + 1 => Number(k)' = picture
        /\ \A i \in 1..Accepted : Number(i)' = Number(i)
    BY <1>3, PutFrameJoins
  <2>2. opc = "put" /\ opc' # "put" /\ picture' = picture
    BY <1>3 DEF PutFrame
  <2>3. \A i \in 1..(Accepted + 1) : i \in 1..Accepted \/ i = Accepted + 1
    BY <1>1
  <2>4. \A i \in 1..Accepted : Number(i)' \in Nat /\ Number(i)' < picture
    BY <2>1, <2>2 DEF InLine
  <2>5. \A k \in 1..(Accepted + 1) : k = Accepted + 1 => Number(k)' = picture
    BY <1>1, <2>1
  <2>6. ASSUME NEW i \in 1..(Accepted + 1), NEW j \in 1..(Accepted + 1), i < j
        PROVE  Number(i)' < Number(j)'
    <3>1. i \in 1..Accepted
      BY <1>1, <2>6
    <3>2. CASE j \in 1..Accepted
      <4>1. Number(i) < Number(j)
        BY <2>6, <3>1, <3>2 DEF InLine
      <4> QED
        BY <2>1, <3>1, <3>2, <4>1
    <3>3. CASE j = Accepted + 1
      BY <2>4, <2>5, <3>1, <3>3
    <3> QED
      BY <2>3, <3>2, <3>3
  <2>7. ASSUME NEW i \in 1..(Accepted + 1)
        PROVE  Number(i)' \in Nat /\ Number(i)' <= picture
    <3>1. CASE i \in 1..Accepted
      BY <1>1, <2>4, <3>1
    <3>2. CASE i = Accepted + 1
      BY <1>1, <2>5, <3>2
    <3> QED
      BY <2>3, <3>1, <3>2
  <2> QED
    BY <2>1, <2>2, <2>6, <2>7 DEF InLine
<1> QED
  BY <1>2, <1>3, LineMoves

(* What the encoder accepted stays in line until it is delivered: no step  *)
(* takes a picture out of it or moves it (encode_video.cpp:401-427, 507).  *)
THEOREM NothingLeavesTheLine == Spec => LineOnlyGrows
<1>1. ASSUME EncInv, [Next]_vars
      PROVE  Accepted' >= Accepted /\ \A i \in 1..Accepted : Number(i)' = Number(i)
  <2>1. Accepted \in Nat
    BY <1>1, Types DEF Accepted, Received
  <2> QED
    BY <1>1, <2>1, LineMoves, PutFrameJoins
<1>2. EncInv /\ [Next]_vars
      => [Accepted' >= Accepted /\ \A i \in 1..Accepted : Number(i)' = Number(i)]_vars
  BY <1>1
<1> QED
  BY Invariance, <1>2, PTL DEF Spec, LineOnlyGrows

(* The callback is given the pictures in the order they were written, each *)
(* at most once (encode_video.cpp:401-427, 490-512).                       *)
THEOREM CodedAreInOrder == Spec => []CodedInOrder
<1>1. Init => InLine
  <2> SUFFICES ASSUME Init PROVE InLine
    OBVIOUS
  <2>1. Len(coded) = 0 /\ Len(mpp_out) = 0 /\ Len(mpp_in) = 0 /\ rpc # "package"
    BY EmptySeq DEF Init
  <2>2. Accepted = 0
    BY <2>1 DEF Accepted, Received
  <2> QED
    BY <2>2 DEF InLine
<1>2. EncInv /\ InLine /\ [Next]_vars => InLine'
  BY LineStaysInOrder
<1>3. ASSUME EncInv, InLine PROVE CodedInOrder
  <2>1. DOMAIN coded = 1..Len(coded) /\ Len(coded) <= Accepted /\ Accepted \in Nat
    BY <1>3, Types DEF Accepted, Received
  <2>2. \A i \in 1..Len(coded) : i \in 1..Accepted /\ Number(i) = coded[i].packet.put
    BY <1>3, <2>1, Types DEF Number
  <2> QED
    BY <1>3, <2>1, <2>2 DEF InLine, CodedInOrder
<1> QED
  BY Invariance, <1>1, <1>2, <1>3, PTL DEF Spec
=============================================================================

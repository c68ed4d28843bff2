------------------------ MODULE FramePipelineProofs ------------------------
(***************************************************************************)
(* Proofs about FramePipeline for any number of inferences, any number of  *)
(* pictures and any geometries: Inv is inductive, and the safety           *)
(* properties and the refinement of InOrderEncoding follow from it.        *)
(***************************************************************************)
EXTENDS FramePipelineInv, TLAPS

(* A step that queues, takes and numbers nothing and changes no holder     *)
(* leaves the custody of the pictures as it was.                           *)
LEMMA CustodyUnchanged ==
    ASSUME OneHolder, SomeHolder, PendingInv,
           UNCHANGED <<pending_frames, encode_seq, frame_seq_counter>>,
           CallbackHolds' <=> CallbackHolds, CallbackHolds => cur' = cur,
           \A w \in Workers :
               /\ WorkerHolds(w)' <=> WorkerHolds(w)
               /\ WorkerHolds(w) => src_frame'[w].frame_seq = src_frame[w].frame_seq
    PROVE  OneHolder' /\ SomeHolder' /\ PendingInv'
<1>1. OneHolder'
  BY DEF OneHolder, Workers
<1>2. SomeHolder'
  BY DEF SomeHolder, Workers
<1>3. PendingInv'
  BY DEF PendingInv, Carries
<1> QED
  BY <1>1, <1>2, <1>3

(* A step outside the encode thread's hand-over leaves EncodedInv true.    *)
LEMMA EncodedUnchanged ==
    ASSUME EncodedInv, UNCHANGED <<frame_to_encode, encoded, encode_seq>>,
           epc' = "render" <=> epc = "render"
    PROVE  EncodedInv'
  BY DEF EncodedInv, Handled, Carries, EncodedInOrder

(* The number in an inference that holds a picture is not encoded yet.     *)
LEMMA HeldNumbers ==
    ASSUME Inv, NEW w \in Workers, WorkerHolds(w)
    PROVE  /\ encode_seq \in Nat /\ frame_seq_counter \in Nat
           /\ src_frame[w].frame_seq \in encode_seq..(frame_seq_counter - 1)
           /\ src_frame[w].frame_seq \in Nat
           /\ encode_seq <= src_frame[w].frame_seq
           /\ src_frame[w].frame_seq < frame_seq_counter
<1>1. encode_seq \in Nat /\ frame_seq_counter \in Nat
  BY NAssumption DEF Inv, TypeOK
<1>2. src_frame[w].frame_seq \in encode_seq..(frame_seq_counter - 1)
  BY DEF Inv, WorkerInv
<1> QED
  BY <1>1, <1>2

(* A new number is held by the callback and by nobody else.                 *)
LEMMA FrameCallbackPreserves ==
    ASSUME Inv, NEW g \in Geoms, FrameCallback(g)
    PROVE  Inv'
<1>1. TypeOK'
  <2>1. /\ frame_seq_counter' \in 0..MaxFrames
        /\ encode_seq' \in 0..frame_seq_counter'
        /\ DOMAIN pending_frames' \subseteq 0..(frame_seq_counter' - 1)
    BY NAssumption DEF Inv, FrameCallback, TypeOK, encodeVars
  <2>2. cur' \in Image /\ encoder' \in Geoms \cup {None}
    BY DEF Inv, FrameCallback, TypeOK, Image
  <2>3. /\ polls' \in 0..N
        /\ cpc' \in {"idle", "poll", "fill", "trigger", "signal", "direct", "notify"}
        /\ epc' \in {"none", "top", "lock", "check", "block", "wait", "render", "exit"}
    BY NAssumption DEF Inv, FrameCallback, TypeOK
  <2> QED
    BY <2>1, <2>2, <2>3 DEF Inv, FrameCallback, TypeOK, workerVars, mainVars
<1>2. CallbackInv'
  BY NAssumption DEF Inv, FrameCallback, mainVars, TypeOK, CallbackInv, Image
<1>3. (\A w \in Workers : WorkerInv(w))'
  BY DEF Inv, FrameCallback, workerVars, TypeOK, WorkerInv, WorkerHolds
<1>4. LifecycleInv'
  BY NoneAssumption DEF Inv, FrameCallback, mainVars, LifecycleInv
<1>5. OneHolder' /\ SomeHolder' /\ PendingInv'
  <2>1. ~ CallbackHolds /\ CallbackHolds' /\ cur'.seq = frame_seq_counter
    BY DEF Inv, FrameCallback, CallbackHolds
  <2>2. /\ encode_seq \in Nat /\ frame_seq_counter \in Nat
        /\ encode_seq <= frame_seq_counter
        /\ frame_seq_counter' = frame_seq_counter + 1
        /\ UNCHANGED <<workerVars, pending_frames, encode_seq>>
    BY NAssumption DEF Inv, FrameCallback, TypeOK
  <2>3. \A w \in Workers : WorkerHolds(w)' <=> WorkerHolds(w)
    BY <2>2 DEF WorkerHolds, workerVars
  <2>4. \A w \in Workers : WorkerHolds(w) => src_frame[w].frame_seq # frame_seq_counter
    BY HeldNumbers
  <2>5. frame_seq_counter \notin DOMAIN pending_frames
    BY <2>2 DEF Inv, PendingInv
  <2>6. OneHolder'
    BY <2>1, <2>2, <2>3, <2>4, <2>5 DEF Inv, OneHolder, workerVars
  <2>7. SomeHolder'
    BY <2>1, <2>2, <2>3 DEF Inv, SomeHolder, workerVars
  <2>8. PendingInv'
    BY <2>2 DEF Inv, PendingInv, Carries
  <2> QED
    BY <2>6, <2>7, <2>8
<1>6. EncodedInv'
  <2>1. epc' = "render" <=> epc = "render"
    BY DEF Inv, FrameCallback, LifecycleInv
  <2> QED
    BY <2>1, EncodedUnchanged DEF Inv, FrameCallback
<1> QED
  BY <1>1, <1>2, <1>3, <1>4, <1>5, <1>6 DEF Inv

(* Only an inference seen idle is picked.                                   *)
LEMMA PollInferencePreserves ==
    ASSUME Inv, PollInference
    PROVE  Inv'
<1>1. TypeOK'
  <2>1. N > 0 /\ polls \in 0..N /\ polls < N
    BY NAssumption DEF Inv, PollInference, TypeOK, CallbackInv
  <2>2. idx' \in Nat /\ next_inference_idx' \in Nat
    BY <2>1, NAssumption DEF Inv, PollInference, TypeOK
  <2>3. polls' \in 0..N
    BY <2>1, NAssumption DEF Inv, PollInference, NextPoll
  <2>4. cpc' \in {"idle", "poll", "fill", "trigger", "signal", "direct", "notify"}
    BY DEF PollInference, NextPoll
  <2> QED
    BY <2>2, <2>3, <2>4
    DEF Inv, PollInference, TypeOK, workerVars, encodeVars, mainVars
<1>2. CallbackInv'
  BY NAssumption
  DEF Inv, PollInference, workerVars, NextPoll, Workers, TypeOK, CallbackInv,
       LifecycleInv, Image
<1>3. (\A w \in Workers : WorkerInv(w))'
  BY DEF Inv, PollInference, workerVars, encodeVars, WorkerInv, WorkerHolds
<1>4. LifecycleInv'
  BY DEF Inv, PollInference, encodeVars, mainVars, LifecycleInv
<1>5. OneHolder' /\ SomeHolder' /\ PendingInv'
  BY CustodyUnchanged
  DEF Inv, PollInference, workerVars, encodeVars, NextPoll, CallbackHolds,
       WorkerHolds
<1>6. EncodedInv'
  BY EncodedUnchanged DEF Inv, PollInference, encodeVars
<1> QED
  BY <1>1, <1>2, <1>3, <1>4, <1>5, <1>6 DEF Inv

(* Only the src_frame of the idle inference changes.                        *)
LEMMA FillSrcFramePreserves ==
    ASSUME Inv, FillSrcFrame
    PROVE  Inv'
<1>1. TypeOK'
  <2>1. cur \in Image /\ polls < N /\ polls \in 0..N /\ idx \in Workers
    BY DEF Inv, FillSrcFrame, CallbackInv, TypeOK
  <2>2. src_frame' \in [Workers -> SrcFrame]
    <3>1. /\ src_frame \in [Workers -> SrcFrame] /\ cur.geom \in Geoms /\ cur.seq \in Nat
          /\ src_frame[idx].frame_seq \in Nat
      BY <2>1 DEF Inv, TypeOK, Image, SrcFrame
    <3>2. CASE src_frame' = [src_frame EXCEPT ![idx] =
                 [geom |-> cur.geom, frame_seq |-> cur.seq, image |-> cur]]
      BY <2>1, <3>1, <3>2 DEF SrcFrame
    <3>3. CASE src_frame' = [src_frame EXCEPT ![idx].geom = None, ![idx].image = None]
      BY <2>1, <3>1, <3>3 DEF SrcFrame
    <3> QED
      BY <3>2, <3>3 DEF FillSrcFrame
  <2>3. /\ polls' \in 0..N
        /\ cpc' \in {"idle", "poll", "fill", "trigger", "signal", "direct", "notify"}
    BY <2>1, NAssumption DEF FillSrcFrame, NextPoll
  <2> QED
    BY <2>2, <2>3 DEF Inv, FillSrcFrame, TypeOK, encodeVars, mainVars
<1>2. CallbackInv'
  <2>1. /\ cur \in Image /\ mainpc = "running" /\ frame_seq_counter = cur.seq + 1
        /\ polls < N /\ polls \in 0..N /\ idx \in Workers /\ ~ busy[idx]
        /\ src_frame \in [Workers -> SrcFrame]
    BY DEF Inv, FillSrcFrame, CallbackInv, TypeOK
  <2>2. cpc' = "poll" => polls' < N
    BY <2>1, NAssumption DEF FillSrcFrame, NextPoll
  <2>3. cpc' = "trigger" => src_frame'[idx] =
                [geom |-> cur.geom, frame_seq |-> cur.seq, image |-> cur]
    BY <2>1 DEF FillSrcFrame, NextPoll
  <2> QED
    BY <2>1, <2>2, <2>3 DEF FillSrcFrame, NextPoll, CallbackInv, mainVars
<1>3. (\A w \in Workers : WorkerInv(w))'
  <2>1. idx \in Workers /\ ~ WorkerHolds(idx) /\ src_frame \in [Workers -> SrcFrame]
    BY DEF Inv, FillSrcFrame, CallbackInv, TypeOK, WorkerInv, WorkerHolds
  <2>2. \A w \in Workers \ {idx} : src_frame'[w] = src_frame[w]
    BY <2>1 DEF FillSrcFrame
  <2> QED
    BY <2>1, <2>2 DEF Inv, FillSrcFrame, WorkerInv, WorkerHolds, encodeVars
<1>4. LifecycleInv'
  BY DEF Inv, FillSrcFrame, encodeVars, mainVars, LifecycleInv
<1>5. OneHolder' /\ SomeHolder' /\ PendingInv'
  BY CustodyUnchanged
  DEF Inv, FillSrcFrame, encodeVars, NextPoll, TypeOK, CallbackHolds,
       WorkerHolds, WorkerInv, CallbackInv
<1>6. EncodedInv'
  BY EncodedUnchanged DEF Inv, FillSrcFrame, encodeVars
<1> QED
  BY <1>1, <1>2, <1>3, <1>4, <1>5, <1>6 DEF Inv

(* The picture changes hands, from the callback to the inference.           *)
LEMMA TriggerInferencePreserves ==
    ASSUME Inv, TriggerInference
    PROVE  Inv'
<1>1. TypeOK'
  BY DEF Inv, TriggerInference, encodeVars, mainVars, TypeOK
<1>2. CallbackInv'
  BY DEF Inv, TriggerInference, mainVars, CallbackInv
<1>3. (\A w \in Workers : WorkerInv(w))'
  <2>1. /\ idx \in Workers /\ ~ busy[idx] /\ cur \in Image
        /\ frame_seq_counter = cur.seq + 1 /\ CallbackHolds
        /\ src_frame[idx] = [geom |-> cur.geom, frame_seq |-> cur.seq, image |-> cur]
        /\ cur = [seq |-> cur.seq, geom |-> cur.geom] /\ cur.geom # None
        /\ cur.seq \in Nat
    BY NoneAssumption
    DEF Inv, TriggerInference, CallbackInv, CallbackHolds, Image
  <2>2. /\ has_frame' = [has_frame EXCEPT ![idx] = TRUE]
        /\ busy' = [busy EXCEPT ![idx] = TRUE]
        /\ UNCHANGED <<wpc, src_frame, encode_seq, frame_seq_counter>>
        /\ has_frame \in [Workers -> BOOLEAN] /\ busy \in [Workers -> BOOLEAN]
    BY DEF Inv, TriggerInference, TypeOK, encodeVars
  <2>3. /\ wpc[idx] \in {"check", "wait", "exit"}
        /\ encode_seq \in Nat /\ encode_seq <= cur.seq
    <3>1. wpc[idx] \in {"check", "block", "wait", "infer", "callback",
                        "notify", "clear", "exit"}
      BY <2>1 DEF Inv, TypeOK
    <3>2. wpc[idx] \notin {"block", "infer", "callback", "notify", "clear"}
      BY <2>1 DEF Inv, TriggerInference, SignalMutexFree, WorkerInv
    <3>3. encode_seq \in Nat /\ encode_seq <= cur.seq
      BY <2>1, NAssumption DEF Inv, OneHolder, TypeOK
    <3> QED
      BY <3>1, <3>2, <3>3
  <2> SUFFICES ASSUME NEW w \in Workers
               PROVE  WorkerInv(w)'
    OBVIOUS
  <2>4. CASE w = idx
    <3>1. busy'[w] /\ has_frame'[w] /\ wpc'[w] = wpc[idx] /\ src_frame'[w] = src_frame[idx]
      BY <2>1, <2>2, <2>4
    <3>2. cur.seq \in encode_seq..(frame_seq_counter - 1)
      BY <2>1, <2>3
    <3> QED
      BY <2>1, <2>2, <2>3, <3>1, <3>2 DEF WorkerInv, WorkerHolds
  <2>5. CASE w # idx
    BY <2>1, <2>2, <2>5 DEF Inv, WorkerInv, WorkerHolds
  <2> QED
    BY <2>4, <2>5
<1>4. LifecycleInv'
  BY DEF Inv, TriggerInference, encodeVars, mainVars, LifecycleInv
<1>5. OneHolder' /\ SomeHolder' /\ PendingInv'
  <2>1. /\ idx \in Workers /\ ~ WorkerHolds(idx)
        /\ src_frame[idx].frame_seq = cur.seq
        /\ CallbackHolds /\ ~ CallbackHolds'
    <3>1. idx \in Workers /\ ~ busy[idx] /\ src_frame[idx].frame_seq = cur.seq
      BY DEF Inv, TriggerInference, CallbackInv
    <3> QED
      BY <3>1 DEF Inv, TriggerInference, CallbackHolds, WorkerInv, WorkerHolds
  <2>2. WorkerHolds(idx)' /\ \A w \in Workers \ {idx} : WorkerHolds(w)' <=> WorkerHolds(w)
    BY <2>1 DEF Inv, TriggerInference, TypeOK, WorkerHolds
  <2>3. UNCHANGED <<pending_frames, encode_seq, frame_seq_counter, src_frame, cur>>
    BY DEF TriggerInference, encodeVars
  <2>4. OneHolder'
    BY <2>1, <2>2, <2>3 DEF Inv, OneHolder
  <2>5. SomeHolder'
    <3> SUFFICES ASSUME NEW s \in encode_seq..(frame_seq_counter - 1)
                 PROVE  \/ s \in DOMAIN pending_frames
                        \/ \E w \in Workers : WorkerHolds(w)' /\ src_frame[w].frame_seq = s
      BY <2>3 DEF SomeHolder
    <3>1. CASE cur.seq = s
      BY <2>1, <2>3, <3>1 DEF TriggerInference, TypeOK, Inv, WorkerHolds
    <3>2. CASE \E w \in Workers : WorkerHolds(w) /\ src_frame[w].frame_seq = s
      BY <2>1, <2>2, <3>2
    <3> QED
      BY <3>1, <3>2 DEF Inv, SomeHolder
  <2>6. PendingInv'
    BY <2>3 DEF Inv, PendingInv, Carries
  <2> QED
    BY <2>4, <2>5, <2>6
<1>6. EncodedInv'
  BY EncodedUnchanged DEF Inv, TriggerInference, encodeVars
<1> QED
  BY <1>1, <1>2, <1>3, <1>4, <1>5, <1>6 DEF Inv

(* The callback lets go of a picture the inference already holds.           *)
LEMMA SignalInferencePreserves ==
    ASSUME Inv, SignalInference
    PROVE  Inv'
<1>1. TypeOK'
  BY DEF Inv, SignalInference, encodeVars, mainVars, NotifyWorker, TypeOK
<1>2. CallbackInv'
  BY DEF Inv, SignalInference, CallbackInv
<1>3. (\A w \in Workers : WorkerInv(w))'
  BY DEF Inv, SignalInference, encodeVars, NotifyWorker, WorkerInv,
       WorkerHolds
<1>4. LifecycleInv'
  BY DEF Inv, SignalInference, encodeVars, mainVars, LifecycleInv
<1>5. OneHolder' /\ SomeHolder' /\ PendingInv'
  BY CustodyUnchanged
  DEF Inv, SignalInference, encodeVars, NotifyWorker, CallbackHolds,
       WorkerHolds
<1>6. EncodedInv'
  BY EncodedUnchanged DEF Inv, SignalInference, encodeVars
<1> QED
  BY <1>1, <1>2, <1>3, <1>4, <1>5, <1>6 DEF Inv

(* The picture changes hands, from the callback to the queue.               *)
LEMMA QueueDirectlyPreserves ==
    ASSUME Inv, QueueDirectly
    PROVE  Inv'
<1>1. TypeOK'
  <2>1. /\ cur \in Image /\ cur.seq \in Nat /\ frame_seq_counter = cur.seq + 1
        /\ frame_seq_counter \in Nat
    BY NAssumption DEF Inv, QueueDirectly, CallbackInv, TypeOK, Image
  <2>2. [frame_seq |-> cur.seq, geom |-> cur.geom, image |-> cur] \in CodeFrame
    BY <2>1 DEF CodeFrame, Image
  <2>3. /\ DOMAIN pending_frames' \subseteq 0..(frame_seq_counter - 1)
        /\ \A s \in DOMAIN pending_frames' : pending_frames'[s] \in CodeFrame
    BY <2>1, <2>2 DEF Inv, QueueDirectly, AddPending, TypeOK
  <2> QED
    BY <2>3 DEF Inv, QueueDirectly, TypeOK, workerVars, encodeVars, mainVars
<1>2. CallbackInv'
  BY DEF Inv, QueueDirectly, mainVars, CallbackInv
<1>3. (\A w \in Workers : WorkerInv(w))'
  BY DEF Inv, QueueDirectly, workerVars, encodeVars, WorkerInv, WorkerHolds
<1>4. LifecycleInv'
  BY DEF Inv, QueueDirectly, encodeVars, mainVars, LifecycleInv
<1>5. OneHolder' /\ SomeHolder' /\ PendingInv'
  <2>1. /\ cur \in Image /\ cur = [seq |-> cur.seq, geom |-> cur.geom]
        /\ frame_seq_counter = cur.seq + 1 /\ cur.seq \in Nat
        /\ encode_seq \in Nat /\ CallbackHolds /\ ~ CallbackHolds'
    BY NAssumption DEF Inv, QueueDirectly, CallbackInv, CallbackHolds, TypeOK, Image
  <2>2. UNCHANGED <<workerVars, encode_seq, frame_seq_counter>>
    BY DEF QueueDirectly, encodeVars
  <2>3. \A w \in Workers : WorkerHolds(w)' <=> WorkerHolds(w)
    BY <2>2 DEF WorkerHolds, workerVars
  <2>4. /\ encode_seq <= cur.seq
        /\ \A w \in Workers : WorkerHolds(w) => src_frame[w].frame_seq # cur.seq
    BY <2>1 DEF Inv, OneHolder
  <2>5. /\ DOMAIN pending_frames' = DOMAIN pending_frames \cup {cur.seq}
        /\ \A s \in DOMAIN pending_frames' : pending_frames'[s] =
              IF s = cur.seq THEN [frame_seq |-> cur.seq, geom |-> cur.geom, image |-> cur]
              ELSE pending_frames[s]
    BY DEF QueueDirectly, AddPending
  <2>6. OneHolder'
    BY <2>1, <2>2, <2>3, <2>4, <2>5 DEF Inv, OneHolder, workerVars
  <2>7. SomeHolder'
    BY <2>2, <2>3, <2>5 DEF Inv, SomeHolder, workerVars
  <2>8. PendingInv'
    BY <2>1, <2>2, <2>4, <2>5 DEF Inv, PendingInv, Carries
  <2> QED
    BY <2>6, <2>7, <2>8
<1>6. EncodedInv'
  BY EncodedUnchanged DEF Inv, QueueDirectly, encodeVars
<1> QED
  BY <1>1, <1>2, <1>3, <1>4, <1>5, <1>6 DEF Inv

(* The callback lets go of a picture the queue already holds.               *)
LEMMA NotifyDirectPreserves ==
    ASSUME Inv, NotifyDirect
    PROVE  Inv'
<1>1. TypeOK'
  BY DEF Inv, NotifyDirect, workerVars, mainVars, NotifyEncodeThread, TypeOK
<1>2. CallbackInv'
  BY DEF Inv, NotifyDirect, CallbackInv
<1>3. (\A w \in Workers : WorkerInv(w))'
  BY DEF Inv, NotifyDirect, workerVars, WorkerInv, WorkerHolds
<1>4. LifecycleInv'
  BY DEF Inv, NotifyDirect, mainVars, NotifyEncodeThread, LifecycleInv
<1>5. OneHolder' /\ SomeHolder' /\ PendingInv'
  BY CustodyUnchanged
  DEF Inv, NotifyDirect, workerVars, CallbackHolds, WorkerHolds
<1>6. EncodedInv'
  BY EncodedUnchanged DEF Inv, NotifyDirect, NotifyEncodeThread
<1> QED
  BY <1>1, <1>2, <1>3, <1>4, <1>5, <1>6 DEF Inv

(* The worker holds the picture before and after it clears m_has_frame.     *)
LEMMA WorkerCheckPreserves ==
    ASSUME Inv, NEW v \in Workers, WorkerCheck(v)
    PROVE  Inv'
<1>1. TypeOK'
  <2>1. has_frame' \in [Workers -> BOOLEAN]
    BY DEF Inv, WorkerCheck, TypeOK
  <2>2. wpc' \in [Workers -> {"check", "block", "wait", "infer", "callback",
                              "notify", "clear", "exit"}]
    BY DEF Inv, WorkerCheck, TypeOK
  <2> QED
    BY <2>1, <2>2
    DEF Inv, WorkerCheck, TypeOK, callbackVars, encodeVars, mainVars
<1>2. CallbackInv'
  BY DEF Inv, WorkerCheck, callbackVars, mainVars, CallbackInv
<1>3. (\A w \in Workers : WorkerInv(w))'
  BY DEF Inv, WorkerCheck, callbackVars, encodeVars, TypeOK, WorkerInv,
       WorkerHolds
<1>4. LifecycleInv'
  BY DEF Inv, WorkerCheck, encodeVars, mainVars, LifecycleInv
<1>5. OneHolder' /\ SomeHolder' /\ PendingInv'
  BY CustodyUnchanged
  DEF Inv, WorkerCheck, callbackVars, encodeVars, TypeOK, CallbackHolds,
       WorkerHolds
<1>6. EncodedInv'
  BY EncodedUnchanged DEF Inv, WorkerCheck, encodeVars
<1> QED
  BY <1>1, <1>2, <1>3, <1>4, <1>5, <1>6 DEF Inv

(* Only the program counter of the inference moves.                         *)
LEMMA WorkerBlockPreserves ==
    ASSUME Inv, NEW v \in Workers, WorkerBlock(v)
    PROVE  Inv'
<1>1. TypeOK'
  BY DEF Inv, WorkerBlock, callbackVars, encodeVars, mainVars, TypeOK
<1>2. CallbackInv'
  BY DEF Inv, WorkerBlock, callbackVars, mainVars, CallbackInv
<1>3. (\A w \in Workers : WorkerInv(w))'
  BY DEF Inv, WorkerBlock, callbackVars, encodeVars, WorkerInv, WorkerHolds
<1>4. LifecycleInv'
  BY DEF Inv, WorkerBlock, encodeVars, mainVars, LifecycleInv
<1>5. OneHolder' /\ SomeHolder' /\ PendingInv'
  BY CustodyUnchanged
  DEF Inv, WorkerBlock, callbackVars, encodeVars, CallbackHolds, WorkerHolds
<1>6. EncodedInv'
  BY EncodedUnchanged DEF Inv, WorkerBlock, encodeVars
<1> QED
  BY <1>1, <1>2, <1>3, <1>4, <1>5, <1>6 DEF Inv

(* Only the program counter of the inference moves.                         *)
LEMMA RunModelPreserves ==
    ASSUME Inv, NEW v \in Workers, RunModel(v)
    PROVE  Inv'
<1>1. TypeOK'
  BY DEF Inv, RunModel, callbackVars, encodeVars, mainVars, TypeOK
<1>2. CallbackInv'
  BY DEF Inv, RunModel, callbackVars, mainVars, CallbackInv
<1>3. (\A w \in Workers : WorkerInv(w))'
  BY DEF Inv, RunModel, callbackVars, encodeVars, WorkerInv, WorkerHolds
<1>4. LifecycleInv'
  BY DEF Inv, RunModel, encodeVars, mainVars, LifecycleInv
<1>5. OneHolder' /\ SomeHolder' /\ PendingInv'
  BY CustodyUnchanged
  DEF Inv, RunModel, callbackVars, encodeVars, CallbackHolds, WorkerHolds
<1>6. EncodedInv'
  BY EncodedUnchanged DEF Inv, RunModel, encodeVars
<1> QED
  BY <1>1, <1>2, <1>3, <1>4, <1>5, <1>6 DEF Inv

(* The picture changes hands, from the inference to the queue.              *)
LEMMA EncodeCallbackPreserves ==
    ASSUME Inv, NEW v \in Workers, EncodeCallback(v)
    PROVE  Inv'
<1>1. TypeOK'
  <2>1. /\ v \in Workers /\ src_frame[v] \in SrcFrame /\ src_frame[v].geom # None
        /\ src_frame[v].frame_seq \in encode_seq..(frame_seq_counter - 1)
        /\ encode_seq \in Nat /\ frame_seq_counter \in Nat
    <3>1. v \in Workers /\ WorkerHolds(v) /\ wpc[v] # "exit"
      BY DEF EncodeCallback, WorkerHolds
    <3>2. src_frame[v].geom # None
      BY <3>1 DEF Inv, WorkerInv
    <3> QED
      BY <3>1, <3>2, HeldNumbers DEF Inv, TypeOK
  <2>2. PICK image \in {src_frame[v].image, None} :
           AddPending([frame_seq |-> src_frame[v].frame_seq,
                       geom |-> src_frame[v].geom, image |-> image])
    BY DEF EncodeCallback
  <2>3. [frame_seq |-> src_frame[v].frame_seq, geom |-> src_frame[v].geom,
         image |-> image] \in CodeFrame
    BY <2>1 DEF CodeFrame, SrcFrame
  <2>4. /\ DOMAIN pending_frames' \subseteq 0..(frame_seq_counter - 1)
        /\ \A s \in DOMAIN pending_frames' : pending_frames'[s] \in CodeFrame
    BY <2>1, <2>2, <2>3 DEF Inv, AddPending, TypeOK
  <2>5. wpc' \in [Workers -> {"check", "block", "wait", "infer", "callback",
                              "notify", "clear", "exit"}]
    BY DEF Inv, EncodeCallback, TypeOK
  <2> QED
    BY <2>4, <2>5
    DEF Inv, EncodeCallback, TypeOK, callbackVars, encodeVars, mainVars
<1>2. CallbackInv'
  BY DEF Inv, EncodeCallback, callbackVars, mainVars, CallbackInv
<1>3. (\A w \in Workers : WorkerInv(w))'
  BY DEF Inv, EncodeCallback, callbackVars, encodeVars, WorkerInv, WorkerHolds
<1>4. LifecycleInv'
  BY DEF Inv, EncodeCallback, encodeVars, mainVars, LifecycleInv
<1>5. OneHolder' /\ SomeHolder' /\ PendingInv'
  <2> DEFINE s0 == src_frame[v].frame_seq
  <2>1. /\ WorkerHolds(v) /\ ~ WorkerHolds(v)'
        /\ \A w \in Workers \ {v} : WorkerHolds(w)' <=> WorkerHolds(w)
    BY DEF Inv, EncodeCallback, WorkerInv, WorkerHolds, TypeOK
  <2>2. /\ s0 \in encode_seq..(frame_seq_counter - 1)
        /\ src_frame[v].image = [seq |-> s0, geom |-> src_frame[v].geom]
    BY <2>1 DEF Inv, EncodeCallback, WorkerInv
  <2>3. UNCHANGED <<src_frame, encode_seq, frame_seq_counter, cur, cpc>>
    BY DEF EncodeCallback, encodeVars, callbackVars
  <2>4. CallbackHolds' <=> CallbackHolds
    BY <2>3 DEF CallbackHolds
  <2>5. /\ DOMAIN pending_frames' = DOMAIN pending_frames \cup {s0}
        /\ Carries(pending_frames'[s0], s0)
        /\ \A s \in DOMAIN pending_frames \ {s0} : pending_frames'[s] = pending_frames[s]
    <3>1. PICK image \in {src_frame[v].image, None} :
             AddPending([frame_seq |-> s0, geom |-> src_frame[v].geom, image |-> image])
      BY DEF EncodeCallback
    <3> QED
      BY <3>1, <2>2 DEF AddPending, Carries
  <2>6. OneHolder'
    <3>1. /\ \A w \in Workers \ {v} : WorkerHolds(w) => src_frame[w].frame_seq # s0
          /\ CallbackHolds => cur.seq # s0
      BY <2>1 DEF Inv, OneHolder
    <3> QED
      BY <2>1, <2>3, <2>4, <2>5, <3>1 DEF Inv, OneHolder
  <2>7. SomeHolder'
    BY <2>1, <2>3, <2>4, <2>5 DEF Inv, SomeHolder
  <2>8. PendingInv'
    <3>1. DOMAIN pending_frames' \subseteq encode_seq..(frame_seq_counter - 1)
      BY <2>2, <2>5 DEF Inv, PendingInv
    <3>2. \A s \in DOMAIN pending_frames' : Carries(pending_frames'[s], s)
      BY <2>5 DEF Inv, PendingInv, Carries
    <3> QED
      BY <2>3, <3>1, <3>2 DEF PendingInv, Carries
  <2> QED
    BY <2>6, <2>7, <2>8
<1>6. EncodedInv'
  BY EncodedUnchanged DEF Inv, EncodeCallback, encodeVars
<1> QED
  BY <1>1, <1>2, <1>3, <1>4, <1>5, <1>6 DEF Inv

(* At most the encode thread is woken.                                      *)
LEMMA NotifyPendingPreserves ==
    ASSUME Inv, NEW v \in Workers, NotifyPending(v)
    PROVE  Inv'
<1>1. TypeOK'
  BY DEF Inv, NotifyPending, callbackVars, mainVars, NotifyEncodeThread,
       TypeOK
<1>2. CallbackInv'
  BY DEF Inv, NotifyPending, callbackVars, mainVars, CallbackInv
<1>3. (\A w \in Workers : WorkerInv(w))'
  BY DEF Inv, NotifyPending, callbackVars, WorkerInv, WorkerHolds
<1>4. LifecycleInv'
  BY DEF Inv, NotifyPending, mainVars, NotifyEncodeThread, LifecycleInv
<1>5. OneHolder' /\ SomeHolder' /\ PendingInv'
  BY CustodyUnchanged
  DEF Inv, NotifyPending, callbackVars, CallbackHolds, WorkerHolds
<1>6. EncodedInv'
  BY EncodedUnchanged DEF Inv, NotifyPending, NotifyEncodeThread
<1> QED
  BY <1>1, <1>2, <1>3, <1>4, <1>5, <1>6 DEF Inv

(* An inference is idle again only after it let its picture go.             *)
LEMMA ClearBusyPreserves ==
    ASSUME Inv, NEW v \in Workers, ClearBusy(v)
    PROVE  Inv'
<1>1. TypeOK'
  BY DEF Inv, ClearBusy, callbackVars, encodeVars, mainVars, TypeOK
<1>2. CallbackInv'
  BY DEF Inv, ClearBusy, callbackVars, mainVars, CallbackInv
<1>3. (\A w \in Workers : WorkerInv(w))'
  BY DEF Inv, ClearBusy, callbackVars, encodeVars, TypeOK, WorkerInv,
       WorkerHolds
<1>4. LifecycleInv'
  BY DEF Inv, ClearBusy, encodeVars, mainVars, LifecycleInv
<1>5. OneHolder' /\ SomeHolder' /\ PendingInv'
  BY CustodyUnchanged
  DEF Inv, ClearBusy, callbackVars, encodeVars, CallbackHolds, WorkerHolds
<1>6. EncodedInv'
  BY EncodedUnchanged DEF Inv, ClearBusy, encodeVars
<1> QED
  BY <1>1, <1>2, <1>3, <1>4, <1>5, <1>6 DEF Inv

(* Only the program counter of the encode thread moves.                     *)
LEMMA EncodeTopPreserves ==
    ASSUME Inv, EncodeTop
    PROVE  Inv'
<1>1. TypeOK'
  BY DEF Inv, EncodeTop, callbackVars, workerVars, mainVars, TypeOK
<1>2. CallbackInv'
  BY DEF Inv, EncodeTop, callbackVars, workerVars, mainVars, CallbackInv
<1>3. (\A w \in Workers : WorkerInv(w))'
  BY DEF Inv, EncodeTop, callbackVars, workerVars, WorkerInv, WorkerHolds
<1>4. LifecycleInv'
  BY DEF Inv, EncodeTop, mainVars, LifecycleInv
<1>5. OneHolder' /\ SomeHolder' /\ PendingInv'
  BY CustodyUnchanged
  DEF Inv, EncodeTop, callbackVars, workerVars, CallbackHolds, WorkerHolds
<1>6. EncodedInv'
  BY EncodedUnchanged DEF Inv, EncodeTop
<1> QED
  BY <1>1, <1>2, <1>3, <1>4, <1>5, <1>6 DEF Inv

(* Only the program counter of the encode thread moves.                     *)
LEMMA EncodeLockPreserves ==
    ASSUME Inv, EncodeLock
    PROVE  Inv'
<1>1. TypeOK'
  BY DEF Inv, EncodeLock, callbackVars, workerVars, mainVars, TypeOK
<1>2. CallbackInv'
  BY DEF Inv, EncodeLock, callbackVars, workerVars, mainVars, CallbackInv
<1>3. (\A w \in Workers : WorkerInv(w))'
  BY DEF Inv, EncodeLock, callbackVars, workerVars, WorkerInv, WorkerHolds
<1>4. LifecycleInv'
  BY DEF Inv, EncodeLock, mainVars, LifecycleInv
<1>5. OneHolder' /\ SomeHolder' /\ PendingInv'
  BY CustodyUnchanged
  DEF Inv, EncodeLock, callbackVars, workerVars, CallbackHolds, WorkerHolds
<1>6. EncodedInv'
  BY EncodedUnchanged DEF Inv, EncodeLock
<1> QED
  BY <1>1, <1>2, <1>3, <1>4, <1>5, <1>6 DEF Inv

(* The next picture in order leaves the queue as its number passes.         *)
LEMMA EncodeCheckPreserves ==
    ASSUME Inv, EncodeCheck
    PROVE  Inv'
<1>1. TypeOK'
  BY DEF Inv, EncodeCheck, callbackVars, workerVars, mainVars, TypeOK
<1>2. CallbackInv'
  BY DEF Inv, EncodeCheck, callbackVars, workerVars, mainVars, CallbackInv
<1>3. (\A w \in Workers : WorkerInv(w))'
  <2>1. /\ encode_seq \in Nat /\ frame_seq_counter \in Nat
        /\ UNCHANGED <<wpc, busy, has_frame, src_frame, frame_seq_counter>>
    BY NAssumption DEF Inv, EncodeCheck, TypeOK, workerVars, callbackVars
  <2>2. CASE UNCHANGED encode_seq
    BY <2>1, <2>2 DEF Inv, WorkerInv, WorkerHolds
  <2>3. CASE encode_seq \in DOMAIN pending_frames /\ encode_seq' = encode_seq + 1
    <3>1. \A w \in Workers : WorkerHolds(w) =>
             src_frame[w].frame_seq \in (encode_seq + 1)..(frame_seq_counter - 1)
      BY <2>1, <2>3, HeldNumbers DEF Inv, OneHolder
    <3> QED
      BY <2>1, <2>3, <3>1 DEF Inv, WorkerInv, WorkerHolds
  <2> QED
    BY <2>2, <2>3 DEF EncodeCheck
<1>4. LifecycleInv'
  BY DEF Inv, EncodeCheck, mainVars, LifecycleInv
<1>5. OneHolder' /\ SomeHolder' /\ PendingInv'
  <2>1. CASE UNCHANGED <<pending_frames, encode_seq>>
    BY <2>1, CustodyUnchanged
    DEF Inv, EncodeCheck, CallbackHolds, WorkerHolds, callbackVars, workerVars
  <2>2. CASE /\ encode_seq \in DOMAIN pending_frames
             /\ pending_frames' = [s \in DOMAIN pending_frames \ {encode_seq} |->
                                      pending_frames[s]]
             /\ encode_seq' = encode_seq + 1
    <3>1. /\ encode_seq \in Nat /\ frame_seq_counter \in Nat
          /\ UNCHANGED <<wpc, has_frame, src_frame, cpc, cur, frame_seq_counter>>
          /\ CallbackHolds => cur.seq \in Nat
      BY NAssumption
      DEF Inv, EncodeCheck, TypeOK, CallbackHolds, CallbackInv, Image, workerVars, callbackVars
    <3>2. /\ CallbackHolds' <=> CallbackHolds
          /\ \A w \in Workers : WorkerHolds(w)' <=> WorkerHolds(w)
      BY <3>1 DEF CallbackHolds, WorkerHolds
    <3>3. OneHolder'
      BY <2>2, <3>1, <3>2 DEF Inv, OneHolder
    <3>4. SomeHolder'
      BY <2>2, <3>1, <3>2 DEF Inv, SomeHolder
    <3>5. PendingInv'
      BY <2>2, <3>1 DEF Inv, PendingInv, Carries
    <3> QED
      BY <3>3, <3>4, <3>5
  <2> QED
    BY <2>1, <2>2 DEF EncodeCheck
<1>6. EncodedInv'
  <2>1. CASE UNCHANGED <<frame_to_encode, encode_seq>> /\ epc' # "render"
    BY <2>1, EncodedUnchanged DEF Inv, EncodeCheck
  <2>2. CASE /\ encode_seq \in DOMAIN pending_frames
             /\ frame_to_encode' = pending_frames[encode_seq]
             /\ encode_seq' = encode_seq + 1
             /\ epc' = "render"
    <3>1. /\ encode_seq \in Nat /\ frame_to_encode' \in CodeFrame
          /\ Carries(frame_to_encode', encode_seq)
      BY <2>2, NAssumption DEF Inv, TypeOK, PendingInv
    <3>2. Handled' = Handled /\ UNCHANGED encoded
      BY <2>2, <3>1 DEF EncodeCheck, Handled
    <3> QED
      BY <2>2, <3>1, <3>2 DEF Inv, EncodedInv, EncodedInOrder, Carries
  <2> QED
    BY <2>1, <2>2 DEF EncodeCheck
<1> QED
  BY <1>1, <1>2, <1>3, <1>4, <1>5, <1>6 DEF Inv

(* Only the program counter of the encode thread moves.                     *)
LEMMA EncodeBlockPreserves ==
    ASSUME Inv, EncodeBlock
    PROVE  Inv'
<1>1. TypeOK'
  BY DEF Inv, EncodeBlock, callbackVars, workerVars, mainVars, TypeOK
<1>2. CallbackInv'
  BY DEF Inv, EncodeBlock, callbackVars, workerVars, mainVars, CallbackInv
<1>3. (\A w \in Workers : WorkerInv(w))'
  BY DEF Inv, EncodeBlock, callbackVars, workerVars, WorkerInv, WorkerHolds
<1>4. LifecycleInv'
  BY DEF Inv, EncodeBlock, mainVars, LifecycleInv
<1>5. OneHolder' /\ SomeHolder' /\ PendingInv'
  BY CustodyUnchanged
  DEF Inv, EncodeBlock, callbackVars, workerVars, CallbackHolds, WorkerHolds
<1>6. EncodedInv'
  BY EncodedUnchanged DEF Inv, EncodeBlock
<1> QED
  BY <1>1, <1>2, <1>3, <1>4, <1>5, <1>6 DEF Inv

(* The picture that is appended is newer than all before it.                *)
LEMMA EncodeFramePreserves ==
    ASSUME Inv, EncodeFrame
    PROVE  Inv'
<1>1. TypeOK'
  <2>1. encoded' \in Seq(CodeFrame)
    BY DEF Inv, EncodeFrame, TypeOK, EncodedInv
  <2> QED
    BY <2>1 DEF Inv, EncodeFrame, TypeOK, callbackVars, workerVars, mainVars
<1>2. CallbackInv'
  BY DEF Inv, EncodeFrame, callbackVars, workerVars, mainVars, CallbackInv
<1>3. (\A w \in Workers : WorkerInv(w))'
  BY DEF Inv, EncodeFrame, callbackVars, workerVars, WorkerInv, WorkerHolds
<1>4. LifecycleInv'
  BY DEF Inv, EncodeFrame, mainVars, LifecycleInv
<1>5. OneHolder' /\ SomeHolder' /\ PendingInv'
  BY CustodyUnchanged
  DEF Inv, EncodeFrame, callbackVars, workerVars, CallbackHolds, WorkerHolds
<1>6. EncodedInv'
  <2>1. /\ encode_seq \in Nat /\ encode_seq > 0 /\ UNCHANGED encode_seq
        /\ Handled = encode_seq - 1 /\ Handled' = encode_seq /\ epc' # "render"
        /\ encoded \in Seq(CodeFrame)
    BY NAssumption DEF Inv, EncodeFrame, EncodedInv, Handled, TypeOK
  <2>2. CASE UNCHANGED encoded
    <3>1. \A i \in DOMAIN encoded : encoded[i].frame_seq \in Nat
      <4>1. \A i \in DOMAIN encoded : encoded[i] \in CodeFrame
        BY <2>1
      <4> QED
        BY <4>1 DEF CodeFrame
    <3> QED
      BY <2>1, <2>2, <3>1 DEF Inv, EncodedInv, EncodedInOrder, Carries
  <2>3. CASE encoded' = Append(encoded, frame_to_encode) /\ frame_to_encode.image # None
    <3>1. frame_to_encode \in CodeFrame /\ Carries(frame_to_encode, encode_seq - 1)
      BY DEF Inv, EncodeFrame, EncodedInv
    <3>2. /\ DOMAIN encoded' = DOMAIN encoded \cup {Len(encoded) + 1}
          /\ encoded'[Len(encoded) + 1] = frame_to_encode
          /\ \A i \in DOMAIN encoded : /\ encoded'[i] = encoded[i]
                                       /\ i < Len(encoded) + 1 /\ i \in Nat
                                       /\ encoded[i].frame_seq \in Nat
      <4>1. /\ Len(encoded) \in Nat /\ DOMAIN encoded = 1..Len(encoded)
            /\ \A i \in DOMAIN encoded : encoded[i] \in CodeFrame
        BY <2>1
      <4>2. \A i \in DOMAIN encoded : encoded[i].frame_seq \in Nat
        BY <4>1 DEF CodeFrame
      <4> QED
        BY <2>1, <2>3, <3>1, <4>1, <4>2
    <3>3. \A i \in DOMAIN encoded : /\ encoded[i].frame_seq < encode_seq - 1
                                    /\ encoded[i].image # None
                                    /\ Carries(encoded[i], encoded[i].frame_seq)
      BY <2>1 DEF Inv, EncodedInv
    <3>4. \A i \in DOMAIN encoded' : /\ encoded'[i].frame_seq < Handled'
                                     /\ encoded'[i].image # None
                                     /\ Carries(encoded'[i], encoded'[i].frame_seq)
      BY <2>1, <2>3, <3>1, <3>2, <3>3 DEF Carries
    <3>5. EncodedInOrder'
      <4> SUFFICES ASSUME NEW i \in DOMAIN encoded', NEW j \in DOMAIN encoded', i < j
                   PROVE  encoded'[i].frame_seq < encoded'[j].frame_seq
        BY DEF EncodedInOrder
      <4>1. CASE j \in DOMAIN encoded
        <5>1. i \in DOMAIN encoded
          BY <3>2, <4>1, <2>1
        <5> QED
          BY <3>2, <4>1, <5>1 DEF Inv, EncodedInv, EncodedInOrder
      <4>2. CASE j = Len(encoded) + 1
        BY <2>1, <3>1, <3>2, <3>3, <4>2 DEF Carries
      <4> QED
        BY <3>2, <4>1, <4>2
    <3> QED
      BY <2>1, <3>4, <3>5 DEF EncodedInv, Carries
  <2> QED
    BY <2>2, <2>3 DEF EncodeFrame
<1> QED
  BY <1>1, <1>2, <1>3, <1>4, <1>5, <1>6 DEF Inv

(* main leaves sem_wait only when no callback runs.                         *)
LEMMA InterruptPreserves ==
    ASSUME Inv, Interrupt
    PROVE  Inv'
<1>1. TypeOK'
  BY DEF Inv, Interrupt, callbackVars, workerVars, encodeVars, TypeOK
<1>2. CallbackInv'
  BY DEF Inv, Interrupt, callbackVars, CallbackInv
<1>3. (\A w \in Workers : WorkerInv(w))'
  BY DEF Inv, Interrupt, callbackVars, workerVars, encodeVars, WorkerInv,
       WorkerHolds
<1>4. LifecycleInv'
  BY DEF Inv, Interrupt, encodeVars, LifecycleInv
<1>5. OneHolder' /\ SomeHolder' /\ PendingInv'
  BY CustodyUnchanged
  DEF Inv, Interrupt, callbackVars, workerVars, encodeVars, CallbackHolds,
       WorkerHolds
<1>6. EncodedInv'
  BY EncodedUnchanged DEF Inv, Interrupt, encodeVars
<1> QED
  BY <1>1, <1>2, <1>3, <1>4, <1>5, <1>6 DEF Inv

(* Only the flag changes.                                                   *)
LEMMA StopEncodingPreserves ==
    ASSUME Inv, StopEncoding
    PROVE  Inv'
<1>1. TypeOK'
  BY DEF Inv, StopEncoding, callbackVars, workerVars, encodeVars, TypeOK
<1>2. CallbackInv'
  BY DEF Inv, StopEncoding, callbackVars, CallbackInv
<1>3. (\A w \in Workers : WorkerInv(w))'
  BY DEF Inv, StopEncoding, callbackVars, workerVars, encodeVars, WorkerInv,
       WorkerHolds
<1>4. LifecycleInv'
  BY DEF Inv, StopEncoding, encodeVars, LifecycleInv
<1>5. OneHolder' /\ SomeHolder' /\ PendingInv'
  BY CustodyUnchanged
  DEF Inv, StopEncoding, callbackVars, workerVars, encodeVars, CallbackHolds,
       WorkerHolds
<1>6. EncodedInv'
  BY EncodedUnchanged DEF Inv, StopEncoding, encodeVars
<1> QED
  BY <1>1, <1>2, <1>3, <1>4, <1>5, <1>6 DEF Inv

(* At most the encode thread is woken.                                      *)
LEMMA NotifyEncodingPreserves ==
    ASSUME Inv, NotifyEncoding
    PROVE  Inv'
<1>1. TypeOK'
  BY DEF Inv, NotifyEncoding, callbackVars, workerVars, NotifyEncodeThread,
       TypeOK
<1>2. CallbackInv'
  BY DEF Inv, NotifyEncoding, callbackVars, CallbackInv
<1>3. (\A w \in Workers : WorkerInv(w))'
  BY DEF Inv, NotifyEncoding, callbackVars, workerVars, WorkerInv, WorkerHolds
<1>4. LifecycleInv'
  BY DEF Inv, NotifyEncoding, NotifyEncodeThread, LifecycleInv
<1>5. OneHolder' /\ SomeHolder' /\ PendingInv'
  BY CustodyUnchanged
  DEF Inv, NotifyEncoding, callbackVars, workerVars, CallbackHolds,
       WorkerHolds
<1>6. EncodedInv'
  BY EncodedUnchanged DEF Inv, NotifyEncoding, NotifyEncodeThread
<1> QED
  BY <1>1, <1>2, <1>3, <1>4, <1>5, <1>6 DEF Inv

(* The encoder goes only when the encode thread is gone.                    *)
LEMMA JoinEncodeThreadPreserves ==
    ASSUME Inv, JoinEncodeThread
    PROVE  Inv'
<1>1. TypeOK'
  BY DEF Inv, JoinEncodeThread, callbackVars, workerVars, encodeVars,
       ReleaseFrom, TypeOK
<1>2. CallbackInv'
  BY DEF Inv, JoinEncodeThread, callbackVars, CallbackInv
<1>3. (\A w \in Workers : WorkerInv(w))'
  BY DEF Inv, JoinEncodeThread, callbackVars, workerVars, encodeVars,
       WorkerInv, WorkerHolds
<1>4. LifecycleInv'
  BY NAssumption
  DEF Inv, JoinEncodeThread, encodeVars, ReleaseFrom, Workers, LifecycleInv
<1>5. OneHolder' /\ SomeHolder' /\ PendingInv'
  BY CustodyUnchanged
  DEF Inv, JoinEncodeThread, callbackVars, workerVars, encodeVars,
       CallbackHolds, WorkerHolds
<1>6. EncodedInv'
  BY EncodedUnchanged DEF Inv, JoinEncodeThread, encodeVars
<1> QED
  BY <1>1, <1>2, <1>3, <1>4, <1>5, <1>6 DEF Inv

(* Only the flag changes.                                                   *)
LEMMA StopInferencePreserves ==
    ASSUME Inv, StopInference
    PROVE  Inv'
<1>1. TypeOK'
  BY DEF Inv, StopInference, callbackVars, encodeVars, TypeOK
<1>2. CallbackInv'
  BY DEF Inv, StopInference, callbackVars, CallbackInv
<1>3. (\A w \in Workers : WorkerInv(w))'
  BY DEF Inv, StopInference, callbackVars, encodeVars, WorkerInv, WorkerHolds
<1>4. LifecycleInv'
  BY DEF Inv, StopInference, encodeVars, LifecycleInv
<1>5. OneHolder' /\ SomeHolder' /\ PendingInv'
  BY CustodyUnchanged
  DEF Inv, StopInference, callbackVars, encodeVars, CallbackHolds, WorkerHolds
<1>6. EncodedInv'
  BY EncodedUnchanged DEF Inv, StopInference, encodeVars
<1> QED
  BY <1>1, <1>2, <1>3, <1>4, <1>5, <1>6 DEF Inv

(* At most the inference is woken.                                          *)
LEMMA NotifyInferencePreserves ==
    ASSUME Inv, NotifyInference
    PROVE  Inv'
<1>1. TypeOK'
  BY DEF Inv, NotifyInference, callbackVars, encodeVars, NotifyWorker, TypeOK
<1>2. CallbackInv'
  BY DEF Inv, NotifyInference, callbackVars, CallbackInv
<1>3. (\A w \in Workers : WorkerInv(w))'
  BY DEF Inv, NotifyInference, callbackVars, encodeVars, NotifyWorker,
       WorkerInv, WorkerHolds
<1>4. LifecycleInv'
  BY DEF Inv, NotifyInference, encodeVars, LifecycleInv
<1>5. OneHolder' /\ SomeHolder' /\ PendingInv'
  BY CustodyUnchanged
  DEF Inv, NotifyInference, callbackVars, encodeVars, NotifyWorker,
       CallbackHolds, WorkerHolds
<1>6. EncodedInv'
  BY EncodedUnchanged DEF Inv, NotifyInference, encodeVars
<1> QED
  BY <1>1, <1>2, <1>3, <1>4, <1>5, <1>6 DEF Inv

(* Buffers are freed only when their thread is gone.                        *)
LEMMA JoinInferencePreserves ==
    ASSUME Inv, JoinInference
    PROVE  Inv'
<1>1. TypeOK'
  <2>1. rel \in Workers /\ rel' \in Nat
    BY NAssumption DEF Inv, JoinInference, LifecycleInv, ReleaseFrom, TypeOK, Workers
  <2>2. src_frame' \in [Workers -> SrcFrame]
    BY DEF Inv, JoinInference, TypeOK, SrcFrame
  <2>3. mainpc' \in {"running", "stop", "notify", "join", "release", "relnotify",
                     "reljoin", "done"}
    BY DEF JoinInference, ReleaseFrom
  <2> QED
    BY <2>1, <2>2, <2>3
    DEF Inv, JoinInference, TypeOK, callbackVars, encodeVars
<1>2. CallbackInv'
  BY DEF Inv, JoinInference, callbackVars, CallbackInv
<1>3. (\A w \in Workers : WorkerInv(w))'
  <2>1. rel \in Workers /\ wpc[rel] = "exit" /\ src_frame \in [Workers -> SrcFrame]
    BY DEF Inv, JoinInference, LifecycleInv, TypeOK
  <2>2. /\ src_frame'[rel].frame_seq = src_frame[rel].frame_seq
        /\ \A w \in Workers \ {rel} : src_frame'[w] = src_frame[w]
    BY <2>1 DEF JoinInference, SrcFrame
  <2>3. UNCHANGED <<wpc, busy, has_frame, encode_seq, frame_seq_counter>>
    BY DEF JoinInference, callbackVars, encodeVars
  <2> SUFFICES ASSUME NEW w \in Workers
               PROVE  WorkerInv(w)'
    OBVIOUS
  <2>4. CASE w = rel
    BY <2>1, <2>2, <2>3, <2>4 DEF Inv, WorkerInv, WorkerHolds
  <2>5. CASE w # rel
    BY <2>2, <2>3, <2>5 DEF Inv, WorkerInv, WorkerHolds
  <2> QED
    BY <2>4, <2>5
<1>4. LifecycleInv'
  BY NAssumption
  DEF Inv, JoinInference, encodeVars, ReleaseFrom, Workers, LifecycleInv
<1>5. OneHolder' /\ SomeHolder' /\ PendingInv'
  BY CustodyUnchanged
  DEF Inv, JoinInference, callbackVars, encodeVars, TypeOK, CallbackHolds,
       WorkerHolds
<1>6. EncodedInv'
  BY EncodedUnchanged DEF Inv, JoinInference, encodeVars
<1> QED
  BY <1>1, <1>2, <1>3, <1>4, <1>5, <1>6 DEF Inv

(* A waiter that wakes up holds nothing.                                    *)
LEMMA SpuriousEncodeWakeupPreserves ==
    ASSUME Inv, SpuriousEncodeWakeup
    PROVE  Inv'
<1>1. TypeOK'
  BY DEF Inv, SpuriousEncodeWakeup, callbackVars, workerVars, mainVars,
       NotifyEncodeThread, TypeOK
<1>2. CallbackInv'
  BY DEF Inv, SpuriousEncodeWakeup, callbackVars, workerVars, mainVars,
       CallbackInv
<1>3. (\A w \in Workers : WorkerInv(w))'
  BY DEF Inv, SpuriousEncodeWakeup, callbackVars, workerVars, WorkerInv,
       WorkerHolds
<1>4. LifecycleInv'
  BY DEF Inv, SpuriousEncodeWakeup, mainVars, LifecycleInv
<1>5. OneHolder' /\ SomeHolder' /\ PendingInv'
  BY CustodyUnchanged
  DEF Inv, SpuriousEncodeWakeup, callbackVars, workerVars, CallbackHolds,
       WorkerHolds
<1>6. EncodedInv'
  BY EncodedUnchanged DEF Inv, SpuriousEncodeWakeup, NotifyEncodeThread
<1> QED
  BY <1>1, <1>2, <1>3, <1>4, <1>5, <1>6 DEF Inv

(* A waiter that wakes up keeps what it was given.                          *)
LEMMA SpuriousWorkerWakeupPreserves ==
    ASSUME Inv, NEW v \in Workers, SpuriousWorkerWakeup(v)
    PROVE  Inv'
<1>1. TypeOK'
  BY DEF Inv, SpuriousWorkerWakeup, callbackVars, encodeVars, mainVars,
       NotifyWorker, TypeOK
<1>2. CallbackInv'
  BY DEF Inv, SpuriousWorkerWakeup, callbackVars, mainVars, CallbackInv
<1>3. (\A w \in Workers : WorkerInv(w))'
  BY DEF Inv, SpuriousWorkerWakeup, callbackVars, encodeVars, NotifyWorker,
       WorkerInv, WorkerHolds
<1>4. LifecycleInv'
  BY DEF Inv, SpuriousWorkerWakeup, encodeVars, mainVars, LifecycleInv
<1>5. OneHolder' /\ SomeHolder' /\ PendingInv'
  BY CustodyUnchanged
  DEF Inv, SpuriousWorkerWakeup, callbackVars, encodeVars, NotifyWorker,
       CallbackHolds, WorkerHolds
<1>6. EncodedInv'
  BY EncodedUnchanged DEF Inv, SpuriousWorkerWakeup, encodeVars
<1> QED
  BY <1>1, <1>2, <1>3, <1>4, <1>5, <1>6 DEF Inv

-----------------------------------------------------------------------------
(* Before the first picture there is nothing to hold, queue or encode.     *)
LEMMA InitInv == Init => Inv
<1> SUFFICES ASSUME Init
             PROVE  Inv
  OBVIOUS
<1>1. TypeOK
  <2>1. src_frame \in [Workers -> SrcFrame]
    BY DEF Init, NoBuffer, SrcFrame
  <2>2. /\ frame_seq_counter \in 0..MaxFrames /\ encode_seq \in 0..frame_seq_counter
        /\ polls \in 0..N /\ idx \in Nat /\ rel \in Nat /\ next_inference_idx \in Nat
    BY NAssumption DEF Init
  <2>3. DOMAIN pending_frames = {} /\ encoded \in Seq(CodeFrame)
    BY DEF Init
  <2> QED
    BY <2>1, <2>2, <2>3 DEF Init, TypeOK
<1>2. CallbackInv /\ LifecycleInv /\ PendingInv
  BY DEF Init, CallbackInv, LifecycleInv, PendingInv
<1>3. \A w \in Workers : WorkerInv(w)
  BY DEF Init, WorkerInv, WorkerHolds
<1>4. OneHolder /\ SomeHolder
  BY DEF Init, OneHolder, SomeHolder, WorkerHolds, CallbackHolds
<1>5. EncodedInv
  BY DEF Init, EncodedInv, EncodedInOrder
<1> QED
  BY <1>1, <1>2, <1>3, <1>4, <1>5 DEF Inv

(* A step that changes nothing keeps the invariant.                        *)
LEMMA StutterPreserves ==
    ASSUME Inv, UNCHANGED vars
    PROVE  Inv'
<1>1. /\ TypeOK' /\ CallbackInv' /\ LifecycleInv'
  BY DEF Inv, TypeOK, CallbackInv, LifecycleInv, vars, callbackVars, workerVars,
         encodeVars, mainVars
<1>2. (\A w \in Workers : WorkerInv(w))'
  BY DEF Inv, WorkerInv, WorkerHolds, vars, callbackVars, workerVars, encodeVars
<1>3. OneHolder' /\ SomeHolder' /\ PendingInv'
  BY CustodyUnchanged
  DEF Inv, CallbackHolds, WorkerHolds, vars, callbackVars, workerVars, encodeVars
<1>4. EncodedInv'
  BY EncodedUnchanged DEF Inv, vars, encodeVars
<1> QED
  BY <1>1, <1>2, <1>3, <1>4 DEF Inv

(* Every step of every thread keeps the invariant.                         *)
LEMMA NextInv ==
    ASSUME Inv, [Next]_vars
    PROVE  Inv'
<1>1. ASSUME NEW g \in Geoms, FrameCallback(g) PROVE Inv'
  BY <1>1, FrameCallbackPreserves
<1>2. CASE CallbackStep
  BY <1>2, PollInferencePreserves, FillSrcFramePreserves, TriggerInferencePreserves,
     SignalInferencePreserves, QueueDirectlyPreserves, NotifyDirectPreserves
  DEF CallbackStep
<1>3. ASSUME NEW v \in Workers, WorkerStep(v) PROVE Inv'
  BY <1>3, WorkerCheckPreserves, WorkerBlockPreserves, RunModelPreserves,
     EncodeCallbackPreserves, NotifyPendingPreserves, ClearBusyPreserves
  DEF WorkerStep
<1>4. CASE EncodeStep
  BY <1>4, EncodeTopPreserves, EncodeLockPreserves, EncodeCheckPreserves,
     EncodeBlockPreserves, EncodeFramePreserves
  DEF EncodeStep
<1>5. CASE Interrupt
  BY <1>5, InterruptPreserves
<1>6. CASE TeardownStep
  BY <1>6, StopEncodingPreserves, NotifyEncodingPreserves, JoinEncodeThreadPreserves,
     StopInferencePreserves, NotifyInferencePreserves, JoinInferencePreserves
  DEF TeardownStep
<1>7. CASE SpuriousEncodeWakeup
  BY <1>7, SpuriousEncodeWakeupPreserves
<1>8. ASSUME NEW v \in Workers, SpuriousWorkerWakeup(v) PROVE Inv'
  BY <1>8, SpuriousWorkerWakeupPreserves
<1>9. CASE UNCHANGED vars
  BY <1>9, StutterPreserves
<1> QED
  BY <1>1, <1>2, <1>3, <1>4, <1>5, <1>6, <1>7, <1>8, <1>9 DEF Next

(* Inv holds in every reachable state, for every number of inferences and  *)
(* pictures: the invariant every other theorem rests on.                   *)
THEOREM Invariance == Spec => []Inv
  BY InitInv, NextInv, PTL DEF Spec

(* Every variable has its type and every number in use is below the        *)
(* counter.                                                                *)
THEOREM TypeCorrect == Spec => []TypeOK
<1>1. Inv => TypeOK
  BY DEF Inv
<1> QED
  BY Invariance, <1>1, PTL

(* The comment at main.cpp:230 is right: while the callback fills the      *)
(* src_frame of an inference, that inference does not use it.              *)
THEOREM SrcFrameIsExclusive == Spec => []SrcFrameExclusive
<1>1. Inv => SrcFrameExclusive
  BY DEF Inv, CallbackInv, WorkerInv, SrcFrameExclusive
<1> QED
  BY Invariance, <1>1, PTL

(* No picture is lost or held twice between its number and its encoding.   *)
THEOREM CustodyIsKept == Spec => []FrameCustody
<1>1. Inv => FrameCustody
  <2> SUFFICES ASSUME Inv, NEW s \in 0..MaxFrames
               PROVE  /\ (\E p \in Parties : Holds(p, s))
                              <=> s \in encode_seq..(frame_seq_counter - 1)
                      /\ \A p, q \in Parties : Holds(p, s) /\ Holds(q, s) => p = q
    BY DEF FrameCustody
  <2>1. /\ N \in Nat /\ s \in Nat /\ encode_seq \in Nat /\ frame_seq_counter \in Nat
        /\ Parties = Workers \cup {N, N + 1} /\ N \notin Workers /\ N + 1 \notin Workers
    BY NAssumption DEF Inv, TypeOK, Parties, Workers
  <2>2. /\ \A w \in Workers : Holds(w, s) <=> WorkerHolds(w) /\ src_frame[w].frame_seq = s
        /\ Holds(N, s) <=> CallbackHolds /\ cur.seq = s
        /\ Holds(N + 1, s) <=> s \in DOMAIN pending_frames
    BY <2>1 DEF Holds
  <2>3. ASSUME NEW p \in Parties, Holds(p, s)
        PROVE  s \in encode_seq..(frame_seq_counter - 1)
    <3>1. CASE p \in Workers
      BY <2>2, <2>3, <3>1, HeldNumbers
    <3>2. CASE p = N
      BY <2>1, <2>2, <2>3, <3>2 DEF Inv, OneHolder, CallbackInv, CallbackHolds
    <3>3. CASE p = N + 1
      BY <2>2, <2>3, <3>3 DEF Inv, PendingInv
    <3> QED
      BY <2>1, <3>1, <3>2, <3>3
  <2>4. ASSUME s \in encode_seq..(frame_seq_counter - 1)
        PROVE  \E p \in Parties : Holds(p, s)
    BY <2>1, <2>2, <2>4 DEF Inv, SomeHolder
  <2>5. ASSUME NEW p \in Parties, NEW q \in Parties, Holds(p, s), Holds(q, s)
        PROVE  p = q
    BY <2>1, <2>2, <2>5 DEF Inv, OneHolder
  <2> QED
    BY <2>3, <2>4, <2>5
<1> QED
  BY Invariance, <1>1, PTL

(* What is queued, encoded or about to be is the picture its number says,  *)
(* in its own geometry.                                                    *)
THEOREM FramesKeepTheirContents == Spec => []FrameIntegrity
<1>1. Inv => FrameIntegrity
  BY DEF Inv, PendingInv, EncodedInv, FrameIntegrity
<1> QED
  BY Invariance, <1>1, PTL

(* The encoder gets the pictures in the order they were numbered.          *)
THEOREM EncodingIsOrdered == Spec => []EncodedInOrder
<1>1. Inv => EncodedInOrder
  BY DEF Inv, EncodedInv
<1> QED
  BY Invariance, <1>1, PTL

(* Nothing is used after main destroyed it.                                *)
THEOREM NothingUsedAfterTeardown == Spec => []UseWhileAlive
<1>1. Inv => UseWhileAlive
  BY DEF Inv, LifecycleInv, WorkerInv, WorkerHolds, UseWhileAlive
<1> QED
  BY Invariance, <1>1, PTL

-----------------------------------------------------------------------------
(* The steps of the callback lose no wakeup: what they queue or give to an *)
(* inference they notify of before they are through with the picture.      *)
LEMMA CallbackKeepsAwake ==
    ASSUME AwakeInv, CallbackStep
    PROVE  WakeupInv' /\ RunningInv'
<1>1. TypeOK /\ CallbackInv /\ WakeupInv /\ RunningInv
  BY DEF AwakeInv, Inv
<1>2. CASE PollInference \/ FillSrcFrame
  BY <1>1, <1>2 DEF PollInference, FillSrcFrame, NextPoll, WakeupInv, RunningInv,
     NotifierLeft, workerVars, encodeVars, mainVars
<1>3. CASE TriggerInference
  BY <1>1, <1>3 DEF TriggerInference, TypeOK, WakeupInv, RunningInv, NotifierLeft,
     encodeVars, mainVars
<1>4. CASE SignalInference
  <2>1. idx \in Workers /\ wpc' = [wpc EXCEPT ![idx] = IF @ = "wait" THEN "check" ELSE @]
    BY <1>1, <1>4 DEF SignalInference, NotifyWorker, CallbackInv
  <2>2. \A w \in Workers : /\ wpc'[w] \in {"wait", "exit", "notify"} => wpc'[w] = wpc[w]
                           /\ wpc[w] = "notify" => wpc'[w] = "notify"
                           /\ w = idx => wpc'[w] # "wait"
    BY <1>1, <2>1 DEF TypeOK
  <2> QED
    BY <1>1, <1>4, <2>2 DEF SignalInference, WakeupInv, RunningInv, NotifierLeft,
       encodeVars, mainVars
<1>5. CASE QueueDirectly
  BY <1>1, <1>5 DEF QueueDirectly, PendingMutexFree, WakeupInv, RunningInv, NotifierLeft,
     workerVars, encodeVars, mainVars
<1>6. CASE NotifyDirect
  BY <1>1, <1>6 DEF NotifyDirect, NotifyEncodeThread, WakeupInv, RunningInv, workerVars,
     mainVars
<1> QED
  BY <1>2, <1>3, <1>4, <1>5, <1>6 DEF CallbackStep

(* An inference goes to sleep only without a picture, and notifies the     *)
(* encode thread of what it has queued.                                    *)
LEMMA WorkerKeepsAwake ==
    ASSUME AwakeInv, NEW v \in Workers, WorkerStep(v)
    PROVE  WakeupInv' /\ RunningInv'
<1>1. TypeOK /\ WakeupInv /\ RunningInv /\ WorkerInv(v)
  BY DEF AwakeInv, Inv
<1>2. CASE WorkerCheck(v)
  <2>1. \A w \in Workers : /\ wpc'[w] = "wait" => wpc[w] = "wait"
                           /\ wpc[w] = "notify" => wpc'[w] = "notify"
                           /\ wpc'[w] = "exit" => wpc[w] = "exit" \/ ~ m_is_running[w]
                           /\ has_frame'[w] => has_frame[w]
    BY <1>1, <1>2 DEF WorkerCheck, TypeOK
  <2> QED
    BY <1>1, <1>2, <2>1 DEF WorkerCheck, WakeupInv, RunningInv, NotifierLeft, callbackVars,
       encodeVars, mainVars
<1>3. CASE WorkerBlock(v)
  <2>1. \A w \in Workers : /\ wpc'[w] = "wait" => wpc[w] = "wait" \/ ~ has_frame[w]
                           /\ wpc[w] = "notify" => wpc'[w] = "notify"
                           /\ wpc'[w] = "exit" => wpc[w] = "exit"
    BY <1>1, <1>3 DEF WorkerBlock, TypeOK, WorkerInv
  <2> QED
    BY <1>1, <1>3, <2>1 DEF WorkerBlock, WakeupInv, RunningInv, NotifierLeft, callbackVars,
       encodeVars, mainVars
<1>4. CASE RunModel(v)
  <2>1. \A w \in Workers : /\ wpc'[w] \in {"wait", "exit"} => wpc'[w] = wpc[w]
                           /\ wpc[w] = "notify" => wpc'[w] = "notify"
    BY <1>1, <1>4 DEF RunModel, TypeOK
  <2> QED
    BY <1>1, <1>4, <2>1 DEF RunModel, WakeupInv, RunningInv, NotifierLeft, callbackVars,
       encodeVars, mainVars
<1>5. CASE EncodeCallback(v)
  <2>1. \A w \in Workers : wpc'[w] \in {"wait", "exit"} => wpc'[w] = wpc[w]
    BY <1>1, <1>5 DEF EncodeCallback, TypeOK
  <2>2. wpc'[v] = "notify"
    BY <1>1, <1>5 DEF EncodeCallback, TypeOK
  <2> QED
    BY <1>1, <1>5, <2>1, <2>2 DEF EncodeCallback, PendingMutexFree, WakeupInv, RunningInv,
       NotifierLeft, callbackVars, encodeVars, mainVars
<1>6. CASE NotifyPending(v)
  <2>1. \A w \in Workers : wpc'[w] \in {"wait", "exit"} => wpc'[w] = wpc[w]
    BY <1>1, <1>6 DEF NotifyPending, TypeOK
  <2> QED
    BY <1>1, <1>6, <2>1 DEF NotifyPending, NotifyEncodeThread, WakeupInv, RunningInv,
       callbackVars, mainVars
<1>7. CASE ClearBusy(v)
  <2>1. \A w \in Workers : /\ wpc'[w] \in {"wait", "exit"} => wpc'[w] = wpc[w]
                           /\ wpc[w] = "notify" => wpc'[w] = "notify"
    BY <1>1, <1>7 DEF ClearBusy, TypeOK
  <2> QED
    BY <1>1, <1>7, <2>1 DEF ClearBusy, WakeupInv, RunningInv, NotifierLeft, callbackVars,
       encodeVars, mainVars
<1> QED
  BY <1>2, <1>3, <1>4, <1>5, <1>6, <1>7 DEF WorkerStep

(* The encode thread holds the mutex from its look at the queue until it   *)
(* sleeps: nothing is queued in between.                                   *)
LEMMA EncodeKeepsAwake ==
    ASSUME AwakeInv, EncodeStep
    PROVE  WakeupInv' /\ RunningInv'
<1>1. WakeupInv /\ RunningInv
  BY DEF AwakeInv
<1>2. UNCHANGED <<callbackVars, workerVars, mainVars, encoding_running, encoder>>
  BY DEF EncodeStep, EncodeTop, EncodeLock, EncodeCheck, EncodeBlock, EncodeFrame
<1>3. RunningInv'
  <2>1. epc \notin {"none", "exit"} /\ (encoding_running => epc' \notin {"none", "exit"})
    BY DEF EncodeStep, EncodeTop, EncodeLock, EncodeCheck, EncodeBlock, EncodeFrame
  <2> QED
    BY <1>1, <1>2, <2>1 DEF RunningInv, callbackVars, workerVars, mainVars
<1>4. WakeupInv'
  <2>1. epc' \in {"block", "wait"} => DOMAIN pending_frames' = {}
    BY <1>1 DEF WakeupInv, EncodeStep, EncodeTop, EncodeLock, EncodeCheck, EncodeBlock,
       EncodeFrame
  <2> QED
    BY <1>1, <1>2, <2>1 DEF WakeupInv, callbackVars, workerVars
<1> QED
  BY <1>3, <1>4

(* What main does after Ctrl+C, and wakeups nobody caused.                 *)
LEMMA TeardownKeepsAwake ==
    ASSUME AwakeInv, Interrupt \/ TeardownStep
    PROVE  WakeupInv' /\ RunningInv'
<1>1. TypeOK /\ WakeupInv /\ LifecycleInv
  BY DEF AwakeInv, Inv
<1>2. mainpc' # "running"
  BY DEF Interrupt, TeardownStep, StopEncoding, NotifyEncoding, JoinEncodeThread, ReleaseFrom,
     StopInference, NotifyInference, JoinInference
<1>3. /\ UNCHANGED <<cpc, idx, pending_frames, has_frame>>
      /\ epc' = epc \/ epc' = "lock"
  BY DEF Interrupt, TeardownStep, StopEncoding, NotifyEncoding, JoinEncodeThread,
     StopInference, NotifyInference, JoinInference, NotifyEncodeThread, callbackVars,
     workerVars, encodeVars
<1>4. \A w \in Workers : /\ wpc'[w] = "wait" => wpc[w] = "wait"
                         /\ wpc[w] = "notify" => wpc'[w] = "notify"
  <2>1. CASE NotifyInference
    BY <1>1, <2>1 DEF NotifyInference, NotifyWorker, LifecycleInv, TypeOK
  <2>2. CASE ~ NotifyInference
    BY <2>2 DEF Interrupt, TeardownStep, StopEncoding, NotifyEncoding, JoinEncodeThread,
       StopInference, JoinInference, workerVars
  <2> QED
    BY <2>1, <2>2
<1> QED
  BY <1>1, <1>2, <1>3, <1>4 DEF WakeupInv, RunningInv, NotifierLeft

LEMMA SpuriousKeepsAwake ==
    ASSUME AwakeInv, SpuriousEncodeWakeup \/ \E v \in Workers : SpuriousWorkerWakeup(v)
    PROVE  WakeupInv' /\ RunningInv'
<1>1. TypeOK /\ WakeupInv /\ RunningInv
  BY DEF AwakeInv, Inv
<1>2. CASE SpuriousEncodeWakeup
  BY <1>1, <1>2 DEF SpuriousEncodeWakeup, NotifyEncodeThread, WakeupInv, RunningInv,
     callbackVars, workerVars, mainVars
<1>3. ASSUME NEW v \in Workers, SpuriousWorkerWakeup(v)
      PROVE  WakeupInv' /\ RunningInv'
  <2>1. \A w \in Workers : /\ wpc'[w] \in {"wait", "exit"} => wpc'[w] = wpc[w]
                           /\ wpc[w] = "notify" => wpc'[w] = "notify"
    BY <1>1, <1>3 DEF SpuriousWorkerWakeup, NotifyWorker, TypeOK
  <2> QED
    BY <1>1, <1>3, <2>1 DEF SpuriousWorkerWakeup, WakeupInv, RunningInv, NotifierLeft,
       callbackVars, encodeVars, mainVars
<1> QED
  BY <1>2, <1>3

(* No thread ever sleeps through what was done for it; until Ctrl+C they   *)
(* all run (main.cpp:134-166, inference.cpp:181-208).                      *)
THEOREM WakeupsAreKept == Spec => []AwakeInv
<1>1. Init => AwakeInv
  BY InitInv DEF Init, AwakeInv, WakeupInv, RunningInv
<1>2. AwakeInv /\ [Next]_vars => AwakeInv'
  <2> SUFFICES ASSUME AwakeInv, [Next]_vars
               PROVE  WakeupInv' /\ RunningInv'
    BY NextInv DEF AwakeInv
  <2>1. ASSUME NEW g \in Geoms, FrameCallback(g)
        PROVE  WakeupInv' /\ RunningInv'
    BY <2>1, NoneAssumption DEF FrameCallback, AwakeInv, Inv, LifecycleInv, WakeupInv,
       RunningInv, NotifierLeft, workerVars, mainVars
  <2>2. CASE UNCHANGED vars
    BY <2>2 DEF AwakeInv, WakeupInv, RunningInv, NotifierLeft, vars, callbackVars,
       workerVars, encodeVars, mainVars
  <2> QED
    BY <2>1, <2>2, CallbackKeepsAwake, WorkerKeepsAwake, EncodeKeepsAwake,
       TeardownKeepsAwake, SpuriousKeepsAwake DEF Next
<1> QED
  BY <1>1, <1>2, PTL DEF Spec

(* Until Ctrl+C the picture whose turn it is to be encoded never waits for *)
(* a thread that sleeps and that nobody is about to notify: for any number *)
(* of inferences they, the callback and the encode thread never all wait   *)
(* for each other (main.cpp:144-166, inference.cpp:181-208).               *)
THEOREM NextPictureKeepsMoving == Spec => []NextPictureMoves
<1>1. ASSUME AwakeInv PROVE NextPictureMoves
  <2> SUFFICES ASSUME mainpc = "running", encode_seq < frame_seq_counter
               PROVE  NextPictureMoves
    BY DEF NextPictureMoves
  <2>1. TypeOK /\ SomeHolder /\ WakeupInv /\ RunningInv /\ \A w \in Workers : WorkerInv(w)
    BY <1>1 DEF AwakeInv, Inv
  <2>2. encode_seq \in encode_seq..(frame_seq_counter - 1) /\ frame_seq_counter # 0
    BY <2>1, NAssumption DEF TypeOK
  <2>3. CASE encode_seq \in DOMAIN pending_frames
    <3>1. epc \notin {"none", "exit", "block"} /\ (epc = "wait" => NotifierLeft)
      BY <2>1, <2>2, <2>3 DEF WakeupInv, RunningInv
    <3>2. epc \in {"none", "top", "lock", "check", "block", "wait", "render", "exit"}
      BY <2>1 DEF TypeOK
    <3> QED
      BY <2>3, <3>1, <3>2 DEF NextPictureMoves
  <2>4. CASE CallbackHolds /\ cur.seq = encode_seq
    BY <2>4 DEF NextPictureMoves
  <2>5. ASSUME NEW w \in Workers, WorkerHolds(w), src_frame[w].frame_seq = encode_seq
        PROVE  NextPictureMoves
    <3>1. wpc[w] # "exit" /\ (wpc[w] = "wait" => cpc = "signal" /\ idx = w)
      BY <2>1, <2>5 DEF WakeupInv, RunningInv, WorkerHolds
    <3> QED
      BY <2>5, <3>1 DEF NextPictureMoves
  <2> QED
    BY <2>1, <2>2, <2>3, <2>4, <2>5 DEF SomeHolder
<1> QED
  BY WakeupsAreKept, <1>1, PTL

-----------------------------------------------------------------------------
(* A step of any thread but the callback's numbering, the encode thread's  *)
(* hand-over included, is invisible to the consumer.                       *)
LEMMA Invisible ==
    ASSUME UNCHANGED <<frame_seq_counter, encode_seq, encoded>>,
           epc' = "render" <=> epc = "render"
    PROVE  UNCHANGED InOrder!vars
  BY DEF InOrder!vars, EncodedNumbers

(* Numbering a picture is the abstract Accept.                             *)
LEMMA FrameCallbackAccepts ==
    ASSUME Inv, NEW g \in Geoms, FrameCallback(g)
    PROVE  InOrder!Accept
<1>1. epc' = "render" <=> epc = "render"
  BY DEF Inv, FrameCallback, LifecycleInv
<1> QED
  BY <1>1 DEF FrameCallback, InOrder!Accept, EncodedNumbers

(* Taking a picture from the queue is not yet handling it.                 *)
LEMMA EncodeCheckInvisible ==
    ASSUME Inv, EncodeCheck
    PROVE  UNCHANGED InOrder!vars
<1>1. encode_seq \in Nat
  BY NAssumption DEF Inv, TypeOK
<1>2. UNCHANGED <<frame_seq_counter, encoded>>
  BY DEF EncodeCheck, callbackVars
<1>3. (IF epc' = "render" THEN encode_seq' - 1 ELSE encode_seq')
         = (IF epc = "render" THEN encode_seq - 1 ELSE encode_seq)
  BY <1>1 DEF EncodeCheck
<1> QED
  BY <1>2, <1>3 DEF InOrder!vars, EncodedNumbers

(* Giving it to the encoder, or dropping it for want of pixels, is.        *)
LEMMA EncodeFrameHandles ==
    ASSUME Inv, EncodeFrame
    PROVE  InOrder!Encode \/ InOrder!Lose
<1>1. /\ epc = "render" /\ epc' = "top"
      /\ UNCHANGED <<frame_seq_counter, encode_seq>>
  BY DEF EncodeFrame, callbackVars
<1>2. /\ encode_seq \in Nat /\ frame_seq_counter \in Nat /\ encoded \in Seq(CodeFrame)
      /\ encode_seq <= frame_seq_counter
  BY NAssumption DEF Inv, TypeOK
<1>3. CASE UNCHANGED encoded
  BY <1>1, <1>2, <1>3 DEF InOrder!Lose, EncodedNumbers
<1>4. CASE encoded' = Append(encoded, frame_to_encode)
  <2>1. frame_to_encode \in CodeFrame /\ frame_to_encode.frame_seq = encode_seq - 1
    BY <1>1 DEF Inv, EncodedInv, Carries
  <2>2. EncodedNumbers' = Append(EncodedNumbers, encode_seq - 1)
    <3>1. /\ Len(encoded) \in Nat /\ DOMAIN encoded = 1..Len(encoded)
          /\ DOMAIN encoded' = 1..(Len(encoded) + 1)
          /\ \A i \in 1..(Len(encoded) + 1) :
                encoded'[i] = IF i = Len(encoded) + 1 THEN frame_to_encode ELSE encoded[i]
      BY <1>2, <1>4, <2>1
    <3>2. EncodedNumbers \in Seq(Nat) /\ Len(EncodedNumbers) = Len(encoded)
      <4>1. \A i \in 1..Len(encoded) : encoded[i] \in CodeFrame
        BY <1>2, <3>1
      <4>2. \A i \in 1..Len(encoded) : encoded[i].frame_seq \in Nat
        BY <4>1 DEF CodeFrame
      <4> QED
        BY <3>1, <4>2 DEF EncodedNumbers
    <3> QED
      BY <1>2, <2>1, <3>1, <3>2 DEF EncodedNumbers
  <2> QED
    BY <1>1, <1>2, <2>2 DEF InOrder!Encode
<1> QED
  BY <1>3, <1>4 DEF EncodeFrame

(* The pipeline implements InOrderEncoding: seen through the numbers it    *)
(* hands out and what WriteData is given, every step accepts the next      *)
(* picture, handles the next picture in order, or is invisible.            *)
THEOREM PipelineIsInOrder == Spec => ImplementsInOrder
<1>1. Init => InOrder!Init
  BY DEF Init, InOrder!Init, EncodedNumbers
<1>2. Inv /\ [Next]_vars => [InOrder!Next]_(InOrder!vars)
  <2> SUFFICES ASSUME Inv, [Next]_vars
               PROVE  InOrder!Next \/ UNCHANGED InOrder!vars
    OBVIOUS
  <2>1. ASSUME NEW g \in Geoms, FrameCallback(g) PROVE InOrder!Next
    BY <2>1, FrameCallbackAccepts DEF InOrder!Next
  <2>2. CASE EncodeCheck
    BY <2>2, EncodeCheckInvisible
  <2>3. CASE EncodeFrame
    BY <2>3, EncodeFrameHandles DEF InOrder!Next
  <2>4. CASE CallbackStep
    BY <2>4, Invisible
    DEF CallbackStep, PollInference, FillSrcFrame, TriggerInference, SignalInference,
        QueueDirectly, NotifyDirect, NotifyEncodeThread, encodeVars, callbackVars
  <2>5. ASSUME NEW v \in Workers, WorkerStep(v) PROVE UNCHANGED InOrder!vars
    BY <2>5, Invisible
    DEF WorkerStep, WorkerCheck, WorkerBlock, RunModel, EncodeCallback, NotifyPending,
        ClearBusy, NotifyEncodeThread, encodeVars, callbackVars
  <2>6. CASE EncodeTop \/ EncodeLock \/ EncodeBlock
    BY <2>6, Invisible
    DEF EncodeTop, EncodeLock, EncodeBlock, callbackVars
  <2>7. CASE Interrupt \/ TeardownStep
    BY <2>7, Invisible
    DEF Interrupt, TeardownStep, StopEncoding, NotifyEncoding, JoinEncodeThread,
        StopInference, NotifyInference, JoinInference, NotifyEncodeThread,
        encodeVars, callbackVars
  <2>8. CASE SpuriousEncodeWakeup \/ \E v \in Workers : SpuriousWorkerWakeup(v)
    BY <2>8, Invisible
    DEF SpuriousEncodeWakeup, SpuriousWorkerWakeup, NotifyEncodeThread,
        encodeVars, callbackVars
  <2>9. CASE UNCHANGED vars
    BY <2>9, Invisible DEF vars, callbackVars, encodeVars
  <2> QED
    BY <2>1, <2>2, <2>3, <2>4, <2>5, <2>6, <2>7, <2>8, <2>9 DEF Next, EncodeStep
<1> QED
  BY <1>1, <1>2, Invariance, PTL DEF Spec, ImplementsInOrder, InOrder!Spec
=============================================================================

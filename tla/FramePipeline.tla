--------------------------- MODULE FramePipeline ---------------------------
(***************************************************************************)
(* The frame pipeline of rtsp_mpp_decoder: the decoder callback that       *)
(* numbers every picture and hands it to an idle inference thread (or,     *)
(* when none takes it, straight to the encoder queue), the inference       *)
(* threads, the encode thread that restores the order, and main, which     *)
(* tears everything down after Ctrl+C.                                     *)
(*                                                                         *)
(* Every thread is a program counter; a step is the code between two       *)
(* accesses to shared state.  A mutex never needs a variable: outside the  *)
(* condition-variable waits each critical section is one step, so a mutex  *)
(* is held exactly while its waiter is between evaluating the predicate    *)
(* and blocking.                                                           *)
(***************************************************************************)
EXTENDS Naturals, Sequences

CONSTANTS
    N,          \* config.inference_threads
    Geoms,      \* picture geometries (strides, hence sizes) the stream may use
    MaxFrames,  \* bound on the pictures the stream delivers
    None        \* a null pointer: no buffer, no picture, no encoder

Workers == 0..(N - 1)

(* A decoded picture: the pixels of frame number seq, laid out for geom.   *)
Image == [seq : Nat, geom : Geoms]

(* code_frame_t: geom stands for size, width and height; image for the     *)
(* bytes behind `frame', None when malloc returned NULL.                   *)
CodeFrame == [frame_seq : Nat, geom : Geoms, image : Image \cup {None}]

ASSUME NAssumption == N \in Nat /\ MaxFrames \in Nat
ASSUME NoneAssumption == None \notin Geoms /\ None \notin Image /\ None \notin CodeFrame

VARIABLES
    \* FrameContext
    frame_seq_counter, encode_seq, pending_frames, encoding_running,
    encoder, next_inference_idx,
    \* the decoder callback: program counter and locals
    cpc, cur, polls, idx,
    \* each Inference: program counter and members
    wpc, busy, has_frame, src_frame, m_is_running,
    \* the encode thread: program counter, local, and what WriteData was given
    epc, frame_to_encode, encoded,
    \* main: program counter and the inference it is destroying
    mainpc, rel

callbackVars == <<cpc, cur, polls, idx, frame_seq_counter, next_inference_idx>>
workerVars   == <<wpc, busy, has_frame, src_frame, m_is_running>>
encodeVars   == <<epc, frame_to_encode, encoded, encode_seq>>
mainVars     == <<mainpc, rel>>
vars == <<callbackVars, workerVars, encodeVars, mainVars,
          pending_frames, encoding_running, encoder>>

(* dma_data_t src_frame: geom is None while there is no buffer.            *)
SrcFrame == [geom : Geoms \cup {None}, frame_seq : Nat, image : Image \cup {None}]
NoBuffer == [geom |-> None, frame_seq |-> 0, image |-> None]

-----------------------------------------------------------------------------
(* main has built the inferences, each with its thread running, and plays. *)
Init ==
    /\ frame_seq_counter = 0 /\ encode_seq = 0
    /\ pending_frames = [s \in {} |-> None]
    /\ encoding_running = FALSE
    /\ encoder = None
    /\ next_inference_idx = 0
    /\ cpc = "idle" /\ cur = None /\ polls = 0 /\ idx = 0
    /\ wpc = [w \in Workers |-> "check"]
    /\ busy = [w \in Workers |-> FALSE]
    /\ has_frame = [w \in Workers |-> FALSE]
    /\ src_frame = [w \in Workers |-> NoBuffer]
    /\ m_is_running = [w \in Workers |-> TRUE]
    /\ epc = "none" /\ frame_to_encode = None /\ encoded = <<>>
    /\ mainpc = "running" /\ rel = 0

(* pending_mutex, and the m_signal_mutex of w.                             *)
PendingMutexFree == epc \notin {"check", "block"}
SignalMutexFree(w) == wpc[w] # "block"

(* pending_cv.notify_one / notify_all, and the same on w's m_frame_cv.  A  *)
(* woken thread must take its mutex again and re-evaluate its predicate.   *)
NotifyEncodeThread == epc' = IF epc = "wait" THEN "lock" ELSE epc
NotifyWorker(w) == wpc' = [wpc EXCEPT ![w] = IF @ = "wait" THEN "check" ELSE @]

(* pending_frames[f.frame_seq] = f                                         *)
AddPending(f) ==
    pending_frames' = [s \in DOMAIN pending_frames \cup {f.frame_seq} |->
                          IF s = f.frame_seq THEN f ELSE pending_frames[s]]

-----------------------------------------------------------------------------
(* mpp_decoder_frame_callback, on the thread that decodes.                 *)

(* A picture arrives.  The first one creates the encoder and its thread    *)
(* (an encoder that does not initialise leaves no trace: the callback      *)
(* returns before a number is taken).  Then the picture gets its number.   *)
FrameCallback(g) ==
    /\ cpc = "idle" /\ mainpc = "running"
    /\ frame_seq_counter < MaxFrames
    /\ IF encoder = None
          THEN encoder' = g /\ encoding_running' = TRUE /\ epc' = "top"
          ELSE UNCHANGED <<encoder, encoding_running, epc>>
    /\ cur' = [seq |-> frame_seq_counter, geom |-> g]
    /\ frame_seq_counter' = frame_seq_counter + 1
    /\ polls' = 0
    /\ cpc' = IF N = 0 THEN "direct" ELSE "poll"
    /\ UNCHANGED <<idx, next_inference_idx, workerVars, mainVars, pending_frames,
                   frame_to_encode, encoded, encode_seq>>

(* The loop goes on with the next inference, or falls through.             *)
NextPoll ==
    /\ polls' = polls + 1
    /\ cpc' = IF polls + 1 = N THEN "direct" ELSE "poll"

(* One turn of the loop: the next inference in rotation, if it is idle.    *)
PollInference ==
    /\ cpc = "poll"
    /\ idx' = next_inference_idx % N
    /\ next_inference_idx' = next_inference_idx + 1
    /\ IF busy[idx'] THEN NextPoll ELSE cpc' = "fill" /\ UNCHANGED polls
    /\ UNCHANGED <<cur, frame_seq_counter, workerVars, encodeVars, mainVars,
                   pending_frames, encoding_running, encoder>>

(* Mutant: only a missing buffer is replaced, not one of another geometry. *)
FillSrcFrameKeepBuffer ==
    /\ cpc = "fill"
    /\ src_frame' = [src_frame EXCEPT ![idx] =
           [geom |-> IF @.geom = None THEN cur.geom ELSE @.geom,
            frame_seq |-> cur.seq, image |-> cur]]
    /\ cpc' = "trigger"
    /\ UNCHANGED <<cur, polls, idx, frame_seq_counter, next_inference_idx, wpc, busy,
                   has_frame, m_is_running, encodeVars, mainVars,
                   pending_frames, encoding_running, encoder>>

(* The picture is copied into the src_frame of the idle inference, whose   *)
(* buffer is replaced first when it is missing or has another geometry;    *)
(* an allocation that fails leaves no buffer and the loop goes on.         *)
FillSrcFrame ==
    /\ cpc = "fill"
    /\ \/ /\ src_frame' = [src_frame EXCEPT ![idx] =
                 [geom |-> cur.geom, frame_seq |-> cur.seq, image |-> cur]]
          /\ cpc' = "trigger"
          /\ UNCHANGED polls
       \/ /\ src_frame[idx].geom # cur.geom
          /\ src_frame' = [src_frame EXCEPT ![idx].geom = None, ![idx].image = None]
          /\ NextPoll
    /\ UNCHANGED <<cur, idx, frame_seq_counter, next_inference_idx, wpc, busy,
                   has_frame, m_is_running, encodeVars, mainVars,
                   pending_frames, encoding_running, encoder>>

(* Mutant: the inference is not marked busy.                               *)
TriggerInferenceNotBusy ==
    /\ cpc = "trigger" /\ SignalMutexFree(idx)
    /\ has_frame' = [has_frame EXCEPT ![idx] = TRUE]
    /\ cpc' = "signal"
    /\ UNCHANGED <<cur, polls, idx, frame_seq_counter, next_inference_idx, wpc,
                   busy, src_frame, m_is_running, encodeVars, mainVars,
                   pending_frames, encoding_running, encoder>>

(* trigger_inference, under m_signal_mutex, then its notify_one.           *)
TriggerInference ==
    /\ cpc = "trigger" /\ SignalMutexFree(idx)
    /\ has_frame' = [has_frame EXCEPT ![idx] = TRUE]
    /\ busy' = [busy EXCEPT ![idx] = TRUE]
    /\ cpc' = "signal"
    /\ UNCHANGED <<cur, polls, idx, frame_seq_counter, next_inference_idx, wpc,
                   src_frame, m_is_running, encodeVars, mainVars,
                   pending_frames, encoding_running, encoder>>

SignalInference ==
    /\ cpc = "signal"
    /\ NotifyWorker(idx)
    /\ cpc' = "idle" /\ cur' = None
    /\ UNCHANGED <<polls, idx, frame_seq_counter, next_inference_idx, busy,
                   has_frame, src_frame, m_is_running, encodeVars, mainVars,
                   pending_frames, encoding_running, encoder>>

(* No inference took the picture: it is queued for the encoder as it is.   *)
QueueDirectly ==
    /\ cpc = "direct" /\ PendingMutexFree
    /\ AddPending([frame_seq |-> cur.seq, geom |-> cur.geom, image |-> cur])
    /\ cpc' = "notify"
    /\ UNCHANGED <<cur, polls, idx, frame_seq_counter, next_inference_idx,
                   workerVars, encodeVars, mainVars, encoding_running, encoder>>

NotifyDirect ==
    /\ cpc = "notify"
    /\ NotifyEncodeThread
    /\ cpc' = "idle" /\ cur' = None
    /\ UNCHANGED <<polls, idx, frame_seq_counter, next_inference_idx, workerVars,
                   frame_to_encode, encoded, encode_seq, mainVars,
                   pending_frames, encoding_running, encoder>>

-----------------------------------------------------------------------------
(* Inference::inference_model, thread w.                                   *)

(* The loop test, the lock and the predicate of the wait: leave, take the  *)
(* frame, or prepare to block with the mutex still held.  m_is_running     *)
(* only ever turns false, so one read stands for the code's three.         *)
WorkerCheck(w) ==
    /\ wpc[w] = "check"
    /\ \/ /\ ~ m_is_running[w]
          /\ wpc' = [wpc EXCEPT ![w] = "exit"]
          /\ UNCHANGED has_frame
       \/ /\ m_is_running[w] /\ has_frame[w]
          /\ has_frame' = [has_frame EXCEPT ![w] = FALSE]
          /\ wpc' = [wpc EXCEPT ![w] = "infer"]
       \/ /\ m_is_running[w] /\ ~ has_frame[w]
          /\ wpc' = [wpc EXCEPT ![w] = "block"]
          /\ UNCHANGED has_frame
    /\ UNCHANGED <<busy, src_frame, m_is_running, callbackVars, encodeVars,
                   mainVars, pending_frames, encoding_running, encoder>>

(* The thread joins the waiters of m_frame_cv and releases the mutex.      *)
WorkerBlock(w) ==
    /\ wpc[w] = "block"
    /\ wpc' = [wpc EXCEPT ![w] = "wait"]
    /\ UNCHANGED <<busy, has_frame, src_frame, m_is_running, callbackVars,
                   encodeVars, mainVars, pending_frames, encoding_running, encoder>>

(* Mutant: a step that fails skips the callback.                           *)
RunModelSkipCallback(w) ==
    /\ wpc[w] = "infer"
    /\ wpc' = [wpc EXCEPT ![w] = "clear"]
    /\ UNCHANGED <<busy, has_frame, src_frame, m_is_running, callbackVars,
                   encodeVars, mainVars, pending_frames, encoding_running, encoder>>

(* Resize, run the network and draw the boxes into src_frame; any step     *)
(* that fails jumps to CallBack with the picture as it then is.            *)
RunModel(w) ==
    /\ wpc[w] = "infer"
    /\ wpc' = [wpc EXCEPT ![w] = "callback"]
    /\ UNCHANGED <<busy, has_frame, src_frame, m_is_running, callbackVars,
                   encodeVars, mainVars, pending_frames, encoding_running, encoder>>

(* CallBack: a copy of src_frame (without pixels if malloc fails) goes     *)
(* through inference_encode_callback into the queue, under pending_mutex.  *)
EncodeCallback(w) ==
    /\ wpc[w] = "callback" /\ PendingMutexFree
    /\ \E image \in {src_frame[w].image, None} :
          AddPending([frame_seq |-> src_frame[w].frame_seq,
                      geom |-> src_frame[w].geom, image |-> image])
    /\ wpc' = [wpc EXCEPT ![w] = "notify"]
    /\ UNCHANGED <<busy, has_frame, src_frame, m_is_running, callbackVars,
                   encodeVars, mainVars, encoding_running, encoder>>

(* Mutant: the frame is queued without a notification.                     *)
NotifyPendingForgotten(w) ==
    /\ wpc[w] = "notify"
    /\ wpc' = [wpc EXCEPT ![w] = "clear"]
    /\ UNCHANGED <<busy, has_frame, src_frame, m_is_running, callbackVars,
                   encodeVars, mainVars, pending_frames, encoding_running, encoder>>

NotifyPending(w) ==
    /\ wpc[w] = "notify"
    /\ NotifyEncodeThread
    /\ wpc' = [wpc EXCEPT ![w] = "clear"]
    /\ UNCHANGED <<busy, has_frame, src_frame, m_is_running, callbackVars,
                   frame_to_encode, encoded, encode_seq, mainVars,
                   pending_frames, encoding_running, encoder>>

(* m_is_busy.store(false): the inference may be given the next picture.    *)
ClearBusy(w) ==
    /\ wpc[w] = "clear"
    /\ busy' = [busy EXCEPT ![w] = FALSE]
    /\ wpc' = [wpc EXCEPT ![w] = "check"]
    /\ UNCHANGED <<has_frame, src_frame, m_is_running, callbackVars, encodeVars,
                   mainVars, pending_frames, encoding_running, encoder>>

-----------------------------------------------------------------------------
(* encode_thread_func.                                                     *)

EncodeTop ==
    /\ epc = "top"
    /\ epc' = IF encoding_running THEN "lock" ELSE "exit"
    /\ UNCHANGED <<frame_to_encode, encoded, encode_seq, callbackVars, workerVars,
                   mainVars, pending_frames, encoding_running, encoder>>

EncodeLock ==
    /\ epc = "lock"
    /\ epc' = "check"
    /\ UNCHANGED <<frame_to_encode, encoded, encode_seq, callbackVars, workerVars,
                   mainVars, pending_frames, encoding_running, encoder>>

(* Mutant: the first frame of the map is taken, whichever it is.           *)
EncodeCheckFirst ==
    /\ epc = "check"
    /\ \/ /\ DOMAIN pending_frames = {}
          /\ epc' = IF encoding_running THEN "block" ELSE "exit"
          /\ UNCHANGED <<frame_to_encode, encode_seq, pending_frames>>
       \/ \E s \in DOMAIN pending_frames :
             /\ \A t \in DOMAIN pending_frames : s <= t
             /\ frame_to_encode' = pending_frames[s]
             /\ pending_frames' = [t \in DOMAIN pending_frames \ {s} |-> pending_frames[t]]
             /\ encode_seq' = encode_seq + 1
             /\ epc' = "render"
    /\ UNCHANGED <<encoded, callbackVars, workerVars, mainVars,
                   encoding_running, encoder>>

(* With the mutex: the predicate of the wait, then the frame that is next  *)
(* in order, if it is there; when it is not, around the loop again.        *)
EncodeCheck ==
    /\ epc = "check"
    /\ \/ /\ DOMAIN pending_frames = {}
          /\ epc' = IF encoding_running THEN "block" ELSE "exit"
          /\ UNCHANGED <<frame_to_encode, encode_seq, pending_frames>>
       \/ /\ encode_seq \in DOMAIN pending_frames
          /\ frame_to_encode' = pending_frames[encode_seq]
          /\ pending_frames' = [s \in DOMAIN pending_frames \ {encode_seq} |->
                                   pending_frames[s]]
          /\ encode_seq' = encode_seq + 1
          /\ epc' = "render"
       \/ /\ DOMAIN pending_frames # {}
          /\ encode_seq \notin DOMAIN pending_frames
          /\ epc' = "top"
          /\ UNCHANGED <<frame_to_encode, encode_seq, pending_frames>>
    /\ UNCHANGED <<encoded, callbackVars, workerVars, mainVars,
                   encoding_running, encoder>>

EncodeBlock ==
    /\ epc = "block"
    /\ epc' = "wait"
    /\ UNCHANGED <<frame_to_encode, encoded, encode_seq, callbackVars, workerVars,
                   mainVars, pending_frames, encoding_running, encoder>>

(* Draw the frame rate and give the picture to the encoder; a frame        *)
(* without pixels is dropped.                                              *)
EncodeFrame ==
    /\ epc = "render"
    /\ encoded' = IF frame_to_encode.image # None /\ encoder # None
                     THEN Append(encoded, frame_to_encode) ELSE encoded
    /\ frame_to_encode' = None
    /\ epc' = "top"
    /\ UNCHANGED <<encode_seq, callbackVars, workerVars, mainVars,
                   pending_frames, encoding_running, encoder>>

-----------------------------------------------------------------------------
(* main, from the return of sem_wait to the end of inferences.clear().     *)

(* Ctrl+C; mk_player_release returns once no callback is running, and no   *)
(* callback starts afterwards (the one assumption on the media library).   *)
Interrupt ==
    /\ mainpc = "running" /\ cpc = "idle"
    /\ mainpc' = "stop"
    /\ UNCHANGED <<rel, callbackVars, workerVars, encodeVars,
                   pending_frames, encoding_running, encoder>>

(* Mutant: the flag stays set.                                             *)
StopEncodingForgotten ==
    /\ mainpc = "stop"
    /\ mainpc' = "notify"
    /\ UNCHANGED <<rel, callbackVars, workerVars, encodeVars, pending_frames,
                   encoding_running, encoder>>

StopEncoding ==
    /\ mainpc = "stop"
    /\ encoding_running' = FALSE
    /\ mainpc' = "notify"
    /\ UNCHANGED <<rel, callbackVars, workerVars, encodeVars, pending_frames, encoder>>

NotifyEncoding ==
    /\ mainpc = "notify"
    /\ NotifyEncodeThread
    /\ mainpc' = "join"
    /\ UNCHANGED <<rel, callbackVars, workerVars, frame_to_encode, encoded,
                   encode_seq, pending_frames, encoding_running, encoder>>

(* The next inference of inferences.clear(), in order, from k on.          *)
ReleaseFrom(k) ==
    /\ rel' = k
    /\ mainpc' = IF k < N THEN "release" ELSE "done"

(* join, when there is a thread to join; then decoder and encoder go.      *)
JoinEncodeThread ==
    /\ mainpc = "join" /\ epc \in {"none", "exit"}
    /\ encoder' = None
    /\ ReleaseFrom(0)
    /\ UNCHANGED <<callbackVars, workerVars, encodeVars, pending_frames, encoding_running>>

(* Inference::release: the flag (written without the mutex), the           *)
(* notification, the join, and the buffers.                                *)
StopInference ==
    /\ mainpc = "release"
    /\ m_is_running' = [m_is_running EXCEPT ![rel] = FALSE]
    /\ mainpc' = "relnotify"
    /\ UNCHANGED <<rel, callbackVars, wpc, busy, has_frame, src_frame, encodeVars,
                   pending_frames, encoding_running, encoder>>

NotifyInference ==
    /\ mainpc = "relnotify"
    /\ NotifyWorker(rel)
    /\ mainpc' = "reljoin"
    /\ UNCHANGED <<rel, callbackVars, busy, has_frame, src_frame, m_is_running,
                   encodeVars, pending_frames, encoding_running, encoder>>

(* Mutant: the thread is detached instead of joined.                       *)
JoinInferenceDetached ==
    /\ mainpc = "reljoin"
    /\ src_frame' = [src_frame EXCEPT ![rel].geom = None, ![rel].image = None]
    /\ ReleaseFrom(rel + 1)
    /\ UNCHANGED <<callbackVars, wpc, busy, has_frame, m_is_running, encodeVars,
                   pending_frames, encoding_running, encoder>>

JoinInference ==
    /\ mainpc = "reljoin" /\ wpc[rel] = "exit"
    /\ src_frame' = [src_frame EXCEPT ![rel].geom = None, ![rel].image = None]
    /\ ReleaseFrom(rel + 1)
    /\ UNCHANGED <<callbackVars, wpc, busy, has_frame, m_is_running, encodeVars,
                   pending_frames, encoding_running, encoder>>

-----------------------------------------------------------------------------
(* A condition variable may wake a waiter that nobody notified.            *)
SpuriousEncodeWakeup ==
    /\ epc = "wait"
    /\ NotifyEncodeThread
    /\ UNCHANGED <<frame_to_encode, encoded, encode_seq, callbackVars, workerVars,
                   mainVars, pending_frames, encoding_running, encoder>>

SpuriousWorkerWakeup(w) ==
    /\ wpc[w] = "wait"
    /\ NotifyWorker(w)
    /\ UNCHANGED <<busy, has_frame, src_frame, m_is_running, callbackVars,
                   encodeVars, mainVars, pending_frames, encoding_running, encoder>>

CallbackStep ==
    \/ PollInference \/ FillSrcFrame \/ TriggerInference \/ SignalInference
    \/ QueueDirectly \/ NotifyDirect

WorkerStep(w) ==
    \/ WorkerCheck(w) \/ WorkerBlock(w) \/ RunModel(w)
    \/ EncodeCallback(w) \/ NotifyPending(w) \/ ClearBusy(w)

EncodeStep ==
    \/ EncodeTop \/ EncodeLock \/ EncodeCheck \/ EncodeBlock \/ EncodeFrame

TeardownStep ==
    \/ StopEncoding \/ NotifyEncoding \/ JoinEncodeThread
    \/ StopInference \/ NotifyInference \/ JoinInference

Next ==
    \/ \E g \in Geoms : FrameCallback(g)
    \/ CallbackStep
    \/ \E w \in Workers : WorkerStep(w)
    \/ EncodeStep
    \/ Interrupt
    \/ TeardownStep
    \/ SpuriousEncodeWakeup
    \/ \E w \in Workers : SpuriousWorkerWakeup(w)

Spec == Init /\ [][Next]_vars

(* The scheduler runs every thread that can run.  A mutex that is taken    *)
(* and released again and again (by the encode thread looking for a frame  *)
(* that is not there yet, by waits that wake up spuriously) is handed over *)
(* eventually: strong fairness for the three steps that contend for one.   *)
(* No picture need arrive, nobody need press Ctrl+C, no wakeup need be     *)
(* spurious.                                                               *)
Fairness ==
    /\ WF_vars(CallbackStep) /\ SF_vars(TriggerInference) /\ SF_vars(QueueDirectly)
    /\ \A w \in Workers : WF_vars(WorkerStep(w)) /\ SF_vars(EncodeCallback(w))
    /\ WF_vars(EncodeStep)
    /\ WF_vars(TeardownStep)

FairSpec == Spec /\ Fairness

-----------------------------------------------------------------------------
(* Safety.                                                                 *)

(* Every variable has its type, and the numbers in use are below the       *)
(* counter that hands them out (main.cpp:216, main.cpp:157-163).           *)
TypeOK ==
    /\ frame_seq_counter \in 0..MaxFrames
    /\ encode_seq \in 0..frame_seq_counter
    /\ DOMAIN pending_frames \subseteq 0..(frame_seq_counter - 1)
    /\ \A s \in DOMAIN pending_frames : pending_frames[s] \in CodeFrame
    /\ encoding_running \in BOOLEAN
    /\ encoder \in Geoms \cup {None}
    /\ next_inference_idx \in Nat
    /\ cpc \in {"idle", "poll", "fill", "trigger", "signal", "direct", "notify"}
    /\ cur \in Image \cup {None}
    /\ polls \in 0..N /\ idx \in Nat
    /\ wpc \in [Workers -> {"check", "block", "wait", "infer", "callback",
                            "notify", "clear", "exit"}]
    /\ busy \in [Workers -> BOOLEAN] /\ has_frame \in [Workers -> BOOLEAN]
    /\ src_frame \in [Workers -> SrcFrame]
    /\ m_is_running \in [Workers -> BOOLEAN]
    /\ epc \in {"none", "top", "lock", "check", "block", "wait", "render", "exit"}
    /\ frame_to_encode \in CodeFrame \cup {None}
    /\ encoded \in Seq(CodeFrame)
    /\ mainpc \in {"running", "stop", "notify", "join", "release", "relnotify",
                   "reljoin", "done"}
    /\ rel \in Nat

(* "is_busy == false, so the inference thread does not access src_frame"   *)
(* (the comment at main.cpp:230): while the callback writes the src_frame  *)
(* of the inference it picked, that thread neither uses it nor has been    *)
(* told to.                                                                *)
SrcFrameExclusive ==
    cpc \in {"fill", "trigger"} =>
        wpc[idx] \notin {"infer", "callback"} /\ ~ has_frame[idx]

(* An inference answers for the picture in its src_frame from the trigger  *)
(* until the picture is queued.                                            *)
WorkerHolds(w) == has_frame[w] \/ wpc[w] \in {"infer", "callback"}

CallbackHolds == cpc \in {"poll", "fill", "trigger", "direct"}

(* Who can hold a picture: the inferences, the callback, pending_frames.   *)
Parties == 0..(N + 1)
Holds(p, s) ==
    \/ p \in Workers /\ WorkerHolds(p) /\ src_frame[p].frame_seq = s
    \/ p = N /\ CallbackHolds /\ cur.seq = s
    \/ p = N + 1 /\ s \in DOMAIN pending_frames

(* Every numbered picture that is not encoded yet is held by exactly one   *)
(* party, and no other number is held by anyone: none is lost on the way   *)
(* through a failing inference, a busy rotation or a failed allocation (a  *)
(* gap would stop the encode thread for good, main.cpp:157-166), and none  *)
(* is queued twice.                                                        *)
FrameCustody ==
    \A s \in 0..MaxFrames :
        /\ (\E p \in Parties : Holds(p, s)) <=> s \in encode_seq..(frame_seq_counter - 1)
        /\ \A p \in Parties : Holds(p, s) =>
              \A q \in Parties : Holds(q, s) => p = q

(* f carries picture number s, whole, in the geometry it is labelled with, *)
(* or carries no pixels.                                                   *)
Carries(f, s) ==
    /\ f.frame_seq = s
    /\ f.image \in {None, [seq |-> s, geom |-> f.geom]}

(* What is queued, about to be encoded or encoded under a number is that   *)
(* picture with its own size and strides, although inferences are reused   *)
(* from picture to picture and the geometry may change between two         *)
(* (main.cpp:233-256, inference.cpp:369-381).                              *)
FrameIntegrity ==
    /\ \A s \in DOMAIN pending_frames : Carries(pending_frames[s], s)
    /\ epc = "render" => Carries(frame_to_encode, encode_seq - 1)
    /\ \A i \in DOMAIN encoded :
          encoded[i].image # None /\ Carries(encoded[i], encoded[i].frame_seq)

(* The encoder is given the pictures in the order they were numbered, each *)
(* at most once, whatever the order the inferences finish in.              *)
EncodedInOrder ==
    \A i, j \in DOMAIN encoded :
        i < j => encoded[i].frame_seq < encoded[j].frame_seq

(* main deletes the encoder and frees the buffers of an inference only     *)
(* when nobody uses them any more (main.cpp:435-451, inference.cpp:391-402).*)
UseWhileAlive ==
    /\ epc = "render" => encoder # None
    /\ \A w \in Workers : wpc[w] \in {"infer", "callback"} => src_frame[w].geom # None

(* The pipeline as its consumer sees it.                                   *)
EncodedNumbers == [i \in DOMAIN encoded |-> encoded[i].frame_seq]
InOrder == INSTANCE InOrderEncoding WITH
    accepted <- frame_seq_counter,
    handled  <- IF epc = "render" THEN encode_seq - 1 ELSE encode_seq,
    output   <- EncodedNumbers

(* Every step numbers the next picture, handles the next picture or does   *)
(* neither.                                                                *)
ImplementsInOrder == InOrder!Spec

-----------------------------------------------------------------------------
(* Liveness, under FairSpec.                                               *)

(* While the program is not being stopped, every numbered picture reaches  *)
(* the encode thread: no wakeup is missed, no thread is starved by the     *)
(* encode thread's loop, no gap stalls the order (main.cpp:144-167).       *)
EveryFrameEncoded ==
    \A s \in 0..(MaxFrames - 1) :
        (frame_seq_counter > s) ~> (encode_seq > s \/ mainpc # "running")

(* A thread sleeps although the flag that should end it was cleared: the   *)
(* notification came between its look at the flag and its sleep.           *)
MissedWakeup ==
    \/ mainpc = "join" /\ epc = "wait" /\ ~ encoding_running
    \/ mainpc = "reljoin" /\ wpc[rel] = "wait" /\ ~ m_is_running[rel]

(* After Ctrl+C main either gets to the end or sits in a join of a thread  *)
(* that missed its wakeup; nothing else can hold the exit up.              *)
ExitHeldUpOnlyByMissedWakeup ==
    (mainpc # "running") ~> (mainpc = "done" \/ MissedWakeup)

(* "Press Ctrl+C to exit" (main.cpp:371): after Ctrl+C main gets past the  *)
(* joins of the encode thread and of every inference.  It need not:        *)
(* encoding_running is cleared outside pending_mutex (main.cpp:435-436),   *)
(* m_is_running outside m_signal_mutex (inference.cpp:392-393).            *)
CtrlCExits == (mainpc # "running") ~> (mainpc = "done")
=============================================================================

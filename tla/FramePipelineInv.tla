-------------------------- MODULE FramePipelineInv --------------------------
(***************************************************************************)
(* The inductive invariant of FramePipeline, in named parts: one for each  *)
(* thread and one for what the threads share.                              *)
(***************************************************************************)
EXTENDS FramePipeline

(* The callback holds the latest number while it has a picture in hand, it *)
(* runs only before Ctrl+C, and the inference it picked is its own until   *)
(* the trigger.                                                            *)
CallbackInv ==
    /\ cpc = "idle" \/ (cur \in Image /\ mainpc = "running"
                        /\ frame_seq_counter = cur.seq + 1)
    /\ cpc \in {"poll", "fill"} => polls < N
    /\ cpc \in {"fill", "trigger", "signal"} => idx \in Workers
    /\ cpc \in {"fill", "trigger"} => ~ busy[idx]
    /\ cpc = "trigger" =>
          src_frame[idx] = [geom |-> cur.geom, frame_seq |-> cur.seq, image |-> cur]

(* An inference is busy exactly from the trigger to the end of its turn,   *)
(* cannot be given a picture between its look at m_has_frame and its       *)
(* sleep, and has the picture it answers for in a buffer of that geometry. *)
WorkerInv(w) ==
    /\ busy[w] <=> has_frame[w] \/ wpc[w] \in {"infer", "callback", "notify", "clear"}
    /\ has_frame[w] => wpc[w] \in {"check", "wait", "exit"}
    /\ WorkerHolds(w) =>
          src_frame[w].frame_seq \in encode_seq..(frame_seq_counter - 1)
    /\ WorkerHolds(w) /\ wpc[w] # "exit" =>
          /\ src_frame[w].geom # None
          /\ src_frame[w].image = [seq |-> src_frame[w].frame_seq, geom |-> src_frame[w].geom]

(* The encoder exists while the encode thread may use it; main is past the *)
(* join only when that thread has left or never was.                       *)
LifecycleInv ==
    /\ encoder = None => epc \in {"none", "exit"}
    /\ mainpc \in {"release", "relnotify", "reljoin"} => rel \in Workers

(* What is queued is not encoded yet and is what its number says.          *)
PendingInv ==
    /\ DOMAIN pending_frames \subseteq encode_seq..(frame_seq_counter - 1)
    /\ \A s \in DOMAIN pending_frames : Carries(pending_frames[s], s)

(* No picture has two holders ...                                          *)
OneHolder ==
    /\ \A v, w \in Workers :
          v # w /\ WorkerHolds(v) /\ WorkerHolds(w) =>
              src_frame[v].frame_seq # src_frame[w].frame_seq
    /\ \A w \in Workers :
          WorkerHolds(w) => src_frame[w].frame_seq \notin DOMAIN pending_frames
    /\ CallbackHolds =>
          /\ cur.seq \notin DOMAIN pending_frames
          /\ encode_seq <= cur.seq
          /\ \A w \in Workers : WorkerHolds(w) => src_frame[w].frame_seq # cur.seq

(* ... and every number from encode_seq on has one.                        *)
SomeHolder ==
    \A s \in encode_seq..(frame_seq_counter - 1) :
        \/ s \in DOMAIN pending_frames
        \/ CallbackHolds /\ cur.seq = s
        \/ \E w \in Workers : WorkerHolds(w) /\ src_frame[w].frame_seq = s

(* What the encoder got is in order and older than what comes next.        *)
Handled == IF epc = "render" THEN encode_seq - 1 ELSE encode_seq
EncodedInv ==
    /\ epc = "render" => /\ frame_to_encode \in CodeFrame
                         /\ encode_seq > 0
                         /\ Carries(frame_to_encode, encode_seq - 1)
    /\ \A i \in DOMAIN encoded :
          /\ encoded[i].frame_seq < Handled
          /\ encoded[i].image # None
          /\ Carries(encoded[i], encoded[i].frame_seq)
    /\ EncodedInOrder

(* The inductive invariant.                                                *)
Inv ==
    /\ TypeOK
    /\ CallbackInv
    /\ \A w \in Workers : WorkerInv(w)
    /\ LifecycleInv
    /\ PendingInv
    /\ OneHolder
    /\ SomeHolder
    /\ EncodedInv

(* Nobody sleeps through what was done for it: a picture queued while the  *)
(* encode thread is asleep, or given to an inference that is, has its      *)
(* notification still to come, and nobody falls asleep over one.           *)
NotifierLeft == cpc = "notify" \/ \E w \in Workers : wpc[w] = "notify"
WakeupInv ==
    /\ epc = "block" => DOMAIN pending_frames = {}
    /\ epc = "wait" => DOMAIN pending_frames = {} \/ NotifierLeft
    /\ \A w \in Workers : wpc[w] = "wait" /\ has_frame[w] => cpc = "signal" /\ idx = w

(* Until Ctrl+C the inferences run, and so does the encode thread from the *)
(* first picture on.                                                       *)
RunningInv ==
    mainpc = "running" =>
        /\ \A w \in Workers : m_is_running[w] /\ wpc[w] # "exit"
        /\ encoder = None => frame_seq_counter = 0
        /\ encoder # None => encoding_running /\ epc \notin {"none", "exit"}

AwakeInv == Inv /\ WakeupInv /\ RunningInv

(* Until Ctrl+C the picture whose turn it is never waits for a thread that *)
(* sleeps: it is in the hands of the callback, or of an inference that is  *)
(* awake or about to be notified, or it is queued and the encode thread is *)
(* awake or about to be notified.  The callback, the inferences and the    *)
(* encode thread never all wait for each other, for any number of them     *)
(* (main.cpp:144-166, inference.cpp:181-208).                              *)
NextPictureMoves ==
    mainpc = "running" /\ encode_seq < frame_seq_counter =>
        \/ CallbackHolds /\ cur.seq = encode_seq
        \/ \E w \in Workers :
              /\ WorkerHolds(w) /\ src_frame[w].frame_seq = encode_seq
              /\ wpc[w] \notin {"wait", "exit"} \/ (cpc = "signal" /\ idx = w)
        \/ /\ encode_seq \in DOMAIN pending_frames
           /\ epc \in {"top", "lock", "check", "render"} \/ NotifierLeft
=============================================================================

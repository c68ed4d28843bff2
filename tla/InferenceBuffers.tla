-------------------------- MODULE InferenceBuffers --------------------------
(***************************************************************************)
(* The DMA buffers of the inferences: who allocates them, with which       *)
(* system calls, how they are sized and used, and what is given back.      *)
(*                                                                         *)
(* Two kinds of thread allocate at the same time: the owner, which is main *)
(* while it sets the inferences up and takes them down and the decoder     *)
(* callback in between (these never overlap), and the thread of each       *)
(* inference.  They share the process's descriptor table.                  *)
(*                                                                         *)
(* Who may use a src_frame when is FramePipeline's subject; here an        *)
(* inference is busy from the trigger to the end of its callback.          *)
(***************************************************************************)
EXTENDS LabelDrawing, Sequences

CONSTANTS
    N,             \* number of inferences
    MaxFd,         \* descriptors the process may have open besides its others
    MaxPictures,   \* bound on the pictures the decoder delivers
    ModelW, ModelH,\* size of the network's input
    Geometries,    \* pictures: [w, h, ws, hs], pixels and strides
    Detections,    \* where labels are drawn: <<label, conf, box_x, box_y>>
    FPSImage       \* size of the text image of drawFPS

ASSUME BoundAssumption ==
    N \in Nat \ {0} /\ MaxFd \in Nat /\ MaxPictures \in Nat
ASSUME ModelAssumption == ModelW \in Nat \ {0} /\ ModelH \in Nat \ {0}
(* The decoder pads its pictures to even strides (to multiples of 16).     *)
ASSUME GeometryAssumption ==
    \A g \in Geometries :
        /\ g.w \in Nat \ {0} /\ g.h \in Nat \ {0} /\ g.ws \in Nat /\ g.hs \in Nat
        /\ g.w <= g.ws /\ g.h <= g.hs /\ g.ws % 2 = 0 /\ g.hs % 2 = 0
(* Text images have a size; a box may lie anywhere.                        *)
ASSUME DetectionAssumption ==
    /\ Detections \subseteq (Nat \X Nat) \X (Nat \X Nat) \X Int \X Int
    /\ FPSImage \in Nat \X Nat

Inferences == 1..N
Kinds == {"src_frame", "resize_img", "input_img", "rgba_data"}
Buffers == Inferences \X Kinds
Threads == 0..N        \* 0 is the owner, i the thread of inference i
Fds == 1..MaxFd

Src(i) == <<i, "src_frame">>
Rgba(i) == <<i, "rgba_data">>

VARIABLES
    open,      \* external: the descriptor table, the numbers in use
    lost,      \* descriptors no one will close
    dma,       \* every dma_data_t; len is the length of its mapping, 0 for nullptr
    alloc,     \* the allocation each thread is in
    opc, cur, step,   \* the owner: place, inference at hand, step of initialize
    held,      \* what initialize took for an inference, besides buffers
    leaving,   \* the inferences main has still to release, the next one first
    picture, polls, next_inference_idx, pictures,    \* the decoder callback
    wpc, m_is_running, m_is_busy

tableVars == <<open, lost>>
ownerVars == <<opc, cur, step, held, leaving>>
callbackVars == <<picture, polls, next_inference_idx, pictures>>
workerVars == <<wpc, m_is_running, m_is_busy>>
vars == <<tableVars, dma, alloc, ownerVars, callbackVars, workerVars>>

-----------------------------------------------------------------------------
NoDma == [width |-> 0, height |-> 0, width_stride |-> 0, height_stride |-> 0,
          size |-> 0, fd |-> 0, len |-> 0]
NoAlloc == [at |-> "none", buf |-> <<1, "src_frame">>, heap |-> 0, got |-> 0]

GetSize(d) == IF d.len # 0 THEN d.size ELSE 0

YuvSize(g) == (g.ws * g.hs * 3) \div 2
ModelSize == ModelW * ModelH * 3
RgbaSize(d) == d.width * d.height * 4

(* The letterbox: the picture fitted into the network's input.             *)
ResizeSize(d) ==
    IF ModelW * d.height <= ModelH * d.width
       THEN ModelW * ((d.height * ModelW) \div d.width) * 3
       ELSE ((d.width * ModelH) \div d.height) * ModelH * 3

Init ==
    /\ open = {} /\ lost = {}
    /\ dma = [b \in Buffers |-> NoDma]
    /\ alloc = [t \in Threads |-> NoAlloc]
    /\ opc = "build" /\ cur = 1 /\ step = 1
    /\ held = [i \in Inferences |-> {}] /\ leaving = <<>>
    /\ picture \in Geometries /\ polls = 0 /\ next_inference_idx = 0 /\ pictures = 0
    /\ wpc = [i \in Inferences |-> "none"]
    /\ m_is_running = [i \in Inferences |-> FALSE]
    /\ m_is_busy = [i \in Inferences |-> FALSE]

-----------------------------------------------------------------------------
(* dma_data_t::release and make_dma of buffer b by thread t, up to the     *)
(* first system call: the dimensions are stored before there is memory.    *)
Released(d) == IF d.len = 0 THEN d ELSE [d EXCEPT !.len = 0, !.fd = 0, !.size = 0]
ReleasedFds(b) == IF dma[b].len = 0 THEN {} ELSE {dma[b].fd}

MakeDma(t, b, width, height, size) ==
    /\ open' = open \ ReleasedFds(b)
    /\ dma' = [dma EXCEPT ![b] = [Released(dma[b]) EXCEPT !.width = width, !.height = height,
                                                          !.size = size]]
    /\ alloc' = [alloc EXCEPT ![t] = [NoAlloc EXCEPT !.at = "open", !.buf = b]]

Forget(t) == alloc' = [alloc EXCEPT ![t] = NoAlloc]

(* dma_buf_alloc.  A new descriptor is the lowest number that is free.     *)
Free == Fds \ open
Lowest == CHOOSE f \in Free : \A e \in Free : f <= e

OpenHeap(t) ==
    /\ alloc[t].at = "open"
    /\ \/ /\ Free # {}
          /\ open' = open \cup {Lowest}
          /\ alloc' = [alloc EXCEPT ![t].at = "ioctl", ![t].heap = Lowest]
       \/ /\ alloc' = [alloc EXCEPT ![t].at = "failed"]
          /\ UNCHANGED open
    /\ UNCHANGED <<lost, dma, ownerVars, callbackVars, workerVars>>

(* The buffer; without one the heap's descriptor is left open.             *)
IoctlAlloc(t) ==
    /\ alloc[t].at = "ioctl"
    /\ \/ /\ Free # {}
          /\ open' = open \cup {Lowest}
          /\ alloc' = [alloc EXCEPT ![t].at = "mmap", ![t].got = Lowest]
          /\ UNCHANGED lost
       \/ /\ alloc' = [alloc EXCEPT ![t].at = "failed"]
          /\ lost' = lost \cup {alloc[t].heap}
          /\ UNCHANGED open
    /\ UNCHANGED <<dma, ownerVars, callbackVars, workerVars>>

(* Its mapping; without one both descriptors are left open.                *)
Mmap(t) ==
    LET a == alloc[t] IN
    /\ a.at = "mmap"
    /\ \/ /\ dma' = [dma EXCEPT ![a.buf].len = dma[a.buf].size, ![a.buf].fd = a.got]
          /\ alloc' = [alloc EXCEPT ![t].at = "close"]
          /\ UNCHANGED lost
       \/ /\ alloc' = [alloc EXCEPT ![t].at = "failed"]
          /\ lost' = lost \cup {a.heap, a.got}
          /\ UNCHANGED dma
    /\ UNCHANGED <<open, ownerVars, callbackVars, workerVars>>

(* Mutant: the heap stays open.                                            *)
CloseHeapForgotten(t) ==
    /\ alloc[t].at = "close"
    /\ alloc' = [alloc EXCEPT ![t].at = "done"]
    /\ UNCHANGED <<open, lost, dma, ownerVars, callbackVars, workerVars>>

CloseHeap(t) ==
    /\ alloc[t].at = "close"
    /\ open' = open \ {alloc[t].heap}
    /\ alloc' = [alloc EXCEPT ![t].at = "done"]
    /\ UNCHANGED <<lost, dma, ownerVars, callbackVars, workerVars>>

-----------------------------------------------------------------------------
(* Inference::initialize, for the inferences in turn; what each call       *)
(* takes, "" for one that only may fail.                                   *)
InitCalls == <<"", "rknn_ctx", "", "input_attrs", "", "output_attrs", "">>

InitCall ==
    /\ opc = "build" /\ step <= Len(InitCalls)
    /\ held' = [held EXCEPT ![cur] = @ \cup ({InitCalls[step]} \ {""})]
    /\ step' = step + 1
    /\ UNCHANGED <<opc, cur, leaving, tableVars, dma, alloc, callbackVars, workerVars>>

(* A failure: main returns, which destroys the inference at hand and then  *)
(* the ones before it.                                                     *)
LeaveFrom(i) == leaving' = <<i>> \o [j \in 1..(i - 1) |-> j]

InitCallFails ==
    /\ opc = "build" /\ step <= Len(InitCalls)
    /\ InitCalls[step] \notin {"input_attrs", "output_attrs"}
    /\ opc' = "join" /\ LeaveFrom(cur)
    /\ UNCHANGED <<cur, step, held, tableVars, dma, alloc, callbackVars, workerVars>>

(* The two buffers of the network's input, one after the other.            *)
InitBuffer ==
    /\ opc = "build" /\ step > Len(InitCalls)
    /\ MakeDma(0, <<cur, "resize_img">>, ModelW, ModelH, ModelSize)
    /\ opc' = "resize_img"
    /\ UNCHANGED <<cur, step, held, leaving, lost, callbackVars, workerVars>>

InitSecondBuffer ==
    /\ opc = "resize_img" /\ alloc[0].at = "done"
    /\ MakeDma(0, <<cur, "input_img">>, ModelW, ModelH, ModelSize)
    /\ opc' = "input_img"
    /\ UNCHANGED <<cur, step, held, leaving, lost, callbackVars, workerVars>>

InitBufferFails ==
    /\ opc \in {"resize_img", "input_img"} /\ alloc[0].at = "failed"
    /\ Forget(0)
    /\ opc' = "join" /\ LeaveFrom(cur)
    /\ UNCHANGED <<cur, step, held, tableVars, dma, callbackVars, workerVars>>

(* Its thread starts; after the last one the player does.                  *)
InitEnds ==
    /\ opc = "input_img" /\ alloc[0].at = "done"
    /\ Forget(0)
    /\ m_is_running' = [m_is_running EXCEPT ![cur] = TRUE]
    /\ wpc' = [wpc EXCEPT ![cur] = "wait"]
    /\ step' = 1
    /\ IF cur < N THEN cur' = cur + 1 /\ opc' = "build"
                  ELSE opc' = "play" /\ UNCHANGED cur
    /\ UNCHANGED <<held, leaving, tableVars, dma, callbackVars, m_is_busy>>

-----------------------------------------------------------------------------
(* mpp_decoder_frame_callback, from the poll of the inferences on.         *)
FrameCallback(g) ==
    /\ opc = "play" /\ pictures < MaxPictures
    /\ pictures' = pictures + 1 /\ picture' = g
    /\ polls' = N /\ opc' = "poll"
    /\ UNCHANGED <<cur, step, held, leaving, next_inference_idx, tableVars, dma, alloc,
                   workerVars>>

Polled == next_inference_idx + 1
NextPoll == polls' = polls - 1 /\ next_inference_idx' = (next_inference_idx + 1) % N

PollBusy ==
    /\ opc = "poll" /\ polls > 0 /\ m_is_busy[Polled]
    /\ NextPoll
    /\ UNCHANGED <<ownerVars, picture, pictures, tableVars, dma, alloc, workerVars>>

(* Mutant: a buffer that could not be made counts as the one it replaced.  *)
FitsByStridesOnly(d, g) == d.width_stride = g.ws /\ d.height_stride = g.hs

(* The src_frame can take the picture as it is.                            *)
SrcFrameFits(d, g) == GetSize(d) # 0 /\ d.width_stride = g.ws /\ d.height_stride = g.hs

PollIdle ==
    /\ opc = "poll" /\ polls > 0 /\ ~ m_is_busy[Polled]
    /\ NextPoll
    /\ cur' = Polled
    /\ IF SrcFrameFits(dma[Src(Polled)], picture)
          THEN opc' = "copy" /\ UNCHANGED <<open, dma, alloc>>
          ELSE opc' = "remake" /\ MakeDma(0, Src(Polled), picture.ws, picture.hs, YuvSize(picture))
    /\ UNCHANGED <<step, held, leaving, lost, picture, pictures, workerVars>>

SrcFrameMade ==
    /\ opc = "remake" /\ alloc[0].at = "done"
    /\ Forget(0) /\ opc' = "copy"
    /\ UNCHANGED <<cur, step, held, leaving, tableVars, dma, callbackVars, workerVars>>

(* No memory: the next inference is polled.                                *)
SrcFrameFails ==
    /\ opc = "remake" /\ alloc[0].at = "failed"
    /\ Forget(0) /\ opc' = "poll"
    /\ UNCHANGED <<cur, step, held, leaving, tableVars, dma, callbackVars, workerVars>>

(* The copy, and trigger_inference.                                        *)
CopyAndTrigger ==
    /\ opc = "copy"
    /\ dma' = [dma EXCEPT ![Src(cur)].width = picture.w, ![Src(cur)].height = picture.h,
                          ![Src(cur)].width_stride = picture.ws,
                          ![Src(cur)].height_stride = picture.hs]
    /\ m_is_busy' = [m_is_busy EXCEPT ![cur] = TRUE]
    /\ opc' = "play"
    /\ UNCHANGED <<cur, step, held, leaving, tableVars, alloc, callbackVars, wpc,
                   m_is_running>>

(* No inference took the picture: it is encoded from a copy.               *)
EncodeDirectly ==
    /\ opc = "poll" /\ polls = 0
    /\ opc' = "play"
    /\ UNCHANGED <<cur, step, held, leaving, tableVars, dma, alloc, callbackVars, workerVars>>

-----------------------------------------------------------------------------
(* Inference::inference_model, thread i.                                   *)
Worker(i, from, to) == wpc[i] = from /\ wpc' = [wpc EXCEPT ![i] = to]

(* The rgba_data can take the picture in src_frame as it is.               *)
RgbaFits(i) ==
    /\ GetSize(dma[Rgba(i)]) # 0
    /\ dma[Rgba(i)].width = dma[Src(i)].width
    /\ dma[Rgba(i)].height = dma[Src(i)].height

TakeFrame(i) ==
    /\ m_is_busy[i] /\ m_is_running[i]
    /\ IF RgbaFits(i)
          THEN Worker(i, "wait", "run") /\ UNCHANGED <<open, dma, alloc>>
          ELSE /\ Worker(i, "wait", "remake")
               /\ MakeDma(i, Rgba(i), dma[Src(i)].width, dma[Src(i)].height,
                          RgbaSize(dma[Src(i)]))
    /\ UNCHANGED <<lost, ownerVars, callbackVars, m_is_running, m_is_busy>>

RgbaMade(i) ==
    /\ alloc[i].at = "done"
    /\ Worker(i, "remake", "run") /\ Forget(i)
    /\ UNCHANGED <<tableVars, dma, ownerVars, callbackVars, m_is_running, m_is_busy>>

RgbaFails(i) ==
    /\ alloc[i].at = "failed"
    /\ Worker(i, "remake", "callback") /\ Forget(i)
    /\ UNCHANGED <<tableVars, dma, ownerVars, callbackVars, m_is_running, m_is_busy>>

(* The clearing of rgba_data, the scaling and the network; any of the      *)
(* calls may fail.                                                         *)
RunNetwork(i) ==
    /\ Worker(i, "run", "draw") \/ Worker(i, "run", "callback")
    /\ UNCHANGED <<tableVars, dma, alloc, ownerVars, callbackVars, m_is_running, m_is_busy>>

(* The labels, drawn into src_frame, the rectangles and the composition.   *)
DrawLabels(i) ==
    /\ Worker(i, "draw", "callback")
    /\ UNCHANGED <<tableVars, dma, alloc, ownerVars, callbackVars, m_is_running, m_is_busy>>

(* The copy of src_frame handed to the encode thread.                      *)
CallBack(i) ==
    /\ Worker(i, "callback", "wait")
    /\ m_is_busy' = [m_is_busy EXCEPT ![i] = FALSE]
    /\ UNCHANGED <<tableVars, dma, alloc, ownerVars, callbackVars, m_is_running>>

LeaveLoop(i) ==
    /\ ~ m_is_running[i] /\ Worker(i, "wait", "gone")
    /\ UNCHANGED <<tableVars, dma, alloc, ownerVars, callbackVars, m_is_running, m_is_busy>>

-----------------------------------------------------------------------------
(* Ctrl+C: the player is released, then the inferences are cleared.        *)
Interrupt ==
    /\ opc = "play"
    /\ opc' = "join" /\ leaving' = [j \in 1..N |-> j]
    /\ UNCHANGED <<cur, step, held, tableVars, dma, alloc, callbackVars, workerVars>>

(* Inference::release: the flag ...                                        *)
StopInference ==
    /\ opc = "join" /\ leaving # <<>>
    /\ cur' = Head(leaving) /\ leaving' = Tail(leaving)
    /\ m_is_running' = [m_is_running EXCEPT ![cur'] = FALSE]
    /\ opc' = "free"
    /\ UNCHANGED <<step, held, tableVars, dma, alloc, callbackVars, wpc, m_is_busy>>

(* Mutant: only an inference that was set up to the end is released.       *)
FreeIfInit ==
    /\ opc = "free" /\ wpc[cur] \in {"none", "gone"}
    /\ IF wpc[cur] = "none"
          THEN UNCHANGED <<open, dma, held>>
          ELSE /\ open' = open \ UNION {ReleasedFds(<<cur, k>>) : k \in Kinds}
               /\ dma' = [b \in Buffers |-> IF b[1] = cur THEN Released(dma[b]) ELSE dma[b]]
               /\ held' = [held EXCEPT ![cur] = {}]
    /\ opc' = "join"
    /\ UNCHANGED <<cur, step, leaving, lost, alloc, callbackVars, workerVars>>

(* ... the join, the buffers, the network and its attributes.              *)
JoinAndFree ==
    /\ opc = "free" /\ wpc[cur] \in {"none", "gone"}
    /\ open' = open \ UNION {ReleasedFds(<<cur, k>>) : k \in Kinds}
    /\ dma' = [b \in Buffers |-> IF b[1] = cur THEN Released(dma[b]) ELSE dma[b]]
    /\ held' = [held EXCEPT ![cur] = {}]
    /\ opc' = "join"
    /\ UNCHANGED <<cur, step, leaving, lost, alloc, callbackVars, workerVars>>

MainEnds ==
    /\ opc = "join" /\ leaving = <<>>
    /\ opc' = "end"
    /\ UNCHANGED <<cur, step, held, leaving, tableVars, dma, alloc, callbackVars, workerVars>>

Next ==
    \/ \E t \in Threads : OpenHeap(t) \/ IoctlAlloc(t) \/ Mmap(t) \/ CloseHeap(t)
    \/ InitCall \/ InitCallFails \/ InitBuffer \/ InitSecondBuffer \/ InitBufferFails
    \/ InitEnds
    \/ \E g \in Geometries : FrameCallback(g)
    \/ PollBusy \/ PollIdle \/ SrcFrameMade \/ SrcFrameFails \/ CopyAndTrigger
    \/ EncodeDirectly
    \/ \E i \in Inferences :
          \/ TakeFrame(i) \/ RgbaMade(i) \/ RgbaFails(i)
          \/ RunNetwork(i) \/ DrawLabels(i) \/ CallBack(i) \/ LeaveLoop(i)
    \/ Interrupt \/ StopInference \/ JoinAndFree \/ MainEnds

Spec == Init /\ [][Next]_vars

-----------------------------------------------------------------------------
(* Who has a descriptor: a mapped buffer, an allocation under way, which   *)
(* has that of the heap and, until it is mapped, that of the buffer, or    *)
(* nobody.                                                                 *)
Holdings ==
    {<<b, dma[b].fd>> : b \in {c \in Buffers : dma[c].len # 0}} \cup
    {<<<<t, "heap">>, alloc[t].heap>> :
        t \in {u \in Threads : alloc[u].at \in {"ioctl", "mmap", "close"}}} \cup
    {<<<<t, "got">>, alloc[t].got>> : t \in {u \in Threads : alloc[u].at = "mmap"}} \cup
    {<<<<f, "lost">>, f>> : f \in lost}

(* The descriptor table agrees with the buffers: what is open has exactly  *)
(* one owner, so no close hits the descriptor of another, and what nobody  *)
(* owns was left by an allocation that failed (dma_alloc.cpp:100-147,      *)
(* rknn_type.h:152-159), however the threads that allocate interleave.     *)
DescriptorsAccounted ==
    /\ {p[2] : p \in Holdings} = open
    /\ \A p, q \in Holdings : p[2] = q[2] => p = q

(* Every use of a buffer is inside its mapping and inside the size it is   *)
(* unmapped with, also after changes of geometry, with allocations that    *)
(* failed in between (main.cpp:234-256, inference.cpp:226-277, 374-377).   *)
FitsBuffer ==
    /\ \A b \in Buffers : dma[b].len # 0 => dma[b].size = dma[b].len
    /\ opc = "copy" => dma[Src(cur)].len = YuvSize(picture)
    /\ \A i \in Inferences :
          LET s == dma[Src(i)] IN
          /\ wpc[i] \in {"run", "draw", "callback"} =>
                s.len # 0 /\ s.len = (s.width_stride * s.height_stride * 3) \div 2
          /\ wpc[i] = "run" =>
                /\ dma[Rgba(i)].len = RgbaSize(s)
                /\ ResizeSize(s) <= dma[<<i, "resize_img">>].len
                /\ dma[<<i, "input_img">>].len = ModelSize

(* When main has ended, wherever it failed, everything was given back but  *)
(* what failed allocations left open (main.cpp:405-419, 451,               *)
(* inference.cpp:391-422).                                                 *)
AllGivenBack ==
    opc = "end" =>
        /\ open = lost
        /\ \A b \in Buffers : dma[b].len = 0
        /\ \A i \in Inferences : held[i] = {} /\ wpc[i] \in {"none", "gone"}

(* Drawing stays inside the picture, wherever the boxes are and whatever   *)
(* the text, and every byte of text lies on its background, chroma as well *)
(* as luma (label_render.cpp:146-186, 362-477).                            *)
Bytes(i) == 0..(dma[Src(i)].len - 1)
LabelsInside ==
    \A i \in Inferences : wpc[i] = "draw" =>
        LET w == dma[Src(i)].width_stride
            h == dma[Src(i)].height_stride
        IN  /\ \A d \in Detections :
                  /\ DetectionBackground(w, h, d[1], d[2], d[3], d[4]) \subseteq Bytes(i)
                  /\ DetectionText(w, h, d[1], d[2], d[3], d[4])
                        \subseteq DetectionBackground(w, h, d[1], d[2], d[3], d[4])
            /\ FPSBackground(w, h, FPSImage, 10, 10) \subseteq Bytes(i)
            /\ FPSText(w, h, FPSImage, 10, 10) \subseteq FPSBackground(w, h, FPSImage, 10, 10)
=============================================================================

# Verification of rtsp_mpp_decoder

`rtsp_mpp_decoder` (under `src/rtsp_mpp_decoder/`) pulls an RTSP stream, decodes
it with Rockchip's MPP, runs YOLO on the pictures in several inference threads,
draws what was found, encodes the pictures again, in order, and serves the
result, next to the original stream, over RTSP. This directory holds TLA+
models of its parts, the TLC configurations that check them on small instances,
and proofs that TLAPS checks for every instance.

## The system

| component | state it keeps | operations | properties that make it correct |
|---|---|---|---|
| frame pipeline (`main.cpp`, `inference.cpp`) | `frame_seq_counter`, `encode_seq`, `pending_frames`, `encoding_running`, `next_inference_idx`; of each `Inference` `m_is_busy`, `m_has_frame`, `src_frame`, `m_is_running` | `mpp_decoder_frame_callback`, `trigger_inference`, `inference_model`, `inference_encode_callback`, `encode_thread_func`, `release`, main's teardown | nobody shares a `src_frame`; no numbered picture gets lost or doubled; pictures are encoded in order with their own pixels and geometry; Ctrl+C ends the program; nothing is used after it was freed |
| video encoder (`encode_video.cpp`) | `m_put_num`, `m_encode_num`, `m_frame_index`, `m_frame_buf`, the resources of MPP, the receiving thread | `Initencoder`, `WriteData`, `EncRecvThread`, `Packaging`, `Release` | the counters tell how many packets are owed; packets and times in order; a picture fits the buffer it is copied to; resources given back once, whatever part of the initialisation succeeded, and after the thread ended |
| video decoder (`mpp_decoder.cpp`) | the packet, the member `frame`, `frm_grp`, the context | `Init`, `Decode`, the destructor | every packet put once, every picture delivered once; every frame given back; `Decode` returns; failed attempts at `Init` leave little behind; `Decode` and the decoder never wait for each other |
| post-processing (`postprocess.cpp`) | boxes, scores, classes, the index array | `process_i8`, `quick_sort_indice_inverse`, `nms`, `post_process` | best class of each cell; scores stay with their boxes; no overlapping pair left, none removed without reason; the surest results; rectangles inside the picture |
| RTSP server (`rtsp_server.cpp`) | `m_mediaHandle`, `m_pusherHandle`, flags, the static count and server flag | constructor, `initZlmMedia`, the two callbacks, `cleanup` | the shared media server stopped by the last instance, once; handles released once; no callback after destruction |
| player callbacks (`main.cpp:287-350`) | the delegate, `ctx->decoder` | `on_mk_play_event_func`, `on_track_frame_out` | the decoder is made on the first packet it can be made for, and what failed attempts leave is bounded |
| label renderer (`label_render.cpp`) | label cache, font, two mutexes | `initialize`, `drawDetection`, `drawFPS` | writes stay inside the picture's planes, text on its background |
| inference set-up and buffers (`inference.cpp`, `main.cpp`, `rknn_type.h`) | of each `Inference` four `dma_data_t`, the network and its attributes | `initialize`, `make_dma`, `release`, main's early return | every use inside the mapping; everything given back, wherever `initialize` failed |
| DMA buffers (`dma_alloc.cpp`) | the process's descriptors | `dma_buf_alloc`, `dma_buf_free` | a descriptor has one owner on every path, with several threads allocating |
| configuration (`INIReader.cpp`, `ini.c`, `loadConfig`) | a record of strings | read once | none beyond reading |

How they interact: ZLMediaKit's thread calls `on_track_frame_out` with a packet;
`Decode` calls `mpp_decoder_frame_callback` on the same thread, for each
picture; that callback gives the picture a number and writes it into the
`src_frame` of an idle inference (no lock, `m_is_busy` decides) or, when no one
is idle, straight into `pending_frames`. Each inference thread sleeps on its
`m_frame_cv`, runs the network, draws, and calls back into `pending_frames`.
The encode thread sleeps on `pending_cv`, takes the frames in the order of
their numbers and calls `WriteData`; MPP encodes asynchronously and the
encoder's receiving thread hands the packets to the RTSP server. main waits for
Ctrl+C and tears down in a fixed order.

What is hard here: condition variables notified without the mutex, a slot
guarded by a flag alone, a sequence that stops for good if one number is lost,
buffers that outlive a change of geometry, an asynchronous encoder behind a
synchronous looking call, retry loops around a decoder that can stand still,
partial initialisation, several threads that share one descriptor table, and an
in-place sort of two arrays at once.
`PROJECT.json` lists each hazard at its line.

## The modules

    InOrderEncoding <-- implements -- FramePipeline    <- FramePipelineInv <- FramePipelineProofs
                                      VideoEncoder     <- VideoEncoderInv  <- VideoEncoderProofs
                                      MppDecoder       <- MppDecoderInv    <- MppDecoderProofs
    DescendingSort  <-- implements -- QuickSort        <- QuickSortInv     <- QuickSortProofs
    DescendingOrder <- QuickSort, DescendingSort,
                       PostProcess      <- PostProcessInv   <- PostProcessProofs
                       RtspServer       <- RtspServerInv    <- RtspServerProofs
    LabelDrawing    <- LabelDrawingProofs
                       InferenceBuffers <- InferenceBuffersInv <- InferenceBuffersProofs

`A <- B`: B extends A. An `...Inv` module holds the inductive invariant of a
component, an `...Proofs` module its theorems; the two abstract specifications,
`InOrderEncoding` and `DescendingSort`, are instantiated by what implements them.
Each has an `MC...` module with the configurations of the same name; `PROJECT.json`
lists the runs. Operators
named for a mutation ("Mutant:" in the comment) stand beside the definition
they vary; a run with the variant in its place must violate the property
`PROJECT.json` names, which shows that the property depends on the code.

### FramePipeline

One program counter for each thread: `cpc` (the decoder callback), `wpc[w]` (an
inference), `epc` (the encode thread), `mainpc`. A step is the code between two
accesses to shared state. Mutexes are implicit: every critical section but
those around the two waits is a single step, so a mutex is taken exactly
between a waiter's predicate and its sleep (`PendingMutexFree`,
`SignalMutexFree`), which is the window both missed wakeups need. A wait
releases the mutex and sleeps (`EncodeBlock`, `WorkerBlock`); a notification
wakes a sleeper and no one else; wakeups may be spurious.

- The callback: `FrameCallback` (first picture creates the encoder and its
  thread; the number is taken), `NextPoll`/`PollInference` (round robin over
  `is_busy`), `FillSrcFrame` (reallocation on another geometry, which may fail,
  and the copy), `TriggerInference` and `SignalInference`, or `QueueDirectly`
  and `NotifyDirect`.
- An inference: `WorkerCheck`, `WorkerBlock`, `RunModel` (any hardware call may
  fail), `EncodeCallback` with `NotifyPending`, `ClearBusy`.
- The encode thread: `EncodeTop`, `EncodeLock`, `EncodeCheck`, `EncodeBlock`,
  `EncodeFrame`.
- main: `Interrupt`, `StopEncoding`, `NotifyEncoding`, `JoinEncodeThread`, and
  for each inference `StopInference`, `NotifyInference`, `JoinInference`.

A picture is its number and its geometry; the pixels are that pair, so a frame
whose number, geometry and pixels disagree can be told. The decoder callback
runs on the thread `mk_player_release` waits for: `Interrupt` happens between
two callbacks. That wait is ZLMediaKit's, an assumption.

### VideoEncoder

The owner (`Initencoder` step by step, each call of which may fail; `WriteData`
as copy, put, count; the destructor as flag, join, free), the receiving thread
(`RecvStart`, `RecvLoop`, `GetPacket`, `Packaging`) and MPP's encoder
(`MppEncode`, external), which reads the frame buffer when it encodes, not when
it is given the frame. Times are computed modulo `PtsModulus`, in the code 2^32;
a frame rate of 0 gives the time 0, as the division of the aarch64 build does
(`CMakeLists.txt:4-5`).

What is taken is counted in two places: the five things `Initencoder` takes, one
by one (`acquired`, `released`), and the packets in the receiving thread's hands
(`packets`), the one it makes on `m_pkt_buf` before its loop included, which
nothing gives back.

Sizes are carried as numbers of bytes: the frame buffer has the size
`GetFrameSize` computes from the first picture (`geom`, `FrameSize`), the copy
the size of the padded picture that is written (`CopySize`), and every picture
may have another. A copy that is larger than the buffer may end the process
(`opc = "crashed"`, after which nothing moves) or seem to do nothing.

### MppDecoder

The media thread, from the player's callbacks to the deletion in main.
`AddDelegate` is `on_mk_play_event_func`, after which packets may arrive; the
frame rate it stores only paces the callback and is left out here.
`on_track_frame_out` is `UnsupportedCodec`,
`InitFails` (at any of its five calls), `InitSucceeds` or `Decode`. `Decode`
handles one packet after the other: `PutPacket`, `GetFrame` with its tries,
`InfoChange...` (the handshake with its four calls), `DeliverFrame`, `EndTurn`,
against a decoder (`MppDecodePacket`, `MppInfoChange`, external) with a packet
queue and a limited group of buffers, which stands still after announcing a
geometry until it is answered. `pc = "crashed"` is the end of the process in the
destructor of a decoder whose members nothing has written (`UnsupportedCodec`;
either outcome is possible).

### InferenceBuffers, LabelDrawing

`InferenceBuffers` follows the four `dma_data_t` of each inference from
`initialize` (`InitCall`, `InitBuffer`, ...; for one inference after the other)
over the decoder callback (`PollIdle`, `SrcFrameMade`, `CopyAndTrigger`, ...)
and the inference threads (`TakeFrame`, `RunNetwork`, ...) to `release`
(`StopInference`, `JoinAndFree`), also when `initialize` fails and main returns.
An allocation is four steps (`OpenHeap`, `IoctlAlloc`, `Mmap`, `CloseHeap`),
those of different threads interleave, and each may fail, for lack of a
descriptor or otherwise; a new descriptor is the lowest free number, so a
number is used again at once. A `dma_data_t` is its dimensions, its `size`, its
`fd` and the length of what is mapped.

`LabelDrawing` has no state: it gives the set of bytes each drawing operation
writes. `InferenceBuffers` uses it for what an inference draws on its
`src_frame`.

That drawing stays inside a picture needs even strides
(`GeometryAssumption`): the Rockchip decoder pads its pictures to multiples of
16.

### QuickSort, PostProcess

`QuickSort` is the recursion as a stack of ranges and the partition as the two
scans that move a hole. `DescendingSort` is what it promises, and `PostProcess`
uses that promise: `ProcessCell` is a cell of `process_i8`, `Sort` the sort,
`NextClass`/`SuppressRow` one turn of the outer loop of `nms`, `EmitRow` one
turn of the loop that fills the results (a row that is gone is passed over, a
row without a place too), with the rectangle `inference_model` draws for each.
`quant` is the quantisation of the scores, which belongs to the network: the
zero point and the threshold. `process_i8` starts at the negated zero point
(`Start`); where that is above the threshold, a cell without a better class
becomes a candidate of class -1, here as in the code. Coordinates are integers;
the overlap is a fraction that is compared without dividing; what `compute_dfl`
returns is a choice from a set.

### RtspServer

Both objects and the statics they share. main's calls are a script, from the
constructors to the destructors of the globals (`Script`). `initServer` does not
look at what `mk_rtsp_server_start` returns: the server may be up or failed
(`running`), and everything goes on. `cleanup` is the
steps `ReleasePusher`, `ForgetPusher`, `ReleaseMedia`, `CountDown`, and runs
twice for each object. The registration callback is `RegistCallback`,
`ZlmPusherInit`, `SetOnResult`, `ZlmPusherStart`, `Publish`, between any of
main's steps. `async` is one of two assumptions about ZLMediaKit:
that it calls back on the threads that feed the streams, which are gone before
`stopServer`, or on a thread of its own, at any time while the stream exists.
The sleeps in `cleanup` order nothing and are left out.

## The runs

| run | shows | bounds and why they are enough |
|---|---|---|
| `pipeline_safety` | `SrcFrameExclusive`, `FrameCustody`, `FrameIntegrity`, `UseWhileAlive`, and the inductive `AwakeInv` | two inferences, three pictures, two geometries (symmetric): a third picture finds both inferences busy and overtakes; a geometry changes and changes back |
| `pipeline_live` | the pipeline implements `InOrderEncoding`; every numbered picture is handled; after Ctrl+C only a missed wakeup keeps main from its end | two pictures, one geometry: one waits for the other, and may overtake it |
| `exit` | finding: the missed wakeup | one picture is enough |
| `encoder` | the counters account for every picture and tell when a packet is owed; times in order; pictures coded in the order they were written; what `Initencoder` took given back once, after the thread, which keeps at most one packet; the destructor ends, accepted pictures are delivered | four pictures of two sizes, either of them first, an encoder that takes two ahead, a modulus of 5000 for the times: three pictures are within its half, the fourth beyond |
| `encoder_overwrite` | finding: the frame buffer is overwritten before it is encoded | two pictures |
| `encoder_grown` | finding: a picture larger than the first one runs past the frame buffer | two sizes |
| `decoder` | packets put once, no picture skipped or repeated, frames given back, leaks of failed `Init`s bounded, `Decode` and the decoder never wait for each other (`NeverBothWait`), `Decode` returns; the inductive `DecInv` | four packets, a queue of two, two buffers, two tries for the code's five, two changes of geometry: each limit is reached |
| `quicksort` | scores keep their indices, the refinement of `DescendingSort`, termination | five values of four: ranges of length 0, 1, 2 and 3 on either side, equal scores |
| `post_process` | candidates, `nms`, results, rectangles, and the inductive `PostInv` | four cells, two classes, a row that overlaps two rows which do not overlap each other, room for two of up to four results, a flat and a tall picture; a zero point from which the class loop starts below the threshold and one from which it starts above |
| `buffers` | descriptors have one owner; every use of a buffer is inside its mapping; everything is given back; drawing stays inside the picture and text on its background | two inferences, three pictures, of which two geometries share their strides but not their width; seven descriptors for eight buffers and the allocations, so that they run out; labels at corners, at odd places, without room above the box |
| `rtsp` | whenever callbacks come: the media server outlives the streams, pushers released once; with callbacks on the feeding threads: they use live pushers only, and only replaced pushers are left after `cleanup` | two registrations of each stream, so that a handle is replaced |
| `rtsp_replaced` | finding: a replaced pusher is never released | the same |

Deadlock is not checked: every model really stops (the program ends, the stream
ends, the sort returns).

### Fairness

`FairSpec` of each module is weak fairness of each thread: the kernel runs a
thread that can run. Two steps need more. A mutex that is released again and
again is got eventually: the encode thread goes around its loop, locking and
unlocking `pending_mutex`, while the next number is missing, and the inference
that holds that number needs the mutex (`SF_vars(EncodeCallback)`,
`SF_vars(QueueDirectly)`, `SF_vars(TriggerInference)`); Linux mutexes are not
strictly fair, but a thread asking for one is not kept out for ever. And MPP does
not fail for ever to hand out a packet it has (`SF_vars(GetPacket)`). Nothing
is assumed of the stream, of Ctrl+C, of spurious wakeups or of whether an
inference succeeds.

### Findings

- `exit`: `Inference::release` clears `m_is_running` and notifies without
  `m_signal_mutex`. The inference thread may have seen the old value and not sleep
  yet; it sleeps after the notification and main's join never returns, though
  the program says "Press Ctrl+C to exit". main does the same to the encode thread
  with `encoding_running` and `pending_mutex`. That no third thing can hold the
  exit up is `ExitHeldUpOnlyByMissedWakeup`, which `pipeline_live` checks.
- `encoder_overwrite`: `WriteData` reports success when the asynchronous encoder
  took the one frame buffer; the next `WriteData` overwrites it.
- `encoder_grown`: the frame buffer has the size of the first picture, and
  `WriteData` copies the size it is given: a stream that grows is copied past the
  buffer's end.
- `rtsp_replaced`: each registration of a stream creates a pusher and overwrites
  the handle of the one before, which `cleanup` ("stop pushing first") then
  cannot release.

One leak has no run of its own, because a property states it: `EncRecvThread`
makes a packet on `m_pkt_buf` before its loop (`encode_video.cpp:396`),
`encode_get_packet` overwrites the handle or the thread ends, and nothing gives
that packet back. `ReleasedOnce` says that it is the only thing left.

## The proofs

`FramePipelineProofs` proves, for any number of inferences, pictures and
geometries (`NAssumption`, `NoneAssumption`):

- `Invariance`: `Spec => []Inv`. `Inv` (in `FramePipelineInv`) is needed
  because none of the properties is inductive. That the callback alone touches
  an idle `src_frame` rests on `busy[w]` being true exactly from the trigger to
  the end of the turn (`WorkerInv`); that encoding never stops at a number rests
  on every number from `encode_seq` on having a holder (`SomeHolder`), and one
  only (`OneHolder`), each of which is preserved only because of the other
  threads' parts. The proof has one lemma for each action, cut along the
  conjuncts of `Inv` the action can disturb.
- `TypeCorrect` (`TypeOK`), `SrcFrameIsExclusive`, `CustodyIsKept`,
  `FramesKeepTheirContents`, `EncodingIsOrdered`, `NothingUsedAfterTeardown`:
  the properties of `pipeline_safety`, from `Inv`.
- `PipelineIsInOrder`: every step of the pipeline is `Accept`, `Encode`, `Lose`
  or a stutter of `InOrderEncoding`, under `accepted <- frame_seq_counter`,
  `handled <- Handled`, `output <-` the numbers given to `WriteData`.
- `WakeupsAreKept`: `AwakeInv`, which is `Inv` and what is known of the sleepers.
  `WakeupInv` says that a thread asleep with something to do has its notification
  still to come, and that no thread is about to fall asleep over a picture: true
  because what is waited for is written under the mutex and notified after.
  `RunningInv` says that until Ctrl+C no thread has ended; the two flags that end
  them are the ones written without the mutex (see Findings).
- `NextPictureKeepsMoving`: until Ctrl+C, the picture whose turn it is
  (`encode_seq`) is in the hands of a thread that is awake or about to be
  notified. It is the safety half of `EveryFrameEncoded`, which TLC checks for
  two pictures: with any number of inferences the threads never all wait for
  each other. It needs `SomeHolder` for where the picture is, and `AwakeInv` for
  why its holder is not asleep.

`PostProcessProofs` proves for any cells, distances, classes, zero point,
threshold, limit, pictures and size of the network (`QuantAssumption`,
`CellsAssumption`, `BoundAssumption`, `SizesAssumption`):

- `Invariance`: `Spec => []PostInv`. Its core is `NmsInv`. A row has passed when
  its class is done or nms is past it in its class; a row that is gone is excluded
  by an earlier, passed row that stays (`GoneForReason`), and a passed row that
  stays excludes no later row that stays (`PassedRowsApart`). The two need each
  other: that a passed row is never removed later keeps the reasons alive. The
  rest says where a candidate comes from (`FromCells`), which loop is running
  (`Phases`), and what the loop over the results has made of the rows behind it.
- `NoOverlapLeft`, `SuppressionIsJustified`, `ResultsAreSurest`,
  `RectanglesInside`, `CandidatesAreBest`: the properties of `post_process`. That
  the candidate is the best class needs `BestClass`, a recursive function over
  the classes, at every class: the invariant of its loop is carried along them by
  a lemma that proves induction for one set of numbers from the least element
  outside it (`SetInduction`). That a rectangle is inside the picture needs both
  edges of the box to be clamped and scaled in the same order, for a scale that
  is a fraction; the centre of the cell is between them.
- `AlwaysGoesOn`: some step can be taken until the end, above all the sort: every
  sequence of integers has a descending order (`DescendingOrderExists`), which
  the model takes from `DescendingOrders` without computing it.

`VideoEncoderProofs`, for any number of pictures, any queue of the encoder, any
frame rate (0 included) and any sizes of pictures: `PacketsAreAccounted`,
`WaitsAreOwed`, `AllButOnePacketReleased`, `TimesAreOrdered`, from `EncInv`. What
it adds to the properties: the receiving thread is never ahead of the count of
pictures put (`CountsInOrder`), every resource is held from its step of
`Initencoder` to the end (`Holdings`), the receiving thread has the packet in its
hand and at most one more (`PacketsHeld`), packets carry the time of their number
(`TimesComputed`). Two more are about the line of accepted pictures - delivered,
in the receiver's hand, waiting as packets, in the encoder: no step takes one out
or moves it (`NothingLeavesTheLine`, an action property), and the callback gets
them in the order they were written, each at most once (`CodedAreInOrder`), which
is inductive only for the whole line (`InLine`), with what the owner has copied
and not yet put behind its end.

`MppDecoderProofs`, for any stream, queue, pool and number of tries: all safety
properties of the `decoder` run, from `DecInv`. That no picture is skipped needs
the announcement to be the last thing in the decoder's queue (`Handshake`); that
packets are put once needs to know which packet the decoder was made with
(`Lifecycle`). `DecoderIsNeverStarved` is the safety half of `DecodeReturns`: while
`Decode` finds no frame and keeps offering its packet, the decoder does not stand
still and has all its buffers, unless a call of the handshake failed; the two
never wait for each other, whatever the limits.

`RtspServerProofs`, for any number of registrations and both assumptions about
ZLMediaKit: `StreamsHaveServer`, `ObjectsAreCounted`, `PushersReleasedOnce`,
`PushersUsedAlive`, `OnlyReplacedAreLeft`. main's place in its script decides
what the objects and the statics are (`ObjectsFollow`, `StaticsFollow`); the
handle names the last pusher (`HandlesNameLast`) until `cleanup` forgets it; and
with callbacks on the feeding threads there are none during `cleanup`
(`CallbacksWhileFed`).

`QuickSortProofs`, for any number of candidates and any scores: `PairsStayTogether`
and `SortIsImplemented`. The invariant speaks of the arrays with the key put
back into the hole, of which each assignment exchanges two rows or none: the
rows are a permutation (`RowsMatch`), the key divides what the scans have
passed (`KeyDivides`), and two rows out of order are together in a range still
to be sorted (`OrderedOrTogether`), of which there is none in the end. `SortShrinks`
is the safety half of `SortEnds`: every step places a row for good, or takes a
range off the stack, or lowers what the scans have before them (`ScanWork`), and
undoes none of these. The measure has to look at the scores: on equal ones a scan
copies without getting closer, and only the next one moves.

`LabelDrawingProofs`, for every picture of even strides, every box, margin and
text: what is drawn is inside the picture (`FillStaysInside`, `BlitStaysInside`)
and text is on its background, chroma as well as luma (`TextOnBackground`,
`DetectionOnBackground`). The latter rests on the margin of two pixels: halving
rounds towards zero, left of the picture as well.

`InferenceBuffersProofs`, for any number of inferences, descriptors and pictures,
any geometries with even strides and any labels: `DescriptorsAreAccounted`,
`BuffersFit`, `EverythingGivenBack`, `DrawingIsInside`, from `BufInv`. Its core is
`Accounted`: a function says which descriptor each possible owner has, and each
step takes a free number, moves one from owner to owner, or closes some. To know
the owner of a step, the thread's place tells which buffer it allocates
(`AllocsFollow`), and two threads never the same one; that sizes fit a buffer
while it is used rests on `Sized` (what `size` says of the dimensions, also after
an allocation that failed) and `Busy` (the callback is not at the `src_frame` of a
busy inference); that all is given back on `Lifecycle` (at every step of set-up
and tear-down each inference has nothing or is still to be released).

The assumptions are those named `...Assumption` in the modules; each says what
the code says of a constant, but for `GeometryAssumption` of `InferenceBuffers`,
which is the padding of the Rockchip decoder, and `DetectionAssumption`, which
only says that text images have a size and boxes a place.

Model-checked only: the six properties that need fairness, `EveryFrameEncoded`,
`ExitHeldUpOnlyByMissedWakeup`, `ReleaseCompletes`, `PutIsDelivered`,
`DecodeReturns` and `SortEnds`; liveness is out of the prover's reach. For the
first and the last two the safety half is proved: the configuration in which
nobody can go on is unreachable, or a measure goes down; that fair threads then
get to the end is what TLC shows. `LineOnlyGrows`, `NextPictureMoves`,
`NeverStuck` and `EveryStepShrinks` are proved and in no run.

How far some properties go: `PtsOrdered` is about the pictures for which
`m_frame_index * 1000` is within an int; after them the product overflows and the
code is promised nothing. `PusherUsedAlive` and `LeftOnlyIfReplaced` are about
callbacks on the feeding threads only; with callbacks at any moment a callback
may use a released pusher, and what is left to check are `ReleasedOnce` and
`MediaNeedsServer`. `RectInPicture` is about cells whose centre the picture covers.

## What is not modelled

- Vendored code: FreeType's, MPP's, RKNN's, RGA's and ZLMediaKit's headers,
  `stb_image_write.h` and inih. Of the implementation lines in this repository
  more than nine in ten are of this kind; they declare libraries, whose effects
  the models have as external actions where the program depends on them. The
  program's own code is about four thousand lines.
- The network, the 2D accelerator and the glyphs: hardware and library calls, of
  which the models keep that they may fail and where they write.
- `process_u8`, `process_fp32`, `process_i8_rv1106`: the loop of `process_i8` for
  other builds.
- `GetHeaderInfo` (a copy of the stream's header before the first picture) and
  what has no caller in the program: `EndEncode`, `Reset`, the setters of the
  renderer, its planar `drawDetection`, `dma_sync_*`.
- Configuration: strings read once, before anything runs.
- Floats are integers. `next_inference_idx` and the picture numbers have no
  width. Sleeps order nothing and are left out, and so is the frame rate that
  sets the decoder's (`mpp_decoder.cpp:241`).
- The name of a detection: of class -1 it would be read before the list of labels
  (`postprocess.cpp:670`); the models keep the class.
- ZLMediaKit, MPP, the descriptor table and the condition variables are external:
  what is assumed of them is in the actions marked so in `PROJECT.json`.

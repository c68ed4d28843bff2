------------------------ MODULE InferenceBuffersInv ------------------------
(***************************************************************************)
(* The inductive invariant of InferenceBuffers, in named parts.            *)
(***************************************************************************)
EXTENDS InferenceBuffers

DmaType == [width : Nat, height : Nat, width_stride : Nat, height_stride : Nat,
            size : Nat, fd : Nat, len : Nat]
AllocType == [at : {"none", "open", "ioctl", "mmap", "close", "done", "failed"},
              buf : Buffers, heap : Nat, got : Nat]
OwnerPlaces == {"build", "resize_img", "input_img", "play", "poll", "remake", "copy",
                "join", "free", "end"}
WorkerPlaces == {"none", "wait", "remake", "run", "draw", "callback", "gone"}
HeldType == {"rknn_ctx", "input_attrs", "output_attrs"}

(* Every variable has its type; in particular the index the callback polls *)
(* with stays inside the inferences (main.cpp:224).                        *)
TypeOK ==
    /\ open \subseteq Fds /\ lost \subseteq Fds
    /\ dma \in [Buffers -> DmaType] /\ alloc \in [Threads -> AllocType]
    /\ opc \in OwnerPlaces /\ cur \in Inferences /\ step \in 1..(Len(InitCalls) + 1)
    /\ held \in [Inferences -> SUBSET HeldType] /\ leaving \in Seq(Inferences)
    /\ picture \in Geometries /\ polls \in 0..N /\ next_inference_idx \in 0..(N - 1)
    /\ pictures \in Nat
    /\ wpc \in [Inferences -> WorkerPlaces]
    /\ m_is_running \in [Inferences -> BOOLEAN] /\ m_is_busy \in [Inferences -> BOOLEAN]

(* Which buffer a thread allocates is known from its place.                *)
OwnerBuffer ==
    IF opc = "remake" THEN Src(cur) ELSE <<cur, opc>>
Allocates(t) == IF t = 0 THEN opc \in {"resize_img", "input_img", "remake"}
                         ELSE wpc[t] = "remake"
AllocBuffer(t) == IF t = 0 THEN OwnerBuffer ELSE Rgba(t)

(* A buffer has no memory until its mapping exists.                        *)
AllocFollows(t) ==
    /\ alloc[t].at # "none" <=> Allocates(t)
    /\ Allocates(t) =>
          /\ alloc[t].buf = AllocBuffer(t)
          /\ dma[AllocBuffer(t)].size > 0
          /\ dma[AllocBuffer(t)].len # 0 <=> alloc[t].at \in {"close", "done"}
AllocsFollow == \A t \in Threads : AllocFollows(t)

(* The descriptor each owner has, 0 for none: a buffer, an allocation      *)
(* twice, or nobody.                                                       *)
Owners == Buffers \cup (Threads \X {"heap", "got"}) \cup (Fds \X {"lost"})
Has == [o \in Owners |->
    IF o \in Buffers THEN (IF dma[o].len # 0 THEN dma[o].fd ELSE 0)
    ELSE IF o[2] = "heap"
            THEN (IF alloc[o[1]].at \in {"ioctl", "mmap", "close"} THEN alloc[o[1]].heap ELSE 0)
    ELSE IF o[2] = "got" THEN (IF alloc[o[1]].at = "mmap" THEN alloc[o[1]].got ELSE 0)
    ELSE IF o[1] \in lost THEN o[1] ELSE 0]

Accounted ==
    /\ \A o \in Owners : Has[o] # 0 => Has[o] \in open
    /\ \A f \in open : \E o \in Owners : Has[o] = f
    /\ \A o, p \in Owners : Has[o] = Has[p] /\ Has[o] # 0 => o = p

(* They are descriptors, not the 0 that stands for none.                   *)
Numbered ==
    /\ \A t \in Threads : /\ alloc[t].at \in {"ioctl", "mmap", "close"} => alloc[t].heap \in Fds
                          /\ alloc[t].at = "mmap" => alloc[t].got \in Fds
    /\ \A b \in Buffers : dma[b].len # 0 => dma[b].fd \in Fds

(* The sizes follow from the dimensions a buffer was made for.             *)
StrideSize(d) == (d.width_stride * d.height_stride * 3) \div 2
HasShape(d, g) == /\ d.width = g.w /\ d.height = g.h
                  /\ d.width_stride = g.ws /\ d.height_stride = g.hs
Filling(i) == opc \in {"remake", "copy"} /\ cur = i
Working(i) == wpc[i] \in {"remake", "run", "draw", "callback"}

Sized ==
    /\ \A b \in Buffers : dma[b].len # 0 => dma[b].len = dma[b].size
    /\ \A i \in Inferences :
          /\ \A k \in {"resize_img", "input_img"} : dma[<<i, k>>].size \in {0, ModelSize}
          /\ dma[Rgba(i)].size \in {0, RgbaSize(dma[Rgba(i)])}
          /\ dma[Src(i)].len # 0 /\ ~ Filling(i) => dma[Src(i)].len = StrideSize(dma[Src(i)])
          /\ Filling(i) => dma[Src(i)].size = YuvSize(picture)
    /\ opc = "copy" => dma[Src(cur)].len # 0

(* A picture handed over stays until its inference is done with it.        *)
BusyAt(i) ==
    /\ Working(i) => m_is_busy[i]
    /\ m_is_busy[i] /\ wpc[i] # "gone" =>
          /\ wpc[i] # "none" /\ ~ Filling(i)
          /\ dma[Src(i)].len # 0
          /\ \E g \in Geometries : HasShape(dma[Src(i)], g)
    /\ wpc[i] = "run" =>
          /\ dma[Rgba(i)].len # 0
          /\ dma[Rgba(i)].width = dma[Src(i)].width
          /\ dma[Rgba(i)].height = dma[Src(i)].height
    /\ wpc[i] = "remake" =>
          /\ dma[Rgba(i)].width = dma[Src(i)].width
          /\ dma[Rgba(i)].height = dma[Src(i)].height
    /\ wpc[i] \notin {"none", "gone"} =>
          dma[<<i, "resize_img">>].len # 0 /\ dma[<<i, "input_img">>].len # 0
Busy == \A i \in Inferences : BusyAt(i)

(* Between set-up and tear-down every inference runs, before and after it  *)
(* the ones that are not set up or were released have nothing.             *)
Building == opc \in {"build", "resize_img", "input_img"}
Leaving == opc \in {"join", "free", "end"}
Clean(i) == /\ \A k \in Kinds : dma[<<i, k>>].len = 0
            /\ held[i] = {} /\ wpc[i] \in {"none", "gone"}
ToRelease(i) == (opc = "free" /\ cur = i) \/ \E k \in DOMAIN leaving : leaving[k] = i

Lifecycle ==
    /\ Building =>
          /\ \A i \in Inferences :
                /\ i < cur => wpc[i] # "none"
                /\ i > cur => Clean(i) /\ wpc[i] = "none"
          /\ wpc[cur] = "none"
          /\ opc = "input_img" => dma[<<cur, "resize_img">>].len # 0
    /\ ~ Building /\ ~ Leaving => \A i \in Inferences : wpc[i] # "none"
    /\ Leaving => \A i \in Inferences : Clean(i) \/ ToRelease(i)
    /\ opc = "end" => leaving = <<>>

BufInv == TypeOK /\ AllocsFollow /\ Accounted /\ Numbered /\ Sized /\ Busy /\ Lifecycle
=============================================================================

------------------------- MODULE LabelDrawingProofs -------------------------
(***************************************************************************)
(* What drawing may touch, for pictures of any even size, any text and any *)
(* place: no byte outside the picture, and text only on its background.    *)
(***************************************************************************)
EXTENDS LabelDrawing, TLAPS

(* A line that begins before the end of k lines of m bytes ends there.     *)
LEMMA LineEnds ==
    ASSUME NEW m \in Nat, NEW k \in Nat, NEW y \in 0..(k - 1)
    PROVE  m * y \in Nat /\ m * y + m <= m * k
<1>1. k = y + 1 + (k - 1 - y) /\ k - 1 - y \in Nat
  OBVIOUS
<1>2. m * y \in Nat /\ m * (k - 1 - y) \in Nat
  BY <1>1
<1>3. m * (y + 1 + (k - 1 - y)) = m * y + m + m * (k - 1 - y)
  BY <1>1
<1> QED
  BY <1>1, <1>2, <1>3

(* What a loop keeps is inside the picture and inside the loop.            *)
LEMMA ClipInside ==
    ASSUME NEW from \in Int, NEW n \in Int, NEW limit \in Int, NEW x \in Clip(from, n, limit)
    PROVE  x \in 0..(limit - 1) /\ x \in Int /\ from <= x /\ x < from + n
  BY DEF Clip

(* The luma bytes come first; the chroma bytes take half as many again.    *)
LEMMA PictureBytes ==
    ASSUME NEW w \in Nat, NEW h \in Nat, h % 2 = 0
    PROVE  /\ Half(h) \in Nat /\ w * h \in Nat /\ w * Half(h) \in Nat
           /\ (w * h * 3) \div 2 = w * h + w * Half(h)
<1>1. Half(h) \in Nat /\ h = 2 * Half(h)
  BY DEF Half
<1> DEFINE b == Half(h)
<1>2. w * b \in Nat
  BY <1>1
<1>3. w * h = 2 * (w * b)
  BY <1>1
<1> DEFINE q == w * b
<1>4. q \in Nat /\ w * h = 2 * q
  BY <1>2, <1>3
<1> HIDE DEF q
<1>5. (w * h * 3) \div 2 = 3 * q
  BY <1>4
<1> QED
  BY <1>1, <1>2, <1>4, <1>5 DEF q

(* A luma byte.                                                            *)
LEMMA LumaInside ==
    ASSUME NEW w \in Nat, NEW h \in Nat, h % 2 = 0,
           NEW x \in 0..(w - 1), NEW y \in 0..(h - 1)
    PROVE  w * y + x \in 0..((w * h * 3) \div 2 - 1)
<1>1. w * y \in Nat /\ w * y + w <= w * h
  BY LineEnds
<1>2. /\ w * h \in Nat /\ w * Half(h) \in Nat
      /\ (w * h * 3) \div 2 = w * h + w * Half(h)
  BY PictureBytes
<1> QED
  BY <1>1, <1>2

(* A chroma byte.                                                          *)
LEMMA ChromaInside ==
    ASSUME NEW w \in Nat, NEW h \in Nat, w % 2 = 0, h % 2 = 0,
           NEW x \in 0..(Half(w) - 1), NEW y \in 0..(Half(h) - 1), NEW c \in {0, 1}
    PROVE  w * h + w * y + 2 * x + c \in 0..((w * h * 3) \div 2 - 1)
<1>1. Half(h) \in Nat
  BY PictureBytes
<1>2. w * y \in Nat /\ w * y + w <= w * Half(h)
  BY <1>1, LineEnds
<1>3. /\ w * h \in Nat /\ w * Half(h) \in Nat
      /\ (w * h * 3) \div 2 = w * h + w * Half(h)
  BY PictureBytes
<1>4. 2 * x + c \in Nat /\ 2 * x + c < w
  BY DEF Half
<1> QED
  BY <1>2, <1>3, <1>4

(* Filling a rectangle touches no byte outside the picture                 *)
(* (label_render.cpp:383-431).                                             *)
THEOREM FillStaysInside ==
    ASSUME NEW w \in Nat, NEW h \in Nat, w % 2 = 0, h % 2 = 0,
           NEW rx \in Int, NEW ry \in Int, NEW rw \in Int, NEW rh \in Int
    PROVE  FillRectYUV420SP(w, h, rx, ry, rw, rh) \subseteq 0..((w * h * 3) \div 2 - 1)
<1>1. FillRectC1(w, h, rx, ry, rw, rh) \subseteq 0..((w * h * 3) \div 2 - 1)
  <2> SUFFICES ASSUME NEW x \in Clip(rx, rw, w), NEW y \in Clip(ry, rh, h)
               PROVE  w * y + x \in 0..((w * h * 3) \div 2 - 1)
    BY DEF FillRectC1
  <2>1. x \in 0..(w - 1) /\ y \in 0..(h - 1)
    BY ClipInside
  <2> QED
    BY <2>1, LumaInside
<1>2. \A a, b, m, n \in Int :
          FillRectC2(w, h, a, b, m, n) \subseteq 0..((w * h * 3) \div 2 - 1)
  <2> SUFFICES ASSUME NEW a \in Int, NEW b \in Int, NEW m \in Int, NEW n \in Int,
                      NEW x \in Clip(a, m, Half(w)), NEW y \in Clip(b, n, Half(h)),
                      NEW c \in {0, 1}
               PROVE  w * h + w * y + 2 * x + c \in 0..((w * h * 3) \div 2 - 1)
    BY DEF FillRectC2
  <2>1. x \in 0..(Half(w) - 1) /\ y \in 0..(Half(h) - 1)
    BY DEF Clip
  <2> QED
    BY <2>1, ChromaInside
<1>3. Half(rx) \in Int /\ Half(ry) \in Int /\ Half(rw) \in Int /\ Half(rh) \in Int
  BY DEF Half
<1> QED
  BY <1>1, <1>2, <1>3 DEF FillRectYUV420SP

(* So does a text image, whether or not there is a background.             *)
THEOREM BlitStaysInside ==
    ASSUME NEW w \in Nat, NEW h \in Nat, w % 2 = 0, h % 2 = 0,
           NEW iw \in Int, NEW ih \in Int, NEW dx \in Int, NEW dy \in Int
    PROVE  BlitRgbaToYUV420SP(w, h, iw, ih, dx, dy) \subseteq 0..((w * h * 3) \div 2 - 1)
<1> DEFINE Pixels == Clip(dx, iw, w) \X Clip(dy, ih, h)
<1>1. \A p \in Pixels : p[1] \in 0..(w - 1) /\ p[2] \in 0..(h - 1)
  BY DEF Clip
<1> HIDE DEF Pixels
<1>2. \A p \in Pixels : w * p[2] + p[1] \in 0..((w * h * 3) \div 2 - 1)
  BY <1>1, LumaInside
<1>3. \A p \in Pixels : p[1] \div 2 \in 0..(Half(w) - 1) /\ p[2] \div 2 \in 0..(Half(h) - 1)
  BY <1>1 DEF Half
<1>4. \A p \in Pixels, c \in {0, 1} :
          w * h + w * (p[2] \div 2) + 2 * (p[1] \div 2) + c \in 0..((w * h * 3) \div 2 - 1)
  BY <1>3, ChromaInside
<1> QED
  BY <1>2, <1>4 DEF BlitRgbaToYUV420SP, Pixels

(* A position at least two inside a rectangle is kept by the loop over the *)
(* rectangle's half, when it is halved itself.                             *)
LEMMA HalfInside ==
    ASSUME NEW r \in Int, NEW n \in Nat, NEW limit \in Nat, limit % 2 = 0,
           NEW x \in 0..(limit - 1), r + 2 <= x, x <= r + n - 3
    PROVE  x \div 2 \in Clip(Half(r), Half(n), Half(limit))
<1>1. x \div 2 \in 0..(Half(limit) - 1)
  BY DEF Half
<1>2. Half(r) <= x \div 2
  BY DEF Half
<1>3. x \div 2 <= Half(r) + Half(n) - 1
  BY DEF Half
<1>4. Half(r) \in Int /\ Half(n) \in Int
  BY DEF Half
<1> QED
  BY <1>1, <1>2, <1>3, <1>4 DEF Clip

(* Text that keeps two pixels from the edges of a rectangle writes only    *)
(* bytes the filled rectangle wrote before (label_render.cpp:175-185,      *)
(* 375-380): no chroma of the picture shines through.                      *)
THEOREM TextOnBackground ==
    ASSUME NEW w \in Nat, NEW h \in Nat, w % 2 = 0, h % 2 = 0,
           NEW rx \in Int, NEW ry \in Int, NEW rw \in Nat, NEW rh \in Nat,
           NEW iw \in Nat, NEW ih \in Nat, NEW dx \in Int, NEW dy \in Int,
           rx + 2 <= dx, dx + iw + 2 <= rx + rw, ry + 2 <= dy, dy + ih + 2 <= ry + rh
    PROVE  BlitRgbaToYUV420SP(w, h, iw, ih, dx, dy)
              \subseteq FillRectYUV420SP(w, h, rx, ry, rw, rh)
<1> DEFINE Pixels == Clip(dx, iw, w) \X Clip(dy, ih, h)
<1>1. \A p \in Pixels : p[1] \in 0..(w - 1) /\ p[2] \in 0..(h - 1)
                        /\ rx + 2 <= p[1] /\ p[1] <= rx + rw - 3
                        /\ ry + 2 <= p[2] /\ p[2] <= ry + rh - 3
  BY DEF Clip
<1>2. \A p \in Pixels : p[1] \in Clip(rx, rw, w) /\ p[2] \in Clip(ry, rh, h)
  BY <1>1 DEF Clip
<1> HIDE DEF Pixels
<1>3. \A p \in Pixels : /\ p[1] \div 2 \in Clip(Half(rx), Half(rw), Half(w))
                        /\ p[2] \div 2 \in Clip(Half(ry), Half(rh), Half(h))
  BY <1>1, HalfInside
<1>4. {w * p[2] + p[1] : p \in Pixels} \subseteq FillRectC1(w, h, rx, ry, rw, rh)
  BY <1>2 DEF FillRectC1
<1>5. {w * h + w * (p[2] \div 2) + 2 * (p[1] \div 2) + c :
           p \in {q \in Pixels : q[1] % 2 = 0 /\ q[2] % 2 = 0}, c \in {0, 1}}
         \subseteq FillRectC2(w, h, Half(rx), Half(ry), Half(rw), Half(rh))
  BY <1>3 DEF FillRectC2
<1> QED
  BY <1>4, <1>5 DEF BlitRgbaToYUV420SP, FillRectYUV420SP, Pixels

(* A detection's label and confidence, wherever the box is.                *)
THEOREM DetectionOnBackground ==
    ASSUME NEW w \in Nat, NEW h \in Nat, w % 2 = 0, h % 2 = 0,
           NEW label \in Nat \X Nat, NEW conf \in Nat \X Nat,
           NEW box_x \in Int, NEW box_y \in Int
    PROVE  /\ DetectionBackground(w, h, label, conf, box_x, box_y)
                 \subseteq 0..((w * h * 3) \div 2 - 1)
           /\ DetectionText(w, h, label, conf, box_x, box_y)
                 \subseteq DetectionBackground(w, h, label, conf, box_x, box_y)
<1>1. /\ label[1] \in Nat /\ label[2] \in Nat /\ conf[1] \in Nat /\ conf[2] \in Nat
      /\ TextHeight(label, conf) \in Nat
      /\ label[2] <= TextHeight(label, conf) /\ conf[2] <= TextHeight(label, conf)
  BY DEF TextHeight
<1>2. TextY(label, conf, box_y) \in Int
  BY <1>1 DEF TextY
<1> DEFINE y == TextY(label, conf, box_y)
           t == TextHeight(label, conf)
           Back == FillRectYUV420SP(w, h, box_x - 2, y - 2, label[1] + conf[1] + 4, t + 4)
<1> HIDE DEF y, t
<1>3. y \in Int /\ t \in Nat /\ label[2] <= t /\ conf[2] <= t
  BY <1>1, <1>2 DEF y, t
<1>4. Back \subseteq 0..((w * h * 3) \div 2 - 1)
  <2>1. box_x - 2 \in Int /\ y - 2 \in Int /\ label[1] + conf[1] + 4 \in Int /\ t + 4 \in Int
    BY <1>1, <1>3
  <2> QED
    BY <2>1, FillStaysInside
<1>5. /\ box_x - 2 \in Int /\ y - 2 \in Int
      /\ label[1] + conf[1] + 4 \in Nat /\ t + 4 \in Nat
      /\ box_x + label[1] \in Int
  BY <1>1, <1>3
<1>6. BlitRgbaToYUV420SP(w, h, label[1], label[2], box_x, y) \subseteq Back
  <2>1. /\ (box_x - 2) + 2 <= box_x
        /\ box_x + label[1] + 2 <= (box_x - 2) + (label[1] + conf[1] + 4)
        /\ (y - 2) + 2 <= y /\ y + label[2] + 2 <= (y - 2) + (t + 4)
    BY <1>1, <1>3
  <2> HIDE DEF Back
  <2> QED
    BY <1>1, <1>3, <1>5, <2>1, TextOnBackground DEF Back
<1>7. BlitRgbaToYUV420SP(w, h, conf[1], conf[2], box_x + label[1], y) \subseteq Back
  <2>1. /\ (box_x - 2) + 2 <= box_x + label[1]
        /\ (box_x + label[1]) + conf[1] + 2 <= (box_x - 2) + (label[1] + conf[1] + 4)
        /\ (y - 2) + 2 <= y /\ y + conf[2] + 2 <= (y - 2) + (t + 4)
    BY <1>1, <1>3
  <2> QED
    BY <1>1, <1>3, <1>5, <2>1, TextOnBackground
<1> QED
  BY <1>4, <1>6, <1>7 DEF DetectionBackground, DetectionText, y, t
=============================================================================

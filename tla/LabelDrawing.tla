---------------------------- MODULE LabelDrawing ----------------------------
(***************************************************************************)
(* Which bytes of a YUV420SP picture the renderer writes.  The picture is  *)
(* w * h bytes of luma and, after them, lines of w bytes that hold one     *)
(* pair of chroma bytes for two by two pixels; byte numbers start at 0.    *)
(* A text image counts as opaque everywhere: its transparent pixels are    *)
(* skipped, which writes less.                                             *)
(***************************************************************************)
EXTENDS Integers, FiniteSets

(* Division of ints, which rounds towards zero.                            *)
Half(z) == IF z >= 0 THEN z \div 2 ELSE -((-z) \div 2)

(* The numbers from `from' on that a loop of n turns keeps: those below    *)
(* `limit'.                                                                *)
Clip(from, n, limit) == (from..(from + n - 1)) \cap (0..(limit - 1))

FillRectC1(w, h, rx, ry, rw, rh) ==
    {w * y + x : x \in Clip(rx, rw, w), y \in Clip(ry, rh, h)}

(* The chroma lines, w / 2 pairs each, begin at byte w * h.                *)
FillRectC2(w, h, rx, ry, rw, rh) ==
    {w * h + w * y + 2 * x + c :
        x \in Clip(rx, rw, Half(w)), y \in Clip(ry, rh, Half(h)), c \in {0, 1}}

(* Mutant: the chroma lines are as many as the luma lines.                 *)
FillRectFullChroma(w, h, rx, ry, rw, rh) ==
    FillRectC1(w, h, rx, ry, rw, rh) \cup
    FillRectC2(w, 2 * h, Half(rx), Half(ry), Half(rw), Half(rh))

FillRectYUV420SP(w, h, rx, ry, rw, rh) ==
    FillRectC1(w, h, rx, ry, rw, rh) \cup
    FillRectC2(w, h, Half(rx), Half(ry), Half(rw), Half(rh))

(* A text image of iw by ih pixels at (dx, dy): a pixel with even          *)
(* coordinates writes its pair of chroma bytes as well.                    *)
BlitRgbaToYUV420SP(w, h, iw, ih, dx, dy) ==
    LET Pixels == Clip(dx, iw, w) \X Clip(dy, ih, h)
    IN  {w * p[2] + p[1] : p \in Pixels} \cup
        {w * h + w * (p[2] \div 2) + 2 * (p[1] \div 2) + c :
            p \in {q \in Pixels : q[1] % 2 = 0 /\ q[2] % 2 = 0}, c \in {0, 1}}

(* The label and the confidence beside it, above the box or, where there   *)
(* is no room, inside it.                                                  *)
TextHeight(label, conf) == IF label[2] > conf[2] THEN label[2] ELSE conf[2]
TextY(label, conf, box_y) ==
    IF box_y - TextHeight(label, conf) - 6 < 0
       THEN box_y + 2
       ELSE box_y - TextHeight(label, conf) - 6

(* drawDetection: the background with a margin of two pixels ...           *)
DetectionBackground(w, h, label, conf, box_x, box_y) ==
    FillRectYUV420SP(w, h, box_x - 2, TextY(label, conf, box_y) - 2,
                     label[1] + conf[1] + 4, TextHeight(label, conf) + 4)

(* ... and the two text images.                                            *)
DetectionText(w, h, label, conf, box_x, box_y) ==
    BlitRgbaToYUV420SP(w, h, label[1], label[2], box_x, TextY(label, conf, box_y)) \cup
    BlitRgbaToYUV420SP(w, h, conf[1], conf[2], box_x + label[1], TextY(label, conf, box_y))

(* drawFPS, the same for one text image at (x, y).                         *)
FPSBackground(w, h, img, x, y) ==
    FillRectYUV420SP(w, h, x - 2, y - 2, img[1] + 4, img[2] + 4)
FPSText(w, h, img, x, y) == BlitRgbaToYUV420SP(w, h, img[1], img[2], x, y)
=============================================================================

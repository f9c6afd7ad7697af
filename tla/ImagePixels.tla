---------------------------- MODULE ImagePixels ----------------------------
(***************************************************************************)
(* internal/imageproc/transform.go: the blur and the mirroring of a        *)
(* rendition, and the encoding it gets.                                    *)
(*                                                                         *)
(* The channels of a pixel are treated alike and apart, so an image is the *)
(* bytes of one of them: pix, row by row.  Decoding, scaling, grayscale (a *)
(* formula per pixel) and the encoders are left out.                       *)
(***************************************************************************)
EXTENDS Integers, FiniteSets, Functions

Byte == 0..255
Side(n) == 0..(n - 1)

\* What a decoder makes of a file: at least one pixel.
IsChannel(img) == /\ img.w \in Nat \ {0} /\ img.h \in Nat \ {0}
                  /\ img \in [w : {img.w}, h : {img.h},
                              pix : [Side(img.w * img.h) -> Byte]]

ClampInt(v, lo, hi) == IF v < lo THEN lo ELSE IF v > hi THEN hi ELSE v

\* A line beyond its ends is as at them.
Extended(line, i) == line[ClampInt(i, 0, Cardinality(DOMAIN line) - 1)]

\* Mutation: the line is blurred in place, so what leaves the window was
\* blurred already.
SumsInPlace(line, radius) ==
    LET sum[i \in DOMAIN line] ==
          IF i = 0
          THEN SumFunction([d \in -radius..radius |-> Extended(line, d)])
          ELSE sum[i - 1] + Extended(line, i + radius)
                 - (sum[ClampInt(i - 1 - radius, 0, i - 1)] \div (2 * radius + 1))
    IN  sum

\* The sliding window of blurAxis: one pixel enters, one leaves.
Sums(line, radius) ==
    LET sum[i \in DOMAIN line] ==
          IF i = 0
          THEN SumFunction([d \in -radius..radius |-> Extended(line, d)])
          ELSE sum[i - 1] + Extended(line, i + radius) - Extended(line, i - 1 - radius)
    IN  sum

BlurLine(line, radius) ==
    LET sum == Sums(line, radius)
    IN  [i \in DOMAIN line |-> (sum[i] \div (2 * radius + 1)) % 256]

\* idx: the place in pix of pixel i of line o.
Idx(img, horizontal, o, i) == IF horizontal THEN o * img.w + i ELSE i * img.w + o

Lines(img, horizontal) ==
    LET outer == IF horizontal THEN img.h ELSE img.w
        inner == IF horizontal THEN img.w ELSE img.h
    IN  [o \in Side(outer) |-> [i \in Side(inner) |-> img.pix[Idx(img, horizontal, o, i)]]]

BlurAxis(img, radius, horizontal) ==
    LET blurred == [o \in DOMAIN Lines(img, horizontal) |->
                       BlurLine(Lines(img, horizontal)[o], radius)]
    IN  [img EXCEPT !.pix = [n \in DOMAIN img.pix |->
            IF horizontal THEN blurred[n \div img.w][n % img.w]
                          ELSE blurred[n % img.w][n \div img.w]]]

\* boxBlur: two passes over both axes.
BoxBlur(img, radius) ==
    LET Pass(i) == BlurAxis(BlurAxis(i, radius, TRUE), radius, FALSE)
    IN  IF radius < 1 THEN img ELSE Pass(Pass(img))

Flip(img, horizontal, vertical) ==
    [img EXCEPT !.pix = [n \in DOMAIN img.pix |->
        LET x == n % img.w
            y == n \div img.w
        IN  img.pix[(IF vertical THEN img.h - 1 - y ELSE y) * img.w
                    + (IF horizontal THEN img.w - 1 - x ELSE x)]]]

\* Of the bytes of the alpha channel.
HasAlpha(img) == \E n \in DOMAIN img.pix : img.pix[n] # 255

\* encode, and whether it puts the image on white first.
Encoding(format, alpha) ==
    LET f == IF format # "auto" THEN format ELSE IF HasAlpha(alpha) THEN "png" ELSE "jpeg"
    IN  [format |-> f, flattened |-> f = "jpeg" /\ HasAlpha(alpha)]

-----------------------------------------------------------------------------
\* What a box blur is: every pixel of a line becomes the mean of those at
\* most radius away.
Mean(line, radius, i) ==
    SumFunction([d \in -radius..radius |-> Extended(line, i + d)]) \div (2 * radius + 1)

BlurMeans(img, radius) ==
    \A horizontal \in BOOLEAN : \A o \in DOMAIN Lines(img, horizontal) :
        Lines(BlurAxis(img, radius, horizontal), horizontal)[o]
            = [i \in DOMAIN Lines(img, horizontal)[o] |->
                  Mean(Lines(img, horizontal)[o], radius, i)]

\* No direction is preferred, and mirroring twice is nothing.
BlurMirrors(img, radius) ==
    \A horizontal, vertical \in BOOLEAN :
        /\ BoxBlur(Flip(img, horizontal, vertical), radius)
               = Flip(BoxBlur(img, radius), horizontal, vertical)
        /\ Flip(Flip(img, horizontal, vertical), horizontal, vertical) = img

\* docs/images.md:35: auto is "PNG when transparency is present", as it was in
\* what is blurred, and nothing transparent becomes black in a JPEG.
BlurKeepsAlpha(img, radius) ==
    /\ Encoding("auto", BoxBlur(img, radius)) = Encoding("auto", img)
    /\ HasAlpha(img) => Encoding("jpeg", BoxBlur(img, radius)).flattened
=============================================================================

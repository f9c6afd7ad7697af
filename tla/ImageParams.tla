---------------------------- MODULE ImageParams ----------------------------
(***************************************************************************)
(* internal/imageproc: the options of an /img/ URL (params.go) and the     *)
(* size of the rendition they ask for (resize in transform.go).            *)
(*                                                                         *)
(* An option string is the sequence of its key=value pairs, under their    *)
(* long names; a value that is no number or no word of its option has no   *)
(* representative, being refused like an unknown key.  Device pixel ratios *)
(* and blur radii are floats in the code, here integers in units of        *)
(* 1/One; the ratios resize computes with floats are exact here.  NaN is   *)
(* the one float that no comparison tells to be out of range.              *)
(***************************************************************************)
EXTENDS Integers, Sequences

CONSTANTS MaxDim,         \* cap of a requested side, after dpr
          DefaultMaxDim,  \* cap of the longest side when none is requested
          One,            \* units of a float in 1.0
          NaN

ASSUME ParamsAssumption ==
    /\ MaxDim \in Nat \ {0} /\ DefaultMaxDim \in 1..MaxDim
    /\ One \in Nat \ {0} /\ One % 2 = 0
    /\ NaN \notin Int

Fits == {"scaledown", "contain", "cover", "fill"}
Formats == {"auto", "jpeg", "png", "gif"}

\* parseDim and parseRange, as the code compares.
Dim(n) == ~(n < 1 \/ n > MaxDim)
InRange(x, lo, hi) == x = NaN \/ ~(x < lo \/ x > hi)

\* Numbers stand where parseDim and parseRange find one.
WellTyped(text) ==
    /\ text \in Seq({text[i] : i \in DOMAIN text})
    /\ \A i \in DOMAIN text :
         /\ text[i].key \in {"width", "height"} => text[i].value \in Int
         /\ text[i].key = "blur" => text[i].value \in Int \cup {NaN}

\* The cases of Parse that return no error.
Accepts(pair) ==
    LET v == pair.value
    IN  CASE pair.key \in {"width", "height"} -> Dim(v)
          [] pair.key = "dpr" -> InRange(v, One \div 2, 3 * One)
          [] pair.key = "fit" -> v \in Fits
          [] pair.key = "quality" -> ~(v < 1 \/ v > 100)
          [] pair.key = "format" -> v \in Formats
          [] pair.key = "grayscale" -> v \in BOOLEAN
          [] pair.key = "blur" -> InRange(v, 0, 50 * One)
          [] pair.key = "flip" -> v \in {"h", "v", "hv"}
          [] OTHER -> FALSE

\* The value of an option: that of its last pair, or the default.
Given(text, key) == {i \in DOMAIN text : text[i].key = key}
Value(text, key, default) ==
    IF Given(text, key) = {} THEN default
    ELSE text[CHOOSE i \in Given(text, key) : \A j \in Given(text, key) : j <= i].value

Flips(text, axis) == \E i \in Given(text, "flip") : text[i].value \in {axis, "hv"}

Accepted(text) == \A i \in DOMAIN text : Accepts(text[i])

\* What Parse returns for an accepted string.
Params(text) ==
    [width |-> Value(text, "width", 0), height |-> Value(text, "height", 0),
     dpr |-> Value(text, "dpr", One), fit |-> Value(text, "fit", "scaledown"),
     quality |-> Value(text, "quality", 80), format |-> Value(text, "format", "auto"),
     gray |-> Value(text, "grayscale", FALSE), blur |-> Value(text, "blur", 0),
     flipH |-> Flips(text, "h"), flipV |-> Flips(text, "v")]

-----------------------------------------------------------------------------
\* Everything below is for positive dpr; an image is its width and height,
\* which are at least one.
Sized(img) == img.w \in Nat \ {0} /\ img.h \in Nat \ {0}

AtLeastOne(n) == IF n < 1 THEN 1 ELSE n

\* Mutation: the cap is forgotten.
ScaleDimUncapped(dim, dpr) == (2 * dim * dpr + One) \div (2 * One)

\* scaleDim: rounded to the nearest, capped.
ScaleDim(dim, dpr) ==
    LET scaled == (2 * dim * dpr + One) \div (2 * One)
    IN  IF scaled > MaxDim THEN MaxDim ELSE scaled

\* resize: the sides asked for, 0 for one that is not.
Asked(img, p) ==
    LET w == ScaleDim(p.width, p.dpr)
        h == ScaleDim(p.height, p.dpr)
        over == img.w > DefaultMaxDim \/ img.h > DefaultMaxDim
    IN  IF w # 0 \/ h # 0 \/ ~over THEN [w |-> w, h |-> h]
        ELSE IF img.w >= img.h THEN [w |-> DefaultMaxDim, h |-> 0]
        ELSE [w |-> 0, h |-> DefaultMaxDim]

\* A side that was not asked for follows from the other.
Box(img, asked) ==
    [w |-> IF asked.w = 0 THEN AtLeastOne((img.w * asked.h) \div img.h) ELSE asked.w,
     h |-> IF asked.h = 0 THEN AtLeastOne((img.h * asked.w) \div img.w) ELSE asked.h]

\* Mutation: the source's other side is cut.
CropOther(img, box) ==
    IF img.w * box.h > img.h * box.w
    THEN [w |-> img.w, h |-> AtLeastOne((img.w * box.h) \div box.w)]
    ELSE [w |-> AtLeastOne((img.h * box.w) \div box.h), h |-> img.h]

\* The part of the source that "cover" scales into the box, centered.
Crop(img, box) ==
    IF img.w * box.h > img.h * box.w
    THEN [w |-> AtLeastOne((img.h * box.w) \div box.h), h |-> img.h]
    ELSE [w |-> img.w, h |-> AtLeastOne((img.w * box.h) \div box.w)]

\* Mutation: the ratio comes from the derived box.
RatioOfBox(img, asked) ==
    LET box == Box(img, asked)
    IN  IF box.w * img.h <= box.h * img.w THEN [num |-> box.w, den |-> img.w]
        ELSE [num |-> box.h, den |-> img.h]

\* The ratio for "scaledown" and "contain", from what was asked for only.
Ratio(img, asked) ==
    IF asked.h = 0 \/ (asked.w # 0 /\ asked.w * img.h <= asked.h * img.w)
    THEN [num |-> asked.w, den |-> img.w]
    ELSE [num |-> asked.h, den |-> img.h]

Scaled(n, ratio) == AtLeastOne((2 * n * ratio.num + ratio.den) \div (2 * ratio.den))

\* The radius Transform blurs with, 0 for not at all (and for NaN).
Radius(blur) == IF blur = NaN THEN 0 ELSE (2 * blur + One) \div (2 * One)

\* The size of what resize returns.
Resized(img, p) ==
    LET asked == Asked(img, p)
        ratio == Ratio(img, asked)
    IN  IF asked = [w |-> 0, h |-> 0] THEN img
        ELSE IF p.fit \in {"fill", "cover"} THEN Box(img, asked)
        ELSE IF p.fit = "scaledown" /\ ratio.num >= ratio.den THEN img
        ELSE [w |-> Scaled(img.w, ratio), h |-> Scaled(img.h, ratio)]

-----------------------------------------------------------------------------
\* docs/images.md:31-32: "scaledown never upscales".
NotUpscaled(img, p) ==
    p.fit = "scaledown" => Resized(img, p).w <= img.w /\ Resized(img, p).h <= img.h

\* "the exact size you asked for", up to the cap: both sides of "fill" and
\* "cover"; otherwise one of them, which the other stays within.  Only
\* "scaledown" leaves an image alone that is small enough.
SizeMet(img, p) ==
    LET out == Resized(img, p)
        w   == ScaleDim(p.width, p.dpr)
        h   == ScaleDim(p.height, p.dpr)
    IN  /\ w <= MaxDim /\ h <= MaxDim
        /\ p.fit \in {"fill", "cover"} => (w # 0 => out.w = w) /\ (h # 0 => out.h = h)
        /\ p.fit \in {"contain", "scaledown"} /\ (w # 0 \/ h # 0) =>
             \/ p.fit = "scaledown" /\ out = img
             \/ w # 0 /\ out.w = w /\ (h = 0 \/ out.h <= h)
             \/ h # 0 /\ out.h = h /\ (w = 0 \/ out.w <= w)

\* "With neither given, the longest side is capped".
SizeCapped(img, p) ==
    p.width = 0 /\ p.height = 0 =>
        Resized(img, p).w <= DefaultMaxDim /\ Resized(img, p).h <= DefaultMaxDim

\* The sides of a and b are in proportion, up to the rounding of one of them,
\* which keeps at least one pixel.
InProportion(a, b) ==
    LET error == a.w * b.h - a.h * b.w
        slack == IF b.w > b.h THEN b.w ELSE b.h
    IN  a.w = 1 \/ a.h = 1 \/ (-slack <= error /\ error <= slack)

\* "A single dimension preserves aspect ratio", as contain and scaledown do;
\* what "cover" cuts out lies inside the source and has the box's proportions.
ShapeKept(img, p) ==
    LET out  == Resized(img, p)
        crop == Crop(img, out)
    IN  /\ p.fit \in {"contain", "scaledown"} \/ p.width = 0 \/ p.height = 0
             => InProportion(out, img)
        /\ p.fit = "cover" => /\ crop.w <= img.w /\ crop.h <= img.h
                              /\ InProportion(crop, out)
=============================================================================

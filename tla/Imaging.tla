------------------------------- MODULE Imaging -------------------------------
(***************************************************************************)
(* What becomes of an uploaded image (imgproc/imgproc.go). A file is what   *)
(* its header announces and what its decoder finds: the first frame of an   *)
(* animation may be smaller than its canvas, never larger.                  *)
(***************************************************************************)
EXTENDS Integers

Formats == {"png", "jpeg", "gif", "webp"}

\* "other" has no decoder; `readable` says that the whole file decodes.
Uploads ==
  {f \in [empty : BOOLEAN, format : Formats \cup {"other"}, width : Int, height : Int,
          readable : BOOLEAN, frameWidth : Int, frameHeight : Int] :
     f.readable => f.frameWidth <= f.width /\ f.frameHeight <= f.height}

\* What Process lets through: the announced sides are bounded before anything
\* of their size is allocated, the decoded ones are checked again.
Accepted(f, maxSourceSide) ==
  /\ ~f.empty
  /\ f.format \in Formats
  /\ f.width \in 1..maxSourceSide /\ f.height \in 1..maxSourceSide
  /\ f.readable
  /\ f.frameWidth > 0 /\ f.frameHeight > 0

AtLeast1(n) == IF n < 1 THEN 1 ELSE n

\* The sides of the output: within a square of side max, never enlarged. No
\* side is no limit; Process always gives one, targetSide.
Fit(w, h, max) ==
  IF max <= 0 \/ (w <= max /\ h <= max) THEN [width |-> w, height |-> h]
  ELSE IF w >= h THEN [width |-> max, height |-> AtLeast1((h * max) \div w)]
  ELSE [width |-> AtLeast1((w * max) \div h), height |-> max]

Process(f, targetSide) == Fit(f.frameWidth, f.frameHeight, targetSide)

-----------------------------------------------------------------------------
\* An accepted image has the sides the table of the images asks for
\* (0001_init.sql:76-77), fits in the target, and was not enlarged.
WellSized(f, targetSide) ==
  LET r == Process(f, targetSide) IN
  /\ r.width \in 1..targetSide /\ r.width <= f.frameWidth
  /\ r.height \in 1..targetSide /\ r.height <= f.frameHeight

\* No side of the output is off its proportional value by a pixel, unless it
\* was raised to one.
KeepsProportions(f, targetSide) ==
  LET r == Process(f, targetSide)
      off == r.height * f.frameWidth - f.frameHeight * r.width
  IN  r.width = 1 \/ r.height = 1 \/
      (-f.frameWidth < off /\ off < f.frameHeight)
=============================================================================

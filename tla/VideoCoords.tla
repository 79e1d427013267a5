----------------------------- MODULE VideoCoords -----------------------------
(***************************************************************************)
(* The agent's mapping of a click on the video panel to a point of the     *)
(* source frame (VideoCoords.PointerToNormalized, used by                  *)
(* MainWindow.OnVideoPointerPressed).  Doubles are exact fractions here: a *)
(* coordinate is a numerator over the common denominator 2 * Fit.          *)
(***************************************************************************)
EXTENDS Integers

CONSTANT MaxSize  \* bound: largest control or source dimension
ASSUME SizeAssumption == MaxSize \in Nat

VARIABLES
  cw, ch,  \* the control's size; 0 before it is laid out
  sw, sh,  \* the source's size; 0 without a frame
  x, y,    \* the last click
  norm     \* what it was mapped to: NULL in the bars, NONE without a click
viewVars == <<cw, ch, sw, sh, x, y, norm>>

NULL == [u |-> 0, v |-> 0, den |-> 0]
NONE == [u |-> 0, v |-> 0, den |-> -1]
Smaller(a, b) == IF a <= b THEN a ELSE b

\* scale = Fit / (sw * sh): the factor that fits the source into the control.
Fit == Smaller(cw * sh, ch * sw)

\* localX / displayedWidth and localY / displayedHeight, times 2 * Fit.
LocalX(px) == 2 * sh * px - (cw * sh - Fit)
LocalY(py) == 2 * sw * py - (ch * sw - Fit)

OutsideExclusive(l) == l < 0 \/ l >= 2 * Fit
Outside(l) == l < 0 \/ l > 2 * Fit

PointerToNormalized(px, py) ==
  IF 0 \in {cw, ch, sw, sh} \/ Outside(LocalX(px)) \/ Outside(LocalY(py)) THEN NULL
  ELSE [u |-> LocalX(px), v |-> LocalY(py), den |-> 2 * Fit]

\* Without a frame the click is taken relative to the control.
ControlRelative(px, py) ==
  IF 0 \in {cw, ch} THEN NULL ELSE [u |-> px * ch, v |-> py * cw, den |-> cw * ch]

-----------------------------------------------------------------------------
ViewInit ==
  /\ cw = 0 /\ ch = 0 /\ sw = 0 /\ sh = 0 /\ x = 0 /\ y = 0 /\ norm = NONE

\* A pointer event is always inside the control.
OnVideoPointerPressed(px, py) ==
  /\ px <= cw /\ py <= ch
  /\ x' = px /\ y' = py
  /\ norm' = IF sw > 0 THEN PointerToNormalized(px, py) ELSE ControlRelative(px, py)
  /\ UNCHANGED <<cw, ch, sw, sh>>

\* Layout and the renderer change the sizes; what was mapped before is gone.
Forget == x' = 0 /\ y' = 0 /\ norm' = NONE
Layout(w, h) == cw' = w /\ ch' = h /\ Forget /\ UNCHANGED <<sw, sh>>
FrameSize(w, h) == sw' = w /\ sh' = h /\ Forget /\ UNCHANGED <<cw, ch>>

ViewNext ==
  \/ \E px, py \in 0..MaxSize : OnVideoPointerPressed(px, py)
  \/ \E w, h \in 0..MaxSize : Layout(w, h)
  \/ \E w, h \in 1..MaxSize : FrameSize(w, h)

-----------------------------------------------------------------------------
(* Properties. *)

Dist(a, b) == IF a <= b THEN b - a ELSE a - b
Framed == sw > 0 /\ cw > 0 /\ ch > 0 /\ norm # NONE

\* Reference for the bars: the click's distance from the control's centre, in
\* either direction, against the half extent that the *other* dimension leaves
\* to a frame of the source's aspect.  Exactly such clicks are refused, the
\* frame's own border is not.
BarsRefused ==
  Framed =>
    (norm = NULL <=> \/ Dist(2 * x, cw) * sh > ch * sw
                     \/ Dist(2 * y, ch) * sw > cw * sh)

\* No distortion: source pixels from the frame's centre, u * sw against v * sh,
\* are in the same proportion as panel pixels from the control's centre, so the
\* mark the technician sees and the point the phone raycasts coincide.
Undistorted ==
  (Framed /\ norm # NULL) =>
    (2 * norm.u - norm.den) * sw * (2 * y - ch) = (2 * norm.v - norm.den) * sh * (2 * x - cw)

\* A click on the centre, or on an edge of the frame that touches the control's
\* edge, is mapped to exactly the centre or that edge.
EdgesExact ==
  (Framed /\ norm # NULL) =>
    /\ 2 * x = cw => 2 * norm.u = norm.den
    /\ 2 * y = ch => 2 * norm.v = norm.den
    /\ cw * sh <= ch * sw => (x = cw => norm.u = norm.den)
    /\ cw * sh >= ch * sw => (y = ch => norm.v = norm.den)

\* PointerToNormalized undoes the letterboxing of the video panel exactly, for
\* every control, source and click, the corners included: what the agent marks is
\* what the phone raycasts.  (The code computes in doubles; that a rounded quotient
\* may leave 0..1 on the very border is not seen here.)
LetterboxExact == BarsRefused /\ Undistorted /\ EdgesExact
=============================================================================

------------------------------- MODULE DrvTch -------------------------------
(***************************************************************************)
(* The touch driver (drv_tch.c): drv_tcs_get_point() for the application,  *)
(* drv_tcs_calibrate() for the three points from which the coefficients of *)
(* the display's coordinates are computed (nothing in the repository calls *)
(* it, and the header warns against it).  The pen is the environment: it   *)
(* may come, move and go between any two readings.                         *)
(***************************************************************************)
EXTENDS Integers, Sequences, FiniteSets

CONSTANTS
  Positions,    \* where the pen may be: pairs the converter reads
  AdcMax,       \* 4095 in the code
  CalSamples,   \* readings for a point of the calibration, 50
  PointSamples, \* readings for a point of the application, 20
  WordBits,     \* width of a coefficient, 32; the coordinates have twice as many bits
  Factory,      \* the coefficients that the code begins with
  PenStays,     \* does a touch that is detected last until its first reading
  References    \* dis_XD_hor and dis_YD_hor: the three marks on the display

(* The average of four samples or more is at most twice the greatest       *)
(* reading, and has to stay below the 0xffff that the search for the       *)
(* smallest begins with.                                                   *)
ASSUME TouchAssumption ==
  /\ AdcMax \in 0 .. 32767
  /\ Positions \subseteq (0 .. AdcMax) \X (0 .. AdcMax)
  /\ CalSamples \in Nat \ 0 .. 2 /\ PointSamples \in Nat \ 0 .. 3
  /\ 2 ^ WordBits \in Nat \ {0} /\ 2 ^ (2 * WordBits) \in Nat \ {0} /\ PenStays \in BOOLEAN
  /\ References \in Seq(Nat \X Nat) /\ Len(References) = 3

VARIABLES
  pen,      \* is it on the display, and where
  tcs,      \* the driver: its buffers, its coefficients, what it is doing
  touched   \* of each mark, the places of the touches that began while it was shown

tchVars == <<pen, tcs, touched>>

NoPoint == <<0, 0>>

TouchInit ==
  /\ pen = [down |-> FALSE, pos |-> CHOOSE pos \in Positions : TRUE]
  /\ tcs = [at |-> "rest", dif |-> NoPoint, buf |-> <<>>, ave |-> NoPoint, of |-> <<>>,
            out |-> NoPoint, points |-> <<>>, coef |-> Factory]
  /\ touched = [k \in 1 .. 3 |-> {}]

(* The mark on the display: one more than the points taken.                *)
Shown == Len(tcs.points) + 1

-----------------------------------------------------------------------------
(* The user of the calibration touches the display when a mark is shown,   *)
(* not while it is drawn, every time at the same place of the mark.        *)
(* Otherwise the pen is free.                                              *)
Calibrating == tcs.at \in {"detect", "read", "release", "draw", "exit"}

PenDown ==
  /\ ~pen.down /\ tcs.at # "draw"
  /\ \E pos \in Positions :
       /\ pen' = [down |-> TRUE, pos |-> pos]
       /\ IF Calibrating /\ Shown <= 3
            THEN touched[Shown] \subseteq {pos} /\ touched' = [touched EXCEPT ![Shown] = {pos}]
            ELSE UNCHANGED touched
  /\ UNCHANGED tcs

PenUp ==
  /\ pen.down /\ ~(PenStays /\ tcs.at = "read" /\ tcs.buf = <<>>)
  /\ pen' = [pen EXCEPT !.down = FALSE]
  /\ UNCHANGED <<tcs, touched>>

PenMoves ==
  /\ pen.down /\ ~Calibrating
  /\ \E pos \in Positions \ {pen.pos} : pen' = [pen EXCEPT !.pos = pos]
  /\ UNCHANGED <<tcs, touched>>

-----------------------------------------------------------------------------
(* The controller pulls the line PENIRQ low while the screen is touched.   *)
drv_tcs_get_status_touch == pen.down

(* TCS_SPI_Read_Hor(): the display lies on its side.  Without a touch the  *)
(* last reading stays.                                                     *)
Converted(pos) == <<AdcMax - pos[2], pos[1]>>

TCS_SPI_Read_Hor == IF drv_tcs_get_status_touch THEN Converted(pen.pos) ELSE tcs.dif

(* Mutant: the search for the smallest sample begins at 0.                 *)
ExtremesFromZero(v) ==
  LET f[i \in 0 .. Len(v)] ==
        IF i = 0 THEN [min |-> 0, max |-> 0, sum |-> 0]
        ELSE [min |-> 0, max |-> IF v[i] > f[i - 1].max THEN v[i] ELSE f[i - 1].max,
              sum |-> f[i - 1].sum + v[i]]
  IN  f[Len(v)]

(* One coordinate of TCS_Average_X_Y(): a sample is compared with the      *)
(* largest so far only if it is not the smallest.                          *)
Extremes(v) ==
  LET f[i \in 0 .. Len(v)] ==
        IF i = 0 THEN [min |-> 65535, max |-> 0, sum |-> 0]
        ELSE LET e == f[i - 1]
             IN  [min |-> IF v[i] < e.min THEN v[i] ELSE e.min,
                  max |-> IF v[i] >= e.min /\ v[i] > e.max THEN v[i] ELSE e.max,
                  sum |-> e.sum + v[i]]
  IN  f[Len(v)]

Coordinate(samples, c) == [i \in 1 .. Len(samples) |-> samples[i][c]]

TCS_Average_X_Y(samples) ==
  [c \in 1 .. 2 |->
     LET e == Extremes(Coordinate(samples, c))
     IN  (e.sum - e.min - e.max) \div (Len(samples) - 2)]

-----------------------------------------------------------------------------
(* drv_tcs_get_point().  An execution is about it or about a calibration.  *)

drv_tcs_get_point ==
  /\ tcs.at = "rest" /\ tcs.points = <<>>
  /\ tcs' = [tcs EXCEPT !.at = "point", !.buf = <<>>, !.of = <<>>]
  /\ UNCHANGED <<pen, touched>>

(* The touch is seen here, and looked at again by the reading.             *)
PointTouched ==
  /\ tcs.at = "point" /\ drv_tcs_get_status_touch /\ Len(tcs.buf) < PointSamples
  /\ tcs' = [tcs EXCEPT !.at = "pointRead"]
  /\ UNCHANGED <<pen, touched>>

PointRead ==
  /\ tcs.at = "pointRead"
  /\ tcs' = [tcs EXCEPT !.at = "point", !.dif = TCS_SPI_Read_Hor,
                        !.buf = Append(@, TCS_SPI_Read_Hor)]
  /\ UNCHANGED <<pen, touched>>

(* The coordinates on the display, in 64-bit words from 32-bit ones.       *)
Quotient(coef, p) ==
  [c \in 1 .. 2 |->
     ((coef[c].a * p[1] + coef[c].b * p[2] + coef[c].c) % 2 ^ (2 * WordBits)) \div coef[c].divider]

(* A point is computed from all its samples or not at all.                 *)
PointEnds ==
  /\ tcs.at = "point" /\ (~drv_tcs_get_status_touch \/ Len(tcs.buf) = PointSamples)
  /\ LET ave == TCS_Average_X_Y(tcs.buf)
     IN  tcs' = IF Len(tcs.buf) = PointSamples
                  THEN [tcs EXCEPT !.at = "rest", !.ave = ave, !.dif = ave, !.of = tcs.buf,
                                  !.out = Quotient(tcs.coef, ave)]
                  ELSE [tcs EXCEPT !.at = "rest"]
  /\ UNCHANGED <<pen, touched>>

-----------------------------------------------------------------------------
(* drv_tcs_calibrate() *)

drv_tcs_calibrate ==
  /\ tcs.at = "rest" /\ tcs.points = <<>> /\ tcs.dif = NoPoint /\ ~drv_tcs_get_status_touch
  /\ tcs' = [tcs EXCEPT !.at = "detect"]
  /\ UNCHANGED <<pen, touched>>

Detects ==
  /\ tcs.at = "detect" /\ drv_tcs_get_status_touch
  /\ tcs' = [tcs EXCEPT !.at = "read", !.buf = <<>>]
  /\ UNCHANGED <<pen, touched>>

Reads ==
  /\ tcs.at = "read" /\ Len(tcs.buf) < CalSamples
  /\ tcs' = [tcs EXCEPT !.dif = TCS_SPI_Read_Hor, !.buf = Append(@, TCS_SPI_Read_Hor)]
  /\ UNCHANGED <<pen, touched>>

(* The point is stored, and the pen has to go before the next is shown.    *)
Averages ==
  /\ tcs.at = "read" /\ Len(tcs.buf) = CalSamples
  /\ LET ave == TCS_Average_X_Y(tcs.buf)
     IN  tcs' = [tcs EXCEPT !.at = "release", !.ave = ave, !.of = tcs.buf,
                            !.points = Append(@, ave)]
  /\ UNCHANGED <<pen, touched>>

(* Mutant: the next mark is shown under the pen. *)
ReleasedAtOnce ==
  /\ tcs.at = "release"
  /\ tcs' = [tcs EXCEPT !.at = "draw"]
  /\ UNCHANGED <<pen, touched>>

Released ==
  /\ tcs.at = "release" /\ ~drv_tcs_get_status_touch
  /\ tcs' = [tcs EXCEPT !.at = "draw"]
  /\ UNCHANGED <<pen, touched>>

Drawn ==
  /\ tcs.at = "draw"
  /\ tcs' = [tcs EXCEPT !.at = IF Shown <= 3 THEN "detect" ELSE "exit"]
  /\ UNCHANGED <<pen, touched>>

(* TCS_Set_Matrix_Hor(), in unsigned words; ref is one coordinate of the   *)
(* marks, and the result the divider and the three coefficients of it.     *)
Matrix(p, ref) ==
  LET X(k) == p[k][1]
      Y(k) == p[k][2]
      d == (X(1) - X(3)) * (Y(2) - Y(3)) - (X(2) - X(3)) * (Y(1) - Y(3))
      a == (ref[1] - ref[3]) * (Y(2) - Y(3)) - (ref[2] - ref[3]) * (Y(1) - Y(3))
      b == (X(1) - X(3)) * (ref[2] - ref[3]) - (ref[1] - ref[3]) * (X(2) - X(3))
      c == (X(3) * ref[2] - X(2) * ref[3]) * Y(1) + (X(1) * ref[3] - X(3) * ref[1]) * Y(2)
             + (X(2) * ref[1] - X(1) * ref[2]) * Y(3)
      Word(n) == n % 2 ^ WordBits
  IN  [divider |-> Word(d), a |-> Word(a), b |-> Word(b), c |-> Word(c)]

Exits ==
  /\ tcs.at = "exit" /\ drv_tcs_get_status_touch
  /\ tcs' = [tcs EXCEPT !.at = "rest",
               !.coef = [c \in 1 .. 2 |-> Matrix(tcs.points, Coordinate(References, c))]]
  /\ UNCHANGED <<pen, touched>>

TouchNext ==
  \/ PenDown \/ PenUp \/ PenMoves
  \/ drv_tcs_get_point \/ PointTouched \/ PointRead \/ PointEnds
  \/ drv_tcs_calibrate \/ Detects \/ Reads \/ Averages \/ Released \/ Drawn \/ Exits

-----------------------------------------------------------------------------
(* What the comments of TCS_Average_X_Y() and drv_tcs_get_point() say: an  *)
(* average is that of its samples without the smallest and the largest of  *)
(* each coordinate.                                                        *)
TrimmedIn(c) ==
  LET v      == Coordinate(tcs.of, c)
      n      == Len(v)
      least  == CHOOSE i \in 1 .. n : \A j \in 1 .. n : v[i] <= v[j]
      most   == CHOOSE i \in 1 .. n : \A j \in 1 .. n : v[i] >= v[j]
      Rest[i \in 0 .. n] == IF i = 0 THEN 0 ELSE Rest[i - 1] + v[i]
  IN  tcs.ave[c] = (Rest[n] - v[least] - v[most]) \div (n - 2)

AverageTrimmed == tcs.of # <<>> => \A c \in 1 .. 2 : TrimmedIn(c)

(* It is so unless the first sample alone is the largest, which the code   *)
(* does not look for there.                                                *)
TrimmedAfterFirst ==
  \A c \in 1 .. 2 :
    LET v == Coordinate(tcs.of, c)
    IN  (\E i \in 2 .. Len(v) : \A j \in 1 .. Len(v) : v[i] >= v[j]) => TrimmedIn(c)

(* The points of a calibration are of touches of their own marks: none of  *)
(* the touch before, and none of readings that were not taken.             *)
PointsOfMarks ==
  \A k \in 1 .. Len(tcs.points) : tcs.points[k] \in {Converted(pos) : pos \in touched[k]}

(* A touch is taken for what it was: for the average of its own samples,   *)
(* and by a calibration for a touch of the mark that was shown.            *)
TouchRight == TrimmedAfterFirst /\ PointsOfMarks

(* After a calibration the place of a mark has the mark's coordinates: the *)
(* coefficients are calculated "for use find Position Address real on      *)
(* Display".                                                               *)
MarksFound ==
  tcs.at = "rest" /\ tcs.points # <<>> =>
    \A k \in 1 .. 3 : \A c \in 1 .. 2 :
      tcs.coef[c].divider # 0 => Quotient(tcs.coef, tcs.points[k])[c] = References[k][c]
=============================================================================

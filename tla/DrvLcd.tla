------------------------------- MODULE DrvLcd -------------------------------
(***************************************************************************)
(* The display driver (drv_lcd.c) and, from how the driver uses it, the    *)
(* display's controller.  A call sends the controller commands, which      *)
(* select a register, and data for it; a picture comes about by the        *)
(* address the controller moves by itself.  A call is an operator from     *)
(* controller to controller, and has beside it a second operator that      *)
(* says, without addresses and loops, what the call is meant to paint.     *)
(* Tasks draw without a lock: a call may be left between any two of its    *)
(* writes, and others may draw before it goes on.                          *)
(***************************************************************************)
EXTENDS Integers, Sequences, FiniteSets, TLC

CONSTANTS
  Width, Height,   \* 320 and 240 in the code
  ascii_7x11,      \* the font: of a character, the columns and rows that are lit
  Drawers,         \* the tasks that draw
  Drawings,        \* the calls they make: name, arguments and colour
  Cuts,            \* bound: after how many writes a call may be left
  OneDrawer,       \* whether a task draws only when no other call is under way
  MaxCalls         \* bound: the drawing calls of an execution

(* Colours; no_bg as a background is one that is not drawn.                *)
BLACK  == 0
WHITE  == 65535
YELLOW == 65520
no_bg  == 1

Pixel == (0 .. Width - 1) \X (0 .. Height - 1)

VARIABLES
  lcd,      \* the controller: register, address, way it moves, memory, light
  wanted,   \* what the calls made so far were meant to paint
  doing,    \* of each task, the call it is in and how much of it has been sent
  calls     \* how many calls there have been

lcdVars == <<lcd, wanted, doing, calls>>

-----------------------------------------------------------------------------
(* Registers of the controller. *)
EntryMode   == 3
HorAddress  == 32
VerAddress  == 33
GramData    == 34

(* Entry modes: with "ver" (0x1228) the vertical address, which is the x   *)
(* of the calls, goes up after each point, and when it starts over the     *)
(* horizontal one goes down; with "hor" (0x1220) the horizontal address    *)
(* goes down, and when it starts over the vertical one goes up.            *)
Reached(c, k) ==
  IF c.update = "ver"
    THEN <<(c.ver + k) % Width, (c.hor - (c.ver + k) \div Width) % Height>>
    ELSE <<(c.ver + (k + Height - 1 - c.hor) \div Height) % Width, (c.hor - k) % Height>>

(* n points of a colour; those outside of the memory are stored nowhere.   *)
Stored(c, n, colour) ==
  LET points == {Reached(c, k) : k \in 0 .. n - 1}
      next   == Reached(c, n)
  IN  IF <<c.ver, c.hor>> \in Pixel
        THEN [c EXCEPT !.frame = [p \in points |-> colour] @@ @, !.ver = next[1], !.hor = next[2]]
        ELSE c

(* Of the writes of a call the first c.skip have been sent before, and     *)
(* c.left are sent now.  With a write the controller becomes d.            *)
Unbroken == 100000

Sent(c, d) ==
  IF c.skip > 0 THEN [c EXCEPT !.skip = @ - 1]
  ELSE IF c.left > 0 THEN [d EXCEPT !.left = @ - 1] ELSE c

GLCD_Write_Command(c, register) == Sent(c, [c EXCEPT !.index = register])

(* n data of one value count as one write. *)
Latched(c, n, data) ==
  CASE c.index = HorAddress -> [c EXCEPT !.hor = data]
    [] c.index = VerAddress -> [c EXCEPT !.ver = data]
    [] c.index = EntryMode  -> [c EXCEPT !.update = data]
    [] c.index = GramData   -> Stored(c, n, data)

GLCD_Write_Data(c, data) == Sent(c, Latched(c, 1, data))

SetReg(c, register, data) == GLCD_Write_Data(GLCD_Write_Command(c, register), data)

(* The loop  for(k = 1..n) c = Body(c, k).  The set of one value is for    *)
(* TLC, which so evaluates one round before the next.                      *)
Loop(c, n, Body(_, _)) ==
  LET f[k \in 0 .. n] ==
        IF k = 0 THEN c ELSE CHOOSE d \in {Body(e, k) : e \in {f[k - 1]}} : TRUE
  IN  f[n]

Points(c, n, colour) ==
  LET d == GLCD_Write_Command(c, GramData) IN Sent(d, Latched(d, n, colour))

-----------------------------------------------------------------------------
(* The calls. *)

bg_color(c, colour) ==
  Points(SetReg(SetReg(c, HorAddress, 0), VerAddress, 0), Width * Height, colour)

(* The settings of the display's supply and gamma curve have no effect on  *)
(* the memory and are left out.                                            *)
lcd_open(c) ==
  [SetReg(SetReg(Points(SetReg(c, EntryMode, "ver"), Width * Height, WHITE),
               HorAddress, 0), VerAddress, 0) EXCEPT !.light = TRUE]

plot_dot(c, x, y, colour) ==
  Points(SetReg(SetReg(c, HorAddress, y), VerAddress, x), 1, colour)

(* A character of 7 columns of 11 points, and an eighth that is never lit. *)
text_7x11(c, ch, x, y, fg, bg) ==
  LET Column(d, k) ==
        LET Dot(e, j) ==
              IF <<k - 1, j - 1>> \in ascii_7x11[ch] THEN plot_dot(e, x + k - 1, y + j - 1, fg)
              ELSE IF bg = no_bg THEN e ELSE plot_dot(e, x + k - 1, y + j - 1, bg)
        IN  Loop(d, 11, Dot)
  IN  Loop(c, 8, Column)

printStr(c, str, x, y, fg, bg) ==
  LET Char(d, i) == text_7x11(d, str[i], x + 8 * (i - 1), y, fg, bg)
  IN  Loop(c, Len(str), Char)

Abs(n) == IF n < 0 THEN -n ELSE n

(* Bresenham's line, of brush marks of thick points; q is the state of the *)
(* loop, from which a flat line goes on in x and a steep one in y.         *)
line(c, x1, y1, x2, y2, thick, colour) ==
  LET left  == IF x1 > x2 THEN <<x2, y2>> ELSE <<x1, y1>>
      right == IF x1 > x2 THEN <<x1, y1>> ELSE <<x2, y2>>
      dx    == Abs(right[1] - left[1])
      dy    == Abs(right[2] - left[2])
      inc   == IF right[2] >= left[2] THEN 1 ELSE -1
      flat  == dx > dy
      Brush(q) ==
        LET Dot(d, k) == IF x1 = x2 THEN plot_dot(d, q.x + k - 1, q.y, colour)
                                    ELSE plot_dot(d, q.x, q.y + k - 1, colour)
        IN  Loop(q.c, thick, Dot)
      Mark(q, k) ==
        LET turn == q.p >= 0
            rise == IF turn THEN 1 ELSE 0
            both == 2 * (IF flat THEN dy - dx ELSE dx - dy)
            one  == 2 * (IF flat THEN dy ELSE dx)
        IN  [c |-> Brush(q), p |-> q.p + (IF turn THEN both ELSE one),
             x |-> q.x + (IF flat THEN 1 ELSE rise),
             y |-> q.y + inc * (IF flat THEN rise ELSE 1)]
      start == [c |-> c, x |-> left[1], y |-> left[2],
                p |-> IF flat THEN 2 * dy - dx ELSE 2 * dx - dy]
  IN  Loop(start, IF flat THEN dx + 1 ELSE dy, Mark).c

Smaller(a, b) == IF a < b THEN a ELSE b

rectan_fill(c, x1, y1, x2, y2, colour) ==
  LET Column(d, i) ==
        LET Dot(e, j) == plot_dot(e, Smaller(x1, x2) + i - 1, Smaller(y1, y2) + j - 1, colour)
        IN  Loop(d, Abs(y1 - y2) + 1, Dot)
  IN  Loop(c, Abs(x1 - x2) + 1, Column)

rectan(c, x1, y1, x2, y2, tick, colour) ==
  LET tk     == tick - 1
      top    == line(c, x1, y1 - tk, x2, y1 - tk, tick, colour)
      bottom == line(top, x1, y2, x2, y2, tick, colour)
      sides  == line(bottom, x1, y1, x1, y2, tick, colour)
  IN  line(sides, x2 - tk, y1, x2 - tk, y2, tick, colour)

plot_picture(c, bmp, x, y, width, high) ==
  LET Row(d, h) ==
        LET Dot(e, w) == Points(SetReg(e, VerAddress, x + w - 1), 1, bmp[(h - 1) * width + w])
        IN  Loop(SetReg(d, HorAddress, y - h + 1), width, Dot)
  IN  Loop(c, high, Row)

(* Mutant: the mark leaves the addresses going down.                       *)
MarkTilted(c, x1, y1, x2, y2, colour) ==
  LET across == Points(SetReg(SetReg(c, HorAddress, y1), VerAddress, x1), 15, colour)
      down   == SetReg(SetReg(SetReg(across, EntryMode, "hor"), HorAddress, y2), VerAddress, x2)
  IN  Points(down, 15, colour)

plot_mark(c, x1, y1, x2, y2, colour) ==
  LET across == Points(SetReg(SetReg(c, HorAddress, y1), VerAddress, x1), 15, colour)
      down   == SetReg(SetReg(SetReg(across, EntryMode, "hor"), HorAddress, y2), VerAddress, x2)
  IN  SetReg(Points(down, 15, colour), EntryMode, "ver")

-----------------------------------------------------------------------------
(* What the calls are meant to paint. *)

Painted(f, points, colour) == [p \in Pixel |-> IF p \in points THEN colour ELSE f[p]]

Box(x1, y1, x2, y2) == {p \in Pixel : p[1] \in x1 .. x2 /\ p[2] \in y1 .. y2}

(* The points nearest to the line from the start to the end coordinate.    *)
LinePoints(x1, y1, x2, y2) ==
  LET dx == Abs(x2 - x1)
      dy == Abs(y2 - y1)
      sx == IF x2 >= x1 THEN 1 ELSE -1
      sy == IF y2 >= y1 THEN 1 ELSE -1
      Nearest(k, d, n) == IF n = 0 THEN 0 ELSE (2 * d * k + n) \div (2 * n)
  IN  IF dx > dy THEN {<<x1 + sx * k, y1 + sy * Nearest(k, dy, dx)>> : k \in 0 .. dx}
                 ELSE {<<x1 + sx * Nearest(k, dx, dy), y1 + sy * k>> : k \in 0 .. dy}

(* A line is thick towards the right when it is upright, else upwards.     *)
Thick(points, tick, upright) ==
  {<<p[1] + (IF upright THEN k ELSE 0), p[2] + (IF upright THEN 0 ELSE k)>> :
     p \in points, k \in 0 .. tick - 1}

(* All points of a box that are within tick of its border. *)
FramePoints(x1, y1, x2, y2, tick) ==
  Box(x1, y2, x2, y1) \ Box(x1 + tick, y2 + tick, x2 - tick, y1 - tick)

(* Character i of a text fills the eight columns from 8(i - 1) on.         *)
TextPainted(f, str, x, y, fg, bg) ==
  [p \in Pixel |->
     LET i == (p[1] - x) \div 8 + 1
         k == (p[1] - x) % 8
         j == p[2] - y
     IN  IF i \notin 1 .. Len(str) \/ j \notin 0 .. 10 THEN f[p]
         ELSE IF <<k, j>> \in ascii_7x11[str[i]] THEN fg
         ELSE IF bg = no_bg THEN f[p] ELSE bg]

(* A picture hangs at its top left corner. *)
PicturePainted(f, bmp, x, y, width, high) ==
  [p \in Pixel |-> IF p \in Box(x, y - high + 1, x + width - 1, y)
                     THEN bmp[(y - p[2]) * width + p[1] - x + 1] ELSE f[p]]

(* A cross around a point. *)
CrossPoints(x, y) == Box(x - 7, y, x + 7, y) \cup Box(x, y - 7, x, y + 7)

-----------------------------------------------------------------------------
(* The calls by name; a holds the arguments. *)

Sends(c, d) ==
  LET a == d.a IN
  CASE d.call = "bg_color" -> bg_color(c, d.colour)
    [] d.call = "dot"      -> plot_dot(c, a[1], a[2], d.colour)
    [] d.call = "text"     -> printStr(c, a[1], a[2], a[3], d.colour, a[4])
    [] d.call = "line"     -> line(c, a[1], a[2], a[3], a[4], a[5], d.colour)
    [] d.call = "fill"     -> rectan_fill(c, a[1], a[2], a[3], a[4], d.colour)
    [] d.call = "frame"    -> rectan(c, a[1], a[2], a[3], a[4], a[5], d.colour)
    [] d.call = "picture"  -> plot_picture(c, a[1], a[2], a[3], a[4], a[5])
    [] d.call = "mark"     -> plot_mark(c, a[1] - 7, a[2], a[1], a[2] + 7, d.colour)

(* The two lines of a mark are to cross at <<a[1], a[2]>>.                 *)
Paints(f, d) ==
  LET a == d.a IN
  CASE d.call = "bg_color" -> Painted(f, Pixel, d.colour)
    [] d.call = "dot"      -> Painted(f, {a}, d.colour)
    [] d.call = "text"     -> TextPainted(f, a[1], a[2], a[3], d.colour, a[4])
    [] d.call = "line"     ->
         Painted(f, Thick(LinePoints(a[1], a[2], a[3], a[4]), a[5], a[1] = a[3]), d.colour)
    [] d.call = "fill"     -> Painted(f, Box(a[1], a[4], a[3], a[2]), d.colour)
    [] d.call = "frame"    -> Painted(f, FramePoints(a[1], a[2], a[3], a[4], a[5]), d.colour)
    [] d.call = "picture"  -> PicturePainted(f, a[1], a[2], a[3], a[4], a[5])
    [] d.call = "mark"     -> Painted(f, CrossPoints(a[1], a[2]), d.colour)

NoCall == [call |-> "none"]

LcdInit ==
  /\ lcd = [index |-> GramData, hor |-> 0, ver |-> 0, update |-> "ver",
            frame |-> <<>>, light |-> FALSE, skip |-> 0, left |-> Unbroken]
  /\ wanted = lcd.frame
  /\ doing = [t \in Drawers |-> [d |-> NoCall, sent |-> 0]]
  /\ calls = 0

(* Task t makes the call d, which is to leave picture f, and leaves it     *)
(* after some writes ...                                                   *)
Draws(t, d, f) ==
  /\ lcd.light /\ doing[t].d = NoCall
  /\ OneDrawer => \A u \in Drawers : doing[u].d = NoCall
  /\ \E n \in Cuts :
       /\ lcd' = [Sends([lcd EXCEPT !.left = n], d) EXCEPT !.left = Unbroken]
       /\ doing' = [doing EXCEPT ![t] = [d |-> d, sent |-> n]]
  /\ wanted' = f

(* ... and sends the others.                                               *)
GoesOn(t) ==
  /\ doing[t].d # NoCall
  /\ lcd' = Sends([lcd EXCEPT !.skip = doing[t].sent], doing[t].d)
  /\ doing' = [doing EXCEPT ![t] = [d |-> NoCall, sent |-> 0]]
  /\ UNCHANGED <<wanted, calls>>

LcdNext ==
  \/ \E t \in Drawers, i \in DOMAIN Drawings :
       /\ calls < MaxCalls
       /\ Draws(t, Drawings[i], Paints(wanted, Drawings[i]))
       /\ calls' = calls + 1
  \/ \E t \in Drawers : GoesOn(t)

-----------------------------------------------------------------------------
(* Whenever no call is under way, the lit display shows what the calls so  *)
(* far were meant to paint, and nothing else: no call leaves the           *)
(* controller in a state in which the next one paints elsewhere.           *)
ScreenShows == lcd.light /\ (\A t \in Drawers : doing[t].d = NoCall) => lcd.frame = wanted
=============================================================================

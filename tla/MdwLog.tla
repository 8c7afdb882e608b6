------------------------------- MODULE MdwLog -------------------------------
(***************************************************************************)
(* The log console (mdw_log_debug.c): a logo and two titles above a black  *)
(* panel, in which messages fill the lines from the top down and then      *)
(* start over.  The panel is below LogTop, which is 150 in the code; it    *)
(* has LogLines = 8 lines of LineHeight = 15 points.  main_task logs, and  *)
(* log_touch_task, as urgent as it, answers touches.                       *)
(***************************************************************************)
EXTENDS DrvLcd

CONSTANTS
  LogTop, LogLines, LineHeight,
  Layout,      \* logo, titles and answer: what is painted, and where
  Messages,    \* the texts that are logged
  MaxLogged    \* bound: the messages and drawing calls of an execution

VARIABLES
  currentLine,
  text_nt,     \* the message whose line has been cleared; <<>> if none
  logged       \* how many messages there have been

logVars == <<currentLine, text_nt, logged>>

LogInit == LcdInit /\ currentLine = 0 /\ text_nt = <<>> /\ logged = 0

(* The calls of mdw_log_open(), one after the other; the display is dark   *)
(* until the last of them, and nobody touches the panel before.            *)
Opened(c) ==
  LET logo   == plot_picture(bg_color(lcd_open(c), WHITE), Layout.logo[1],
                  Layout.logo[2], Layout.logo[3], Layout.logo[4], Layout.logo[5])
      Title(d, i) == printStr(d, Layout.titles[i][1], Layout.titles[i][2],
                              Layout.titles[i][3], BLACK, WHITE)
  IN  rectan_fill(Loop(logo, Len(Layout.titles), Title), 0, LogTop, Width, 0, BLACK)

OpenPainted(f) ==
  LET logo == PicturePainted(Painted(f, Pixel, WHITE), Layout.logo[1], Layout.logo[2],
                Layout.logo[3], Layout.logo[4], Layout.logo[5])
      Title(g, i) == TextPainted(g, Layout.titles[i][1], Layout.titles[i][2],
                                 Layout.titles[i][3], BLACK, WHITE)
  IN  Painted(Loop(logo, Len(Layout.titles), Title), Box(0, 0, Width - 1, LogTop), BLACK)

mdw_log_open ==
  /\ ~lcd.light
  /\ lcd' = Opened(lcd)
  /\ wanted' = OpenPainted(wanted)
  /\ currentLine' = 0
  /\ UNCHANGED <<calls, doing, text_nt, logged>>

NextLine(n) == IF n = LogLines THEN 1 ELSE n + 1

(* A message is two calls: one that clears its line ...                    *)
mdw_log_debug(text) ==
  LET bottom == LogTop - NextLine(currentLine) * LineHeight
      slot   == (logged % LogLines) + 1
      place  == LogTop - slot * LineHeight
  IN  /\ text_nt = <<>> /\ logged + calls < MaxLogged
      /\ Draws("main_task",
               [call |-> "fill", a |-> <<0, bottom, Width, bottom + LineHeight - 1>>,
                colour |-> BLACK],
               Painted(wanted, Box(0, place, Width, place + LineHeight - 1), BLACK))
      /\ currentLine' = NextLine(currentLine)
      /\ text_nt' = text
      /\ logged' = logged + 1
      /\ UNCHANGED calls

(* ... and one that prints it.                                             *)
MessagePrints ==
  /\ text_nt # <<>>
  /\ Draws("main_task",
           [call |-> "text", a |-> <<text_nt, 5, LogTop - currentLine * LineHeight, BLACK>>,
            colour |-> YELLOW],
           TextPainted(wanted, text_nt, 5,
                       LogTop - (((logged - 1) % LogLines) + 1) * LineHeight, YELLOW, BLACK))
  /\ text_nt' = <<>>
  /\ UNCHANGED <<currentLine, logged, calls>>

(* log_touch_task() answers a touch of button n.                           *)
ButtonTouched(n) ==
  LET d == [call |-> "text", a |-> <<Layout.answers[n], Layout.at[1], Layout.at[2], WHITE>>,
            colour |-> BLACK]
  IN  /\ calls < MaxCalls
      /\ Draws("log_touch_task", d, Paints(wanted, d))
      /\ calls' = calls + 1
      /\ UNCHANGED logVars

LogNext ==
  \/ mdw_log_open
  \/ \E text \in Messages : mdw_log_debug(text)
  \/ MessagePrints
  \/ \E n \in DOMAIN Layout.answers : ButtonTouched(n)
  \/ LcdNext /\ UNCHANGED logVars
=============================================================================

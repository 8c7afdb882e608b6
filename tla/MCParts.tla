------------------------------ MODULE MCParts ------------------------------
(***************************************************************************)
(* Model values of CoParts for TLC.                                        *)
(***************************************************************************)
EXTENDS CoParts, TLC

(* Two areas of memory, of two blocks each.                           *)
TwoAreas == {[first |-> 1, num |-> 2], [first |-> 3, num |-> 2]}

(* Two tasks as urgent as each other, and the less urgent one that creates *)
(* and deletes the partitions.                                             *)
CreatorLast == 1 :> 1 @@ 2 :> 0 @@ 3 :> 0

(* They are all as urgent.                                                 *)
AllEqual == [u \in Users |-> 0]

(* A display of 24 by 40 points, a font of two letters, a logo of 2 by 3   *)
(* points, and calls whose figures meet the edges of the display.          *)
Font == [ch \in {"L", "i"} |->
  IF ch = "L" THEN ({0, 1} \X (0 .. 10)) \cup ({2, 3, 4, 5, 6} \X {0})
              ELSE ({0, 1, 4} \X {0, 7}) \cup ({2, 3} \X ((0 .. 7) \cup {9, 10}))]

Logo == <<WHITE, BLACK, BLACK, WHITE, BLACK, BLACK>>

ScreenLayout ==
  [logo |-> <<Logo, 0, 39, 2, 3>>, titles |-> <<<<<<"L">>, 8, 28>>>>,
   answers |-> <<<<"i">>, <<"L", "i">>>>, at |-> <<4, 27>>]

Texts == {<<"L">>, <<"i", "L">>}

Drawing(call, colour, a) == [call |-> call, a |-> a, colour |-> colour]

(* Lines that are steep, and calls without them. *)
Steep == <<Drawing("line", YELLOW, <<20, 3, 4, 39, 2>>), Drawing("line", YELLOW, <<9, 30, 9, 5, 3>>)>>

Flat ==
  <<Drawing("bg_color", YELLOW, <<>>), Drawing("dot", YELLOW, <<23, 0>>),
    Drawing("text", YELLOW, <<<<"i", "L">>, 3, 29, no_bg>>),
    Drawing("text", BLACK, <<<<"L", "i">>, 7, 20, WHITE>>),
    Drawing("line", YELLOW, <<0, 0, 23, 9, 1>>), Drawing("line", YELLOW, <<20, 30, 3, 25, 2>>),
    Drawing("fill", YELLOW, <<3, 38, 20, 25>>), Drawing("frame", YELLOW, <<3, 38, 20, 25, 2>>),
    Drawing("picture", YELLOW, <<Logo, 21, 20, 3, 2>>), Drawing("mark", YELLOW, <<12, 20>>)>>

Nothing == <<>>

(* Where the pen may be, and the marks of a calibration.                   *)
Where == {<<1, 6>>, <<5, 2>>, <<7, 4>>}

Marks == <<<<2, 5>>, <<9, 3>>, <<4, 1>>>>

(* Coefficients with the signs of the code's: of the first coordinate a    *)
(* and the divider are negative, of the second a, b and the divider.       *)
BootCoefficients == <<[divider |-> 4084, a |-> 4093, b |-> 2, c |-> 9],
                      [divider |-> 4084, a |-> 4094, b |-> 4092, c |-> 11]>>
=============================================================================

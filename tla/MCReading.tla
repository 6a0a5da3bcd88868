------------------------------ MODULE MCReading ------------------------------
(* An instance of PlateReading for TLC.                                    *)
EXTENDS PlateReading

Hear(l, c) == [letter |-> l, conf |-> c]

(* Nothing at all; one letter for sure; one that may as well be none; one   *)
(* letter and another with the same or another confidence; a letter that   *)
(* is worth nothing, which makes percentages that are not numbers.         *)
MCHeard == {<<>>, <<Hear("B", 90)>>, <<Hear("1", 73)>>,
            <<Hear("A", 85), Hear("B", 85)>>, <<Hear("B", 82), Hear("A", 81)>>,
            <<Hear("1", 65), Hear("B", 64)>>}

(* One line and two lines, one of which may hold more boxes than a plate   *)
(* may have characters.                                                    *)
MCShapes == {<<1>>, <<3>>, <<2, 1>>, <<3, 1>>, <<0, 2>>}

MCAllShapes == MCShapes \cup {<<2>>}

(* One country has patterns for one region, the other has none.            *)
MCPatterns == "xx" :> {<<{"A", "B"}, {"1"}>>, <<{"B", "1"}>>}
MCUnknown == {"yy", "zz"}
==============================================================================

----------------------------- MODULE LentRegion -----------------------------
(***************************************************************************)
(* What zero-copy sending promises about the memory it sends from: pieces  *)
(* of a region are lent to the network one by one and come back in any     *)
(* order; the region is disposed of once, after the last piece has been    *)
(* lent and all have come back, and it is disposed of eventually.          *)
(***************************************************************************)
EXTENDS Naturals

VARIABLES
  lending,   \* "open" while more pieces may be lent, then "over"
  lent,      \* number of pieces out
  region     \* "live" or "gone"

vars == <<lending, lent, region>>

Init == lending = "open" /\ lent = 0 /\ region = "live"

Lend ==
  /\ lending = "open"
  /\ lent' = lent + 1
  /\ lending' \in {"open", "over"}
  /\ UNCHANGED region

EndLending ==
  /\ lending = "open"
  /\ lending' = "over"
  /\ UNCHANGED <<lent, region>>

Return ==
  /\ lent > 0
  /\ lent' = lent - 1
  /\ UNCHANGED <<lending, region>>

Dispose ==
  /\ lending = "over"
  /\ lent = 0
  /\ region = "live"
  /\ region' = "gone"
  /\ UNCHANGED <<lending, lent>>

Next == Lend \/ EndLending \/ Return \/ Dispose

Spec == Init /\ [][Next]_vars

FairSpec ==
  Spec /\ WF_vars(EndLending) /\ WF_vars(Return) /\ WF_vars(Dispose)
=============================================================================

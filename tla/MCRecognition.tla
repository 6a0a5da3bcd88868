---------------------------- MODULE MCRecognition ----------------------------
(* An instance of Recognition for TLC.                                     *)
EXTENDS Recognition, MCReading

MCCountryOf == ("xx" :> "us") @@ ("yy" :> "us") @@ ("zz" :> "eu")

(* No default was set; or one that the country does not know.              *)
MCDefaultRegion == ("us" :> "none") @@ ("eu" :> "zz")

(* A and B overlap, and B and C, but not A and C.                          *)
MCNear == {<<"A", "B">>, <<"B", "A">>, <<"B", "C">>, <<"C", "B">>}

OneBox == {<<1>>}

MCTasks == {
  \* one plate with up to four boxes in one or two lines
  [countries |-> <<"us">>, analyses |-> 1, places |-> <<"A">>, finds |-> {{1}},
   inside |-> {}, shapes |-> <<MCShapes>>, states |-> {}],
  \* two analyses that see two plates or one between them
  [countries |-> <<"us">>, analyses |-> 2, places |-> <<"A", "B", "C">>,
   finds |-> {{1, 3}, {2}}, inside |-> {},
   shapes |-> <<OneBox, OneBox, OneBox>>, states |-> {}],
  \* two countries, a region in another one, states known and unknown
  [countries |-> <<"us", "eu">>, analyses |-> 1, places |-> <<"A", "B">>,
   finds |-> {{1, 2}}, inside |-> {<<"A", "B">>},
   shapes |-> <<OneBox, OneBox>>,
   states |-> {[state |-> "yy", conf |-> 50]}],
  \* two analyses of a plate whose state is seen
  [countries |-> <<"us">>, analyses |-> 2, places |-> <<"A">>, finds |-> {{1}},
   inside |-> {}, shapes |-> <<{<<2>>}>>,
   states |-> {[state |-> "xx", conf |-> 50]}],
  \* two plates, one of which may show a state without patterns
  [countries |-> <<"us">>, analyses |-> 1, places |-> <<"A", "C">>,
   finds |-> {{1, 2}}, inside |-> {}, shapes |-> <<OneBox, OneBox>>,
   states |-> {[state |-> "yy", conf |-> 50]}]}
===============================================================================

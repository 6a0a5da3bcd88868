------------------------------ MODULE MCDaemon ------------------------------
(* An instance of AlprDaemon for TLC.                                      *)
EXTENDS AlprDaemon

CONSTANTS c1, c2, r1, r2

(* The frames of one camera without results; results of two cameras        *)
(* without frames; frames with results that nobody uploads, and one frame  *)
(* from the camera to the web server.                                      *)
MCSetups ==
  {[frames |-> 3, uploads |-> {}, results |-> {}],
   [frames |-> 0, uploads |-> {c1, c2}, results |-> {r1, r2}],
   [frames |-> 2, uploads |-> {}, results |-> {r1, r2}],
   [frames |-> 1, uploads |-> {c1}, results |-> {r1}]}
=============================================================================

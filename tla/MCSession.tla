------------------------------ MODULE MCSession ------------------------------
(* Instances of StreamSession for TLC.                                     *)
EXTENDS StreamSession

(* start_fnum 0 and 1; at least two frames are requested, so that the      *)
(* source finds at least one.                                              *)
MCRequests == [start_fnum : {0, 1}, total_fnum : 2..5]

(* total_fnum 3 from the start, over and over.                             *)
MCThree == [start_fnum : {0}, total_fnum : {3}]
==============================================================================

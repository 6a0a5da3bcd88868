---------------------------- MODULE MCRxManager ----------------------------
(* Three chunk and three frame sequence numbers: two whole chunks of up to *)
(* two frames each, with every frame, frame eof and chunk eof arriving in  *)
(* any order, any number of times.                                         *)
EXTENDS RxManager
=============================================================================

------------------------------ MODULE MCRxEager ------------------------------
(***************************************************************************)
(* The receive manager between a well-behaved sender, whose one chunk of   *)
(* NumFrames frames and its two eofs arrive in order, and a consumer that  *)
(* retrieves whenever it likes, as the watermark comment of RetrieveAFrame *)
(* allows ("wm may point to a future eof_f, or a future frame").           *)
(***************************************************************************)
EXTENDS RxManager

CONSTANT NumFrames

VARIABLE arrived    \* descriptors that have arrived

Stream ==
  [i \in 1 .. NumFrames + 2 |->
     IF i <= NumFrames THEN [type |-> "FRAME", c_seq |-> 0, f_seq |-> i - 1]
     ELSE IF i = NumFrames + 1
            THEN [type |-> "FRAME_EOF", c_seq |-> 0, f_seq |-> NumFrames]
     ELSE [type |-> "CHUNK_EOF", c_seq |-> 1, f_seq |-> 0]]

Deposit ==
  /\ arrived < NumFrames + 2
  /\ arrived' = arrived + 1
  /\ DepositAFrame(Stream[arrived + 1]) \/ DepositADesc(Stream[arrived + 1])

EagerSpec ==
  /\ Init /\ arrived = 0
  /\ [][Deposit \/ (RetrieveAFrame /\ UNCHANGED arrived)]_<<vars, arrived>>

(* The manager survives a stream in order, whenever the consumer looks.    *)
NeverAborts == proc = "up"
==============================================================================

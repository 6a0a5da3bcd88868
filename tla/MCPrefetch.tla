------------------------------ MODULE MCPrefetch ------------------------------
(* Instances of SinkPrefetch for TLC.                                      *)
EXTENDS SinkPrefetch

MCMotion == {0, 1} \cup 8 .. 15

MCPlates == {0, 8, 15}
===============================================================================

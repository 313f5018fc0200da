-------------------------------- MODULE MCPong --------------------------------
(* Small instances of the pong61 client for TLC.                           *)
EXTENDS PongProperties, TLC

\* The addresses malloc may return, and the threads, are interchangeable.
Symmetry == Permutations(Address) \cup Permutations(Thread)
==============================================================================

-------------------------- MODULE MCClientRegistry --------------------------
(***************************************************************************)
(* Small instances of ClientRegistry for TLC.                              *)
(***************************************************************************)
EXTENDS ClientRegistry, TLC

CONSTANTS c1, n1, n2, s1, s2

\* Each column alone, either way round the flag, and both at once.
SomePatches ==
    {[name |-> n2, active |-> None], [name |-> None, active |-> FALSE],
     [name |-> None, active |-> TRUE], [name |-> n1, active |-> FALSE]}
=============================================================================

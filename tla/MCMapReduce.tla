---------------------------- MODULE MCMapReduce ----------------------------
(***************************************************************************)
(* MapReduce for model checking: two map tasks and a reduce task.          *)
(***************************************************************************)
EXTENDS MapReduce

CONSTANTS w1, w2, w3

Workers3 == {w1, w2, w3}

EmitsOne == [i \in 1 .. NMap |-> <<1>>]

=============================================================================

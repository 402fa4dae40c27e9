------------------------------- MODULE MCQuery -------------------------------
(* Two tables over two slots, one of which has had two entities, and all the *)
(* ways to write a query of up to three terms in one or two levels.          *)
EXTENDS Query, TLC

E(index, generation) == [index |-> index, generation |-> generation]

DenseVectors ==
  {<<>>, <<E(1, 1)>>, <<E(1, 3)>>, <<E(2, 1)>>, <<E(1, 3), E(2, 1)>>,
   <<E(2, 1), E(1, 1)>>, <<E(2, 1), E(1, 3)>>}
=============================================================================

------------------------------- MODULE MCMesh -------------------------------
(* Model checking of Mesh on a lattice of two by two: a flow west and then  *)
(* south, one that joins it at the corner, and one east and then north.     *)
(* Each switch on the way but one chooses between two of them.              *)
EXTENDS Mesh

Flow(c1, r1, c2, r2) == [from |-> <<c1, r1>>, to |-> <<c2, r2>>]

Merging == {Flow(1, 0, 0, 1), Flow(0, 0, 0, 1)}
MCFlows == Merging \cup {Flow(0, 1, 1, 0)}

MCMaxSent == [f \in MCFlows |-> IF f \in Merging THEN 3 ELSE 1]
=============================================================================

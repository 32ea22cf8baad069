----------------------------- MODULE MCHostSync -----------------------------
(***************************************************************************)
(* Instances of HostSync for model checking.                               *)
(***************************************************************************)
EXTENDS HostSync, TLC

CONSTANTS o1, o2, h1, h2, h3

OneOrg   == [o \in {o1} |-> h1]
TwoOrgs  == (o1 :> h1) @@ (o2 :> h2)

\* Requests are interchangeable, and so are workers.
Symmetry == Permutations(Client) \cup Permutations(Worker)
=============================================================================

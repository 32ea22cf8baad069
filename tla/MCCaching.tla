----------------------------- MODULE MCCaching ------------------------------
(***************************************************************************)
(* Instances of Caching for TLC.                                           *)
(***************************************************************************)
EXTENDS Caching, TLC

CONSTANTS k, l, v, a, b, Kinds

\* The data {"k": {"l": v}} and the like, given as their leaves.
Leaf(path, value) == [p \in {path} |-> value]

\* A hash is stored at ".", a scalar at "k.k" and at "k", "k.k" is removed.
MCUpdate == {[path |-> <<>>, datum |-> Leaf(<<k, l>>, v)],
             [path |-> <<k, k>>, datum |-> Leaf(<<>>, v)],
             [path |-> <<k>>, datum |-> Leaf(<<k>>, Blank)],
             [path |-> <<k>>, datum |-> Leaf(<<>>, v)]}

MCFirstHash == {NoHash, Leaf(<<k, k>>, v)}

MCUrl == {url \in [kind : Kinds, item : {a}, path : {<<>>, <<k>>}] :
            url.path = <<>> \/ url.kind = "data"}

Symmetry == Permutations(Writer)
=============================================================================

------------------------------ MODULE MCDrafts ------------------------------
(***************************************************************************)
(* Instances of Drafts for TLC.                                            *)
(***************************************************************************)
EXTENDS Drafts, TLC

Symmetry == Permutations(User) \cup Permutations(Client) \cup Permutations(Proposal)
              \cup Permutations(Request) \cup Permutations(Field)
=============================================================================

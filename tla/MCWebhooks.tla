----------------------------- MODULE MCWebhooks -----------------------------
(***************************************************************************)
(* Instances of Webhooks for model checking.  The first client owns every  *)
(* registration, the second one has permissions only.                      *)
(***************************************************************************)
EXTENDS Webhooks

CONSTANTS c1, c2

OwnedByFirst == [r \in Registration |-> c1]

Names == {"draft_proposal_update.succeeded", "proposal_creation.succeeded"}
OneName == {"proposal_creation.succeeded"}
=============================================================================

------------------------------ MODULE MCAccess ------------------------------
(***************************************************************************)
(* Instances of Access for TLC: one token of the client and one of a user, *)
(* one row for jobs, every program, and the edits that tell the endpoints  *)
(* apart.                                                                  *)
(***************************************************************************)
EXTENDS Access

MCToken == {"svc", "usr"}
MCPrograms == Sdk \cup DOMAIN K6!Scenario
MCPermissionEdits == {Permission \ {"blogs.write", "proposals.draft"}}
MCModuleEdits == {{"proposals"}}
=============================================================================

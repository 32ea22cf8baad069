------------------------------ MODULE LoadTests ------------------------------
(***************************************************************************)
(* The k6 scenarios of perf/k6: a setup that asks for the tokens it needs  *)
(* and throws without them, then iterations of one request (several in     *)
(* mixed.js) whose answer is checked.  VUs, durations, thresholds, think   *)
(* times and the environment variables that choose a record are left out:  *)
(* every one the scenario wants is taken to be set.                        *)
(***************************************************************************)
(* What the helpers of lib/auth.js post to /oauth/token *)

clientCredentialsToken(scopes) ==
  [grant |-> "client_credentials", client |-> TRUE, authType |-> FALSE,
   scopes |-> scopes]

\* No client_id and no auth_type go with a user name and password.
passwordToken(scopes) ==
  [grant |-> "password", client |-> FALSE, authType |-> FALSE,
   scopes |-> scopes]

(* One iteration: the request, the token it carries and the checked answer *)

Iterates(verb, path, sends, grant, expected) ==
  [verb |-> verb, path |-> path, sends |-> sends, grant |-> grant,
   expected |-> expected]

searchComponents ==
  Iterates("GET", "/components/search", {},
    clientCredentialsToken({"public"}), {"document"})

smoke ==
  Iterates("GET", "/components/search", {},
    clientCredentialsToken({"public"}), {"document"})

\* Mutant of getProposal: the scope of proposals is not asked for.
getProposalInPublic ==
  Iterates("GET", "/proposals/:id", {"id"},
    clientCredentialsToken({"public"}), {"document"})

getProposal ==
  Iterates("GET", "/proposals/:id", {"id"},
    clientCredentialsToken({"public", "proposals"}), {"document"})

getBlogPost ==
  Iterates("GET", "/blogs/:id", {"id"},
    clientCredentialsToken({"public", "blogs"}), {"document"})

listBlogPosts ==
  Iterates("GET", "/blogs", {},
    clientCredentialsToken({"public", "blogs"}), {"document"})

castProposalVote ==
  Iterates("POST", "/vote_proposals", {"body"},
    passwordToken({"proposals"}), {"job"})

draftProposal ==
  Iterates("POST", "/draft_proposals", {"body"},
    passwordToken({"proposals"}), {"job"})

publishDraftProposal ==
  Iterates("POST", "/draft_proposals/:id/publish", {"id"},
    passwordToken({"proposals"}), {"job"})

createRole ==
  Iterates("POST", "/roles", {"body"}, passwordToken({"system"}), {"job"})

setUserExtendedData ==
  Iterates("PUT", "/me/extended_data", {"body", "objectPath"},
    passwordToken({"oauth"}), {"job"})

\* mixed.js draws one of five requests for every iteration; a branch whose
\* token is missing is passed over.
mixed ==
  LET read  == clientCredentialsToken({"public", "proposals", "blogs"})
      write == passwordToken({"proposals", "system"})
  IN  {Iterates("GET", "/components/search", {}, read, {"document"}),
       Iterates("GET", "/proposals/:id", {"id"}, read, {"document"}),
       Iterates("GET", "/blogs/:id", {"id"}, read, {"document"}),
       Iterates("POST", "/vote_proposals", {"body"}, write,
         {"job", "refused"}),
       Iterates("POST", "/draft_proposals", {"body"}, write,
         {"job", "refused"})}

Scenario ==
  [searchComponents |-> {searchComponents}, smoke |-> {smoke},
   getProposal |-> {getProposal}, getBlogPost |-> {getBlogPost},
   listBlogPosts |-> {listBlogPosts}, castProposalVote |-> {castProposalVote},
   draftProposal |-> {draftProposal},
   publishDraftProposal |-> {publishDraftProposal},
   createRole |-> {createRole}, setUserExtendedData |-> {setUserExtendedData},
   mixed |-> mixed]

\* setup() throws when a token is missing, except in smoke.js and mixed.js,
\* whose iterations pass over the requests they have no token for.
ThrowsWithoutToken == DOMAIN Scenario \ {"smoke", "mixed"}
=============================================================================

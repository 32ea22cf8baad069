------------------------------ MODULE Endpoints ------------------------------
(***************************************************************************)
(* What the controllers of the API ask of a request before they run an     *)
(* action, and what the action answers.  Only the actions that the clients *)
(* of NodeClient and LoadTests call are listed.                            *)
(***************************************************************************)
(* feature    the module an administrator may switch off ("core": none)    *)
(* bearer     an accessible token is needed                                *)
(* scopes     the scopes of the token                                      *)
(* grants     of each set the client holds at least one permission         *)
(* user       the user behind the token: "anyone" when none is needed,     *)
(*            "present", or "usable" when neither blocked nor locked       *)
(* needs      parameters without which the action raises                   *)
(* answer     "job" (202), "document" or "nothing"                         *)
(* worker     the condition on the user when the operation itself runs     *)
(* effect     the record of this model the operation writes                *)
Open(feature, answer) ==
  [feature |-> feature, bearer |-> FALSE, scopes |-> {}, grants |-> {},
   user |-> "anyone", needs |-> {}, answer |-> answer, worker |-> "anyone",
   effect |-> "none"]

\* doorkeeper_authorize! and ability.authorize! of one permission.
Guarded(feature, scope, permission, needs, answer) ==
  [Open(feature, answer) EXCEPT
     !.bearer = TRUE, !.scopes = {scope}, !.grants = {{permission}},
     !.needs = needs]

\* doorkeeper_authorize! without a scope, or nothing but the token looked up.
Bears(endpoint) == [endpoint EXCEPT !.bearer = TRUE]

Needs(endpoint, parameters) == [endpoint EXCEPT !.needs = parameters]

AlsoGrant(endpoint, permission) ==
  [endpoint EXCEPT !.grants = @ \cup {{permission}}]

GrantOneOf(endpoint, alternatives) ==
  [endpoint EXCEPT !.grants = {alternatives}]

For(endpoint, person, worker) ==
  [endpoint EXCEPT !.user = person, !.worker = worker]

Writes(endpoint, effect) == [endpoint EXCEPT !.effect = effect]

(* config/routes.rb and the routes of the extensions, by controller *)

On(verb, path, endpoint) == [route |-> <<verb, path>>, endpoint |-> endpoint]

TokensController ==
  {On("POST", "/oauth/token", Writes(Open("core", "document"), "token")),
   On("POST", "/oauth/introspect",
      Needs(Bears(Open("core", "document")), {"body"}))}

JobsController ==
  {On("GET", "/jobs", Bears(Open("core", "document"))),
   On("GET", "/jobs/:id", Needs(Open("core", "document"), {"id"})),
   On("DELETE", "/jobs/:id",
      Writes(Needs(Bears(Open("core", "nothing")), {"id"}), "withdrawJob"))}

OrganizationsController ==
  LET read   == "system.organizations.read"
      update == "system.organizations.update"
  IN {On("GET", "/organizations",
         Guarded("core", "system", read, {}, "document")),
      On("GET", "/organizations/:id",
         Guarded("core", "system", read, {"id"}, "document")),
      On("PUT", "/organizations/:id/sync",
         Guarded("core", "system", update, {"id", "body"}, "document"))}

OrganizationExtendedDataController ==
  {On("GET", "/organizations/:id/extended_data",
      Guarded("core", "system", "system.organizations.extended_data.read",
        {"id", "objectPath"}, "document")),
   On("PUT", "/organizations/:id/extended_data/sync",
      Guarded("core", "system", "system.organizations.extended_data.update",
        {"id", "body"}, "document"))}

ComponentsController ==
  {On("GET", "/components/search",
      Guarded("core", "public", "public.component.read", {}, "document"))}

ProposalComponentsController ==
  {On("GET", "/components/proposal_components",
      Guarded("proposals", "public", "public.component.read", {}, "document")),
   On("GET", "/components/proposal_components/:id",
      Guarded("proposals", "public", "public.component.read", {"id"},
        "document"))}

BlogComponentsController ==
  {On("GET", "/components/blog_components",
      Guarded("blogs", "public", "public.component.read", {}, "document")),
   On("GET", "/components/blog_components/:id",
      Guarded("blogs", "public", "public.component.read", {"id"}, "document"))}

ComponentExtendedDataController ==
  {On("GET", "/components/:id/extended_data",
      AlsoGrant(Guarded("core", "public", "public.component.read",
                {"id", "objectPath"}, "document"),
        "public.component.extended_data.read")),
   On("PUT", "/components/:id/extended_data/sync",
      AlsoGrant(Guarded("core", "public", "public.component.read",
                {"id", "objectPath", "body"}, "document"),
        "public.component.extended_data.update"))}

SpacesController ==
  LET Asks(needs) ==
        Guarded("core", "public", "public.space.read", needs, "document")
  IN {On("GET", "/spaces/search", Asks({})),
      On("GET", "/spaces/participatory_processes", Asks({})),
      On("GET", "/spaces/participatory_processes/:id", Asks({"id"})),
      On("GET", "/spaces/assemblies", Asks({})),
      On("GET", "/spaces/assemblies/:id", Asks({"id"})),
      On("GET", "/spaces/conferences", Asks({})),
      On("GET", "/spaces/conferences/:id", Asks({"id"})),
      On("GET", "/spaces/initiatives", Asks({})),
      On("GET", "/spaces/initiatives/:id", Asks({"id"}))}

SpaceExtendedDataController ==
  {On("GET", "/spaces/participatory_processes/:id/extended_data",
      AlsoGrant(Guarded("core", "public", "public.space.read",
                {"id", "objectPath"}, "document"),
        "public.space.extended_data.read")),
   On("PUT", "/spaces/participatory_processes/:id/extended_data/sync",
      AlsoGrant(Guarded("core", "public", "public.space.read",
                {"id", "objectPath", "body"}, "document"),
        "public.space.extended_data.update"))}

RolesController ==
  {On("GET", "/roles", Guarded("core", "roles", "roles.read", {}, "document")),
   On("GET", "/roles/:id",
      Guarded("core", "roles", "roles.read", {"id"}, "document")),
   On("POST", "/roles", Guarded("core", "roles", "roles.write", {}, "job")),
   On("POST", "/roles/sync",
      Guarded("core", "roles", "roles.write", {"body"}, "document")),
   On("DELETE", "/roles/:id/sync",
      Guarded("core", "roles", "roles.write", {"id"}, "nothing"))}

UsersController ==
  {On("GET", "/users", Guarded("core", "oauth", "oauth.read", {}, "document"))}

UserExtendedDataController ==
  LET Asks(permission, needs, answer) ==
        For(Guarded("core", "oauth", permission, needs, answer),
            "usable", "present")
  IN {On("GET", "/me/extended_data",
         Asks("oauth.extended_data.read", {"objectPath"}, "document")),
      On("PUT", "/me/extended_data",
         Asks("oauth.extended_data.update", {}, "job")),
      On("PUT", "/me/extended_data/sync",
         Asks("oauth.extended_data.update", {"body"}, "document"))}

MagicLinksController ==
  {On("POST", "/me/magic_links",
      For(Guarded("core", "oauth", "oauth.magic_link", {}, "document"),
        "usable", "anyone")),
   On("GET", "/me/magic_links/:id",
      Needs(Open("core", "nothing"), {"id"}))}

AttachmentsController ==
  {On("GET", "/attachments",
      Guarded("attachments", "attachments", "attachments.read", {},
        "document")),
   On("GET", "/attachments/:id",
      Guarded("attachments", "attachments", "attachments.read", {"id"},
        "document")),
   On("POST", "/attachments/direct_upload",
      Guarded("attachments", "attachments", "attachments.write",
              {"filename", "byteSize", "checksum"}, "document"))}

WebhookRegistrationsController ==
  LET Asks(permission, needs, answer) ==
        Guarded("core", "webhooks", permission, needs, answer)
  IN {On("GET", "/webhook_registrations",
         Asks("webhooks.read", {}, "document")),
      On("GET", "/webhook_registrations/:id",
         Asks("webhooks.read", {"id"}, "document")),
      On("POST", "/webhook_registrations",
         Writes(Asks("webhooks.write", {"body"}, "document"), "register")),
      On("PUT", "/webhook_registrations/:id",
         Asks("webhooks.write", {"id", "body"}, "document")),
      On("DELETE", "/webhook_registrations/:id",
         Writes(Asks("webhooks.destroy", {"id"}, "nothing"), "unregister"))}

WebhookEventsController ==
  {On("GET", "/webhook_events/:id",
      Guarded("core", "webhooks", "webhooks.read", {"id"}, "document"))}

\* Mutant of BlogsController: creating a post answers 200 with the post.
BlogsControllerAnsweringAtOnce ==
  LET Asks(permission, needs, answer) ==
        Guarded("blogs", "blogs", permission, needs, answer)
  IN {On("GET", "/blogs", Asks("blogs.read", {}, "document")),
      On("GET", "/blogs/:id", Asks("blogs.read", {"id"}, "document")),
      On("POST", "/blogs",
         For(Asks("blogs.write", {}, "document"), "anyone", "present")),
      On("DELETE", "/blogs/:id", Asks("blogs.destroy", {"id"}, "job"))}

\* Creating a post reads the id of the user behind the token, whoever it is.
BlogsController ==
  LET Asks(permission, needs, answer) ==
        Guarded("blogs", "blogs", permission, needs, answer)
  IN {On("GET", "/blogs", Asks("blogs.read", {}, "document")),
      On("GET", "/blogs/:id", Asks("blogs.read", {"id"}, "document")),
      On("POST", "/blogs",
         For(Asks("blogs.write", {}, "job"), "anyone", "present")),
      On("DELETE", "/blogs/:id", Asks("blogs.destroy", {"id"}, "job"))}

DraftProposalsController ==
  LET Asks(needs, answer) ==
        For(Guarded("proposals", "proposals", "proposals.draft", needs, answer),
            "usable", "usable")
  IN {On("GET", "/draft_proposals/:id", Asks({"id"}, "document")),
      On("POST", "/draft_proposals", Writes(Asks({}, "job"), "draft")),
      On("POST", "/draft_proposals/sync",
         Writes(Asks({"body"}, "document"), "draft")),
      On("PUT", "/draft_proposals/:id/sync",
         Asks({"id", "body"}, "document")),
      On("POST", "/draft_proposals/:id/publish", Asks({"id"}, "job")),
      On("POST", "/draft_proposals/:id/publish/sync",
         Asks({"id"}, "document")),
      On("DELETE", "/draft_proposals/:id/sync",
         Writes(Asks({"id"}, "document"), "undraft"))}

ProposalsController ==
  {On("GET", "/proposals",
      Guarded("proposals", "proposals", "proposals.read", {}, "document")),
   On("GET", "/proposals/:id",
      Guarded("proposals", "proposals", "proposals.read", {"id"}, "document"))}

ProposalExtendedDataController ==
  {On("GET", "/proposals/:id/extended_data",
      AlsoGrant(Guarded("proposals", "proposals", "proposals.read",
                {"id", "objectPath"}, "document"),
        "proposals.extended_data.read")),
   On("PUT", "/proposals/:id/extended_data/sync",
      AlsoGrant(Guarded("proposals", "proposals", "proposals.read",
                {"id", "objectPath", "body"}, "document"),
        "proposals.extended_data.update"))}

\* The controller's own require_user! is content with a blocked user, the
\* operations are not.
VoteProposalsController ==
  LET Asks(permission, needs, answer) ==
        Guarded("proposals", "proposals", permission, needs, answer)
      Votes(needs, answer) ==
        For(Asks("proposals.vote", needs, answer), "present", "usable")
  IN {On("GET", "/vote_proposals", Asks("proposals.read", {}, "document")),
      On("GET", "/vote_proposals/:id",
         Asks("proposals.read", {"id"}, "document")),
      On("POST", "/vote_proposals", Votes({"body"}, "job")),
      On("POST", "/vote_proposals/sync", Votes({"body"}, "document")),
      On("DELETE", "/vote_proposals/:id", Votes({"id"}, "document"))}

MeetingsController ==
  {On("GET", "/meetings",
      Guarded("meetings", "meetings", "meetings.read", {}, "document"))}

MeetingExtendedDataController ==
  {On("GET", "/meetings/:id/extended_data",
      AlsoGrant(Guarded("meetings", "meetings", "meetings.read",
                {"id", "objectPath"}, "document"),
        "meetings.extended_data.read")),
   On("PUT", "/meetings/:id/extended_data/sync",
      AlsoGrant(Guarded("meetings", "meetings", "meetings.read",
                {"id", "objectPath", "body"}, "document"),
        "meetings.extended_data.update"))}

\* Either permission to read opens the updates as well: authorize_manage! is
\* defined and never called.
QuestionnairesController ==
  LET Asks(needs, answer) ==
        GrantOneOf(Guarded("forms", "surveys", "surveys.read", needs, answer),
                   {"surveys.questionnaires.read", "surveys.read"})
  IN {On("GET", "/questionnaires", Asks({}, "document")),
      On("GET", "/questionnaires/:id", Asks({"id"}, "document")),
      On("PUT", "/questionnaires/:id", Asks({"id"}, "job")),
      On("PUT", "/questionnaires/:id/sync", Asks({"id"}, "document"))}

QuestionsController ==
  LET Asks(needs, answer) ==
        Guarded("forms", "surveys", "surveys.questions.manage", needs, answer)
  IN {On("GET", "/questions", Asks({"filterQuestionnaireId"}, "document")),
      On("POST", "/questions", Asks({}, "job")),
      On("POST", "/questions/sync", Asks({"body"}, "document"))}

AnswersController ==
  LET Asks(needs, answer) ==
        Guarded("forms", "surveys", "surveys.answers.submit", needs, answer)
  IN {On("POST", "/answers", Asks({}, "job")),
      On("POST", "/answers/sync", Asks({"body"}, "document"))}

QuestionnaireResponsesController ==
  {On("GET", "/questionnaire_responses/:id",
      Guarded("forms", "surveys", "surveys.answers.read", {"id"}, "document"))}

Actions ==
  UNION {TokensController, JobsController, OrganizationsController,
         OrganizationExtendedDataController, ComponentsController,
         ProposalComponentsController, BlogComponentsController,
         ComponentExtendedDataController, SpacesController,
         SpaceExtendedDataController, RolesController, UsersController,
         UserExtendedDataController, MagicLinksController,
         AttachmentsController, WebhookRegistrationsController,
         WebhookEventsController, BlogsController, DraftProposalsController,
         ProposalsController, ProposalExtendedDataController,
         VoteProposalsController, MeetingsController,
         MeetingExtendedDataController, QuestionnairesController,
         QuestionsController, AnswersController,
         QuestionnaireResponsesController}

Route == [r \in {a.route : a \in Actions} |->
            (CHOOSE a \in Actions : a.route = r).endpoint]

Scope == UNION {Route[r].scopes : r \in DOMAIN Route}

Permission == UNION UNION {Route[r].grants : r \in DOMAIN Route}

Feature == {Route[r].feature : r \in DOMAIN Route}
=============================================================================

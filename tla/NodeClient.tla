----------------------------- MODULE NodeClient -----------------------------
(***************************************************************************)
(* The TypeScript client of contrib/decidim-node-client.  Every operation  *)
(* is what it sends: verb and path, the parameters it refuses to go        *)
(* without ("body" is the payload), the flows whose tokens it declares,    *)
(* and whether it takes the `authorization` argument.  Optional parameters *)
(* (pages, filters, locales) are left out, and a path parameter is :id    *)
(* whatever its name.  The <Api>ApiFp records add the type of the answer   *)
(* the caller is promised, and the <Api>Api sets are the methods of the    *)
(* classes a program uses.                                                 *)
(***************************************************************************)
Flow == {"credential", "resourceOwner"}

Sends(verb, path, required, flows) ==
  [verb |-> verb, path |-> path, required |-> required, flows |-> flows,
   argument |-> TRUE]

SendsBare(verb, path, required, flows) ==
  [Sends(verb, path, required, flows) EXCEPT !.argument = FALSE]

\* The promised answer: "job" is a 202 with a job to poll, "document" a JSON
\* body, "nothing" the type void.
Types(request, answer) == [request |-> request, answer |-> answer]

(* Attachments *)

attachmentsDirectUpload ==
  Sends("POST", "/attachments/direct_upload",
    {"filename", "byteSize", "checksum"}, {"credential"})

listAttachments ==
  Sends("GET", "/attachments", {}, {"credential"})

showAttachment ==
  Sends("GET", "/attachments/:id", {"id"}, {"credential"})

AttachmentsApiFp ==
  [attachmentsDirectUpload |-> Types(attachmentsDirectUpload, "document"),
   listAttachments |-> Types(listAttachments, "document"),
   showAttachment |-> Types(showAttachment, "document")]

AttachmentsApi ==
  {"attachmentsDirectUpload", "listAttachments", "showAttachment"}

(* Blog posts *)

createBlogPostAsync ==
  Sends("POST", "/blogs", {"body"}, {"resourceOwner"})

deleteBlogPostAsync ==
  Sends("DELETE", "/blogs/:id", {"id"}, {"resourceOwner"})

getBlogPost ==
  Sends("GET", "/blogs/:id", {"id"}, {"credential"})

listBlogPosts ==
  Sends("GET", "/blogs", {}, {"credential"})

BlogsApiFp ==
  [createBlogPostAsync |-> Types(createBlogPostAsync, "job"),
   deleteBlogPostAsync |-> Types(deleteBlogPostAsync, "job"),
   getBlogPost |-> Types(getBlogPost, "document"),
   listBlogPosts |-> Types(listBlogPosts, "document")]

BlogsApi ==
  {"createBlogPostAsync", "deleteBlogPostAsync", "getBlogPost",
   "listBlogPosts"}

(* Components *)

getComponentExtendedData ==
  Sends("GET", "/components/:id/extended_data",
    {"objectPath", "id"}, {"credential"})

listBlogComponents ==
  Sends("GET", "/components/blog_components", {}, {"credential"})

listProposalComponents ==
  Sends("GET", "/components/proposal_components", {}, {"credential"})

searchComponents ==
  Sends("GET", "/components/search", {}, {"credential"})

setComponentExtendedData ==
  Sends("PUT", "/components/:id/extended_data/sync",
    {"objectPath", "id", "body"}, {"credential"})

showBlogComponent ==
  Sends("GET", "/components/blog_components/:id", {"id"}, {"credential"})

showProposalComponent ==
  Sends("GET", "/components/proposal_components/:id", {"id"}, {"credential"})

ComponentsApiFp ==
  [getComponentExtendedData |-> Types(getComponentExtendedData, "document"),
   listBlogComponents |-> Types(listBlogComponents, "document"),
   listProposalComponents |-> Types(listProposalComponents, "document"),
   searchComponents |-> Types(searchComponents, "document"),
   setComponentExtendedData |-> Types(setComponentExtendedData, "document"),
   showBlogComponent |-> Types(showBlogComponent, "document"),
   showProposalComponent |-> Types(showProposalComponent, "document")]

ComponentsApi ==
  {"getComponentExtendedData", "listBlogComponents",
   "listProposalComponents", "searchComponents",
   "setComponentExtendedData", "showBlogComponent", "showProposalComponent"}

(* Draft proposals *)

\* Mutant of createDraftProposal: a client credentials token is declared good
\* enough for a draft.
createDraftProposalOfAnyFlow ==
  Sends("POST", "/draft_proposals/sync", {"body"}, {"credential", "resourceOwner"})

createDraftProposal ==
  Sends("POST", "/draft_proposals/sync", {"body"}, {"resourceOwner"})

getDraftProposal ==
  Sends("GET", "/draft_proposals/:id", {"id"}, {"resourceOwner"})

publishDraftProposal ==
  Sends("POST", "/draft_proposals/:id/publish/sync",
    {"id"}, {"resourceOwner"})

publishDraftProposalAsync ==
  Sends("POST", "/draft_proposals/:id/publish", {"id"}, {"resourceOwner"})

updateDraftProposal ==
  Sends("PUT", "/draft_proposals/:id/sync",
    {"id", "body"}, {"resourceOwner"})

withdrawDraftProposal ==
  Sends("DELETE", "/draft_proposals/:id/sync", {"id"}, {"resourceOwner"})

DraftProposalsApiFp ==
  [createDraftProposal |-> Types(createDraftProposal, "document"),
   getDraftProposal |-> Types(getDraftProposal, "document"),
   publishDraftProposal |-> Types(publishDraftProposal, "document"),
   publishDraftProposalAsync |-> Types(publishDraftProposalAsync, "job"),
   updateDraftProposal |-> Types(updateDraftProposal, "document"),
   withdrawDraftProposal |-> Types(withdrawDraftProposal, "document")]

DraftProposalsApi ==
  {"createDraftProposal", "getDraftProposal", "publishDraftProposal",
   "publishDraftProposalAsync", "updateDraftProposal",
   "withdrawDraftProposal"}

(* Questionnaires, questions and answers *)

createAnswers ==
  Sends("POST", "/answers/sync", {"body"}, {"credential"})

createAnswersAsync ==
  Sends("POST", "/answers", {"body"}, {"credential"})

createQuestions ==
  Sends("POST", "/questions/sync", {"body"}, {"credential"})

createQuestionsAsync ==
  Sends("POST", "/questions", {"body"}, {"credential"})

getQuestionnaire ==
  Sends("GET", "/questionnaires/:id", {"id"}, {"credential"})

getQuestionnaireResponse ==
  Sends("GET", "/questionnaire_responses/:id", {"id"}, {"credential"})

listQuestionnaires ==
  Sends("GET", "/questionnaires", {}, {"credential"})

listQuestions ==
  Sends("GET", "/questions", {"filterQuestionnaireId"}, {"credential"})

updateQuestionnaire ==
  Sends("PUT", "/questionnaires/:id/sync", {"id", "body"}, {"credential"})

updateQuestionnaireAsync ==
  Sends("PUT", "/questionnaires/:id", {"id", "body"}, {"credential"})

FormsApiFp ==
  [createAnswers |-> Types(createAnswers, "document"),
   createAnswersAsync |-> Types(createAnswersAsync, "job"),
   createQuestions |-> Types(createQuestions, "document"),
   createQuestionsAsync |-> Types(createQuestionsAsync, "job"),
   getQuestionnaire |-> Types(getQuestionnaire, "document"),
   getQuestionnaireResponse |-> Types(getQuestionnaireResponse, "document"),
   listQuestionnaires |-> Types(listQuestionnaires, "document"),
   listQuestions |-> Types(listQuestions, "document"),
   updateQuestionnaire |-> Types(updateQuestionnaire, "nothing"),
   updateQuestionnaireAsync |-> Types(updateQuestionnaireAsync, "job")]

FormsApi ==
  {"createAnswers", "createAnswersAsync", "createQuestions",
   "createQuestionsAsync", "getQuestionnaire", "getQuestionnaireResponse",
   "listQuestionnaires", "listQuestions", "updateQuestionnaire",
   "updateQuestionnaireAsync"}

(* Jobs of asynchronous writes *)

deleteJob ==
  Sends("DELETE", "/jobs/:id",
    {"authorization", "id"}, {"credential", "resourceOwner"})

getJob ==
  SendsBare("GET", "/jobs/:id", {"id"}, {})

listJobs ==
  Sends("GET", "/jobs", {"authorization"}, {})

JobsApiFp ==
  [deleteJob |-> Types(deleteJob, "nothing"),
   getJob |-> Types(getJob, "document"),
   listJobs |-> Types(listJobs, "document")]

JobsApi ==
  {"deleteJob", "getJob", "listJobs"}

(* Meetings *)

getMeetingExtendedData ==
  Sends("GET", "/meetings/:id/extended_data",
    {"objectPath", "id"}, {"credential"})

listMeetings ==
  Sends("GET", "/meetings", {}, {"resourceOwner"})

setMeetingExtendedData ==
  Sends("PUT", "/meetings/:id/extended_data/sync",
    {"objectPath", "id", "body"}, {"credential"})

MeetingsApiFp ==
  [getMeetingExtendedData |-> Types(getMeetingExtendedData, "document"),
   listMeetings |-> Types(listMeetings, "document"),
   setMeetingExtendedData |-> Types(setMeetingExtendedData, "document")]

MeetingsApi ==
  {"getMeetingExtendedData", "listMeetings", "setMeetingExtendedData"}

(* Tokens (Doorkeeper) *)

createToken ==
  SendsBare("POST", "/oauth/token", {"body"}, {})

introspectToken ==
  SendsBare("POST", "/oauth/introspect",
    {"body"}, {"credential", "resourceOwner"})

OAuthApiFp ==
  [createToken |-> Types(createToken, "document"),
   introspectToken |-> Types(introspectToken, "document")]

OAuthApi ==
  {"createToken", "introspectToken"}

(* Organizations *)

getOrganization ==
  Sends("GET", "/organizations/:id", {"id"}, {"credential"})

listOrganizations ==
  Sends("GET", "/organizations", {}, {"credential"})

updateOrganization ==
  Sends("PUT", "/organizations/:id/sync", {"id", "body"}, {"credential"})

OrganizationsApiFp ==
  [getOrganization |-> Types(getOrganization, "document"),
   listOrganizations |-> Types(listOrganizations, "document"),
   updateOrganization |-> Types(updateOrganization, "document")]

OrganizationsApi ==
  {"getOrganization", "listOrganizations", "updateOrganization"}

(* Extended data of an organization *)

getOrganizationExtendedData ==
  Sends("GET", "/organizations/:id/extended_data",
    {"objectPath", "id"}, {"credential"})

setOrganizationExtendedData ==
  Sends("PUT", "/organizations/:id/extended_data/sync",
    {"id", "body"}, {"credential"})

OrganizationsExtendedDataApiFp ==
  [getOrganizationExtendedData |-> Types(getOrganizationExtendedData, "document"),
   setOrganizationExtendedData |-> Types(setOrganizationExtendedData, "document")]

OrganizationsExtendedDataApi ==
  {"getOrganizationExtendedData", "setOrganizationExtendedData"}

(* Proposals and votes *)

castProposalVote ==
  Sends("POST", "/vote_proposals/sync", {"body"}, {"resourceOwner"})

castProposalVoteAsync ==
  Sends("POST", "/vote_proposals", {"body"}, {"resourceOwner"})

deleteProposalVote ==
  Sends("DELETE", "/vote_proposals/:id", {"id"}, {"resourceOwner"})

getProposal ==
  Sends("GET", "/proposals/:id", {"id"}, {"resourceOwner"})

getProposalExtendedData ==
  Sends("GET", "/proposals/:id/extended_data",
    {"objectPath", "id"}, {"credential"})

getProposalVote ==
  Sends("GET", "/vote_proposals/:id", {"id"}, {"resourceOwner"})

listProposalVotes ==
  Sends("GET", "/vote_proposals", {}, {"resourceOwner"})

listProposals ==
  Sends("GET", "/proposals", {}, {"resourceOwner"})

setProposalExtendedData ==
  Sends("PUT", "/proposals/:id/extended_data/sync",
    {"objectPath", "id", "body"}, {"credential"})

ProposalsApiFp ==
  [castProposalVote |-> Types(castProposalVote, "document"),
   castProposalVoteAsync |-> Types(castProposalVoteAsync, "job"),
   deleteProposalVote |-> Types(deleteProposalVote, "nothing"),
   getProposal |-> Types(getProposal, "document"),
   getProposalExtendedData |-> Types(getProposalExtendedData, "document"),
   getProposalVote |-> Types(getProposalVote, "document"),
   listProposalVotes |-> Types(listProposalVotes, "document"),
   listProposals |-> Types(listProposals, "document"),
   setProposalExtendedData |-> Types(setProposalExtendedData, "document")]

ProposalsApi ==
  {"castProposalVote", "castProposalVoteAsync", "deleteProposalVote",
   "getProposal", "getProposalExtendedData", "getProposalVote",
   "listProposalVotes", "listProposals", "setProposalExtendedData"}

(* Roles *)

createRole ==
  Sends("POST", "/roles/sync", {"body"}, {"credential"})

deleteRole ==
  Sends("DELETE", "/roles/:id/sync", {"id"}, {"credential"})

getRole ==
  Sends("GET", "/roles/:id", {"id"}, {"credential"})

listRoles ==
  Sends("GET", "/roles", {}, {"credential"})

RolesApiFp ==
  [createRole |-> Types(createRole, "nothing"),
   deleteRole |-> Types(deleteRole, "nothing"),
   getRole |-> Types(getRole, "document"),
   listRoles |-> Types(listRoles, "document")]

RolesApi ==
  {"createRole", "deleteRole", "getRole", "listRoles"}

(* Participatory spaces *)

getSpaceExtendedData ==
  Sends("GET", "/spaces/participatory_processes/:id/extended_data",
    {"objectPath", "id"}, {"credential"})

listAssemblies ==
  Sends("GET", "/spaces/assemblies", {}, {"resourceOwner"})

listConferences ==
  Sends("GET", "/spaces/conferences", {}, {"resourceOwner"})

listInitiatives ==
  Sends("GET", "/spaces/initiatives", {}, {"resourceOwner"})

listParticipatoryProcesses ==
  Sends("GET", "/spaces/participatory_processes", {}, {"resourceOwner"})

searchSpaces ==
  Sends("GET", "/spaces/search", {}, {"resourceOwner"})

setSpaceExtendedData ==
  Sends("PUT", "/spaces/participatory_processes/:id/extended_data/sync",
    {"objectPath", "id", "body"}, {"credential"})

showAssembly ==
  Sends("GET", "/spaces/assemblies/:id", {"id"}, {"resourceOwner"})

showConference ==
  Sends("GET", "/spaces/conferences/:id", {"id"}, {"resourceOwner"})

showInitiative ==
  Sends("GET", "/spaces/initiatives/:id", {"id"}, {"resourceOwner"})

showParticipatoryProcess ==
  Sends("GET", "/spaces/participatory_processes/:id",
    {"id"}, {"resourceOwner"})

SpacesApiFp ==
  [getSpaceExtendedData |-> Types(getSpaceExtendedData, "document"),
   listAssemblies |-> Types(listAssemblies, "document"),
   listConferences |-> Types(listConferences, "document"),
   listInitiatives |-> Types(listInitiatives, "document"),
   listParticipatoryProcesses |-> Types(listParticipatoryProcesses, "document"),
   searchSpaces |-> Types(searchSpaces, "document"),
   setSpaceExtendedData |-> Types(setSpaceExtendedData, "document"),
   showAssembly |-> Types(showAssembly, "document"),
   showConference |-> Types(showConference, "document"),
   showInitiative |-> Types(showInitiative, "document"),
   showParticipatoryProcess |-> Types(showParticipatoryProcess, "document")]

SpacesApi ==
  {"getSpaceExtendedData", "listAssemblies", "listConferences",
   "listInitiatives", "listParticipatoryProcesses", "searchSpaces",
   "setSpaceExtendedData", "showAssembly", "showConference",
   "showInitiative", "showParticipatoryProcess"}

(* Users, their extended data and magic links *)

generateMagicLink ==
  Sends("POST", "/me/magic_links", {}, {"resourceOwner"})

getUserExtendedData ==
  Sends("GET", "/me/extended_data", {"objectPath"}, {"resourceOwner"})

listUsers ==
  Sends("GET", "/users", {}, {"credential"})

setUserExtendedData ==
  Sends("PUT", "/me/extended_data/sync", {"body"}, {"resourceOwner"})

signInWithMagicLink ==
  Sends("GET", "/me/magic_links/:id", {"id"}, {})

UsersApiFp ==
  [generateMagicLink |-> Types(generateMagicLink, "document"),
   getUserExtendedData |-> Types(getUserExtendedData, "document"),
   listUsers |-> Types(listUsers, "document"),
   setUserExtendedData |-> Types(setUserExtendedData, "document"),
   signInWithMagicLink |-> Types(signInWithMagicLink, "nothing")]

UsersApi ==
  {"generateMagicLink", "getUserExtendedData", "listUsers",
   "setUserExtendedData", "signInWithMagicLink"}

(* Webhook registrations and event examples *)

createWebhookRegistration ==
  Sends("POST", "/webhook_registrations", {"body"}, {"credential"})

deleteWebhookRegistration ==
  Sends("DELETE", "/webhook_registrations/:id", {"id"}, {"credential"})

listWebhookRegistrations ==
  Sends("GET", "/webhook_registrations", {}, {"credential"})

showWebhookEventExample ==
  Sends("GET", "/webhook_events/:id", {"id"}, {"credential"})

showWebhookRegistration ==
  Sends("GET", "/webhook_registrations/:id", {"id"}, {"credential"})

updateWebhookRegistration ==
  Sends("PUT", "/webhook_registrations/:id", {"id", "body"}, {"credential"})

WebhooksApiFp ==
  [createWebhookRegistration |-> Types(createWebhookRegistration, "document"),
   deleteWebhookRegistration |-> Types(deleteWebhookRegistration, "nothing"),
   listWebhookRegistrations |-> Types(listWebhookRegistrations, "document"),
   showWebhookEventExample |-> Types(showWebhookEventExample, "document"),
   showWebhookRegistration |-> Types(showWebhookRegistration, "document"),
   updateWebhookRegistration |-> Types(updateWebhookRegistration, "document")]

WebhooksApi ==
  {"createWebhookRegistration", "deleteWebhookRegistration",
   "listWebhookRegistrations", "showWebhookEventExample",
   "showWebhookRegistration", "updateWebhookRegistration"}

(* Configuration, and what common.ts makes of it *)

Method ==
  AttachmentsApi \cup BlogsApi \cup ComponentsApi
  \cup DraftProposalsApi \cup FormsApi \cup JobsApi
  \cup MeetingsApi \cup OAuthApi \cup OrganizationsApi
  \cup OrganizationsExtendedDataApi \cup ProposalsApi \cup RolesApi
  \cup SpacesApi \cup UsersApi \cup WebhooksApi

ApiFp ==
  {AttachmentsApiFp, BlogsApiFp, ComponentsApiFp, DraftProposalsApiFp,
   FormsApiFp, JobsApiFp, MeetingsApiFp, OAuthApiFp, OrganizationsApiFp,
   OrganizationsExtendedDataApiFp, ProposalsApiFp, RolesApiFp, SpacesApiFp,
   UsersApiFp, WebhooksApiFp}

\* A method of a class calls the function of that name.
Operation ==
  [method \in Method |->
     (CHOOSE fp \in ApiFp : method \in DOMAIN fp)[method]]

\* The parameters of a call that are null or undefined though it needs them:
\* the client then throws RequiredError and sends nothing.
assertParamExists(method, given) == Operation[method].request.required \ given

\* The configured token is set on the request of an operation that declares a
\* flow, the same for both flows.
setBearerAuthToObject(request, accessToken) ==
  IF request.flows = {} THEN "none" ELSE accessToken

\* The bearer of a request: the caller's own headers are spread last and win,
\* then the `authorization` argument, then the configured token.
localVarRequestOptions(request, headers, authorization, accessToken) ==
  IF headers # "none" THEN headers
  ELSE IF request.argument /\ authorization # "none" THEN authorization
  ELSE setBearerAuthToObject(request, accessToken)
=============================================================================

------------------------------- MODULE Access -------------------------------
(***************************************************************************)
(* An API client from its first token to its deletion: a program built on  *)
(* the TypeScript client, or one of the k6 scenarios, sends requests to    *)
(* the endpoints while an administrator edits the client's permissions,    *)
(* switches modules off, blocks the user, lets tokens run out and deletes  *)
(* the client.  The life cycle of a queued write is in ApiJobs; here it is *)
(* one step that ends well or fails.                                       *)
(***************************************************************************)
EXTENDS NodeClient, Endpoints, Naturals

K6 == INSTANCE LoadTests

\* Programs on the TypeScript client: one asks for every scope its tokens may
\* have, the other for the scope "public" only.
Sdk == {"sdk", "reader"}

CONSTANTS
  Token,              \* the tokens that may be issued
  Service,            \* the one of them without a resource owner
  Slot,               \* a bound: so many rows of jobs at a time
  Programs,           \* "sdk", "reader" or names of k6 scenarios
  PermissionEdits,    \* what an administrator leaves of the permissions
  ModuleEdits,        \* the sets of modules an administrator switches off
  MaxEdits            \* a bound: so many edits, expiries, blocks, deletions

ASSUME TokenAssumption == Service \in Token /\ "none" \notin Token
ASSUME ProgramAssumption == Programs \subseteq Sdk \cup DOMAIN K6!Scenario
ASSUME EditAssumption ==
  /\ PermissionEdits \subseteq SUBSET Permission
  /\ ModuleEdits \subseteq SUBSET Feature
  /\ MaxEdits \in Nat

VARIABLES
  program,     \* what runs on the client's machine
  client,      \* is the row of the API client there
  tokens,      \* "unissued", "live", "expired" or "deleted"
  permissions, \* the permissions of the client
  disabled,    \* the modules switched off
  user,        \* "usable" or "blocked" (or locked)
  call,        \* the request under way
  jobs,        \* the rows of api_jobs
  linked,      \* rows that point at the client: a registration, a draft
  deletion,    \* how far the CLI has come with deleting the client
  edits        \* edits made so far

vars == <<program, client, tokens, permissions, disabled, user, call, jobs,
          linked, deletion, edits>>

server == <<client, tokens, permissions, disabled, user, jobs, linked,
            deletion, edits>>

Row == {"registration", "draft"}

Answer == {"none", "job", "document", "nothing", "refused"}

Idle == [stage |-> "idle", route |-> <<"", "">>, by |-> "none",
         token |-> "none", given |-> {}, answer |-> "none"]

NoJob == [status |-> "none", route |-> <<"", "">>, token |-> "none"]

\* The parameters that requests carry, as far as a check asks for them.
Parameter ==
  (UNION {Operation[m].request.required : m \in Method})
  \cup UNION {UNION {i.sends : i \in K6!Scenario[p]} :
               p \in DOMAIN K6!Scenario}

\* The tables fit together: no route is listed twice, whatever a client sends
\* has a route, and the routes answer as listed above.
ASSUME TableAssumption ==
  /\ \A a, b \in Actions : a.route = b.route => a = b
  /\ \A m \in Method :
       <<Operation[m].request.verb, Operation[m].request.path>> \in DOMAIN Route
  /\ \A p \in DOMAIN K6!Scenario : \A i \in K6!Scenario[p] :
       <<i.verb, i.path>> \in DOMAIN Route
  /\ \A r \in DOMAIN Route : Route[r].answer \in Answer

GrantPermission == {"oauth.impersonate", "oauth.login"}

Init ==
  /\ program \in Programs
  /\ client = TRUE
  /\ tokens = [t \in Token |-> "unissued"]
  /\ permissions = Permission \cup GrantPermission
  /\ disabled = {}
  /\ user = "usable"
  /\ call = Idle
  /\ jobs = [s \in Slot |-> NoJob]
  /\ linked = {}
  /\ deletion = "no"
  /\ edits = 0

(* Tokens *)

\* The scopes of the tokens: all the client has, those of a user without the
\* ones the password flow refuses, unless the program asks for less; a
\* scenario's are those it asks for.
SystemScope == {"system"}

\* Which of a scenario's requests carry the token.
Carries(iteration, t) ==
  t = Service <=> iteration.grant.grant = "client_credentials"

ScopesOf(t) ==
  CASE t = "none"         -> {}
    [] program = "reader" -> {"public"}
    [] program = "sdk"    -> Scope \ (IF t = Service THEN {} ELSE SystemScope)
    [] OTHER -> UNION {i.grant.scopes :
                        i \in {j \in K6!Scenario[program] : Carries(j, t)}}

FlowOf(t) == IF t = Service THEN "credential" ELSE "resourceOwner"

Live(t) == t \in Token /\ tokens[t] = "live"

UserFits(condition, t) ==
  /\ condition # "anyone" => t \in Token \ {Service}
  /\ condition = "usable" => user = "usable"

\* POST /oauth/token: the password flow needs a client_id, an auth_type the
\* client may use, and refuses the scope "system".
Grants(grant) ==
  /\ client
  /\ "core" \notin disabled
  /\ grant.client
  /\ grant.grant = "password" =>
       /\ grant.authType
       /\ grant.scopes \cap SystemScope = {}
       /\ permissions \cap GrantPermission # {}

IssueToken(t) ==
  /\ tokens[t] = "unissued"
  /\ tokens' = [tokens EXCEPT ![t] = "live"]

(* The SDK: a call is prepared on the client and answered by the server *)

\* Mutant of Arrives: the request goes to the path named like the method.
ArrivesByName(method, token, given) ==
  [Idle EXCEPT !.stage = "sent", !.by = method, !.token = token,
     !.given = given, !.route = <<Operation[method].request.verb, method>>]

Arrives(method, token, given) ==
  [Idle EXCEPT !.stage = "sent", !.by = method, !.token = token,
     !.given = given,
     !.route = <<Operation[method].request.verb,
                 Operation[method].request.path>>]

\* Every parameter but the authorization is there: a call without one throws
\* before anything is sent.
ParamsOf(method, authorization) ==
  Operation[method].request.required
    \ (IF authorization = "none" THEN {"authorization"} ELSE {})

\* The bearers a call may leave with, from a token the caller holds or none in
\* each of the places it may be put.
Bearers(method) ==
  LET held == {"none"} \cup {t \in Token : tokens[t] # "unissued"}
      passed == {a \in held : assertParamExists(method, ParamsOf(method, a)) = {}}
  IN  {localVarRequestOptions(Operation[method].request, h, a, c) :
         h \in held, a \in passed, c \in held}

\* The parameters are checked and the headers put together before the request
\* leaves: a configured function may be awaited, and the token it gave may be
\* dead when the request arrives.
Prepare(method) ==
  /\ program \in Sdk
  /\ call.stage = "idle"
  /\ Operation[method].answer = "job" =>
       \E s \in Slot : jobs[s].status = "none"
  /\ \E bearer \in Bearers(method) :
       call' = Arrives(method, bearer, Operation[method].request.required)
  /\ UNCHANGED <<program, server>>

(* The k6 scenarios *)

\* setup() asks for the token of the scenario's requests; without one the
\* scenario throws and no iteration runs.
Setup(t) ==
  /\ program \notin Sdk
  /\ \E i \in K6!Scenario[program] :
       /\ Carries(i, t)
       /\ Grants(i.grant)
  /\ IssueToken(t)
  /\ UNCHANGED <<program, client, permissions, disabled, user, call, jobs,
                 linked, deletion, edits>>

\* One iteration; a request without a token is passed over.
Iterate(t) ==
  /\ program \notin Sdk
  /\ call.stage = "idle"
  /\ tokens[t] # "unissued"
  /\ \E i \in K6!Scenario[program] :
       /\ Carries(i, t)
       /\ "job" \in i.expected => \E s \in Slot : jobs[s].status = "none"
       /\ call' = [stage |-> "sent", route |-> <<i.verb, i.path>>,
                   by |-> "k6", token |-> t, given |-> i.sends,
                   answer |-> "none"]
  /\ UNCHANGED <<program, server>>

\* The answer reaches the program.
Receive ==
  /\ call.stage = "answered"
  /\ call' = Idle
  /\ UNCHANGED <<program, server>>

(* The server *)

\* Mutant of Admits: doorkeeper_authorize! without its scopes.
AdmitsAnyScope(endpoint, token, given) ==
  /\ disabled \cap {"core", endpoint.feature} = {}
  /\ endpoint.bearer => Live(token)
  /\ \A alternatives \in endpoint.grants : alternatives \cap permissions # {}
  /\ UserFits(endpoint.user, token)
  /\ endpoint.needs \subseteq given

\* The before_actions of a controller, in the database of one moment.
Admits(endpoint, token, given) ==
  /\ disabled \cap {"core", endpoint.feature} = {}
  /\ endpoint.bearer => Live(token)
  /\ endpoint.scopes \subseteq ScopesOf(token)
  /\ \A alternatives \in endpoint.grants : alternatives \cap permissions # {}
  /\ UserFits(endpoint.user, token)
  /\ endpoint.needs \subseteq given

Respond(answer) == call' = [call EXCEPT !.stage = "answered", !.answer = answer]

Admit ==
  /\ call.stage = "sent"
  /\ Admits(Route[call.route], call.token, call.given)
  /\ call' = [call EXCEPT !.stage = "admitted"]
  /\ UNCHANGED <<program, server>>

Refuse ==
  /\ call.stage = "sent"
  /\ ~Admits(Route[call.route], call.token, call.given)
  /\ Respond("refused")
  /\ UNCHANGED <<program, server>>

\* Mutant of Effect: the foreign key of the draft's application id is missing.
EffectWithoutKeys(effect) ==
  CASE effect = "register"   -> client /\ linked' = linked \cup {"registration"}
    [] effect = "unregister" -> linked' = linked \ {"registration"}
    [] effect = "draft"      -> linked' = linked \cup {"draft"}
    [] effect = "undraft"    -> linked' = linked \ {"draft"}
    [] OTHER                 -> UNCHANGED linked

\* What the operation writes of the rows modelled here.  A row that points at
\* the client needs the client.
Effect(effect) ==
  CASE effect = "register"   -> client /\ linked' = linked \cup {"registration"}
    [] effect = "unregister" -> linked' = linked \ {"registration"}
    [] effect = "draft"      -> client /\ linked' = linked \cup {"draft"}
    [] effect = "undraft"    -> linked' = linked \ {"draft"}
    [] OTHER                 -> UNCHANGED linked

\* A read or a synchronous write: the operation checks the user again, not
\* the token.
Serve ==
  LET endpoint == Route[call.route]
  IN  /\ call.stage = "admitted"
      /\ endpoint.answer # "job"
      /\ endpoint.effect \notin {"token", "withdrawJob"}
      /\ UserFits(endpoint.worker, call.token)
      /\ Effect(endpoint.effect)
      /\ Respond(endpoint.answer)
      /\ UNCHANGED <<program, client, tokens, permissions, disabled, user,
                     jobs, deletion, edits>>

\* createToken of the SDK: client credentials, or a password with all the
\* parameters the types of the client ask for.
Issue(t) ==
  LET grant == [grant |-> IF t = Service THEN "client_credentials"
                          ELSE "password",
                client |-> TRUE, authType |-> TRUE, scopes |-> ScopesOf(t)]
  IN  /\ call.stage = "admitted"
      /\ Route[call.route].effect = "token"
      /\ Grants(grant)
      /\ IssueToken(t)
      /\ Respond("document")
      /\ UNCHANGED <<program, client, permissions, disabled, user, jobs,
                     linked, deletion, edits>>

\* Rows of the same application and the same resource owner, or lack of one.
SameContext(job, t) == (job.token = Service) = (t = Service)

\* DELETE /jobs/:id: any status, own rows only.
WithdrawJob(s) ==
  /\ call.stage = "admitted"
  /\ Route[call.route].effect = "withdrawJob"
  /\ jobs[s].status # "none"
  /\ SameContext(jobs[s], call.token)
  /\ jobs' = [jobs EXCEPT ![s] = NoJob]
  /\ Respond("nothing")
  /\ UNCHANGED <<program, client, tokens, permissions, disabled, user,
                 linked, deletion, edits>>

\* enqueue_rest_full_api_job!: the token must still be accessible, and its
\* row is there when the row of the job is inserted.
Enqueue(s) ==
  /\ call.stage = "admitted"
  /\ Route[call.route].answer = "job"
  /\ Live(call.token)
  /\ jobs[s].status = "none"
  /\ jobs' = [jobs EXCEPT ![s] = [status |-> "pending", route |-> call.route,
                                  token |-> call.token]]
  /\ Respond("job")
  /\ UNCHANGED <<program, client, tokens, permissions, disabled, user,
                 linked, deletion, edits>>

\* What raises after the checks passed: the token ran out, the user was
\* blocked, the row to insert points at a client that is gone, there is no
\* token to give or no such job.
Fail ==
  LET endpoint == Route[call.route]
  IN  /\ call.stage = "admitted"
      /\ \/ endpoint.answer = "job" /\ ~Live(call.token)
         \/ endpoint.answer # "job" /\ ~UserFits(endpoint.worker, call.token)
         \/ endpoint.effect \in {"register", "draft"} /\ ~client
         \/ endpoint.effect \in {"token", "withdrawJob"}
      /\ Respond("refused")
      /\ UNCHANGED <<program, server>>

\* ExecuteApiJobJob: the token's row and its client are looked up, scopes,
\* permissions and expiry are not; the operation checks the user.
Work(s) ==
  LET endpoint == Route[jobs[s].route]
  IN  /\ jobs[s].status = "pending"
      /\ UserFits(endpoint.worker, jobs[s].token)
      /\ Effect(endpoint.effect)
      /\ jobs' = [jobs EXCEPT ![s].status = "completed"]
      /\ UNCHANGED <<program, client, tokens, permissions, disabled, user,
                     call, deletion, edits>>

\* fail_job!: the operation raised, for the user or for its own reasons.
WorkRaises(s) ==
  /\ jobs[s].status = "pending"
  /\ jobs' = [jobs EXCEPT ![s].status = "failed"]
  /\ UNCHANGED <<program, client, tokens, permissions, disabled, user, call,
                 linked, deletion, edits>>

(* What happens around the requests *)

Edit == edits < MaxEdits /\ edits' = edits + 1

\* PermissionsController#create, api-client grant and revoke.
EditPermissions(granted) ==
  /\ Edit
  /\ client
  /\ permissions' = granted
  /\ UNCHANGED <<program, client, tokens, disabled, user, call, jobs, linked,
                 deletion>>

\* The Toggle row of the organization.
SwitchModules(off) ==
  /\ Edit
  /\ disabled' = off
  /\ UNCHANGED <<program, client, tokens, permissions, user, call, jobs,
                 linked, deletion>>

Expire(t) ==
  /\ Edit
  /\ tokens[t] = "live"
  /\ tokens' = [tokens EXCEPT ![t] = "expired"]
  /\ UNCHANGED <<program, client, permissions, disabled, user, call, jobs,
                 linked, deletion>>

BlockUser ==
  /\ Edit
  /\ user = "usable"
  /\ user' = "blocked"
  /\ UNCHANGED <<program, client, tokens, permissions, disabled, call, jobs,
                 linked, deletion>>

(* Deleting the client *)

\* The foreign key of api_jobs keeps a token that a job points at.
TokensFree == \A s \in Slot : jobs[s].status = "none"

Deleted == [t \in Token |-> IF tokens[t] = "unissued" THEN "unissued"
                            ELSE "deleted"]

\* api-client delete: three statements and destroy!, each its own
\* transaction, while requests go on.
DeleteTokens ==
  /\ Edit
  /\ client /\ deletion = "no"
  /\ TokensFree
  /\ tokens' = Deleted
  /\ deletion' = "tokens"
  /\ UNCHANGED <<program, client, permissions, disabled, user, call, jobs,
                 linked>>

DeletePermissions ==
  /\ deletion = "tokens"
  /\ permissions' = {}
  /\ deletion' = "permissions"
  /\ UNCHANGED <<program, client, tokens, disabled, user, call, jobs, linked,
                 edits>>

DeleteRegistrations ==
  /\ deletion = "permissions"
  /\ linked' = linked \ {"registration"}
  /\ deletion' = "registrations"
  /\ UNCHANGED <<program, client, tokens, permissions, disabled, user, call,
                 jobs, edits>>

\* destroy of the row takes its permissions and tokens along in one
\* transaction, and raises while a job, a registration or a draft points at
\* what it would delete.
Destroyed ==
  /\ client
  /\ TokensFree
  /\ linked = {}
  /\ client' = FALSE
  /\ permissions' = {}
  /\ tokens' = Deleted
  /\ UNCHANGED <<program, disabled, user, call, jobs, linked>>

DestroyClient ==
  /\ deletion = "registrations"
  /\ Destroyed
  /\ deletion' = "done"
  /\ UNCHANGED edits

\* destroy! raised: the CLI stops there, and may be run again.
DeletionFails ==
  /\ deletion = "registrations"
  /\ ~(client /\ TokensFree /\ linked = {})
  /\ deletion' = "no"
  /\ UNCHANGED <<program, client, tokens, permissions, disabled, user, call,
                 jobs, linked, edits>>

\* ApiClientsController#destroy of the system panel.
RevokeClient ==
  /\ Edit
  /\ Destroyed
  /\ UNCHANGED deletion

CallStep ==
  \/ \E m \in Method : Prepare(m)
  \/ \E t \in Token : Setup(t) \/ Iterate(t) \/ Issue(t)
  \/ Receive \/ Admit \/ Refuse \/ Serve \/ Fail
  \/ \E s \in Slot : WithdrawJob(s) \/ Enqueue(s) \/ Work(s) \/ WorkRaises(s)

EditStep ==
  \/ \E granted \in PermissionEdits : EditPermissions(granted)
  \/ \E off \in ModuleEdits : SwitchModules(off)
  \/ \E t \in Token : Expire(t)
  \/ BlockUser
  \/ DeleteTokens \/ DeletePermissions \/ DeleteRegistrations
  \/ DestroyClient \/ DeletionFails \/ RevokeClient

Next == CallStep \/ EditStep

Spec == Init /\ [][Next]_vars

(* Properties *)

\* Types of the variables.
TypeOK ==
  /\ program \in Programs
  /\ client \in BOOLEAN
  /\ tokens \in [Token -> {"unissued", "live", "expired", "deleted"}]
  /\ permissions \subseteq Permission \cup GrantPermission
  /\ disabled \subseteq Feature
  /\ user \in {"usable", "blocked"}
  /\ call \in [stage : {"idle", "sent", "admitted", "answered"},
               route : {<<"", "">>} \cup DOMAIN Route,
               by : Method \cup {"none", "k6"}, token : Token \cup {"none"},
               given : SUBSET Parameter, answer : Answer]
  /\ call.stage # "idle" => call.route \in DOMAIN Route
  /\ jobs \in [Slot -> [status : {"none", "pending", "completed", "failed"},
                        route : {<<"", "">>} \cup DOMAIN Route,
                        token : Token \cup {"none"}]]
  /\ \A s \in Slot : jobs[s].status # "none" => jobs[s].route \in DOMAIN Route
  /\ linked \subseteq Row
  /\ deletion \in {"no", "tokens", "permissions", "registrations", "done"}
  /\ edits \in 0..MaxEdits

\* What no caller can repair from outside is in order: the client is there
\* with all its permissions, no module is off, the user may act.
AllInOrder ==
  /\ client
  /\ Permission \subseteq permissions
  /\ disabled = {}
  /\ user = "usable"

\* A token of a flow that the TypeScript client declares for the operation,
\* or any token where it asks for an authorization without naming a flow.
Declared(method, t) ==
  LET request == Operation[method].request
  IN  /\ request.flows # {} => Live(t) /\ FlowOf(t) \in request.flows
      /\ "authorization" \in request.required => Live(t)

\* The answers depend on what is there: a password that fits, a job to drop.
DependsOnData(route) == Route[route].effect \in {"token", "withdrawJob"}

\* A caller that follows the declarations of the TypeScript client, with a
\* token of a declared flow, of every scope and still live, is not turned away: neither
\* by the checks of the controller nor by the operation behind it.
DeclaredFlowServed ==
  [][(/\ program = "sdk" /\ call.by \in Method /\ call.stage # "answered"
      /\ AllInOrder /\ Declared(call.by, call.token)
      /\ ~DependsOnData(call.route))
     => call'.answer # "refused"]_vars

\* What is answered is of the type the TypeScript client promises its caller:
\* a job to poll where, and only where, it promises one, and a document where
\* it promises one.
AnswersAsTyped ==
  call.stage = "answered" /\ call.answer # "refused" /\ call.by \in Method =>
    LET promised == Operation[call.by].answer
    IN  /\ promised = "job" <=> call.answer = "job"
        /\ promised = "document" => call.answer = "document"

\* The answer of an iteration is one its check accepts, when the token of the
\* scenario was granted and everything else is in order: the scopes that the
\* setup asks for are enough for the requests that follow.
ChecksPass ==
  [][call.by = "k6" /\ call.stage # "answered" /\ call'.stage = "answered"
     /\ AllInOrder /\ Live(call.token) =>
       \E i \in K6!Scenario[program] :
         /\ <<i.verb, i.path>> = call.route
         /\ Carries(i, call.token)
         /\ call'.answer \in i.expected]_vars

\* What a worker carried out was within the scopes of the token it was asked
\* with, and was asked by a user where the operation is one of users, though
\* the worker looks at neither: edits and expiry between the request and its
\* execution take nothing away, and add nothing.
WritesInScope ==
  \A s \in Slot :
    jobs[s].status = "completed" =>
      LET endpoint == Route[jobs[s].route]
      IN  /\ endpoint.scopes \subseteq ScopesOf(jobs[s].token)
          /\ "anyone" \in {endpoint.user, endpoint.worker}
               \/ jobs[s].token \in Token \ {Service}

\* A client that is gone leaves no permission, no token, no job, and no row
\* that names it, whatever requests were under way while it was deleted; and
\* no job outlives its token.
GoneMeansNothingLeft ==
  /\ ~client =>
       /\ permissions = {}
       /\ linked = {}
       /\ \A t \in Token : tokens[t] \in {"unissued", "deleted"}
  /\ \A s \in Slot :
       jobs[s].status # "none" =>
         /\ jobs[s].token \in Token
         /\ tokens[jobs[s].token] \in {"live", "expired"}
=============================================================================

---------------------------- MODULE AccessProofs ----------------------------
(***************************************************************************)
(* What Access promises for any number of tokens, rows of jobs and edits.  *)
(* The first part holds whatever the tables of the client and of the       *)
(* endpoints say, as long as they fit together (TableAssumption); the      *)
(* second part reads the tables.                                           *)
(***************************************************************************)
EXTENDS Access, TLAPS

Routes == {<<"", "">>} \cup DOMAIN Route

Stage == {"idle", "sent", "admitted", "answered"}

Calls == [stage : Stage, route : Routes, by : Method \cup {"none", "k6"},
          token : Token \cup {"none"}, given : SUBSET Parameter,
          answer : Answer]

Jobs == [status : {"none", "pending", "completed", "failed"},
         route : Routes, token : Token \cup {"none"}]

\* The conjuncts of the type invariant that are about the call.
CallTyped ==
  /\ call \in Calls
  /\ call.stage # "idle" => call.route \in DOMAIN Route

\* The conjuncts about the rows of jobs.
JobsTyped ==
  /\ jobs \in [Slot -> Jobs]
  /\ \A s \in Slot : jobs[s].status # "none" => jobs[s].route \in DOMAIN Route

\* The conjuncts about the rest.
RestTyped ==
  /\ program \in Programs
  /\ client \in BOOLEAN
  /\ tokens \in [Token -> {"unissued", "live", "expired", "deleted"}]
  /\ permissions \subseteq Permission \cup GrantPermission
  /\ disabled \subseteq Feature
  /\ user \in {"usable", "blocked"}
  /\ linked \subseteq Row
  /\ deletion \in {"no", "tokens", "permissions", "registrations", "done"}
  /\ edits \in 0..MaxEdits

\* The type invariant is its three parts, in a state and in the next one.
LEMMA TypeOKParts == TypeOK <=> CallTyped /\ JobsTyped /\ RestTyped
  BY DEF TypeOK, CallTyped, JobsTyped, RestTyped, Calls, Jobs, Routes, Stage

LEMMA TypeOKPartsNext == TypeOK' <=> CallTyped' /\ JobsTyped' /\ RestTyped'
  BY DEF TypeOK, CallTyped, JobsTyped, RestTyped, Calls, Jobs, Routes, Stage

\* The record of no call is a call.
LEMMA IdleTyped ==
  /\ Idle \in Calls
  /\ Idle.stage = "idle" /\ Idle.token = "none"
  BY DEF Idle, Calls, Stage, Routes, Answer

LEMMA NoJobStatus == NoJob.status = "none"
  BY DEF NoJob

\* An answer leaves a call a call, with everything else as it was.
LEMMA RespondTyped ==
  ASSUME NEW answer \in Answer, CallTyped, call.stage # "idle",
         Respond(answer)
  PROVE  CallTyped'
  BY DEF CallTyped, Respond, Calls, Stage

\* A request of the TypeScript client is a call to a route.
LEMMA ArrivesTyped ==
  ASSUME NEW m \in Method, NEW t \in Token \cup {"none"}
  PROVE  LET c == Arrives(m, t, Operation[m].request.required)
         IN  c \in Calls /\ c.stage = "sent" /\ c.route \in DOMAIN Route
<1>1. Operation[m].request.required \in SUBSET Parameter
  BY DEF Parameter
<1>2. <<Operation[m].request.verb, Operation[m].request.path>> \in DOMAIN Route
  BY TableAssumption
<1> QED
  BY <1>1, <1>2 DEF Arrives, Idle, Calls, Stage, Routes, Answer

\* A bearer is a token or none.
LEMMA BearerTyped ==
  ASSUME NEW m \in Method, NEW bearer \in Bearers(m)
  PROVE  bearer \in Token \cup {"none"}
  BY DEF Bearers, localVarRequestOptions, setBearerAuthToObject

\* A request of an iteration is a call to a route.
LEMMA IterateTyped ==
  ASSUME NEW t \in Token, Iterate(t), program \in Programs
  PROVE  CallTyped'
<1>1. program \in DOMAIN K6!Scenario
  BY ProgramAssumption DEF Iterate
<1>2. PICK i \in K6!Scenario[program] :
        call' = [stage |-> "sent", route |-> <<i.verb, i.path>>,
                 by |-> "k6", token |-> t, given |-> i.sends,
                 answer |-> "none"]
  BY DEF Iterate
<1>3. <<i.verb, i.path>> \in DOMAIN Route
  BY <1>1, TableAssumption
<1>4. i.sends \in SUBSET Parameter
  BY <1>1 DEF Parameter
<1> QED
  BY <1>2, <1>3, <1>4 DEF CallTyped, Calls, Stage, Routes, Answer

-----------------------------------------------------------------------------
\* The initial states are typed.
LEMMA InitTypeOK == Init => TypeOK
<1> SUFFICES ASSUME Init PROVE TypeOK
  OBVIOUS
<1>1. CallTyped
  BY IdleTyped DEF Init, CallTyped
<1>2. JobsTyped
  BY DEF Init, JobsTyped, Jobs, NoJob, Routes
<1>3. RestTyped
  BY EditAssumption DEF Init, RestTyped
<1> QED
  BY <1>1, <1>2, <1>3, TypeOKParts

\* What the operations write of the linked rows stays within them.
LEMMA EffectTyped ==
  ASSUME NEW effect, linked \subseteq Row, Effect(effect)
  PROVE  linked' \subseteq Row
  BY DEF Effect, Row

\* Tokens are given and taken within their states.
LEMMA IssueTokenTyped ==
  ASSUME NEW t \in Token, IssueToken(t),
         tokens \in [Token -> {"unissued", "live", "expired", "deleted"}]
  PROVE  tokens' \in [Token -> {"unissued", "live", "expired", "deleted"}]
  BY DEF IssueToken

LEMMA DeletedTyped ==
  ASSUME tokens \in [Token -> {"unissued", "live", "expired", "deleted"}]
  PROVE  Deleted \in [Token -> {"unissued", "live", "expired", "deleted"}]
  BY DEF Deleted

\* The steps of a call keep the types.
LEMMA CallStepTyped ==
  ASSUME TypeOK, CallStep
  PROVE  TypeOK'
<1> USE TypeOKParts, TypeOKPartsNext
<1>1. ASSUME NEW m \in Method, Prepare(m) PROVE TypeOK'
  <2>1. PICK bearer \in Bearers(m) :
          call' = Arrives(m, bearer, Operation[m].request.required)
    BY <1>1 DEF Prepare
  <2>2. CallTyped'
    BY <2>1, BearerTyped, ArrivesTyped DEF CallTyped
  <2> QED
    BY <1>1, <2>2 DEF Prepare, server, JobsTyped, RestTyped
<1>2. ASSUME NEW t \in Token, Setup(t) PROVE TypeOK'
  BY <1>2, IssueTokenTyped DEF Setup, CallTyped, JobsTyped, RestTyped
<1>3. ASSUME NEW t \in Token, Iterate(t) PROVE TypeOK'
  <2>1. CallTyped'
    BY <1>3, IterateTyped DEF RestTyped
  <2> QED
    BY <1>3, <2>1 DEF Iterate, server, JobsTyped, RestTyped
<1>4. ASSUME NEW t \in Token, Issue(t) PROVE TypeOK'
  <2>1. CallTyped'
    BY <1>4, RespondTyped DEF Issue, Answer
  <2> QED
    BY <1>4, <2>1, IssueTokenTyped DEF Issue, JobsTyped, RestTyped
<1>5. CASE Receive
  BY <1>5, IdleTyped DEF Receive, server, CallTyped, JobsTyped, RestTyped
<1>6. CASE Admit
  BY <1>6 DEF Admit, server, CallTyped, Calls, Stage, JobsTyped, RestTyped
<1>7. CASE Refuse
  <2>1. CallTyped'
    BY <1>7, RespondTyped DEF Refuse, Answer
  <2> QED
    BY <1>7, <2>1 DEF Refuse, server, JobsTyped, RestTyped
<1>8. CASE Serve
  <2>1. Route[call.route].answer \in Answer
    BY <1>8, TableAssumption DEF Serve, CallTyped
  <2>2. CallTyped'
    BY <1>8, <2>1, RespondTyped DEF Serve
  <2>3. linked' \subseteq Row
    BY <1>8, EffectTyped DEF Serve, RestTyped
  <2> QED
    BY <1>8, <2>2, <2>3 DEF Serve, JobsTyped, RestTyped
<1>9. CASE Fail
  <2>1. CallTyped'
    BY <1>9, RespondTyped DEF Fail, Answer
  <2> QED
    BY <1>9, <2>1 DEF Fail, server, JobsTyped, RestTyped
<1>10. ASSUME NEW s \in Slot, WithdrawJob(s) PROVE TypeOK'
  <2>1. CallTyped'
    BY <1>10, RespondTyped DEF WithdrawJob, Answer
  <2>2. JobsTyped'
    BY <1>10 DEF WithdrawJob, JobsTyped, Jobs, NoJob, Routes
  <2> QED
    BY <1>10, <2>1, <2>2 DEF WithdrawJob, RestTyped
<1>11. ASSUME NEW s \in Slot, Enqueue(s) PROVE TypeOK'
  <2>1. CallTyped'
    BY <1>11, RespondTyped DEF Enqueue, Answer
  <2>2. JobsTyped'
    BY <1>11 DEF Enqueue, JobsTyped, Jobs, Routes, CallTyped, Live
  <2> QED
    BY <1>11, <2>1, <2>2 DEF Enqueue, RestTyped
<1>12. ASSUME NEW s \in Slot, Work(s) PROVE TypeOK'
  <2>1. linked' \subseteq Row
    BY <1>12, EffectTyped DEF Work, RestTyped
  <2>2. JobsTyped'
    BY <1>12 DEF Work, JobsTyped, Jobs
  <2> QED
    BY <1>12, <2>1, <2>2 DEF Work, CallTyped, RestTyped
<1>13. ASSUME NEW s \in Slot, WorkRaises(s) PROVE TypeOK'
  <2>1. JobsTyped'
    BY <1>13 DEF WorkRaises, JobsTyped, Jobs
  <2> QED
    BY <1>13, <2>1 DEF WorkRaises, CallTyped, RestTyped
<1> QED
  BY <1>1, <1>2, <1>3, <1>4, <1>5, <1>6, <1>7, <1>8, <1>9, <1>10, <1>11,
     <1>12, <1>13 DEF CallStep

\* An edit leaves the call and the jobs alone, and counts.
LEMMA EditTyped ==
  ASSUME RestTyped, Edit
  PROVE  edits' \in 0..MaxEdits
  BY EditAssumption DEF RestTyped, Edit

\* The edits, and the deletion of the client, keep the types.
LEMMA EditStepTyped ==
  ASSUME TypeOK, EditStep
  PROVE  TypeOK'
<1> USE TypeOKParts, TypeOKPartsNext
<1>1. CallTyped' /\ JobsTyped'
  BY DEF EditStep, EditPermissions, SwitchModules, Expire, BlockUser,
         DeleteTokens, DeletePermissions, DeleteRegistrations, DestroyClient,
         DeletionFails, RevokeClient, Destroyed, CallTyped, JobsTyped
<1>2. RestTyped'
  <2>1. ASSUME NEW granted \in PermissionEdits, EditPermissions(granted)
        PROVE RestTyped'
    BY <2>1, EditTyped, EditAssumption DEF EditPermissions, RestTyped
  <2>2. ASSUME NEW off \in ModuleEdits, SwitchModules(off)
        PROVE RestTyped'
    BY <2>2, EditTyped, EditAssumption DEF SwitchModules, RestTyped
  <2>3. ASSUME NEW t \in Token, Expire(t) PROVE RestTyped'
    BY <2>3, EditTyped DEF Expire, RestTyped
  <2>4. CASE BlockUser
    BY <2>4, EditTyped DEF BlockUser, RestTyped
  <2>5. CASE DeleteTokens
    BY <2>5, EditTyped, DeletedTyped DEF DeleteTokens, RestTyped
  <2>6. CASE DeletePermissions
    BY <2>6 DEF DeletePermissions, RestTyped
  <2>7. CASE DeleteRegistrations
    BY <2>7 DEF DeleteRegistrations, RestTyped
  <2>8. CASE DestroyClient
    BY <2>8, DeletedTyped DEF DestroyClient, Destroyed, RestTyped
  <2>9. CASE DeletionFails
    BY <2>9 DEF DeletionFails, RestTyped
  <2>10. CASE RevokeClient
    BY <2>10, EditTyped, DeletedTyped DEF RevokeClient, Destroyed, RestTyped
  <2> QED
    BY <2>1, <2>2, <2>3, <2>4, <2>5, <2>6, <2>7, <2>8, <2>9, <2>10
    DEF EditStep
<1> QED
  BY <1>1, <1>2

\* Every step keeps the types.
LEMMA NextTypeOK == TypeOK /\ [Next]_vars => TypeOK'
<1> SUFFICES ASSUME TypeOK, [Next]_vars PROVE TypeOK'
  OBVIOUS
<1>1. CASE UNCHANGED vars
  BY <1>1, TypeOKParts, TypeOKPartsNext
  DEF vars, CallTyped, JobsTyped, RestTyped
<1> QED
  BY <1>1, CallStepTyped, EditStepTyped DEF Next

\* The variables of Access keep their types, whatever the tables hold.
THEOREM AccessTypes == Spec => []TypeOK
  BY InitTypeOK, NextTypeOK, PTL DEF Spec

-----------------------------------------------------------------------------
\* A client that is gone leaves nothing behind.  With the types the property
\* is inductive: whatever would point at the client needs it to be there, or
\* a live token, and none is left.

\* No live token, and no job, without the client.
LEMMA NothingLeft ==
  ASSUME GoneMeansNothingLeft, ~client
  PROVE  /\ \A t \in Token : ~Live(t)
         /\ \A s \in Slot : jobs[s].status = "none"
  BY DEF GoneMeansNothingLeft, Live

\* What the operations write needs the client.
LEMMA EffectNeedsClient ==
  ASSUME NEW effect, ~client, linked = {}, Effect(effect)
  PROVE  linked' = {}
  BY DEF Effect

\* Tokens that a job points at stay when another is given.
LEMMA IssueTokenKeepsJobs ==
  ASSUME TypeOK, GoneMeansNothingLeft, NEW t \in Token, IssueToken(t),
         UNCHANGED jobs
  PROVE  \A s \in Slot :
           jobs'[s].status # "none" =>
             /\ jobs'[s].token \in Token
             /\ tokens'[jobs'[s].token] \in {"live", "expired"}
  BY TypeOKParts DEF IssueToken, GoneMeansNothingLeft, RestTyped

\* When no job is left any token may go.
LEMMA TokensGo ==
  ASSUME TypeOK
  PROVE  \A t \in Token : Deleted[t] \in {"unissued", "deleted"}
  BY TypeOKParts DEF Deleted, RestTyped

LEMMA CallStepLeavesNothing ==
  ASSUME TypeOK, GoneMeansNothingLeft, CallStep
  PROVE  GoneMeansNothingLeft'
<1>1. ASSUME NEW m \in Method, Prepare(m) PROVE GoneMeansNothingLeft'
  BY <1>1 DEF Prepare, server, GoneMeansNothingLeft
<1>2. ASSUME NEW t \in Token, Setup(t) PROVE GoneMeansNothingLeft'
  <2>1. client
    BY <1>2 DEF Setup, Grants
  <2> QED
    BY <1>2, <2>1, IssueTokenKeepsJobs DEF Setup, GoneMeansNothingLeft
<1>3. ASSUME NEW t \in Token, Iterate(t) PROVE GoneMeansNothingLeft'
  BY <1>3 DEF Iterate, server, GoneMeansNothingLeft
<1>4. ASSUME NEW t \in Token, Issue(t) PROVE GoneMeansNothingLeft'
  <2>1. client
    BY <1>4 DEF Issue, Grants
  <2> QED
    BY <1>4, <2>1, IssueTokenKeepsJobs DEF Issue, GoneMeansNothingLeft
<1>5. CASE Receive \/ Admit \/ Refuse \/ Fail
  BY <1>5 DEF Receive, Admit, Refuse, Fail, server, GoneMeansNothingLeft
<1>6. CASE Serve
  BY <1>6, EffectNeedsClient DEF Serve, GoneMeansNothingLeft
<1>7. ASSUME NEW s \in Slot, WithdrawJob(s) PROVE GoneMeansNothingLeft'
  BY <1>7, TypeOKParts
  DEF WithdrawJob, NoJob, JobsTyped, GoneMeansNothingLeft
<1>8. ASSUME NEW s \in Slot, Enqueue(s) PROVE GoneMeansNothingLeft'
  BY <1>8, NothingLeft, TypeOKParts
  DEF Enqueue, Live, JobsTyped, GoneMeansNothingLeft
<1>9. ASSUME NEW s \in Slot, Work(s) PROVE GoneMeansNothingLeft'
  <2>1. client
    BY <1>9, NothingLeft DEF Work
  <2> QED
    BY <1>9, <2>1, TypeOKParts DEF Work, JobsTyped, Jobs, GoneMeansNothingLeft
<1>10. ASSUME NEW s \in Slot, WorkRaises(s) PROVE GoneMeansNothingLeft'
  BY <1>10, TypeOKParts DEF WorkRaises, JobsTyped, Jobs, GoneMeansNothingLeft
<1> QED
  BY <1>1, <1>2, <1>3, <1>4, <1>5, <1>6, <1>7, <1>8, <1>9, <1>10 DEF CallStep

LEMMA EditStepLeavesNothing ==
  ASSUME TypeOK, GoneMeansNothingLeft, EditStep
  PROVE  GoneMeansNothingLeft'
<1>1. ASSUME NEW granted \in PermissionEdits, EditPermissions(granted)
      PROVE GoneMeansNothingLeft'
  BY <1>1 DEF EditPermissions, GoneMeansNothingLeft
<1>2. ASSUME NEW off \in ModuleEdits, SwitchModules(off)
      PROVE GoneMeansNothingLeft'
  BY <1>2 DEF SwitchModules, GoneMeansNothingLeft
<1>3. ASSUME NEW t \in Token, Expire(t) PROVE GoneMeansNothingLeft'
  BY <1>3, NothingLeft, TypeOKParts
  DEF Expire, Live, RestTyped, GoneMeansNothingLeft
<1>4. CASE BlockUser \/ DeletionFails
  BY <1>4 DEF BlockUser, DeletionFails, GoneMeansNothingLeft
<1>5. CASE DeleteTokens
  BY <1>5 DEF DeleteTokens, TokensFree, GoneMeansNothingLeft
<1>6. CASE DeletePermissions
  BY <1>6 DEF DeletePermissions, GoneMeansNothingLeft
<1>7. CASE DeleteRegistrations
  BY <1>7 DEF DeleteRegistrations, GoneMeansNothingLeft
<1>8. CASE DestroyClient \/ RevokeClient
  BY <1>8, TokensGo
  DEF DestroyClient, RevokeClient, Destroyed, TokensFree, GoneMeansNothingLeft
<1> QED
  BY <1>1, <1>2, <1>3, <1>4, <1>5, <1>6, <1>7, <1>8 DEF EditStep

\* A deleted client leaves no permission, no token, no job and no row that
\* names it, and no job outlives its token.
THEOREM NothingLeftBehind == Spec => []GoneMeansNothingLeft
<1>1. Init => GoneMeansNothingLeft
  BY NoJobStatus DEF Init, GoneMeansNothingLeft
<1>2. TypeOK /\ GoneMeansNothingLeft /\ [Next]_vars => GoneMeansNothingLeft'
  <2>1. UNCHANGED vars /\ GoneMeansNothingLeft => GoneMeansNothingLeft'
    BY DEF vars, GoneMeansNothingLeft
  <2> QED
    BY <2>1, CallStepLeavesNothing, EditStepLeavesNothing DEF Next
<1> QED
  BY <1>1, <1>2, AccessTypes, PTL DEF Spec

-----------------------------------------------------------------------------
\* What was asked within its scopes stays so until it is carried out: a
\* request that was admitted, and every row of jobs, carries a token of the
\* scopes its route asks for, and of a user where it asks for one.

InScope(route, t) ==
  /\ Route[route].scopes \subseteq ScopesOf(t)
  /\ Route[route].user # "anyone" => t \in Token \ {Service}

ScopeInv ==
  /\ call.stage = "admitted" => InScope(call.route, call.token)
  /\ \A s \in Slot :
       jobs[s].status # "none" => InScope(jobs[s].route, jobs[s].token)

\* The scopes of a token are those it was issued with.
LEMMA ScopesStay ==
  ASSUME program' = program, NEW route, NEW t
  PROVE  InScope(route, t)' <=> InScope(route, t)
  BY DEF InScope, ScopesOf

\* An invariant of the types and the scopes gives the property.
LEMMA ScopeInvSuffices == ScopeInv => WritesInScope
  BY DEF ScopeInv, InScope, WritesInScope

LEMMA NextScopeInv == TypeOK /\ ScopeInv /\ [Next]_vars => ScopeInv'
<1> SUFFICES ASSUME TypeOK, ScopeInv, [Next]_vars PROVE ScopeInv'
  OBVIOUS
<1> USE TypeOKParts
<1>1. program' = program
  BY DEF vars, server, Next, CallStep, EditStep, Prepare, Setup, Iterate,
         Issue, Receive, Admit, Refuse, Serve, Fail, WithdrawJob, Enqueue,
         Work, WorkRaises, EditPermissions, SwitchModules, Expire, BlockUser,
         DeleteTokens, DeletePermissions, DeleteRegistrations, DestroyClient,
         DeletionFails, RevokeClient, Destroyed
<1>2. \A route, t : InScope(route, t)' <=> InScope(route, t)
  BY <1>1, ScopesStay
<1>3. CASE EditStep \/ UNCHANGED vars
  <2>1. UNCHANGED <<call, jobs>>
    BY <1>3
    DEF vars, EditStep, EditPermissions, SwitchModules, Expire, BlockUser,
        DeleteTokens, DeletePermissions, DeleteRegistrations, DestroyClient,
        DeletionFails, RevokeClient, Destroyed
  <2> QED
    BY <1>2, <2>1 DEF ScopeInv
<1>4. ASSUME NEW m \in Method, Prepare(m) PROVE ScopeInv'
  BY <1>2, <1>4 DEF Prepare, server, Arrives, Idle, ScopeInv
<1>5. ASSUME NEW t \in Token, Setup(t) PROVE ScopeInv'
  BY <1>2, <1>5 DEF Setup, ScopeInv
<1>6. ASSUME NEW t \in Token, Iterate(t) PROVE ScopeInv'
  BY <1>2, <1>6 DEF Iterate, server, ScopeInv
<1>7. ASSUME NEW t \in Token, Issue(t) PROVE ScopeInv'
  BY <1>2, <1>7 DEF Issue, Respond, CallTyped, Calls, ScopeInv
<1>8. CASE Receive \/ Refuse \/ Fail \/ Serve
  <2>1. UNCHANGED jobs
    BY <1>8 DEF Receive, Refuse, Fail, Serve, server
  <2>2. call'.stage # "admitted"
    BY <1>8, IdleTyped
    DEF Receive, Refuse, Fail, Serve, Respond, CallTyped, Calls
  <2> QED
    BY <1>2, <2>1, <2>2 DEF ScopeInv
<1>9. CASE Admit
  <2>1. InScope(call.route, call.token)
    BY <1>9 DEF Admit, Admits, UserFits, InScope
  <2> QED
    BY <1>2, <1>9, <2>1 DEF Admit, server, CallTyped, Calls, ScopeInv
<1>10. ASSUME NEW s \in Slot, WithdrawJob(s) PROVE ScopeInv'
  BY <1>2, <1>10
  DEF WithdrawJob, Respond, NoJob, CallTyped, Calls, JobsTyped, ScopeInv
<1>11. ASSUME NEW s \in Slot, Enqueue(s) PROVE ScopeInv'
  BY <1>2, <1>11
  DEF Enqueue, Respond, CallTyped, Calls, JobsTyped, ScopeInv
<1>12. ASSUME NEW s \in Slot, Work(s) \/ WorkRaises(s) PROVE ScopeInv'
  BY <1>2, <1>12 DEF Work, WorkRaises, JobsTyped, Jobs, ScopeInv
<1> QED
  BY <1>3, <1>4, <1>5, <1>6, <1>7, <1>8, <1>9, <1>10, <1>11, <1>12
  DEF Next, CallStep

\* Whatever a worker carried out was asked within the scopes of its token.
THEOREM WorkersStayInScope == Spec => []WritesInScope
<1>1. Init => ScopeInv
  BY IdleTyped, NoJobStatus DEF Init, ScopeInv
<1> QED
  BY <1>1, NextScopeInv, ScopeInvSuffices, AccessTypes, PTL DEF Spec

-----------------------------------------------------------------------------
(* The tables.  What the constructors of Endpoints and NodeClient make is  *)
(* read off once, field by field; then every operation of the client is    *)
(* held against the action its request reaches.                            *)

Fields == {"feature", "bearer", "scopes", "grants", "user", "needs",
           "answer", "worker", "effect"}

Shaped(e) == e = [x \in Fields |-> e[x]]

\* The entries of the tables of the controllers.
LEMMA OpenIs ==
  \A f, a :
    LET d == Open(f, a) IN
         /\ Shaped(d)
         /\ d.bearer = FALSE /\ d.scopes = {}
         /\ {} \notin d.grants /\ d.user = "anyone"
         /\ d.needs = {} /\ d.answer = a
         /\ d.worker = "anyone" /\ d.effect = "none"
<1> TAKE f, a
<1> QED
  BY DEF Open, Shaped, Fields

LEMMA GuardedIs ==
  \A f, s, p, n, a :
    LET d == Guarded(f, s, p, n, a) IN
         /\ Shaped(d)
         /\ d.bearer = TRUE /\ d.scopes = {s}
         /\ {} \notin d.grants /\ d.user = "anyone"
         /\ d.needs = n /\ d.answer = a
         /\ d.worker = "anyone" /\ d.effect = "none"
<1>1. ASSUME NEW f, NEW s, NEW p, NEW n, NEW a
      PROVE  Shaped(Guarded(f, s, p, n, a))
  BY DEF Guarded, Open, Shaped, Fields
<1>2. \A f, s, p, n, a : {} \notin Guarded(f, s, p, n, a).grants
  BY DEF Guarded, Open
<1>3. \A f, s, p, n, a :
        LET d == Guarded(f, s, p, n, a) IN
        /\ d.bearer = TRUE /\ d.scopes = {s}
        /\ d.user = "anyone" /\ d.needs = n /\ d.answer = a
        /\ d.worker = "anyone" /\ d.effect = "none"
  BY DEF Guarded, Open
<1> QED
  BY <1>1, <1>2, <1>3

LEMMA BearsIs ==
  \A e :
    Shaped(e) =>
      LET d == Bears(e) IN
         /\ Shaped(d)
         /\ d.bearer = TRUE /\ d.scopes = e.scopes
         /\ d.grants = e.grants /\ d.user = e.user
         /\ d.needs = e.needs /\ d.answer = e.answer
         /\ d.worker = e.worker /\ d.effect = e.effect
<1> TAKE e
<1> HAVE Shaped(e)
<1> QED
  BY DEF Bears, Shaped, Fields

LEMMA NeedsIs ==
  \A e, n :
    Shaped(e) =>
      LET d == Needs(e, n) IN
         /\ Shaped(d)
         /\ d.bearer = e.bearer /\ d.scopes = e.scopes
         /\ d.grants = e.grants /\ d.user = e.user
         /\ d.needs = n /\ d.answer = e.answer
         /\ d.worker = e.worker /\ d.effect = e.effect
<1> TAKE e, n
<1> HAVE Shaped(e)
<1> QED
  BY DEF Needs, Shaped, Fields

LEMMA AlsoGrantIs ==
  \A e, p :
    Shaped(e) =>
      LET d == AlsoGrant(e, p) IN
         /\ Shaped(d)
         /\ d.bearer = e.bearer /\ d.scopes = e.scopes
         /\ ({} \notin e.grants => {} \notin d.grants) /\ d.user = e.user
         /\ d.needs = e.needs /\ d.answer = e.answer
         /\ d.worker = e.worker /\ d.effect = e.effect
<1> TAKE e, p
<1> HAVE Shaped(e)
<1> QED
  BY DEF AlsoGrant, Shaped, Fields

LEMMA GrantOneOfIs ==
  \A e, p :
    Shaped(e) =>
      LET d == GrantOneOf(e, p) IN
         /\ Shaped(d)
         /\ d.bearer = e.bearer /\ d.scopes = e.scopes
         /\ (p # {} => {} \notin d.grants) /\ d.user = e.user
         /\ d.needs = e.needs /\ d.answer = e.answer
         /\ d.worker = e.worker /\ d.effect = e.effect
<1> TAKE e, p
<1> HAVE Shaped(e)
<1> QED
  BY DEF GrantOneOf, Shaped, Fields

LEMMA ForIs ==
  \A e, u, w :
    Shaped(e) =>
      LET d == For(e, u, w) IN
         /\ Shaped(d)
         /\ d.bearer = e.bearer /\ d.scopes = e.scopes
         /\ d.grants = e.grants /\ d.user = u
         /\ d.needs = e.needs /\ d.answer = e.answer
         /\ d.worker = w /\ d.effect = e.effect
<1> TAKE e, u, w
<1> HAVE Shaped(e)
<1> QED
  BY DEF For, Shaped, Fields

LEMMA WritesIs ==
  \A e, x :
    Shaped(e) =>
      LET d == Writes(e, x) IN
         /\ Shaped(d)
         /\ d.bearer = e.bearer /\ d.scopes = e.scopes
         /\ d.grants = e.grants /\ d.user = e.user
         /\ d.needs = e.needs /\ d.answer = e.answer
         /\ d.worker = e.worker /\ d.effect = x
<1> TAKE e, x
<1> HAVE Shaped(e)
<1> QED
  BY DEF Writes, Shaped, Fields

LEMMA OnIs ==
  \A v, p, e : On(v, p, e).route = <<v, p>> /\ On(v, p, e).endpoint = e
  BY DEF On

\* The entries of the table of the client.
LEMMA TypesIs == \A r, a : Types(r, a).request = r /\ Types(r, a).answer = a
  BY DEF Types

LEMMA SendsIs ==
  \A v, p, n, f :
    LET r == Sends(v, p, n, f) IN
    r.verb = v /\ r.path = p /\ r.required = n /\ r.flows = f
  BY DEF Sends

LEMMA SendsBareIs ==
  \A v, p, n, f :
    LET r == SendsBare(v, p, n, f) IN
    r.verb = v /\ r.path = p /\ r.required = n /\ r.flows = f
  BY DEF Sends, SendsBare

\* A route is looked up among the actions, an operation among the functions.
LEMMA RouteIs ==
  /\ DOMAIN Route = {a.route : a \in Actions}
  /\ \A r \in DOMAIN Route :
       \E a \in Actions : a.route = r /\ a.endpoint = Route[r]
  BY Zenon DEF Route

LEMMA OperationIs ==
  ASSUME NEW m \in Method, NEW api \in ApiFp, m \in DOMAIN api
  PROVE  \E fp \in ApiFp : m \in DOMAIN fp /\ Operation[m] = fp[m]
  BY Zenon DEF Operation

\* The classes and the functions behind them have the same names.
LEMMA FunctionsOfClasses ==
  /\ DOMAIN AttachmentsApiFp = AttachmentsApi
  /\ DOMAIN BlogsApiFp = BlogsApi
  /\ DOMAIN ComponentsApiFp = ComponentsApi
  /\ DOMAIN DraftProposalsApiFp = DraftProposalsApi
  /\ DOMAIN FormsApiFp = FormsApi
  /\ DOMAIN JobsApiFp = JobsApi
  /\ DOMAIN MeetingsApiFp = MeetingsApi
  /\ DOMAIN OAuthApiFp = OAuthApi
  /\ DOMAIN OrganizationsApiFp = OrganizationsApi
  /\ DOMAIN OrganizationsExtendedDataApiFp = OrganizationsExtendedDataApi
  /\ DOMAIN ProposalsApiFp = ProposalsApi
  /\ DOMAIN RolesApiFp = RolesApi
  /\ DOMAIN SpacesApiFp = SpacesApi
  /\ DOMAIN UsersApiFp = UsersApi
  /\ DOMAIN WebhooksApiFp = WebhooksApi
  BY DEF AttachmentsApiFp, AttachmentsApi, BlogsApiFp, BlogsApi,
         ComponentsApiFp, ComponentsApi, DraftProposalsApiFp,
         DraftProposalsApi, FormsApiFp, FormsApi, JobsApiFp, JobsApi,
         MeetingsApiFp, MeetingsApi, OAuthApiFp, OAuthApi, OrganizationsApiFp,
         OrganizationsApi, OrganizationsExtendedDataApiFp,
         OrganizationsExtendedDataApi, ProposalsApiFp, ProposalsApi,
         RolesApiFp, RolesApi, SpacesApiFp, SpacesApi, UsersApiFp, UsersApi,
         WebhooksApiFp, WebhooksApi

\* No two classes have a method of the same name.
LEMMA OperationOfClass ==
  /\ \A m \in AttachmentsApi :
       m \in Method /\ Operation[m] = AttachmentsApiFp[m]
  /\ \A m \in BlogsApi : m \in Method /\ Operation[m] = BlogsApiFp[m]
  /\ \A m \in ComponentsApi : m \in Method /\ Operation[m] = ComponentsApiFp[m]
  /\ \A m \in DraftProposalsApi :
       m \in Method /\ Operation[m] = DraftProposalsApiFp[m]
  /\ \A m \in FormsApi : m \in Method /\ Operation[m] = FormsApiFp[m]
  /\ \A m \in JobsApi : m \in Method /\ Operation[m] = JobsApiFp[m]
  /\ \A m \in MeetingsApi : m \in Method /\ Operation[m] = MeetingsApiFp[m]
  /\ \A m \in OAuthApi : m \in Method /\ Operation[m] = OAuthApiFp[m]
  /\ \A m \in OrganizationsApi :
       m \in Method /\ Operation[m] = OrganizationsApiFp[m]
  /\ \A m \in OrganizationsExtendedDataApi :
       m \in Method /\ Operation[m] = OrganizationsExtendedDataApiFp[m]
  /\ \A m \in ProposalsApi : m \in Method /\ Operation[m] = ProposalsApiFp[m]
  /\ \A m \in RolesApi : m \in Method /\ Operation[m] = RolesApiFp[m]
  /\ \A m \in SpacesApi : m \in Method /\ Operation[m] = SpacesApiFp[m]
  /\ \A m \in UsersApi : m \in Method /\ Operation[m] = UsersApiFp[m]
  /\ \A m \in WebhooksApi : m \in Method /\ Operation[m] = WebhooksApiFp[m]
<1>1. ASSUME NEW m \in AttachmentsApi
      PROVE  m \in Method /\ Operation[m] = AttachmentsApiFp[m]
  <2>1. m \in Method /\ AttachmentsApiFp \in ApiFp
    BY DEF Method, ApiFp
  <2>2. PICK fp \in ApiFp : m \in DOMAIN fp /\ Operation[m] = fp[m]
    BY <2>1, OperationIs, FunctionsOfClasses
  <2> QED
    BY <2>1, <2>2, FunctionsOfClasses
    DEF ApiFp, AttachmentsApi, BlogsApi, ComponentsApi, DraftProposalsApi,
        FormsApi, JobsApi, MeetingsApi, OAuthApi, OrganizationsApi,
        OrganizationsExtendedDataApi, ProposalsApi, RolesApi, SpacesApi,
        UsersApi, WebhooksApi
<1>2. ASSUME NEW m \in BlogsApi
      PROVE  m \in Method /\ Operation[m] = BlogsApiFp[m]
  <2>1. m \in Method /\ BlogsApiFp \in ApiFp
    BY DEF Method, ApiFp
  <2>2. PICK fp \in ApiFp : m \in DOMAIN fp /\ Operation[m] = fp[m]
    BY <2>1, OperationIs, FunctionsOfClasses
  <2> QED
    BY <2>1, <2>2, FunctionsOfClasses
    DEF ApiFp, AttachmentsApi, BlogsApi, ComponentsApi, DraftProposalsApi,
        FormsApi, JobsApi, MeetingsApi, OAuthApi, OrganizationsApi,
        OrganizationsExtendedDataApi, ProposalsApi, RolesApi, SpacesApi,
        UsersApi, WebhooksApi
<1>3. ASSUME NEW m \in ComponentsApi
      PROVE  m \in Method /\ Operation[m] = ComponentsApiFp[m]
  <2>1. m \in Method /\ ComponentsApiFp \in ApiFp
    BY DEF Method, ApiFp
  <2>2. PICK fp \in ApiFp : m \in DOMAIN fp /\ Operation[m] = fp[m]
    BY <2>1, OperationIs, FunctionsOfClasses
  <2> QED
    BY <2>1, <2>2, FunctionsOfClasses
    DEF ApiFp, AttachmentsApi, BlogsApi, ComponentsApi, DraftProposalsApi,
        FormsApi, JobsApi, MeetingsApi, OAuthApi, OrganizationsApi,
        OrganizationsExtendedDataApi, ProposalsApi, RolesApi, SpacesApi,
        UsersApi, WebhooksApi
<1>4. ASSUME NEW m \in DraftProposalsApi
      PROVE  m \in Method /\ Operation[m] = DraftProposalsApiFp[m]
  <2>1. m \in Method /\ DraftProposalsApiFp \in ApiFp
    BY DEF Method, ApiFp
  <2>2. PICK fp \in ApiFp : m \in DOMAIN fp /\ Operation[m] = fp[m]
    BY <2>1, OperationIs, FunctionsOfClasses
  <2> QED
    BY <2>1, <2>2, FunctionsOfClasses
    DEF ApiFp, AttachmentsApi, BlogsApi, ComponentsApi, DraftProposalsApi,
        FormsApi, JobsApi, MeetingsApi, OAuthApi, OrganizationsApi,
        OrganizationsExtendedDataApi, ProposalsApi, RolesApi, SpacesApi,
        UsersApi, WebhooksApi
<1>5. ASSUME NEW m \in FormsApi
      PROVE  m \in Method /\ Operation[m] = FormsApiFp[m]
  <2>1. m \in Method /\ FormsApiFp \in ApiFp
    BY DEF Method, ApiFp
  <2>2. PICK fp \in ApiFp : m \in DOMAIN fp /\ Operation[m] = fp[m]
    BY <2>1, OperationIs, FunctionsOfClasses
  <2> QED
    BY <2>1, <2>2, FunctionsOfClasses
    DEF ApiFp, AttachmentsApi, BlogsApi, ComponentsApi, DraftProposalsApi,
        FormsApi, JobsApi, MeetingsApi, OAuthApi, OrganizationsApi,
        OrganizationsExtendedDataApi, ProposalsApi, RolesApi, SpacesApi,
        UsersApi, WebhooksApi
<1>6. ASSUME NEW m \in JobsApi
      PROVE  m \in Method /\ Operation[m] = JobsApiFp[m]
  <2>1. m \in Method /\ JobsApiFp \in ApiFp
    BY DEF Method, ApiFp
  <2>2. PICK fp \in ApiFp : m \in DOMAIN fp /\ Operation[m] = fp[m]
    BY <2>1, OperationIs, FunctionsOfClasses
  <2> QED
    BY <2>1, <2>2, FunctionsOfClasses
    DEF ApiFp, AttachmentsApi, BlogsApi, ComponentsApi, DraftProposalsApi,
        FormsApi, JobsApi, MeetingsApi, OAuthApi, OrganizationsApi,
        OrganizationsExtendedDataApi, ProposalsApi, RolesApi, SpacesApi,
        UsersApi, WebhooksApi
<1>7. ASSUME NEW m \in MeetingsApi
      PROVE  m \in Method /\ Operation[m] = MeetingsApiFp[m]
  <2>1. m \in Method /\ MeetingsApiFp \in ApiFp
    BY DEF Method, ApiFp
  <2>2. PICK fp \in ApiFp : m \in DOMAIN fp /\ Operation[m] = fp[m]
    BY <2>1, OperationIs, FunctionsOfClasses
  <2> QED
    BY <2>1, <2>2, FunctionsOfClasses
    DEF ApiFp, AttachmentsApi, BlogsApi, ComponentsApi, DraftProposalsApi,
        FormsApi, JobsApi, MeetingsApi, OAuthApi, OrganizationsApi,
        OrganizationsExtendedDataApi, ProposalsApi, RolesApi, SpacesApi,
        UsersApi, WebhooksApi
<1>8. ASSUME NEW m \in OAuthApi
      PROVE  m \in Method /\ Operation[m] = OAuthApiFp[m]
  <2>1. m \in Method /\ OAuthApiFp \in ApiFp
    BY DEF Method, ApiFp
  <2>2. PICK fp \in ApiFp : m \in DOMAIN fp /\ Operation[m] = fp[m]
    BY <2>1, OperationIs, FunctionsOfClasses
  <2> QED
    BY <2>1, <2>2, FunctionsOfClasses
    DEF ApiFp, AttachmentsApi, BlogsApi, ComponentsApi, DraftProposalsApi,
        FormsApi, JobsApi, MeetingsApi, OAuthApi, OrganizationsApi,
        OrganizationsExtendedDataApi, ProposalsApi, RolesApi, SpacesApi,
        UsersApi, WebhooksApi
<1>9. ASSUME NEW m \in OrganizationsApi
      PROVE  m \in Method /\ Operation[m] = OrganizationsApiFp[m]
  <2>1. m \in Method /\ OrganizationsApiFp \in ApiFp
    BY DEF Method, ApiFp
  <2>2. PICK fp \in ApiFp : m \in DOMAIN fp /\ Operation[m] = fp[m]
    BY <2>1, OperationIs, FunctionsOfClasses
  <2> QED
    BY <2>1, <2>2, FunctionsOfClasses
    DEF ApiFp, AttachmentsApi, BlogsApi, ComponentsApi, DraftProposalsApi,
        FormsApi, JobsApi, MeetingsApi, OAuthApi, OrganizationsApi,
        OrganizationsExtendedDataApi, ProposalsApi, RolesApi, SpacesApi,
        UsersApi, WebhooksApi
<1>10. ASSUME NEW m \in OrganizationsExtendedDataApi
      PROVE  m \in Method /\ Operation[m] = OrganizationsExtendedDataApiFp[m]
  <2>1. m \in Method /\ OrganizationsExtendedDataApiFp \in ApiFp
    BY DEF Method, ApiFp
  <2>2. PICK fp \in ApiFp : m \in DOMAIN fp /\ Operation[m] = fp[m]
    BY <2>1, OperationIs, FunctionsOfClasses
  <2> QED
    BY <2>1, <2>2, FunctionsOfClasses
    DEF ApiFp, AttachmentsApi, BlogsApi, ComponentsApi, DraftProposalsApi,
        FormsApi, JobsApi, MeetingsApi, OAuthApi, OrganizationsApi,
        OrganizationsExtendedDataApi, ProposalsApi, RolesApi, SpacesApi,
        UsersApi, WebhooksApi
<1>11. ASSUME NEW m \in ProposalsApi
      PROVE  m \in Method /\ Operation[m] = ProposalsApiFp[m]
  <2>1. m \in Method /\ ProposalsApiFp \in ApiFp
    BY DEF Method, ApiFp
  <2>2. PICK fp \in ApiFp : m \in DOMAIN fp /\ Operation[m] = fp[m]
    BY <2>1, OperationIs, FunctionsOfClasses
  <2> QED
    BY <2>1, <2>2, FunctionsOfClasses
    DEF ApiFp, AttachmentsApi, BlogsApi, ComponentsApi, DraftProposalsApi,
        FormsApi, JobsApi, MeetingsApi, OAuthApi, OrganizationsApi,
        OrganizationsExtendedDataApi, ProposalsApi, RolesApi, SpacesApi,
        UsersApi, WebhooksApi
<1>12. ASSUME NEW m \in RolesApi
      PROVE  m \in Method /\ Operation[m] = RolesApiFp[m]
  <2>1. m \in Method /\ RolesApiFp \in ApiFp
    BY DEF Method, ApiFp
  <2>2. PICK fp \in ApiFp : m \in DOMAIN fp /\ Operation[m] = fp[m]
    BY <2>1, OperationIs, FunctionsOfClasses
  <2> QED
    BY <2>1, <2>2, FunctionsOfClasses
    DEF ApiFp, AttachmentsApi, BlogsApi, ComponentsApi, DraftProposalsApi,
        FormsApi, JobsApi, MeetingsApi, OAuthApi, OrganizationsApi,
        OrganizationsExtendedDataApi, ProposalsApi, RolesApi, SpacesApi,
        UsersApi, WebhooksApi
<1>13. ASSUME NEW m \in SpacesApi
      PROVE  m \in Method /\ Operation[m] = SpacesApiFp[m]
  <2>1. m \in Method /\ SpacesApiFp \in ApiFp
    BY DEF Method, ApiFp
  <2>2. PICK fp \in ApiFp : m \in DOMAIN fp /\ Operation[m] = fp[m]
    BY <2>1, OperationIs, FunctionsOfClasses
  <2> QED
    BY <2>1, <2>2, FunctionsOfClasses
    DEF ApiFp, AttachmentsApi, BlogsApi, ComponentsApi, DraftProposalsApi,
        FormsApi, JobsApi, MeetingsApi, OAuthApi, OrganizationsApi,
        OrganizationsExtendedDataApi, ProposalsApi, RolesApi, SpacesApi,
        UsersApi, WebhooksApi
<1>14. ASSUME NEW m \in UsersApi
      PROVE  m \in Method /\ Operation[m] = UsersApiFp[m]
  <2>1. m \in Method /\ UsersApiFp \in ApiFp
    BY DEF Method, ApiFp
  <2>2. PICK fp \in ApiFp : m \in DOMAIN fp /\ Operation[m] = fp[m]
    BY <2>1, OperationIs, FunctionsOfClasses
  <2> QED
    BY <2>1, <2>2, FunctionsOfClasses
    DEF ApiFp, AttachmentsApi, BlogsApi, ComponentsApi, DraftProposalsApi,
        FormsApi, JobsApi, MeetingsApi, OAuthApi, OrganizationsApi,
        OrganizationsExtendedDataApi, ProposalsApi, RolesApi, SpacesApi,
        UsersApi, WebhooksApi
<1>15. ASSUME NEW m \in WebhooksApi
      PROVE  m \in Method /\ Operation[m] = WebhooksApiFp[m]
  <2>1. m \in Method /\ WebhooksApiFp \in ApiFp
    BY DEF Method, ApiFp
  <2>2. PICK fp \in ApiFp : m \in DOMAIN fp /\ Operation[m] = fp[m]
    BY <2>1, OperationIs, FunctionsOfClasses
  <2> QED
    BY <2>1, <2>2, FunctionsOfClasses
    DEF ApiFp, AttachmentsApi, BlogsApi, ComponentsApi, DraftProposalsApi,
        FormsApi, JobsApi, MeetingsApi, OAuthApi, OrganizationsApi,
        OrganizationsExtendedDataApi, ProposalsApi, RolesApi, SpacesApi,
        UsersApi, WebhooksApi
<1> QED
  BY <1>1, <1>2, <1>3, <1>4, <1>5, <1>6, <1>7, <1>8, <1>9, <1>10, <1>11, <1>12,
     <1>13, <1>14, <1>15

\* What holds between an operation of the client and the action it reaches:
\* the answer is of the promised type, and the checks ask for no more than a
\* caller who follows the declarations brings.
Suits(o, e) ==
  /\ e.answer \in {"job", "document", "nothing"}
  /\ o.answer = "job" <=> e.answer = "job"
  /\ o.answer = "document" => e.answer = "document"
  /\ e.effect = "token" => e.answer = "document"
  /\ e.effect = "withdrawJob" => e.answer = "nothing"
  /\ {} \notin e.grants
  /\ e.needs \subseteq o.request.required
  /\ e.bearer = TRUE => \/ o.request.flows # {}
                        \/ "authorization" \in o.request.required
  /\ o.request.flows = {} => e.scopes = {} /\ e.answer # "job"
  /\ o.request.flows = {} \/ "credential" \in o.request.flows =>
       e.user = "anyone" /\ e.worker = "anyone"
  /\ "resourceOwner" \in o.request.flows => "system" \notin e.scopes

RequestOf(o) == <<o.request.verb, o.request.path>>

LEMMA AttachmentsSuit ==
  ASSUME NEW m \in AttachmentsApi, NEW a \in Actions,
         a.route = RequestOf(Operation[m])
  PROVE  Suits(Operation[m], a.endpoint)
<1>1. Operation[m] \in
        {Types(attachmentsDirectUpload, "document"),
         Types(listAttachments, "document"), Types(showAttachment, "document")}
  BY OperationOfClass DEF AttachmentsApi, AttachmentsApiFp
<1>2. a.route \in
        {<<"POST", "/attachments/direct_upload">>, <<"GET", "/attachments">>,
         <<"GET", "/attachments/:id">>}
  BY <1>1, TypesIs, SendsIs
  DEF RequestOf, attachmentsDirectUpload, listAttachments, showAttachment
<1>3. a \in AttachmentsController
  BY <1>2, OnIs
  DEF Actions, TokensController, JobsController, OrganizationsController,
      OrganizationExtendedDataController, ComponentsController,
      ProposalComponentsController, BlogComponentsController,
      ComponentExtendedDataController, SpacesController,
      SpaceExtendedDataController, RolesController, UsersController,
      UserExtendedDataController, MagicLinksController,
      WebhookRegistrationsController, WebhookEventsController, BlogsController,
      DraftProposalsController, ProposalsController,
      ProposalExtendedDataController, VoteProposalsController,
      MeetingsController, MeetingExtendedDataController,
      QuestionnairesController, QuestionsController, AnswersController,
      QuestionnaireResponsesController
<1>4. CASE Operation[m] = Types(attachmentsDirectUpload, "document")
  BY <1>3, <1>4, TypesIs, SendsIs, OnIs, GuardedIs
  DEF RequestOf, Suits, attachmentsDirectUpload, AttachmentsController
<1>5. CASE Operation[m] = Types(listAttachments, "document")
  BY <1>3, <1>5, TypesIs, SendsIs, OnIs, GuardedIs
  DEF RequestOf, Suits, listAttachments, AttachmentsController
<1>6. CASE Operation[m] = Types(showAttachment, "document")
  BY <1>3, <1>6, TypesIs, SendsIs, OnIs, GuardedIs
  DEF RequestOf, Suits, showAttachment, AttachmentsController
<1> QED
  BY <1>1, <1>4, <1>5, <1>6

LEMMA BlogsSuit ==
  ASSUME NEW m \in BlogsApi, NEW a \in Actions,
         a.route = RequestOf(Operation[m])
  PROVE  Suits(Operation[m], a.endpoint)
<1>1. Operation[m] \in
        {Types(createBlogPostAsync, "job"), Types(deleteBlogPostAsync, "job"),
         Types(getBlogPost, "document"), Types(listBlogPosts, "document")}
  BY OperationOfClass DEF BlogsApi, BlogsApiFp
<1>2. a.route \in
        {<<"POST", "/blogs">>, <<"DELETE", "/blogs/:id">>,
         <<"GET", "/blogs/:id">>, <<"GET", "/blogs">>}
  BY <1>1, TypesIs, SendsIs
  DEF RequestOf, createBlogPostAsync, deleteBlogPostAsync, getBlogPost,
      listBlogPosts
<1>3. a \in BlogsController
  BY <1>2, OnIs
  DEF Actions, TokensController, JobsController, OrganizationsController,
      OrganizationExtendedDataController, ComponentsController,
      ProposalComponentsController, BlogComponentsController,
      ComponentExtendedDataController, SpacesController,
      SpaceExtendedDataController, RolesController, UsersController,
      UserExtendedDataController, MagicLinksController, AttachmentsController,
      WebhookRegistrationsController, WebhookEventsController,
      DraftProposalsController, ProposalsController,
      ProposalExtendedDataController, VoteProposalsController,
      MeetingsController, MeetingExtendedDataController,
      QuestionnairesController, QuestionsController, AnswersController,
      QuestionnaireResponsesController
<1>4. CASE Operation[m] = Types(createBlogPostAsync, "job")
  BY <1>3, <1>4, TypesIs, SendsIs, OnIs, GuardedIs, ForIs
  DEF RequestOf, Suits, createBlogPostAsync, BlogsController
<1>5. CASE Operation[m] = Types(deleteBlogPostAsync, "job")
  BY <1>3, <1>5, TypesIs, SendsIs, OnIs, GuardedIs, ForIs
  DEF RequestOf, Suits, deleteBlogPostAsync, BlogsController
<1>6. CASE Operation[m] = Types(getBlogPost, "document")
  BY <1>3, <1>6, TypesIs, SendsIs, OnIs, GuardedIs, ForIs
  DEF RequestOf, Suits, getBlogPost, BlogsController
<1>7. CASE Operation[m] = Types(listBlogPosts, "document")
  BY <1>3, <1>7, TypesIs, SendsIs, OnIs, GuardedIs, ForIs
  DEF RequestOf, Suits, listBlogPosts, BlogsController
<1> QED
  BY <1>1, <1>4, <1>5, <1>6, <1>7

LEMMA ComponentsSuit ==
  ASSUME NEW m \in ComponentsApi, NEW a \in Actions,
         a.route = RequestOf(Operation[m])
  PROVE  Suits(Operation[m], a.endpoint)
<1>1. Operation[m] \in
        {Types(getComponentExtendedData, "document"),
         Types(listBlogComponents, "document"),
         Types(listProposalComponents, "document"),
         Types(searchComponents, "document"),
         Types(setComponentExtendedData, "document"),
         Types(showBlogComponent, "document"),
         Types(showProposalComponent, "document")}
  BY OperationOfClass DEF ComponentsApi, ComponentsApiFp
<1>2. a.route \in
        {<<"GET", "/components/:id/extended_data">>,
         <<"GET", "/components/blog_components">>,
         <<"GET", "/components/proposal_components">>,
         <<"GET", "/components/search">>,
         <<"PUT", "/components/:id/extended_data/sync">>,
         <<"GET", "/components/blog_components/:id">>,
         <<"GET", "/components/proposal_components/:id">>}
  BY <1>1, TypesIs, SendsIs
  DEF RequestOf, getComponentExtendedData, listBlogComponents,
      listProposalComponents, searchComponents, setComponentExtendedData,
      showBlogComponent, showProposalComponent
<1>3. a \in UNION {ComponentExtendedDataController, BlogComponentsController,
                  ProposalComponentsController, ComponentsController}
  BY <1>2, OnIs
  DEF Actions, TokensController, JobsController, OrganizationsController,
      OrganizationExtendedDataController, SpacesController,
      SpaceExtendedDataController, RolesController, UsersController,
      UserExtendedDataController, MagicLinksController, AttachmentsController,
      WebhookRegistrationsController, WebhookEventsController, BlogsController,
      DraftProposalsController, ProposalsController,
      ProposalExtendedDataController, VoteProposalsController,
      MeetingsController, MeetingExtendedDataController,
      QuestionnairesController, QuestionsController, AnswersController,
      QuestionnaireResponsesController
<1>4. CASE Operation[m] = Types(getComponentExtendedData, "document")
  <2>1. a \in ComponentExtendedDataController
    BY <1>3, <1>4, TypesIs, SendsIs, OnIs
    DEF RequestOf, getComponentExtendedData, BlogComponentsController,
        ProposalComponentsController, ComponentsController
  <2> QED
    BY <2>1, <1>4, TypesIs, SendsIs, OnIs, GuardedIs, AlsoGrantIs
    DEF RequestOf, Suits, getComponentExtendedData,
        ComponentExtendedDataController
<1>5. CASE Operation[m] = Types(listBlogComponents, "document")
  <2>1. a \in BlogComponentsController
    BY <1>3, <1>5, TypesIs, SendsIs, OnIs
    DEF RequestOf, listBlogComponents, ComponentExtendedDataController,
        ProposalComponentsController, ComponentsController
  <2> QED
    BY <2>1, <1>5, TypesIs, SendsIs, OnIs, GuardedIs
    DEF RequestOf, Suits, listBlogComponents, BlogComponentsController
<1>6. CASE Operation[m] = Types(listProposalComponents, "document")
  <2>1. a \in ProposalComponentsController
    BY <1>3, <1>6, TypesIs, SendsIs, OnIs
    DEF RequestOf, listProposalComponents, ComponentExtendedDataController,
        BlogComponentsController, ComponentsController
  <2> QED
    BY <2>1, <1>6, TypesIs, SendsIs, OnIs, GuardedIs
    DEF RequestOf, Suits, listProposalComponents, ProposalComponentsController
<1>7. CASE Operation[m] = Types(searchComponents, "document")
  <2>1. a \in ComponentsController
    BY <1>3, <1>7, TypesIs, SendsIs, OnIs
    DEF RequestOf, searchComponents, ComponentExtendedDataController,
        BlogComponentsController, ProposalComponentsController
  <2> QED
    BY <2>1, <1>7, TypesIs, SendsIs, OnIs, GuardedIs
    DEF RequestOf, Suits, searchComponents, ComponentsController
<1>8. CASE Operation[m] = Types(setComponentExtendedData, "document")
  <2>1. a \in ComponentExtendedDataController
    BY <1>3, <1>8, TypesIs, SendsIs, OnIs
    DEF RequestOf, setComponentExtendedData, BlogComponentsController,
        ProposalComponentsController, ComponentsController
  <2> QED
    BY <2>1, <1>8, TypesIs, SendsIs, OnIs, GuardedIs, AlsoGrantIs
    DEF RequestOf, Suits, setComponentExtendedData,
        ComponentExtendedDataController
<1>9. CASE Operation[m] = Types(showBlogComponent, "document")
  <2>1. a \in BlogComponentsController
    BY <1>3, <1>9, TypesIs, SendsIs, OnIs
    DEF RequestOf, showBlogComponent, ComponentExtendedDataController,
        ProposalComponentsController, ComponentsController
  <2> QED
    BY <2>1, <1>9, TypesIs, SendsIs, OnIs, GuardedIs
    DEF RequestOf, Suits, showBlogComponent, BlogComponentsController
<1>10. CASE Operation[m] = Types(showProposalComponent, "document")
  <2>1. a \in ProposalComponentsController
    BY <1>3, <1>10, TypesIs, SendsIs, OnIs
    DEF RequestOf, showProposalComponent, ComponentExtendedDataController,
        BlogComponentsController, ComponentsController
  <2> QED
    BY <2>1, <1>10, TypesIs, SendsIs, OnIs, GuardedIs
    DEF RequestOf, Suits, showProposalComponent, ProposalComponentsController
<1> QED
  BY <1>1, <1>4, <1>5, <1>6, <1>7, <1>8, <1>9, <1>10

LEMMA DraftProposalsSuit ==
  ASSUME NEW m \in DraftProposalsApi, NEW a \in Actions,
         a.route = RequestOf(Operation[m])
  PROVE  Suits(Operation[m], a.endpoint)
<1>1. Operation[m] \in
        {Types(createDraftProposal, "document"),
         Types(getDraftProposal, "document"),
         Types(publishDraftProposal, "document"),
         Types(publishDraftProposalAsync, "job"),
         Types(updateDraftProposal, "document"),
         Types(withdrawDraftProposal, "document")}
  BY OperationOfClass DEF DraftProposalsApi, DraftProposalsApiFp
<1>2. a.route \in
        {<<"POST", "/draft_proposals/sync">>,
         <<"GET", "/draft_proposals/:id">>,
         <<"POST", "/draft_proposals/:id/publish/sync">>,
         <<"POST", "/draft_proposals/:id/publish">>,
         <<"PUT", "/draft_proposals/:id/sync">>,
         <<"DELETE", "/draft_proposals/:id/sync">>}
  BY <1>1, TypesIs, SendsIs
  DEF RequestOf, createDraftProposal, getDraftProposal, publishDraftProposal,
      publishDraftProposalAsync, updateDraftProposal, withdrawDraftProposal
<1>3. a \in DraftProposalsController
  BY <1>2, OnIs
  DEF Actions, TokensController, JobsController, OrganizationsController,
      OrganizationExtendedDataController, ComponentsController,
      ProposalComponentsController, BlogComponentsController,
      ComponentExtendedDataController, SpacesController,
      SpaceExtendedDataController, RolesController, UsersController,
      UserExtendedDataController, MagicLinksController, AttachmentsController,
      WebhookRegistrationsController, WebhookEventsController, BlogsController,
      ProposalsController, ProposalExtendedDataController,
      VoteProposalsController, MeetingsController,
      MeetingExtendedDataController, QuestionnairesController,
      QuestionsController, AnswersController, QuestionnaireResponsesController
<1>4. CASE Operation[m] = Types(createDraftProposal, "document")
  BY <1>3, <1>4, TypesIs, SendsIs, OnIs, GuardedIs, ForIs, WritesIs
  DEF RequestOf, Suits, createDraftProposal, DraftProposalsController
<1>5. CASE Operation[m] = Types(getDraftProposal, "document")
  BY <1>3, <1>5, TypesIs, SendsIs, OnIs, GuardedIs, ForIs, WritesIs
  DEF RequestOf, Suits, getDraftProposal, DraftProposalsController
<1>6. CASE Operation[m] = Types(publishDraftProposal, "document")
  BY <1>3, <1>6, TypesIs, SendsIs, OnIs, GuardedIs, ForIs, WritesIs
  DEF RequestOf, Suits, publishDraftProposal, DraftProposalsController
<1>7. CASE Operation[m] = Types(publishDraftProposalAsync, "job")
  BY <1>3, <1>7, TypesIs, SendsIs, OnIs, GuardedIs, ForIs, WritesIs
  DEF RequestOf, Suits, publishDraftProposalAsync, DraftProposalsController
<1>8. CASE Operation[m] = Types(updateDraftProposal, "document")
  BY <1>3, <1>8, TypesIs, SendsIs, OnIs, GuardedIs, ForIs, WritesIs
  DEF RequestOf, Suits, updateDraftProposal, DraftProposalsController
<1>9. CASE Operation[m] = Types(withdrawDraftProposal, "document")
  BY <1>3, <1>9, TypesIs, SendsIs, OnIs, GuardedIs, ForIs, WritesIs
  DEF RequestOf, Suits, withdrawDraftProposal, DraftProposalsController
<1> QED
  BY <1>1, <1>4, <1>5, <1>6, <1>7, <1>8, <1>9

LEMMA FormsSuit ==
  ASSUME NEW m \in FormsApi, NEW a \in Actions,
         a.route = RequestOf(Operation[m])
  PROVE  Suits(Operation[m], a.endpoint)
<1>1. Operation[m] \in
        {Types(createAnswers, "document"), Types(createAnswersAsync, "job"),
         Types(createQuestions, "document"),
         Types(createQuestionsAsync, "job"),
         Types(getQuestionnaire, "document"),
         Types(getQuestionnaireResponse, "document"),
         Types(listQuestionnaires, "document"),
         Types(listQuestions, "document"),
         Types(updateQuestionnaire, "nothing"),
         Types(updateQuestionnaireAsync, "job")}
  BY OperationOfClass DEF FormsApi, FormsApiFp
<1>2. a.route \in
        {<<"POST", "/answers/sync">>, <<"POST", "/answers">>,
         <<"POST", "/questions/sync">>, <<"POST", "/questions">>,
         <<"GET", "/questionnaires/:id">>,
         <<"GET", "/questionnaire_responses/:id">>,
         <<"GET", "/questionnaires">>, <<"GET", "/questions">>,
         <<"PUT", "/questionnaires/:id/sync">>,
         <<"PUT", "/questionnaires/:id">>}
  BY <1>1, TypesIs, SendsIs
  DEF RequestOf, createAnswers, createAnswersAsync, createQuestions,
      createQuestionsAsync, getQuestionnaire, getQuestionnaireResponse,
      listQuestionnaires, listQuestions, updateQuestionnaire,
      updateQuestionnaireAsync
<1>3. a \in UNION {AnswersController,
                  QuestionsController, QuestionnairesController,
                  QuestionnaireResponsesController}
  BY <1>2, OnIs
  DEF Actions, TokensController, JobsController, OrganizationsController,
      OrganizationExtendedDataController, ComponentsController,
      ProposalComponentsController, BlogComponentsController,
      ComponentExtendedDataController, SpacesController,
      SpaceExtendedDataController, RolesController, UsersController,
      UserExtendedDataController, MagicLinksController, AttachmentsController,
      WebhookRegistrationsController, WebhookEventsController, BlogsController,
      DraftProposalsController, ProposalsController,
      ProposalExtendedDataController, VoteProposalsController,
      MeetingsController, MeetingExtendedDataController
<1>4. CASE Operation[m] = Types(createAnswers, "document")
  <2>1. a \in AnswersController
    BY <1>3, <1>4, TypesIs, SendsIs, OnIs
    DEF RequestOf, createAnswers, QuestionsController,
        QuestionnairesController, QuestionnaireResponsesController
  <2> QED
    BY <2>1, <1>4, TypesIs, SendsIs, OnIs, GuardedIs
    DEF RequestOf, Suits, createAnswers, AnswersController
<1>5. CASE Operation[m] = Types(createAnswersAsync, "job")
  <2>1. a \in AnswersController
    BY <1>3, <1>5, TypesIs, SendsIs, OnIs
    DEF RequestOf, createAnswersAsync, QuestionsController,
        QuestionnairesController, QuestionnaireResponsesController
  <2> QED
    BY <2>1, <1>5, TypesIs, SendsIs, OnIs, GuardedIs
    DEF RequestOf, Suits, createAnswersAsync, AnswersController
<1>6. CASE Operation[m] = Types(createQuestions, "document")
  <2>1. a \in QuestionsController
    BY <1>3, <1>6, TypesIs, SendsIs, OnIs
    DEF RequestOf, createQuestions, AnswersController,
        QuestionnairesController, QuestionnaireResponsesController
  <2> QED
    BY <2>1, <1>6, TypesIs, SendsIs, OnIs, GuardedIs
    DEF RequestOf, Suits, createQuestions, QuestionsController
<1>7. CASE Operation[m] = Types(createQuestionsAsync, "job")
  <2>1. a \in QuestionsController
    BY <1>3, <1>7, TypesIs, SendsIs, OnIs
    DEF RequestOf, createQuestionsAsync, AnswersController,
        QuestionnairesController, QuestionnaireResponsesController
  <2> QED
    BY <2>1, <1>7, TypesIs, SendsIs, OnIs, GuardedIs
    DEF RequestOf, Suits, createQuestionsAsync, QuestionsController
<1>8. CASE Operation[m] = Types(getQuestionnaire, "document")
  <2>1. a \in QuestionnairesController
    BY <1>3, <1>8, TypesIs, SendsIs, OnIs
    DEF RequestOf, getQuestionnaire, AnswersController, QuestionsController,
        QuestionnaireResponsesController
  <2> QED
    BY <2>1, <1>8, TypesIs, SendsIs, OnIs, GuardedIs, GrantOneOfIs
    DEF RequestOf, Suits, getQuestionnaire, QuestionnairesController
<1>9. CASE Operation[m] = Types(getQuestionnaireResponse, "document")
  <2>1. a \in QuestionnaireResponsesController
    BY <1>3, <1>9, TypesIs, SendsIs, OnIs
    DEF RequestOf, getQuestionnaireResponse, AnswersController,
        QuestionsController, QuestionnairesController
  <2> QED
    BY <2>1, <1>9, TypesIs, SendsIs, OnIs, GuardedIs
    DEF RequestOf, Suits, getQuestionnaireResponse,
        QuestionnaireResponsesController
<1>10. CASE Operation[m] = Types(listQuestionnaires, "document")
  <2>1. a \in QuestionnairesController
    BY <1>3, <1>10, TypesIs, SendsIs, OnIs
    DEF RequestOf, listQuestionnaires, AnswersController, QuestionsController,
        QuestionnaireResponsesController
  <2> QED
    BY <2>1, <1>10, TypesIs, SendsIs, OnIs, GuardedIs, GrantOneOfIs
    DEF RequestOf, Suits, listQuestionnaires, QuestionnairesController
<1>11. CASE Operation[m] = Types(listQuestions, "document")
  <2>1. a \in QuestionsController
    BY <1>3, <1>11, TypesIs, SendsIs, OnIs
    DEF RequestOf, listQuestions, AnswersController, QuestionnairesController,
        QuestionnaireResponsesController
  <2> QED
    BY <2>1, <1>11, TypesIs, SendsIs, OnIs, GuardedIs
    DEF RequestOf, Suits, listQuestions, QuestionsController
<1>12. CASE Operation[m] = Types(updateQuestionnaire, "nothing")
  <2>1. a \in QuestionnairesController
    BY <1>3, <1>12, TypesIs, SendsIs, OnIs
    DEF RequestOf, updateQuestionnaire, AnswersController, QuestionsController,
        QuestionnaireResponsesController
  <2> QED
    BY <2>1, <1>12, TypesIs, SendsIs, OnIs, GuardedIs, GrantOneOfIs
    DEF RequestOf, Suits, updateQuestionnaire, QuestionnairesController
<1>13. CASE Operation[m] = Types(updateQuestionnaireAsync, "job")
  <2>1. a \in QuestionnairesController
    BY <1>3, <1>13, TypesIs, SendsIs, OnIs
    DEF RequestOf, updateQuestionnaireAsync, AnswersController,
        QuestionsController, QuestionnaireResponsesController
  <2> QED
    BY <2>1, <1>13, TypesIs, SendsIs, OnIs, GuardedIs, GrantOneOfIs
    DEF RequestOf, Suits, updateQuestionnaireAsync, QuestionnairesController
<1> QED
  BY <1>1, <1>4, <1>5, <1>6, <1>7, <1>8, <1>9, <1>10, <1>11, <1>12, <1>13

LEMMA JobsSuit ==
  ASSUME NEW m \in JobsApi, NEW a \in Actions,
         a.route = RequestOf(Operation[m])
  PROVE  Suits(Operation[m], a.endpoint)
<1>1. Operation[m] \in
        {Types(deleteJob, "nothing"), Types(getJob, "document"),
         Types(listJobs, "document")}
  BY OperationOfClass DEF JobsApi, JobsApiFp
<1>2. a.route \in
        {<<"DELETE", "/jobs/:id">>, <<"GET", "/jobs/:id">>, <<"GET", "/jobs">>}
  BY <1>1, TypesIs, SendsIs, SendsBareIs
  DEF RequestOf, deleteJob, getJob, listJobs
<1>3. a \in JobsController
  BY <1>2, OnIs
  DEF Actions, TokensController, OrganizationsController,
      OrganizationExtendedDataController, ComponentsController,
      ProposalComponentsController, BlogComponentsController,
      ComponentExtendedDataController, SpacesController,
      SpaceExtendedDataController, RolesController, UsersController,
      UserExtendedDataController, MagicLinksController, AttachmentsController,
      WebhookRegistrationsController, WebhookEventsController, BlogsController,
      DraftProposalsController, ProposalsController,
      ProposalExtendedDataController, VoteProposalsController,
      MeetingsController, MeetingExtendedDataController,
      QuestionnairesController, QuestionsController, AnswersController,
      QuestionnaireResponsesController
<1>4. CASE Operation[m] = Types(deleteJob, "nothing")
  BY <1>3, <1>4, TypesIs, SendsIs, OnIs, OpenIs, BearsIs, NeedsIs, WritesIs
  DEF RequestOf, Suits, deleteJob, JobsController
<1>5. CASE Operation[m] = Types(getJob, "document")
  BY <1>3, <1>5, TypesIs, SendsBareIs, OnIs, OpenIs, BearsIs, NeedsIs, WritesIs
  DEF RequestOf, Suits, getJob, JobsController
<1>6. CASE Operation[m] = Types(listJobs, "document")
  BY <1>3, <1>6, TypesIs, SendsIs, OnIs, OpenIs, BearsIs, NeedsIs, WritesIs
  DEF RequestOf, Suits, listJobs, JobsController
<1> QED
  BY <1>1, <1>4, <1>5, <1>6

LEMMA MeetingsSuit ==
  ASSUME NEW m \in MeetingsApi, NEW a \in Actions,
         a.route = RequestOf(Operation[m])
  PROVE  Suits(Operation[m], a.endpoint)
<1>1. Operation[m] \in
        {Types(getMeetingExtendedData, "document"),
         Types(listMeetings, "document"),
         Types(setMeetingExtendedData, "document")}
  BY OperationOfClass DEF MeetingsApi, MeetingsApiFp
<1>2. a.route \in
        {<<"GET", "/meetings/:id/extended_data">>, <<"GET", "/meetings">>,
         <<"PUT", "/meetings/:id/extended_data/sync">>}
  BY <1>1, TypesIs, SendsIs
  DEF RequestOf, getMeetingExtendedData, listMeetings, setMeetingExtendedData
<1>3. a \in UNION {MeetingExtendedDataController, MeetingsController}
  BY <1>2, OnIs
  DEF Actions, TokensController, JobsController, OrganizationsController,
      OrganizationExtendedDataController, ComponentsController,
      ProposalComponentsController, BlogComponentsController,
      ComponentExtendedDataController, SpacesController,
      SpaceExtendedDataController, RolesController, UsersController,
      UserExtendedDataController, MagicLinksController, AttachmentsController,
      WebhookRegistrationsController, WebhookEventsController, BlogsController,
      DraftProposalsController, ProposalsController,
      ProposalExtendedDataController, VoteProposalsController,
      QuestionnairesController, QuestionsController, AnswersController,
      QuestionnaireResponsesController
<1>4. CASE Operation[m] = Types(getMeetingExtendedData, "document")
  <2>1. a \in MeetingExtendedDataController
    BY <1>3, <1>4, TypesIs, SendsIs, OnIs
    DEF RequestOf, getMeetingExtendedData, MeetingsController
  <2> QED
    BY <2>1, <1>4, TypesIs, SendsIs, OnIs, GuardedIs, AlsoGrantIs
    DEF RequestOf, Suits, getMeetingExtendedData, MeetingExtendedDataController
<1>5. CASE Operation[m] = Types(listMeetings, "document")
  <2>1. a \in MeetingsController
    BY <1>3, <1>5, TypesIs, SendsIs, OnIs
    DEF RequestOf, listMeetings, MeetingExtendedDataController
  <2> QED
    BY <2>1, <1>5, TypesIs, SendsIs, OnIs, GuardedIs
    DEF RequestOf, Suits, listMeetings, MeetingsController
<1>6. CASE Operation[m] = Types(setMeetingExtendedData, "document")
  <2>1. a \in MeetingExtendedDataController
    BY <1>3, <1>6, TypesIs, SendsIs, OnIs
    DEF RequestOf, setMeetingExtendedData, MeetingsController
  <2> QED
    BY <2>1, <1>6, TypesIs, SendsIs, OnIs, GuardedIs, AlsoGrantIs
    DEF RequestOf, Suits, setMeetingExtendedData, MeetingExtendedDataController
<1> QED
  BY <1>1, <1>4, <1>5, <1>6

LEMMA OAuthSuit ==
  ASSUME NEW m \in OAuthApi, NEW a \in Actions,
         a.route = RequestOf(Operation[m])
  PROVE  Suits(Operation[m], a.endpoint)
<1>1. Operation[m] \in
        {Types(createToken, "document"), Types(introspectToken, "document")}
  BY OperationOfClass DEF OAuthApi, OAuthApiFp
<1>2. a.route \in
        {<<"POST", "/oauth/token">>, <<"POST", "/oauth/introspect">>}
  BY <1>1, TypesIs, SendsBareIs
  DEF RequestOf, createToken, introspectToken
<1>3. a \in TokensController
  BY <1>2, OnIs
  DEF Actions, JobsController, OrganizationsController,
      OrganizationExtendedDataController, ComponentsController,
      ProposalComponentsController, BlogComponentsController,
      ComponentExtendedDataController, SpacesController,
      SpaceExtendedDataController, RolesController, UsersController,
      UserExtendedDataController, MagicLinksController, AttachmentsController,
      WebhookRegistrationsController, WebhookEventsController, BlogsController,
      DraftProposalsController, ProposalsController,
      ProposalExtendedDataController, VoteProposalsController,
      MeetingsController, MeetingExtendedDataController,
      QuestionnairesController, QuestionsController, AnswersController,
      QuestionnaireResponsesController
<1>4. CASE Operation[m] = Types(createToken, "document")
  BY <1>3, <1>4, TypesIs, SendsBareIs, OnIs, OpenIs, BearsIs, NeedsIs, WritesIs
  DEF RequestOf, Suits, createToken, TokensController
<1>5. CASE Operation[m] = Types(introspectToken, "document")
  BY <1>3, <1>5, TypesIs, SendsBareIs, OnIs, OpenIs, BearsIs, NeedsIs, WritesIs
  DEF RequestOf, Suits, introspectToken, TokensController
<1> QED
  BY <1>1, <1>4, <1>5

LEMMA OrganizationsSuit ==
  ASSUME NEW m \in OrganizationsApi, NEW a \in Actions,
         a.route = RequestOf(Operation[m])
  PROVE  Suits(Operation[m], a.endpoint)
<1>1. Operation[m] \in
        {Types(getOrganization, "document"),
         Types(listOrganizations, "document"),
         Types(updateOrganization, "document")}
  BY OperationOfClass DEF OrganizationsApi, OrganizationsApiFp
<1>2. a.route \in
        {<<"GET", "/organizations/:id">>, <<"GET", "/organizations">>,
         <<"PUT", "/organizations/:id/sync">>}
  BY <1>1, TypesIs, SendsIs
  DEF RequestOf, getOrganization, listOrganizations, updateOrganization
<1>3. a \in OrganizationsController
  BY <1>2, OnIs
  DEF Actions, TokensController, JobsController,
      OrganizationExtendedDataController, ComponentsController,
      ProposalComponentsController, BlogComponentsController,
      ComponentExtendedDataController, SpacesController,
      SpaceExtendedDataController, RolesController, UsersController,
      UserExtendedDataController, MagicLinksController, AttachmentsController,
      WebhookRegistrationsController, WebhookEventsController, BlogsController,
      DraftProposalsController, ProposalsController,
      ProposalExtendedDataController, VoteProposalsController,
      MeetingsController, MeetingExtendedDataController,
      QuestionnairesController, QuestionsController, AnswersController,
      QuestionnaireResponsesController
<1>4. CASE Operation[m] = Types(getOrganization, "document")
  BY <1>3, <1>4, TypesIs, SendsIs, OnIs, GuardedIs
  DEF RequestOf, Suits, getOrganization, OrganizationsController
<1>5. CASE Operation[m] = Types(listOrganizations, "document")
  BY <1>3, <1>5, TypesIs, SendsIs, OnIs, GuardedIs
  DEF RequestOf, Suits, listOrganizations, OrganizationsController
<1>6. CASE Operation[m] = Types(updateOrganization, "document")
  BY <1>3, <1>6, TypesIs, SendsIs, OnIs, GuardedIs
  DEF RequestOf, Suits, updateOrganization, OrganizationsController
<1> QED
  BY <1>1, <1>4, <1>5, <1>6

LEMMA OrganizationsExtendedDataSuit ==
  ASSUME NEW m \in OrganizationsExtendedDataApi, NEW a \in Actions,
         a.route = RequestOf(Operation[m])
  PROVE  Suits(Operation[m], a.endpoint)
<1>1. Operation[m] \in
        {Types(getOrganizationExtendedData, "document"),
         Types(setOrganizationExtendedData, "document")}
  BY OperationOfClass
  DEF OrganizationsExtendedDataApi, OrganizationsExtendedDataApiFp
<1>2. a.route \in
        {<<"GET", "/organizations/:id/extended_data">>,
         <<"PUT", "/organizations/:id/extended_data/sync">>}
  BY <1>1, TypesIs, SendsIs
  DEF RequestOf, getOrganizationExtendedData, setOrganizationExtendedData
<1>3. a \in OrganizationExtendedDataController
  BY <1>2, OnIs
  DEF Actions, TokensController, JobsController, OrganizationsController,
      ComponentsController, ProposalComponentsController,
      BlogComponentsController, ComponentExtendedDataController,
      SpacesController, SpaceExtendedDataController, RolesController,
      UsersController, UserExtendedDataController, MagicLinksController,
      AttachmentsController, WebhookRegistrationsController,
      WebhookEventsController, BlogsController, DraftProposalsController,
      ProposalsController, ProposalExtendedDataController,
      VoteProposalsController, MeetingsController,
      MeetingExtendedDataController, QuestionnairesController,
      QuestionsController, AnswersController, QuestionnaireResponsesController
<1>4. CASE Operation[m] = Types(getOrganizationExtendedData, "document")
  BY <1>3, <1>4, TypesIs, SendsIs, OnIs, GuardedIs
  DEF RequestOf, Suits, getOrganizationExtendedData,
      OrganizationExtendedDataController
<1>5. CASE Operation[m] = Types(setOrganizationExtendedData, "document")
  BY <1>3, <1>5, TypesIs, SendsIs, OnIs, GuardedIs
  DEF RequestOf, Suits, setOrganizationExtendedData,
      OrganizationExtendedDataController
<1> QED
  BY <1>1, <1>4, <1>5

LEMMA ProposalsSuit ==
  ASSUME NEW m \in ProposalsApi, NEW a \in Actions,
         a.route = RequestOf(Operation[m])
  PROVE  Suits(Operation[m], a.endpoint)
<1>1. Operation[m] \in
        {Types(castProposalVote, "document"),
         Types(castProposalVoteAsync, "job"),
         Types(deleteProposalVote, "nothing"), Types(getProposal, "document"),
         Types(getProposalExtendedData, "document"),
         Types(getProposalVote, "document"),
         Types(listProposalVotes, "document"),
         Types(listProposals, "document"),
         Types(setProposalExtendedData, "document")}
  BY OperationOfClass DEF ProposalsApi, ProposalsApiFp
<1>2. a.route \in
        {<<"POST", "/vote_proposals/sync">>, <<"POST", "/vote_proposals">>,
         <<"DELETE", "/vote_proposals/:id">>, <<"GET", "/proposals/:id">>,
         <<"GET", "/proposals/:id/extended_data">>,
         <<"GET", "/vote_proposals/:id">>, <<"GET", "/vote_proposals">>,
         <<"GET", "/proposals">>,
         <<"PUT", "/proposals/:id/extended_data/sync">>}
  BY <1>1, TypesIs, SendsIs
  DEF RequestOf, castProposalVote, castProposalVoteAsync, deleteProposalVote,
      getProposal, getProposalExtendedData, getProposalVote, listProposalVotes,
      listProposals, setProposalExtendedData
<1>3. a \in UNION {VoteProposalsController, ProposalsController,
                  ProposalExtendedDataController}
  BY <1>2, OnIs
  DEF Actions, TokensController, JobsController, OrganizationsController,
      OrganizationExtendedDataController, ComponentsController,
      ProposalComponentsController, BlogComponentsController,
      ComponentExtendedDataController, SpacesController,
      SpaceExtendedDataController, RolesController, UsersController,
      UserExtendedDataController, MagicLinksController, AttachmentsController,
      WebhookRegistrationsController, WebhookEventsController, BlogsController,
      DraftProposalsController, MeetingsController,
      MeetingExtendedDataController, QuestionnairesController,
      QuestionsController, AnswersController, QuestionnaireResponsesController
<1>4. CASE Operation[m] = Types(castProposalVote, "document")
  <2>1. a \in VoteProposalsController
    BY <1>3, <1>4, TypesIs, SendsIs, OnIs
    DEF RequestOf, castProposalVote, ProposalsController,
        ProposalExtendedDataController
  <2> QED
    BY <2>1, <1>4, TypesIs, SendsIs, OnIs, GuardedIs, ForIs
    DEF RequestOf, Suits, castProposalVote, VoteProposalsController
<1>5. CASE Operation[m] = Types(castProposalVoteAsync, "job")
  <2>1. a \in VoteProposalsController
    BY <1>3, <1>5, TypesIs, SendsIs, OnIs
    DEF RequestOf, castProposalVoteAsync, ProposalsController,
        ProposalExtendedDataController
  <2> QED
    BY <2>1, <1>5, TypesIs, SendsIs, OnIs, GuardedIs, ForIs
    DEF RequestOf, Suits, castProposalVoteAsync, VoteProposalsController
<1>6. CASE Operation[m] = Types(deleteProposalVote, "nothing")
  <2>1. a \in VoteProposalsController
    BY <1>3, <1>6, TypesIs, SendsIs, OnIs
    DEF RequestOf, deleteProposalVote, ProposalsController,
        ProposalExtendedDataController
  <2> QED
    BY <2>1, <1>6, TypesIs, SendsIs, OnIs, GuardedIs, ForIs
    DEF RequestOf, Suits, deleteProposalVote, VoteProposalsController
<1>7. CASE Operation[m] = Types(getProposal, "document")
  <2>1. a \in ProposalsController
    BY <1>3, <1>7, TypesIs, SendsIs, OnIs
    DEF RequestOf, getProposal, VoteProposalsController,
        ProposalExtendedDataController
  <2> QED
    BY <2>1, <1>7, TypesIs, SendsIs, OnIs, GuardedIs
    DEF RequestOf, Suits, getProposal, ProposalsController
<1>8. CASE Operation[m] = Types(getProposalExtendedData, "document")
  <2>1. a \in ProposalExtendedDataController
    BY <1>3, <1>8, TypesIs, SendsIs, OnIs
    DEF RequestOf, getProposalExtendedData, VoteProposalsController,
        ProposalsController
  <2> QED
    BY <2>1, <1>8, TypesIs, SendsIs, OnIs, GuardedIs, AlsoGrantIs
    DEF RequestOf, Suits, getProposalExtendedData,
        ProposalExtendedDataController
<1>9. CASE Operation[m] = Types(getProposalVote, "document")
  <2>1. a \in VoteProposalsController
    BY <1>3, <1>9, TypesIs, SendsIs, OnIs
    DEF RequestOf, getProposalVote, ProposalsController,
        ProposalExtendedDataController
  <2> QED
    BY <2>1, <1>9, TypesIs, SendsIs, OnIs, GuardedIs, ForIs
    DEF RequestOf, Suits, getProposalVote, VoteProposalsController
<1>10. CASE Operation[m] = Types(listProposalVotes, "document")
  <2>1. a \in VoteProposalsController
    BY <1>3, <1>10, TypesIs, SendsIs, OnIs
    DEF RequestOf, listProposalVotes, ProposalsController,
        ProposalExtendedDataController
  <2> QED
    BY <2>1, <1>10, TypesIs, SendsIs, OnIs, GuardedIs, ForIs
    DEF RequestOf, Suits, listProposalVotes, VoteProposalsController
<1>11. CASE Operation[m] = Types(listProposals, "document")
  <2>1. a \in ProposalsController
    BY <1>3, <1>11, TypesIs, SendsIs, OnIs
    DEF RequestOf, listProposals, VoteProposalsController,
        ProposalExtendedDataController
  <2> QED
    BY <2>1, <1>11, TypesIs, SendsIs, OnIs, GuardedIs
    DEF RequestOf, Suits, listProposals, ProposalsController
<1>12. CASE Operation[m] = Types(setProposalExtendedData, "document")
  <2>1. a \in ProposalExtendedDataController
    BY <1>3, <1>12, TypesIs, SendsIs, OnIs
    DEF RequestOf, setProposalExtendedData, VoteProposalsController,
        ProposalsController
  <2> QED
    BY <2>1, <1>12, TypesIs, SendsIs, OnIs, GuardedIs, AlsoGrantIs
    DEF RequestOf, Suits, setProposalExtendedData,
        ProposalExtendedDataController
<1> QED
  BY <1>1, <1>4, <1>5, <1>6, <1>7, <1>8, <1>9, <1>10, <1>11, <1>12

LEMMA RolesSuit ==
  ASSUME NEW m \in RolesApi, NEW a \in Actions,
         a.route = RequestOf(Operation[m])
  PROVE  Suits(Operation[m], a.endpoint)
<1>1. Operation[m] \in
        {Types(createRole, "nothing"), Types(deleteRole, "nothing"),
         Types(getRole, "document"), Types(listRoles, "document")}
  BY OperationOfClass DEF RolesApi, RolesApiFp
<1>2. a.route \in
        {<<"POST", "/roles/sync">>, <<"DELETE", "/roles/:id/sync">>,
         <<"GET", "/roles/:id">>, <<"GET", "/roles">>}
  BY <1>1, TypesIs, SendsIs
  DEF RequestOf, createRole, deleteRole, getRole, listRoles
<1>3. a \in RolesController
  BY <1>2, OnIs
  DEF Actions, TokensController, JobsController, OrganizationsController,
      OrganizationExtendedDataController, ComponentsController,
      ProposalComponentsController, BlogComponentsController,
      ComponentExtendedDataController, SpacesController,
      SpaceExtendedDataController, UsersController, UserExtendedDataController,
      MagicLinksController, AttachmentsController,
      WebhookRegistrationsController, WebhookEventsController, BlogsController,
      DraftProposalsController, ProposalsController,
      ProposalExtendedDataController, VoteProposalsController,
      MeetingsController, MeetingExtendedDataController,
      QuestionnairesController, QuestionsController, AnswersController,
      QuestionnaireResponsesController
<1>4. CASE Operation[m] = Types(createRole, "nothing")
  BY <1>3, <1>4, TypesIs, SendsIs, OnIs, GuardedIs
  DEF RequestOf, Suits, createRole, RolesController
<1>5. CASE Operation[m] = Types(deleteRole, "nothing")
  BY <1>3, <1>5, TypesIs, SendsIs, OnIs, GuardedIs
  DEF RequestOf, Suits, deleteRole, RolesController
<1>6. CASE Operation[m] = Types(getRole, "document")
  BY <1>3, <1>6, TypesIs, SendsIs, OnIs, GuardedIs
  DEF RequestOf, Suits, getRole, RolesController
<1>7. CASE Operation[m] = Types(listRoles, "document")
  BY <1>3, <1>7, TypesIs, SendsIs, OnIs, GuardedIs
  DEF RequestOf, Suits, listRoles, RolesController
<1> QED
  BY <1>1, <1>4, <1>5, <1>6, <1>7

LEMMA SpacesSuit ==
  ASSUME NEW m \in SpacesApi, NEW a \in Actions,
         a.route = RequestOf(Operation[m])
  PROVE  Suits(Operation[m], a.endpoint)
<1>1. Operation[m] \in
        {Types(getSpaceExtendedData, "document"),
         Types(listAssemblies, "document"), Types(listConferences, "document"),
         Types(listInitiatives, "document"),
         Types(listParticipatoryProcesses, "document"),
         Types(searchSpaces, "document"),
         Types(setSpaceExtendedData, "document"),
         Types(showAssembly, "document"), Types(showConference, "document"),
         Types(showInitiative, "document"),
         Types(showParticipatoryProcess, "document")}
  BY OperationOfClass DEF SpacesApi, SpacesApiFp
<1>2. a.route \in
        {<<"GET", "/spaces/participatory_processes/:id/extended_data">>,
         <<"GET", "/spaces/assemblies">>, <<"GET", "/spaces/conferences">>,
         <<"GET", "/spaces/initiatives">>,
         <<"GET", "/spaces/participatory_processes">>,
         <<"GET", "/spaces/search">>,
         <<"PUT", "/spaces/participatory_processes/:id/extended_data/sync">>,
         <<"GET", "/spaces/assemblies/:id">>,
         <<"GET", "/spaces/conferences/:id">>,
         <<"GET", "/spaces/initiatives/:id">>,
         <<"GET", "/spaces/participatory_processes/:id">>}
  BY <1>1, TypesIs, SendsIs
  DEF RequestOf, getSpaceExtendedData, listAssemblies, listConferences,
      listInitiatives, listParticipatoryProcesses, searchSpaces,
      setSpaceExtendedData, showAssembly, showConference, showInitiative,
      showParticipatoryProcess
<1>3. a \in UNION {SpaceExtendedDataController, SpacesController}
  BY <1>2, OnIs
  DEF Actions, TokensController, JobsController, OrganizationsController,
      OrganizationExtendedDataController, ComponentsController,
      ProposalComponentsController, BlogComponentsController,
      ComponentExtendedDataController, RolesController, UsersController,
      UserExtendedDataController, MagicLinksController, AttachmentsController,
      WebhookRegistrationsController, WebhookEventsController, BlogsController,
      DraftProposalsController, ProposalsController,
      ProposalExtendedDataController, VoteProposalsController,
      MeetingsController, MeetingExtendedDataController,
      QuestionnairesController, QuestionsController, AnswersController,
      QuestionnaireResponsesController
<1>4. CASE Operation[m] = Types(getSpaceExtendedData, "document")
  <2>1. a \in SpaceExtendedDataController
    BY <1>3, <1>4, TypesIs, SendsIs, OnIs
    DEF RequestOf, getSpaceExtendedData, SpacesController
  <2> QED
    BY <2>1, <1>4, TypesIs, SendsIs, OnIs, GuardedIs, AlsoGrantIs
    DEF RequestOf, Suits, getSpaceExtendedData, SpaceExtendedDataController
<1>5. CASE Operation[m] = Types(listAssemblies, "document")
  <2>1. a \in SpacesController
    BY <1>3, <1>5, TypesIs, SendsIs, OnIs
    DEF RequestOf, listAssemblies, SpaceExtendedDataController
  <2> QED
    BY <2>1, <1>5, TypesIs, SendsIs, OnIs, GuardedIs
    DEF RequestOf, Suits, listAssemblies, SpacesController
<1>6. CASE Operation[m] = Types(listConferences, "document")
  <2>1. a \in SpacesController
    BY <1>3, <1>6, TypesIs, SendsIs, OnIs
    DEF RequestOf, listConferences, SpaceExtendedDataController
  <2> QED
    BY <2>1, <1>6, TypesIs, SendsIs, OnIs, GuardedIs
    DEF RequestOf, Suits, listConferences, SpacesController
<1>7. CASE Operation[m] = Types(listInitiatives, "document")
  <2>1. a \in SpacesController
    BY <1>3, <1>7, TypesIs, SendsIs, OnIs
    DEF RequestOf, listInitiatives, SpaceExtendedDataController
  <2> QED
    BY <2>1, <1>7, TypesIs, SendsIs, OnIs, GuardedIs
    DEF RequestOf, Suits, listInitiatives, SpacesController
<1>8. CASE Operation[m] = Types(listParticipatoryProcesses, "document")
  <2>1. a \in SpacesController
    BY <1>3, <1>8, TypesIs, SendsIs, OnIs
    DEF RequestOf, listParticipatoryProcesses, SpaceExtendedDataController
  <2> QED
    BY <2>1, <1>8, TypesIs, SendsIs, OnIs, GuardedIs
    DEF RequestOf, Suits, listParticipatoryProcesses, SpacesController
<1>9. CASE Operation[m] = Types(searchSpaces, "document")
  <2>1. a \in SpacesController
    BY <1>3, <1>9, TypesIs, SendsIs, OnIs
    DEF RequestOf, searchSpaces, SpaceExtendedDataController
  <2> QED
    BY <2>1, <1>9, TypesIs, SendsIs, OnIs, GuardedIs
    DEF RequestOf, Suits, searchSpaces, SpacesController
<1>10. CASE Operation[m] = Types(setSpaceExtendedData, "document")
  <2>1. a \in SpaceExtendedDataController
    BY <1>3, <1>10, TypesIs, SendsIs, OnIs
    DEF RequestOf, setSpaceExtendedData, SpacesController
  <2> QED
    BY <2>1, <1>10, TypesIs, SendsIs, OnIs, GuardedIs, AlsoGrantIs
    DEF RequestOf, Suits, setSpaceExtendedData, SpaceExtendedDataController
<1>11. CASE Operation[m] = Types(showAssembly, "document")
  <2>1. a \in SpacesController
    BY <1>3, <1>11, TypesIs, SendsIs, OnIs
    DEF RequestOf, showAssembly, SpaceExtendedDataController
  <2> QED
    BY <2>1, <1>11, TypesIs, SendsIs, OnIs, GuardedIs
    DEF RequestOf, Suits, showAssembly, SpacesController
<1>12. CASE Operation[m] = Types(showConference, "document")
  <2>1. a \in SpacesController
    BY <1>3, <1>12, TypesIs, SendsIs, OnIs
    DEF RequestOf, showConference, SpaceExtendedDataController
  <2> QED
    BY <2>1, <1>12, TypesIs, SendsIs, OnIs, GuardedIs
    DEF RequestOf, Suits, showConference, SpacesController
<1>13. CASE Operation[m] = Types(showInitiative, "document")
  <2>1. a \in SpacesController
    BY <1>3, <1>13, TypesIs, SendsIs, OnIs
    DEF RequestOf, showInitiative, SpaceExtendedDataController
  <2> QED
    BY <2>1, <1>13, TypesIs, SendsIs, OnIs, GuardedIs
    DEF RequestOf, Suits, showInitiative, SpacesController
<1>14. CASE Operation[m] = Types(showParticipatoryProcess, "document")
  <2>1. a \in SpacesController
    BY <1>3, <1>14, TypesIs, SendsIs, OnIs
    DEF RequestOf, showParticipatoryProcess, SpaceExtendedDataController
  <2> QED
    BY <2>1, <1>14, TypesIs, SendsIs, OnIs, GuardedIs
    DEF RequestOf, Suits, showParticipatoryProcess, SpacesController
<1> QED
  BY <1>1, <1>4, <1>5, <1>6, <1>7, <1>8, <1>9, <1>10, <1>11, <1>12, <1>13,
     <1>14

LEMMA UsersSuit ==
  ASSUME NEW m \in UsersApi, NEW a \in Actions,
         a.route = RequestOf(Operation[m])
  PROVE  Suits(Operation[m], a.endpoint)
<1>1. Operation[m] \in
        {Types(generateMagicLink, "document"),
         Types(getUserExtendedData, "document"), Types(listUsers, "document"),
         Types(setUserExtendedData, "document"),
         Types(signInWithMagicLink, "nothing")}
  BY OperationOfClass DEF UsersApi, UsersApiFp
<1>2. a.route \in
        {<<"POST", "/me/magic_links">>, <<"GET", "/me/extended_data">>,
         <<"GET", "/users">>, <<"PUT", "/me/extended_data/sync">>,
         <<"GET", "/me/magic_links/:id">>}
  BY <1>1, TypesIs, SendsIs
  DEF RequestOf, generateMagicLink, getUserExtendedData, listUsers,
      setUserExtendedData, signInWithMagicLink
<1>3. a \in UNION {MagicLinksController,
                  UserExtendedDataController, UsersController}
  BY <1>2, OnIs
  DEF Actions, TokensController, JobsController, OrganizationsController,
      OrganizationExtendedDataController, ComponentsController,
      ProposalComponentsController, BlogComponentsController,
      ComponentExtendedDataController, SpacesController,
      SpaceExtendedDataController, RolesController, AttachmentsController,
      WebhookRegistrationsController, WebhookEventsController, BlogsController,
      DraftProposalsController, ProposalsController,
      ProposalExtendedDataController, VoteProposalsController,
      MeetingsController, MeetingExtendedDataController,
      QuestionnairesController, QuestionsController, AnswersController,
      QuestionnaireResponsesController
<1>4. CASE Operation[m] = Types(generateMagicLink, "document")
  <2>1. a \in MagicLinksController
    BY <1>3, <1>4, TypesIs, SendsIs, OnIs
    DEF RequestOf, generateMagicLink, UserExtendedDataController,
        UsersController
  <2> QED
    BY <2>1, <1>4, TypesIs, SendsIs, OnIs, OpenIs, GuardedIs, NeedsIs, ForIs
    DEF RequestOf, Suits, generateMagicLink, MagicLinksController
<1>5. CASE Operation[m] = Types(getUserExtendedData, "document")
  <2>1. a \in UserExtendedDataController
    BY <1>3, <1>5, TypesIs, SendsIs, OnIs
    DEF RequestOf, getUserExtendedData, MagicLinksController, UsersController
  <2> QED
    BY <2>1, <1>5, TypesIs, SendsIs, OnIs, GuardedIs, ForIs
    DEF RequestOf, Suits, getUserExtendedData, UserExtendedDataController
<1>6. CASE Operation[m] = Types(listUsers, "document")
  <2>1. a \in UsersController
    BY <1>3, <1>6, TypesIs, SendsIs, OnIs
    DEF RequestOf, listUsers, MagicLinksController, UserExtendedDataController
  <2> QED
    BY <2>1, <1>6, TypesIs, SendsIs, OnIs, GuardedIs
    DEF RequestOf, Suits, listUsers, UsersController
<1>7. CASE Operation[m] = Types(setUserExtendedData, "document")
  <2>1. a \in UserExtendedDataController
    BY <1>3, <1>7, TypesIs, SendsIs, OnIs
    DEF RequestOf, setUserExtendedData, MagicLinksController, UsersController
  <2> QED
    BY <2>1, <1>7, TypesIs, SendsIs, OnIs, GuardedIs, ForIs
    DEF RequestOf, Suits, setUserExtendedData, UserExtendedDataController
<1>8. CASE Operation[m] = Types(signInWithMagicLink, "nothing")
  <2>1. a \in MagicLinksController
    BY <1>3, <1>8, TypesIs, SendsIs, OnIs
    DEF RequestOf, signInWithMagicLink, UserExtendedDataController,
        UsersController
  <2> QED
    BY <2>1, <1>8, TypesIs, SendsIs, OnIs, OpenIs, GuardedIs, NeedsIs, ForIs
    DEF RequestOf, Suits, signInWithMagicLink, MagicLinksController
<1> QED
  BY <1>1, <1>4, <1>5, <1>6, <1>7, <1>8

LEMMA WebhooksSuit ==
  ASSUME NEW m \in WebhooksApi, NEW a \in Actions,
         a.route = RequestOf(Operation[m])
  PROVE  Suits(Operation[m], a.endpoint)
<1>1. Operation[m] \in
        {Types(createWebhookRegistration, "document"),
         Types(deleteWebhookRegistration, "nothing"),
         Types(listWebhookRegistrations, "document"),
         Types(showWebhookEventExample, "document"),
         Types(showWebhookRegistration, "document"),
         Types(updateWebhookRegistration, "document")}
  BY OperationOfClass DEF WebhooksApi, WebhooksApiFp
<1>2. a.route \in
        {<<"POST", "/webhook_registrations">>,
         <<"DELETE", "/webhook_registrations/:id">>,
         <<"GET", "/webhook_registrations">>, <<"GET", "/webhook_events/:id">>,
         <<"GET", "/webhook_registrations/:id">>,
         <<"PUT", "/webhook_registrations/:id">>}
  BY <1>1, TypesIs, SendsIs
  DEF RequestOf, createWebhookRegistration, deleteWebhookRegistration,
      listWebhookRegistrations, showWebhookEventExample,
      showWebhookRegistration, updateWebhookRegistration
<1>3. a \in UNION {WebhookRegistrationsController, WebhookEventsController}
  BY <1>2, OnIs
  DEF Actions, TokensController, JobsController, OrganizationsController,
      OrganizationExtendedDataController, ComponentsController,
      ProposalComponentsController, BlogComponentsController,
      ComponentExtendedDataController, SpacesController,
      SpaceExtendedDataController, RolesController, UsersController,
      UserExtendedDataController, MagicLinksController, AttachmentsController,
      BlogsController, DraftProposalsController, ProposalsController,
      ProposalExtendedDataController, VoteProposalsController,
      MeetingsController, MeetingExtendedDataController,
      QuestionnairesController, QuestionsController, AnswersController,
      QuestionnaireResponsesController
<1>4. CASE Operation[m] = Types(createWebhookRegistration, "document")
  <2>1. a \in WebhookRegistrationsController
    BY <1>3, <1>4, TypesIs, SendsIs, OnIs
    DEF RequestOf, createWebhookRegistration, WebhookEventsController
  <2> QED
    BY <2>1, <1>4, TypesIs, SendsIs, OnIs, GuardedIs, WritesIs
    DEF RequestOf, Suits, createWebhookRegistration,
        WebhookRegistrationsController
<1>5. CASE Operation[m] = Types(deleteWebhookRegistration, "nothing")
  <2>1. a \in WebhookRegistrationsController
    BY <1>3, <1>5, TypesIs, SendsIs, OnIs
    DEF RequestOf, deleteWebhookRegistration, WebhookEventsController
  <2> QED
    BY <2>1, <1>5, TypesIs, SendsIs, OnIs, GuardedIs, WritesIs
    DEF RequestOf, Suits, deleteWebhookRegistration,
        WebhookRegistrationsController
<1>6. CASE Operation[m] = Types(listWebhookRegistrations, "document")
  <2>1. a \in WebhookRegistrationsController
    BY <1>3, <1>6, TypesIs, SendsIs, OnIs
    DEF RequestOf, listWebhookRegistrations, WebhookEventsController
  <2> QED
    BY <2>1, <1>6, TypesIs, SendsIs, OnIs, GuardedIs, WritesIs
    DEF RequestOf, Suits, listWebhookRegistrations,
        WebhookRegistrationsController
<1>7. CASE Operation[m] = Types(showWebhookEventExample, "document")
  <2>1. a \in WebhookEventsController
    BY <1>3, <1>7, TypesIs, SendsIs, OnIs
    DEF RequestOf, showWebhookEventExample, WebhookRegistrationsController
  <2> QED
    BY <2>1, <1>7, TypesIs, SendsIs, OnIs, GuardedIs
    DEF RequestOf, Suits, showWebhookEventExample, WebhookEventsController
<1>8. CASE Operation[m] = Types(showWebhookRegistration, "document")
  <2>1. a \in WebhookRegistrationsController
    BY <1>3, <1>8, TypesIs, SendsIs, OnIs
    DEF RequestOf, showWebhookRegistration, WebhookEventsController
  <2> QED
    BY <2>1, <1>8, TypesIs, SendsIs, OnIs, GuardedIs, WritesIs
    DEF RequestOf, Suits, showWebhookRegistration,
        WebhookRegistrationsController
<1>9. CASE Operation[m] = Types(updateWebhookRegistration, "document")
  <2>1. a \in WebhookRegistrationsController
    BY <1>3, <1>9, TypesIs, SendsIs, OnIs
    DEF RequestOf, updateWebhookRegistration, WebhookEventsController
  <2> QED
    BY <2>1, <1>9, TypesIs, SendsIs, OnIs, GuardedIs, WritesIs
    DEF RequestOf, Suits, updateWebhookRegistration,
        WebhookRegistrationsController
<1> QED
  BY <1>1, <1>4, <1>5, <1>6, <1>7, <1>8, <1>9

-----------------------------------------------------------------------------
(* The scenarios, in the same way.                                         *)

\* What holds between a request of a scenario and the action it reaches, for
\* the scenarios whose token is granted.
Passes(i, e) ==
  /\ e.answer \in i.expected
  /\ e.effect \notin {"token", "withdrawJob", "register", "draft"}
  /\ {} \notin e.grants
  /\ e.needs \subseteq i.sends
  /\ e.scopes \subseteq i.grant.scopes
  /\ e.user = "anyone" /\ e.worker = "anyone"

\* The entries of the table of the scenarios.
LEMMA IteratesIs ==
  \A v, p, s, g, x :
    LET i == K6!Iterates(v, p, s, g, x) IN
    /\ i.verb = v /\ i.path = p /\ i.sends = s /\ i.grant = g
    /\ i.expected = x
  BY DEF K6!Iterates

LEMMA GrantsAre ==
  \A scopes :
    /\ K6!clientCredentialsToken(scopes).grant = "client_credentials"
    /\ K6!clientCredentialsToken(scopes).scopes = scopes
    /\ K6!passwordToken(scopes).grant = "password"
    /\ K6!passwordToken(scopes).client = FALSE
  BY DEF K6!clientCredentialsToken, K6!passwordToken

\* The token for the reads of mixed.js.
ReadsOfMixed == K6!clientCredentialsToken({"public", "proposals", "blogs"})

\* A scenario asks with a password and no client, or sends one of these.
LEMMA Iterations ==
  ASSUME NEW p \in DOMAIN K6!Scenario, NEW i \in K6!Scenario[p]
  PROVE  \/ i.grant.grant = "password" /\ i.grant.client = FALSE
         \/ i \in {K6!searchComponents, K6!smoke, K6!getProposal,
                   K6!getBlogPost, K6!listBlogPosts}
         \/ i \in {K6!Iterates("GET", "/components/search", {}, ReadsOfMixed,
                               {"document"}),
                   K6!Iterates("GET", "/proposals/:id", {"id"}, ReadsOfMixed,
                               {"document"}),
                   K6!Iterates("GET", "/blogs/:id", {"id"}, ReadsOfMixed,
                               {"document"})}
<1>1. \/ i \in {K6!searchComponents, K6!smoke, K6!getProposal,
                K6!getBlogPost, K6!listBlogPosts}
      \/ i \in {K6!castProposalVote, K6!draftProposal,
                K6!publishDraftProposal, K6!createRole,
                K6!setUserExtendedData}
      \/ i \in K6!mixed
  BY DEF K6!Scenario
<1>2. CASE i \in {K6!castProposalVote, K6!draftProposal,
                K6!publishDraftProposal, K6!createRole,
                K6!setUserExtendedData}
  BY <1>2, IteratesIs, GrantsAre DEF K6!castProposalVote, K6!draftProposal,
                K6!publishDraftProposal, K6!createRole,
                K6!setUserExtendedData
<1>3. CASE i \in K6!mixed
  BY <1>3, IteratesIs, GrantsAre DEF K6!mixed, ReadsOfMixed
<1> QED
  BY <1>1, <1>2, <1>3

\* A request that carries a token of the client passes at the action it
\* reaches.
LEMMA ReadsAreGranted ==
  ASSUME NEW p \in DOMAIN K6!Scenario, NEW i \in K6!Scenario[p],
         i.grant.grant = "client_credentials",
         NEW a \in Actions, a.route = <<i.verb, i.path>>
  PROVE  Passes(i, a.endpoint)
<1> DEFINE Asks == /\ <<i.verb, i.path>> \in
                      {<<"GET", "/components/search">>,
                       <<"GET", "/proposals/:id">>,
                       <<"GET", "/blogs/:id">>, <<"GET", "/blogs">>}
                   /\ i.expected = {"document"}
                   /\ i.path = "/components/search" =>
                        "public" \in i.grant.scopes
                   /\ i.path = "/proposals/:id" =>
                        "proposals" \in i.grant.scopes /\ "id" \in i.sends
                   /\ i.path = "/blogs/:id" =>
                        "blogs" \in i.grant.scopes /\ "id" \in i.sends
                   /\ i.path = "/blogs" => "blogs" \in i.grant.scopes
<1>1. Asks
  <2>1. CASE i \in {K6!searchComponents, K6!smoke}
    BY <2>1, IteratesIs, GrantsAre DEF K6!searchComponents, K6!smoke
  <2>2. CASE i = K6!getProposal
    BY <2>2, IteratesIs, GrantsAre DEF K6!getProposal
  <2>3. CASE i = K6!getBlogPost
    BY <2>3, IteratesIs, GrantsAre DEF K6!getBlogPost
  <2>4. CASE i = K6!listBlogPosts
    BY <2>4, IteratesIs, GrantsAre DEF K6!listBlogPosts
  <2>5. CASE i = K6!Iterates("GET", "/components/search", {}, ReadsOfMixed,
                             {"document"})
    BY <2>5, IteratesIs, GrantsAre DEF ReadsOfMixed
  <2>6. CASE i = K6!Iterates("GET", "/proposals/:id", {"id"}, ReadsOfMixed,
                             {"document"})
    BY <2>6, IteratesIs, GrantsAre DEF ReadsOfMixed
  <2>7. CASE i = K6!Iterates("GET", "/blogs/:id", {"id"}, ReadsOfMixed,
                             {"document"})
    BY <2>7, IteratesIs, GrantsAre DEF ReadsOfMixed
  <2> HIDE DEF Asks
  <2>8. i.grant.grant # "password"
    OBVIOUS
  <2> QED
    BY <2>1, <2>2, <2>3, <2>4, <2>5, <2>6, <2>7, <2>8, Iterations
<1>2. a \in UNION {ComponentsController, ProposalsController, BlogsController}
  BY <1>1, OnIs
  DEF Actions, TokensController, JobsController, OrganizationsController,
      OrganizationExtendedDataController, ProposalComponentsController,
      BlogComponentsController, ComponentExtendedDataController,
      SpacesController, SpaceExtendedDataController, RolesController,
      UsersController, UserExtendedDataController, MagicLinksController,
      AttachmentsController, WebhookRegistrationsController,
      WebhookEventsController, DraftProposalsController,
      ProposalExtendedDataController, VoteProposalsController,
      MeetingsController, MeetingExtendedDataController,
      QuestionnairesController, QuestionsController, AnswersController,
      QuestionnaireResponsesController
<1>3. CASE a \in ComponentsController
  BY <1>1, <1>3, OnIs, GuardedIs DEF ComponentsController, Passes
<1>4. CASE a \in ProposalsController
  BY <1>1, <1>4, OnIs, GuardedIs DEF ProposalsController, Passes
<1>5. CASE a \in BlogsController
  BY <1>1, <1>5, OnIs, GuardedIs, ForIs DEF BlogsController, Passes
<1> QED
  BY <1>2, <1>3, <1>4, <1>5

-----------------------------------------------------------------------------
(* Requests under way, and what the tables mean for them.                  *)

\* No method of the client is called like the mark of the scenarios.
LEMMA ScenariosAreNoMethods == "k6" \notin Method /\ "none" \notin Method
  BY DEF Method, AttachmentsApi, BlogsApi, ComponentsApi, DraftProposalsApi,
         FormsApi, JobsApi, MeetingsApi, OAuthApi, OrganizationsApi,
         OrganizationsExtendedDataApi, ProposalsApi, RolesApi, SpacesApi,
         UsersApi, WebhooksApi

\* Every operation of the client suits the action its request reaches.
LEMMA OperationsSuit ==
  ASSUME NEW m \in Method
  PROVE  Suits(Operation[m], Route[RequestOf(Operation[m])])
<1>1. RequestOf(Operation[m]) \in DOMAIN Route
  BY TableAssumption DEF RequestOf
<1>2. PICK a \in Actions : /\ a.route = RequestOf(Operation[m])
                           /\ a.endpoint = Route[RequestOf(Operation[m])]
  BY <1>1, RouteIs
<1> QED
  BY <1>2, AttachmentsSuit, BlogsSuit, ComponentsSuit, DraftProposalsSuit,
     FormsSuit, JobsSuit, MeetingsSuit, OAuthSuit, OrganizationsSuit,
     OrganizationsExtendedDataSuit, ProposalsSuit, RolesSuit, SpacesSuit,
     UsersSuit, WebhooksSuit
  DEF Method

\* Every request of a scenario whose token is granted passes at the action it
\* reaches.
LEMMA ScenariosPass ==
  ASSUME NEW p \in DOMAIN K6!Scenario, NEW i \in K6!Scenario[p],
         i.grant.grant = "client_credentials"
  PROVE  Passes(i, Route[<<i.verb, i.path>>])
<1>1. <<i.verb, i.path>> \in DOMAIN Route
  BY TableAssumption
<1>2. PICK a \in Actions : /\ a.route = <<i.verb, i.path>>
                           /\ a.endpoint = Route[<<i.verb, i.path>>]
  BY <1>1, RouteIs
<1> QED
  BY <1>2, ReadsAreGranted

\* A password without a client is granted nothing: who has a token of a
\* scenario asked for it with the client's own credentials.
LEMMA ClientsAreGranted ==
  ASSUME NEW p \in DOMAIN K6!Scenario, NEW i \in K6!Scenario[p],
         Grants(i.grant)
  PROVE  i.grant.grant = "client_credentials"
<1>1. CASE i.grant.grant = "password" /\ i.grant.client = FALSE
  BY <1>1, Zenon DEF Grants
<1>2. CASE i \in {K6!searchComponents, K6!smoke, K6!getProposal,
                  K6!getBlogPost, K6!listBlogPosts}
  BY <1>2, IteratesIs, GrantsAre
  DEF K6!searchComponents, K6!smoke, K6!getProposal, K6!getBlogPost,
      K6!listBlogPosts
<1>3. ASSUME NEW v, NEW r, NEW s, NEW x,
             i = K6!Iterates(v, r, s, ReadsOfMixed, x)
      PROVE  i.grant.grant = "client_credentials"
  BY <1>3, IteratesIs, GrantsAre DEF ReadsOfMixed
<1> QED
  BY <1>1, <1>2, <1>3, Iterations

\* Who sent the request under way, and with what.
Sent ==
  call.stage # "idle" =>
    \/ /\ program \in Sdk
       /\ call.by \in Method
       /\ call.route = RequestOf(Operation[call.by])
       /\ call.given = Operation[call.by].request.required
    \/ /\ program \notin Sdk
       /\ call.by = "k6"
       /\ call.token \in Token
       /\ tokens[call.token] # "unissued"
       /\ \E i \in K6!Scenario[program] :
            /\ call.route = <<i.verb, i.path>>
            /\ Carries(i, call.token)
            /\ call.given = i.sends

\* Nothing is answered before the end, and then what the action answers.
Answered ==
  /\ call.stage # "answered" => call.answer = "none"
  /\ call.stage = "answered" /\ call.answer # "refused" =>
       call.answer = Route[call.route].answer

\* Only client credentials got a scenario its token.
Asked ==
  program \notin Sdk =>
    \A t \in Token : tokens[t] # "unissued" => t = Service

CallInv == Sent /\ Answered /\ Asked

\* What is answered is what the action answers, which suits the operation.
LEMMA AnswersSuffice == CallInv => AnswersAsTyped
<1> SUFFICES ASSUME CallInv, call.stage = "answered", call.answer # "refused",
                    call.by \in Method
             PROVE  LET promised == Operation[call.by].answer
                    IN  /\ promised = "job" <=> call.answer = "job"
                        /\ promised = "document" => call.answer = "document"
  BY DEF AnswersAsTyped
<1>1. call.route = RequestOf(Operation[call.by])
  BY ScenariosAreNoMethods DEF CallInv, Sent
<1>2. call.answer = Route[call.route].answer
  BY DEF CallInv, Answered
<1> QED
  BY <1>1, <1>2, OperationsSuit DEF Suits

\* What a request under way finds at the action it reaches.
LEMMA TokensAndWithdrawals ==
  ASSUME TypeOK, CallInv, call.stage # "idle"
  PROVE  LET e == Route[call.route] IN
         /\ e.effect = "token" => e.answer = "document" /\ program \in Sdk
         /\ e.effect = "withdrawJob" => e.answer = "nothing"
<1>1. CASE program \in Sdk
  BY <1>1, OperationsSuit DEF CallInv, Sent, Suits
<1>2. CASE program \notin Sdk
  <2>1. PICK i \in K6!Scenario[program] :
          call.route = <<i.verb, i.path>> /\ Carries(i, call.token)
    BY <1>2 DEF CallInv, Sent
  <2>2. program \in DOMAIN K6!Scenario
    BY <1>2, ProgramAssumption DEF TypeOK
  <2>3. i.grant.grant = "client_credentials"
    BY <1>2, <2>1 DEF CallInv, Sent, Asked, Carries
  <2> QED
    BY <2>1, <2>2, <2>3, ScenariosPass DEF Passes
<1> QED
  BY <1>1, <1>2

\* No call is idle and has no answer.
LEMMA IdleIs == Idle.stage = "idle" /\ Idle.answer = "none"
  BY Zenon DEF Idle

\* The initial states satisfy the invariant.
LEMMA InitCallInv == Init => CallInv
  BY IdleIs DEF Init, CallInv, Sent, Answered, Asked

\* A step that leaves program, call and what was issued leaves the invariant.
LEMMA CallStays ==
  ASSUME CallInv, UNCHANGED <<program, call>>,
         \A t \in Token : tokens'[t] = "unissued" <=> tokens[t] = "unissued"
  PROVE  CallInv'
<1> QED
  BY DEF CallInv, Sent, Answered, Asked

\* What happens around the requests leaves them alone.
LEMMA EditsLeaveTheCall ==
  ASSUME TypeOK, CallInv, EditStep \/ UNCHANGED vars
  PROVE  CallInv'
<1>1. UNCHANGED <<program, call>>
  BY DEF vars, EditStep, EditPermissions, SwitchModules, Expire, BlockUser,
         DeleteTokens, DeletePermissions, DeleteRegistrations, DestroyClient,
         DeletionFails, RevokeClient, Destroyed
<1>2. \A t \in Token : tokens'[t] = "unissued" <=> tokens[t] = "unissued"
  BY DEF TypeOK, vars, EditStep, EditPermissions, SwitchModules, Expire,
         BlockUser, DeleteTokens, DeletePermissions, DeleteRegistrations,
         DestroyClient, DeletionFails, RevokeClient, Destroyed, Deleted
<1> QED
  BY <1>1, <1>2, CallStays

\* An answer ends a request that was sent as the invariant says.
LEMMA RespondKeeps ==
  ASSUME TypeOK, CallInv, call.stage # "idle", UNCHANGED program,
         NEW answer, Respond(answer),
         answer = "refused" \/ answer = Route[call.route].answer,
         \A t \in Token : tokens'[t] = "unissued" => tokens[t] = "unissued",
         program \notin Sdk => UNCHANGED tokens
  PROVE  CallInv'
<1>1. /\ call'.stage = "answered" /\ call'.answer = answer
      /\ call'.route = call.route /\ call'.by = call.by
      /\ call'.given = call.given /\ call'.token = call.token
  BY DEF Respond, TypeOK
<1> QED
  BY <1>1 DEF CallInv, Sent, Answered, Asked


\* The request that leaves the TypeScript client.
LEMMA ArrivesIs ==
  ASSUME NEW m \in Method, NEW t, NEW given
  PROVE  LET c == Arrives(m, t, given) IN
         /\ c.stage = "sent" /\ c.by = m /\ c.answer = "none"
         /\ c.given = given /\ c.route = RequestOf(Operation[m])
  BY Zenon DEF Arrives, Idle, RequestOf

\* Every step keeps the invariant.
LEMMA NextCallInv == TypeOK /\ CallInv /\ [Next]_vars => CallInv'
<1> SUFFICES ASSUME TypeOK, CallInv, [Next]_vars PROVE CallInv'
  OBVIOUS
<1>1. CASE EditStep \/ UNCHANGED vars
  BY <1>1, EditsLeaveTheCall
<1>2. ASSUME NEW m \in Method, Prepare(m) PROVE CallInv'
  <2>1. PICK bearer \in Bearers(m) :
          call' = Arrives(m, bearer, Operation[m].request.required)
    BY <1>2 DEF Prepare
  <2>2. /\ call'.stage = "sent" /\ call'.by = m /\ call'.answer = "none"
        /\ call'.given = Operation[m].request.required
        /\ call'.route = RequestOf(Operation[m])
    BY <2>1, ArrivesIs
  <2>3. program \in Sdk /\ UNCHANGED <<program, tokens>>
    BY <1>2 DEF Prepare, server
  <2> QED
    BY <2>2, <2>3 DEF CallInv, Sent, Answered, Asked
<1>3. ASSUME NEW t \in Token, Setup(t) PROVE CallInv'
  <2>1. PICK i \in K6!Scenario[program] : Carries(i, t) /\ Grants(i.grant)
    BY <1>3 DEF Setup
  <2>2. program \in DOMAIN K6!Scenario
    BY <1>3, ProgramAssumption DEF Setup, TypeOK
  <2>3. t = Service
    BY <2>1, <2>2, ClientsAreGranted DEF Carries
  <2>4. /\ UNCHANGED <<program, call>>
        /\ tokens' = [tokens EXCEPT ![t] = "live"]
    BY <1>3 DEF Setup, IssueToken
  <2>5. \A u \in Token : u # t => tokens'[u] = tokens[u]
    BY <2>4 DEF TypeOK
  <2>6. tokens'[t] # "unissued"
    BY <2>4 DEF TypeOK
  <2> QED
    BY <2>3, <2>4, <2>5, <2>6 DEF CallInv, Sent, Answered, Asked
<1>4. ASSUME NEW t \in Token, Iterate(t) PROVE CallInv'
  <2>1. PICK i \in K6!Scenario[program] :
          /\ Carries(i, t)
          /\ call' = [stage |-> "sent", route |-> <<i.verb, i.path>>,
                      by |-> "k6", token |-> t, given |-> i.sends,
                      answer |-> "none"]
    BY <1>4 DEF Iterate
  <2>2. program \notin Sdk /\ tokens[t] # "unissued"
    BY <1>4 DEF Iterate
  <2>3. UNCHANGED <<program, tokens>>
    BY <1>4 DEF Iterate, server
  <2> QED
    BY <2>1, <2>2, <2>3 DEF CallInv, Sent, Answered, Asked
<1>5. ASSUME NEW t \in Token, Issue(t) PROVE CallInv'
  <2>1. /\ call.stage # "idle" /\ Route[call.route].effect = "token"
        /\ UNCHANGED program /\ Respond("document")
        /\ tokens' = [tokens EXCEPT ![t] = "live"]
    BY <1>5 DEF Issue, IssueToken
  <2>2. "document" = Route[call.route].answer /\ program \in Sdk
    BY <2>1, TokensAndWithdrawals
  <2>3. \A u \in Token : tokens'[u] = "unissued" => tokens[u] = "unissued"
    BY <2>1 DEF TypeOK
  <2> QED
    BY <2>1, <2>2, <2>3, RespondKeeps
<1>6. CASE Receive
  BY <1>6, IdleIs DEF Receive, server, CallInv, Sent, Answered, Asked
<1>7. CASE Admit
  <2>1. /\ call'.stage = "admitted" /\ call'.answer = call.answer
        /\ call'.route = call.route /\ call'.by = call.by
        /\ call'.given = call.given /\ call'.token = call.token
    BY <1>7 DEF Admit, TypeOK
  <2>2. call.stage = "sent" /\ UNCHANGED <<program, tokens>>
    BY <1>7 DEF Admit, server
  <2> QED
    BY <2>1, <2>2 DEF CallInv, Sent, Answered, Asked
<1>8. CASE Refuse \/ Fail
  <2>1. /\ call.stage # "idle" /\ Respond("refused")
        /\ UNCHANGED <<program, tokens>>
    BY <1>8 DEF Refuse, Fail, server
  <2> QED
    BY <2>1, RespondKeeps
<1>9. CASE Serve
  <2>1. /\ call.stage # "idle" /\ Respond(Route[call.route].answer)
        /\ UNCHANGED <<program, tokens>>
    BY <1>9 DEF Serve
  <2> QED
    BY <2>1, RespondKeeps
<1>10. ASSUME NEW s \in Slot, WithdrawJob(s) PROVE CallInv'
  <2>1. /\ call.stage # "idle" /\ Route[call.route].effect = "withdrawJob"
        /\ UNCHANGED <<program, tokens>> /\ Respond("nothing")
    BY <1>10 DEF WithdrawJob
  <2> QED
    BY <2>1, TokensAndWithdrawals, RespondKeeps
<1>11. ASSUME NEW s \in Slot, Enqueue(s) PROVE CallInv'
  <2>1. /\ call.stage # "idle" /\ Route[call.route].answer = "job"
        /\ UNCHANGED <<program, tokens>> /\ Respond("job")
    BY <1>11 DEF Enqueue
  <2> QED
    BY <2>1, RespondKeeps
<1>12. ASSUME NEW s \in Slot, Work(s) \/ WorkRaises(s) PROVE CallInv'
  <2>1. UNCHANGED <<program, call, tokens>>
    BY <1>12 DEF Work, WorkRaises
  <2> QED
    BY <2>1, CallStays
<1> QED
  BY <1>1, <1>2, <1>3, <1>4, <1>5, <1>6, <1>7, <1>8, <1>9, <1>10, <1>11,
     <1>12
  DEF Next, CallStep

\* A request under way is one that a program sent, and is answered as its
\* action answers.
THEOREM CallsKept == Spec => []CallInv
<1> QED
  BY InitCallInv, NextCallInv, AccessTypes, PTL DEF Spec

\* What is answered is of the type the client promises its caller.
THEOREM AnswersKeepTheirTypes == Spec => []AnswersAsTyped
<1> QED
  BY CallsKept, AnswersSuffice, PTL

-----------------------------------------------------------------------------
\* A caller that follows the declarations passes the checks.
LEMMA DeclaredIsAdmitted ==
  ASSUME CallInv, program = "sdk", call.by \in Method, call.stage # "idle",
         AllInOrder, Declared(call.by, call.token)
  PROVE  LET e == Route[call.route] IN
         /\ Admits(e, call.token, call.given)
         /\ e.answer = "job" => Live(call.token)
         /\ UserFits(e.worker, call.token)
<1> DEFINE m == call.by
           o == Operation[m].request
           e == Route[call.route]
           t == call.token
<1>1. /\ call.route = RequestOf(Operation[m])
      /\ call.given = o.required
  BY ScenariosAreNoMethods DEF CallInv, Sent
<1>2. Suits(Operation[m], e)
  BY <1>1, OperationsSuit
<1>3. call.route \in DOMAIN Route
  BY <1>1, TableAssumption DEF RequestOf
<1>4. disabled \cap {"core", e.feature} = {}
  BY DEF AllInOrder
<1>5. e.bearer => Live(t)
  BY <1>2, Zenon DEF Suits, Declared
<1>6. o.flows # {} => Live(t) /\ FlowOf(t) \in o.flows
  BY DEF Declared
<1>7. e.scopes \subseteq ScopesOf(t)
  <2>1. e.scopes \subseteq Scope
    BY <1>3 DEF Scope
  <2>2. CASE o.flows = {}
    BY <1>2, <2>2 DEF Suits
  <2>3. CASE o.flows # {}
    <3>1. t \in Token /\ t # "none"
      BY <1>6, <2>3, TokenAssumption DEF Live
    <3>2. ScopesOf(t) = Scope \ (IF t = Service THEN {} ELSE SystemScope)
      BY <3>1 DEF ScopesOf
    <3>3. t # Service => "system" \notin e.scopes
      BY <1>2, <1>6, <2>3 DEF FlowOf, Suits
    <3> QED
      BY <2>1, <3>2, <3>3 DEF SystemScope
  <2> QED
    BY <2>2, <2>3
<1>8. \A alternatives \in e.grants : alternatives \cap permissions # {}
  <2>1. \A alternatives \in e.grants : alternatives \subseteq Permission
    BY <1>3 DEF Permission
  <2>2. {} \notin e.grants
    BY <1>2 DEF Suits
  <2> QED
    BY <2>1, <2>2 DEF AllInOrder
<1>9. \A c \in {e.user, e.worker} : UserFits(c, t)
  <2>1. CASE o.flows = {} \/ "credential" \in o.flows
    BY <1>2, <2>1 DEF Suits, UserFits
  <2>2. CASE o.flows # {} /\ "credential" \notin o.flows
    BY <1>6, <2>2 DEF Live, FlowOf, AllInOrder, UserFits
  <2> QED
    BY <2>1, <2>2
<1>10. e.needs \subseteq call.given
  BY <1>1, <1>2 DEF Suits
<1>11. e.answer = "job" => Live(t)
  BY <1>2, <1>6 DEF Suits
<1> HIDE DEF e, t
<1>12. Admits(e, t, call.given)
  BY <1>4, <1>5, <1>7, <1>8, <1>9, <1>10 DEF Admits
<1> QED
  BY <1>9, <1>11, <1>12 DEF e, t

\* The steps that answer a request.
LEMMA AnsweringSteps ==
  ASSUME TypeOK, [Next]_vars, call.stage # "answered",
         call'.stage = "answered"
  PROVE  /\ call.stage # "idle"
         /\ \/ Refuse \/ Fail \/ Serve
            \/ \E t \in Token : Issue(t)
            \/ \E s \in Slot : WithdrawJob(s) \/ Enqueue(s)
<1>1. CASE EditStep \/ UNCHANGED vars
  BY <1>1
  DEF vars, EditStep, EditPermissions, SwitchModules, Expire, BlockUser,
      DeleteTokens, DeletePermissions, DeleteRegistrations, DestroyClient,
      DeletionFails, RevokeClient, Destroyed
<1>2. ASSUME NEW m \in Method, Prepare(m) PROVE FALSE
  BY <1>2, ArrivesIs DEF Prepare
<1>3. ASSUME NEW t \in Token, Setup(t) \/ Iterate(t) PROVE FALSE
  BY <1>3 DEF Setup, Iterate
<1>4. CASE Receive \/ Admit
  BY <1>4, IdleIs DEF Receive, Admit, TypeOK
<1>5. ASSUME NEW s \in Slot, Work(s) \/ WorkRaises(s) PROVE FALSE
  BY <1>5 DEF Work, WorkRaises
<1>6. ASSUME NEW t \in Token, Issue(t) PROVE call.stage # "idle"
  BY <1>6 DEF Issue
<1>7. ASSUME NEW s \in Slot, WithdrawJob(s) \/ Enqueue(s)
      PROVE  call.stage # "idle"
  BY <1>7 DEF WithdrawJob, Enqueue
<1>8. ASSUME Refuse \/ Fail \/ Serve PROVE call.stage # "idle"
  BY <1>8 DEF Refuse, Fail, Serve
<1> QED
  BY <1>1, <1>2, <1>3, <1>4, <1>5, <1>6, <1>7, <1>8 DEF Next, CallStep

\* An answer is what was answered.
LEMMA RespondIs ==
  ASSUME TypeOK, NEW answer, Respond(answer)
  PROVE  call'.answer = answer /\ call'.stage = "answered"
  BY DEF Respond, TypeOK

\* A step that turned away who follows the declarations would be Refuse or
\* Fail, and is neither.
LEMMA DeclaredStep ==
  ASSUME TypeOK, CallInv, CallInv', [Next]_vars,
         program = "sdk", call.by \in Method, call.stage # "answered",
         AllInOrder, Declared(call.by, call.token),
         ~DependsOnData(call.route)
  PROVE  call'.answer # "refused"
<1> SUFFICES ASSUME call'.answer = "refused" PROVE FALSE
  OBVIOUS
<1> DEFINE e == Route[call.route]
<1>1. call'.stage = "answered"
  BY DEF CallInv, Answered
<1>2. /\ call.stage # "idle"
      /\ \/ Refuse \/ Fail \/ Serve
         \/ \E t \in Token : Issue(t)
         \/ \E s \in Slot : WithdrawJob(s) \/ Enqueue(s)
  BY <1>1, AnsweringSteps
<1>3. /\ Admits(e, call.token, call.given)
      /\ e.answer = "job" => Live(call.token)
      /\ UserFits(e.worker, call.token)
  BY <1>2, DeclaredIsAdmitted
<1>4. e.effect \notin {"token", "withdrawJob"}
  BY DEF DependsOnData
<1>5. e.answer # "refused"
  BY <1>2, OperationsSuit, ScenariosAreNoMethods
  DEF CallInv, Sent, Suits
<1>6. CASE Refuse
  BY <1>3, <1>6 DEF Refuse
<1>7. CASE Fail
  BY <1>3, <1>4, <1>7 DEF Fail, AllInOrder
<1>8. CASE Serve
  BY <1>5, <1>8, RespondIs DEF Serve
<1>9. ASSUME NEW t \in Token, Issue(t) PROVE FALSE
  BY <1>9, RespondIs DEF Issue
<1>10. ASSUME NEW s \in Slot, WithdrawJob(s) \/ Enqueue(s) PROVE FALSE
  BY <1>10, RespondIs DEF WithdrawJob, Enqueue
<1> QED
  BY <1>2, <1>6, <1>7, <1>8, <1>9, <1>10

\* Who follows the declarations of the client is not turned away.
THEOREM DeclaredFlowsAreServed == Spec => DeclaredFlowServed
<1>1. TypeOK /\ CallInv /\ CallInv' /\ [Next]_vars =>
        [(/\ program = "sdk" /\ call.by \in Method /\ call.stage # "answered"
          /\ AllInOrder /\ Declared(call.by, call.token)
          /\ ~DependsOnData(call.route))
         => call'.answer # "refused"]_vars
  BY DeclaredStep
<1> QED
  BY <1>1, AccessTypes, CallsKept, PTL DEF Spec, DeclaredFlowServed

-----------------------------------------------------------------------------
\* A request of a scenario that has its token passes the checks.
LEMMA ScenarioIsAdmitted ==
  ASSUME TypeOK, CallInv, call.by = "k6", call.stage # "idle",
         NEW i \in K6!Scenario[program], program \notin Sdk,
         call.route = <<i.verb, i.path>>, Carries(i, call.token),
         call.given = i.sends, AllInOrder, Live(call.token)
  PROVE  LET e == Route[call.route] IN
         /\ Passes(i, e)
         /\ Admits(e, call.token, call.given)
         /\ UserFits(e.worker, call.token)
<1> DEFINE e == Route[call.route]
           t == call.token
<1>1. program \in DOMAIN K6!Scenario
  BY ProgramAssumption DEF TypeOK
<1>2. t = Service /\ t # "none"
  BY TokenAssumption DEF Live, CallInv, Asked
<1>3. i.grant.grant = "client_credentials"
  BY <1>2 DEF Carries
<1>4. Passes(i, e)
  BY <1>1, <1>3, ScenariosPass
<1>5. e.scopes \subseteq ScopesOf(t)
  <2>1. program # "sdk" /\ program # "reader"
    BY DEF Sdk
  <2>2. ScopesOf(t) = UNION {j.grant.scopes :
                         j \in {k \in K6!Scenario[program] : Carries(k, t)}}
    BY <1>2, <2>1 DEF ScopesOf
  <2>3. i.grant.scopes \subseteq ScopesOf(t)
    BY <2>2
  <2> QED
    BY <1>4, <2>3 DEF Passes
<1>6. \A alternatives \in e.grants : alternatives \cap permissions # {}
  <2>1. call.route \in DOMAIN Route
    BY <1>1, TableAssumption
  <2>2. \A alternatives \in e.grants : alternatives \subseteq Permission
    BY <2>1 DEF Permission
  <2>3. {} \notin e.grants
    BY <1>4 DEF Passes
  <2> QED
    BY <2>2, <2>3 DEF AllInOrder
<1>7. UserFits(e.user, t) /\ UserFits(e.worker, t)
  BY <1>4 DEF Passes, UserFits
<1>8. e.needs \subseteq call.given
  BY <1>4 DEF Passes
<1>9. disabled \cap {"core", e.feature} = {}
  BY DEF AllInOrder
<1> HIDE DEF e, t
<1>10. Admits(e, t, call.given)
  BY <1>5, <1>6, <1>7, <1>8, <1>9 DEF Admits, t
<1> QED
  BY <1>4, <1>7, <1>10 DEF e, t

\* A step that answers a scenario answers what its check accepts.
LEMMA ChecksStep ==
  ASSUME TypeOK, CallInv, [Next]_vars,
         call.by = "k6", call.stage # "answered", call'.stage = "answered",
         AllInOrder, Live(call.token)
  PROVE  \E i \in K6!Scenario[program] :
           /\ <<i.verb, i.path>> = call.route
           /\ Carries(i, call.token)
           /\ call'.answer \in i.expected
<1> DEFINE e == Route[call.route]
<1>1. /\ call.stage # "idle"
      /\ \/ Refuse \/ Fail \/ Serve
         \/ \E t \in Token : Issue(t)
         \/ \E s \in Slot : WithdrawJob(s) \/ Enqueue(s)
  BY AnsweringSteps
<1>2. program \notin Sdk
  BY <1>1, ScenariosAreNoMethods DEF CallInv, Sent
<1>3. PICK i \in K6!Scenario[program] :
        /\ call.route = <<i.verb, i.path>>
        /\ Carries(i, call.token)
        /\ call.given = i.sends
  BY <1>1, <1>2 DEF CallInv, Sent
<1>4. /\ Passes(i, e)
      /\ Admits(e, call.token, call.given)
      /\ UserFits(e.worker, call.token)
  BY <1>1, <1>2, <1>3, ScenarioIsAdmitted
<1>5. CASE Refuse
  BY <1>4, <1>5 DEF Refuse
<1>6. CASE Fail
  BY <1>4, <1>6 DEF Fail, Passes
<1>7. CASE Serve
  BY <1>3, <1>4, <1>7, RespondIs DEF Serve, Passes
<1>8. ASSUME NEW t \in Token, Issue(t) PROVE FALSE
  BY <1>4, <1>8 DEF Issue, Passes
<1>9. ASSUME NEW s \in Slot, WithdrawJob(s) PROVE FALSE
  BY <1>4, <1>9 DEF WithdrawJob, Passes
<1>10. ASSUME NEW s \in Slot, Enqueue(s) PROVE call'.answer \in i.expected
  BY <1>4, <1>10, RespondIs DEF Enqueue, Passes
<1> QED
  BY <1>1, <1>3, <1>5, <1>6, <1>7, <1>8, <1>9, <1>10

\* A scenario that has its token gets the answers its checks accept.
THEOREM ScenariosPassTheirChecks == Spec => ChecksPass
<1>1. TypeOK /\ CallInv /\ [Next]_vars =>
        [call.by = "k6" /\ call.stage # "answered" /\ call'.stage = "answered"
         /\ AllInOrder /\ Live(call.token) =>
           \E i \in K6!Scenario[program] :
             /\ <<i.verb, i.path>> = call.route
             /\ Carries(i, call.token)
             /\ call'.answer \in i.expected]_vars
  BY ChecksStep
<1> QED
  BY <1>1, AccessTypes, CallsKept, PTL DEF Spec, ChecksPass
=============================================================================

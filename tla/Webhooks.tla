------------------------------ MODULE Webhooks ------------------------------
(***************************************************************************)
(* Webhooks about one proposal.  A change of the proposal publishes an     *)
(* event inside the transaction of the change; the dispatcher enqueues a   *)
(* ProposalWebhookJob with the name of the event, the job looks up who is  *)
(* entitled and enqueues one WebhookJob per registration, and that job     *)
(* posts the event until the receiver accepts it.  Between these steps     *)
(* permissions, registrations, the module's toggle and the proposal        *)
(* change, and workers die.                                                *)
(*                                                                         *)
(* The payload is what the proposal was when the first job loaded it; the  *)
(* name of the event is what it was when the change was made.              *)
(***************************************************************************)
EXTENDS Naturals, FiniteSets

CONSTANTS
  Client,        \* API clients of the organization
  Registration,  \* rows of webhooks_tables
  Owner,         \* Owner[r]: the API client of r
  Change,        \* changes of the proposal that publish an event
  NoChange,
  Subscribable,  \* the event names this instance grants and subscribes to
  Status,        \* the status codes a receiver may answer with
  NetworkError,  \* what the worker sees of a connection that breaks
  Attempts,      \* attempts of retry_on
  MaxDeaths,     \* bound: workers that die
  MaxEdits       \* bound: changes of permissions, registrations, toggle

Name == {"draft_proposal_creation.succeeded", "draft_proposal_update.succeeded",
         "proposal_creation.succeeded", "proposal_update.succeeded"}
NoName == "nil"

ASSUME WebhookAssumption ==
  /\ Owner \in [Registration -> Client]
  /\ NoChange \notin Change
  /\ Subscribable \subseteq Name
  /\ Status \subseteq Nat
  /\ NetworkError \notin Nat
  /\ Attempts \in Nat \ {0}
ASSUME WebhookBounds == MaxDeaths \in Nat /\ MaxEdits \in Nat

VARIABLES
  proposal,       \* the committed row: absent, draft, published, destroyed
  tx,             \* the transaction that changes the row
  transactional,  \* jobs live in the same database as the proposal
  enabled,        \* the proposals module is enabled for the organization
  granted,        \* granted[c]: event permissions of c
  registered,     \* registered[r]: new, live, destroyed
  subscriptions,  \* subscriptions[r]
  job,            \* job[e]: the ProposalWebhookJob of the change e
  deliveries,     \* WebhookJobs, the ended ones too
  deaths, edits,
  told,           \* told[e][r]: how often the receiver of r may have taken e
  witnessed,      \* witnessed[e]: who was granted and subscribed at some time
  steady          \* steady[e]: who was entitled all the time

vars   == <<proposal, tx, transactional, enabled, granted, registered,
            subscriptions, job, deliveries, deaths, edits, told, witnessed,
            steady>>
tables == <<enabled, granted, registered, subscriptions>>
counters == <<deaths, edits, told>>

Row     == {"draft", "published"}

Job == [stage : {"none", "waiting", "loaded", "dispatching", "performed",
                 "missing", "undone"},
        name : Name \cup {NoName},
        data : Row,                  \* the proposal as loaded
        todo : SUBSET Client,        \* permissions not yet dispatched
        targets : SUBSET Registration,
        run : Nat]

Delivery == [change : Change, registration : Registration, run : Nat,
             name : Name \cup {NoName}, data : Row,
             stage : {"waiting", "posted", "accepted", "gave_up"},
             executions : 0..Attempts,
             answer : Status \cup {NetworkError}]

IdleJob == [stage |-> "none", name |-> NoName, data |-> "draft",
            todo |-> {}, targets |-> {}, run |-> 0]
NoTx    == [change |-> NoChange, row |-> "absent"]
-----------------------------------------------------------------------------
\* The name handle_proposals gives to a notification.
PublishedName(event, isDraft) ==
  CASE event = "create" /\ isDraft  -> "draft_proposal_creation.succeeded"
    [] event = "update" /\ isDraft  -> "draft_proposal_update.succeeded"
    [] event = "update" /\ ~isDraft -> "proposal_update.succeeded"
    [] event = "published"          -> "proposal_creation.succeeded"
    [] OTHER                        -> NoName

\* Mutant of RegistrationsFor: the registrations of every client.
RegistrationsOfAll(c, n) ==
  {r \in Registration : registered[r] = "live" /\ n \in subscriptions[r]}

\* webhook_registrations_for: live registrations of c that subscribed to n.
RegistrationsFor(c, n) ==
  {r \in Registration : /\ registered[r] = "live"
                        /\ Owner[r] = c
                        /\ n \in subscriptions[r]}

\* permissions_for: the clients with the permission named after the event.
PermissionsFor(n) == {c \in Client : n \in granted[c]}

\* The answers after which WebhookFailedError is not raised.
Accepted(answer) == answer \in 200..300

\* Who is granted and subscribed to n, and who should therefore be told of it.
Subscribers(n) ==
  {r \in Registration : /\ registered[r] = "live"
                        /\ n \in subscriptions[r]
                        /\ n \in granted[Owner[r]]}
Entitled(n) == IF enabled THEN Subscribers(n) ELSE {}

\* What an outside observer of the tables notes of every event, as part of every
\* step.
Open(e) == job[e].stage \in {"waiting", "loaded", "dispatching"}

Observe ==
  /\ witnessed' = [e \in Change |->
       IF Open(e)' THEN witnessed[e] \cup Subscribers(job[e].name)'
                   ELSE witnessed[e]]
  /\ steady' = [e \in Change |->
       IF job[e].stage = "none" /\ Open(e)' THEN Entitled(job[e].name)'
       ELSE IF Open(e)' THEN steady[e] \cap Entitled(job[e].name)'
       ELSE steady[e]]

Init ==
  /\ proposal \in Row \cup {"absent"}
  /\ tx = NoTx
  /\ transactional \in BOOLEAN
  /\ enabled = TRUE
  /\ granted \in [Client -> SUBSET Subscribable]
  /\ registered \in [Registration -> {"new", "live"}]
  /\ subscriptions \in [Registration -> SUBSET Subscribable]
  /\ \A r \in Registration : (registered[r] = "live") <=> (subscriptions[r] # {})
  /\ job = [e \in Change |-> IdleJob]
  /\ deliveries = {}
  /\ deaths = 0 /\ edits = 0
  /\ told = [e \in Change |-> [r \in Registration |-> 0]]
  /\ witnessed = [e \in Change |-> {}]
  /\ steady = [e \in Change |-> {}]
-----------------------------------------------------------------------------
(* The change and its notification.  The dispatcher runs inside the        *)
(* transaction and sees the row as the transaction left it.                *)

JobBecomes(e, new) == job' = [job EXCEPT ![e] = new]

\* handle_proposals
Dispatch(e, event, row) ==
  IF enabled
  THEN JobBecomes(e, [job[e] EXCEPT !.stage = "waiting",
                               !.name = PublishedName(event, row = "draft")])
  ELSE UNCHANGED job

BeginChange(e, event, from, row) ==
  /\ tx = NoTx
  /\ job[e].stage = "none"
  /\ proposal = from
  /\ tx' = [change |-> e, row |-> row]
  /\ Dispatch(e, event, row)
  /\ UNCHANGED <<proposal, transactional, tables, deliveries, counters>>
  /\ Observe

CreateDraft(e)     == BeginChange(e, "create", "absent", "draft")
CreatePublished(e) == BeginChange(e, "create", "absent", "published")
UpdateProposal(e)  == \E row \in Row : BeginChange(e, "update", row, row)
Publish(e)         == BeginChange(e, "published", "draft", "published")

\* A draft is destroyed without a notification.
DestroyDraft ==
  /\ tx = NoTx
  /\ proposal = "draft"
  /\ proposal' = "destroyed"
  /\ UNCHANGED <<tx, transactional, tables, job, deliveries, counters>>
  /\ Observe

Commit ==
  /\ tx # NoTx
  /\ proposal' = tx.row
  /\ tx' = NoTx
  /\ UNCHANGED <<transactional, tables, job, deliveries, counters>>
  /\ Observe

\* The job is rolled back with the change only when it is in the database.
Rollback ==
  /\ tx # NoTx
  /\ tx' = NoTx
  /\ IF transactional /\ job[tx.change].stage # "none"
     THEN JobBecomes(tx.change, [job[tx.change] EXCEPT !.stage = "undone"])
     ELSE UNCHANGED job
  /\ UNCHANGED <<proposal, transactional, tables, deliveries, counters>>
  /\ Observe
-----------------------------------------------------------------------------
(* ProposalWebhookJob                                                      *)

Visible(e) == transactional => tx.change # e

ModuleDisabled(e) ==
  /\ job[e].stage = "waiting" /\ Visible(e)
  /\ ~enabled
  /\ JobBecomes(e, [job[e] EXCEPT !.stage = "performed"])
  /\ UNCHANGED <<proposal, tx, transactional, tables, deliveries, counters>>
  /\ Observe

\* load_proposal: RecordNotFound ends the job, nothing retries it.
ProposalMissing(e) ==
  /\ job[e].stage = "waiting" /\ Visible(e)
  /\ enabled
  /\ proposal \notin Row
  /\ JobBecomes(e, [job[e] EXCEPT !.stage = "missing"])
  /\ UNCHANGED <<proposal, tx, transactional, tables, deliveries, counters>>
  /\ Observe

\* Mutant of LoadProposal: find_by, which answers nil.
LoadAnyProposal(e) ==
  /\ job[e].stage = "waiting" /\ Visible(e)
  /\ enabled
  /\ JobBecomes(e, [job[e] EXCEPT !.stage = "loaded", !.data = proposal,
                               !.run = @ + 1])
  /\ UNCHANGED <<proposal, tx, transactional, tables, deliveries, counters>>
  /\ Observe

LoadProposal(e) ==
  /\ job[e].stage = "waiting" /\ Visible(e)
  /\ enabled
  /\ proposal \in Row
  /\ JobBecomes(e, [job[e] EXCEPT !.stage = "loaded", !.data = proposal,
                               !.run = @ + 1])
  /\ UNCHANGED <<proposal, tx, transactional, tables, deliveries, counters>>
  /\ Observe

LoadPermissions(e) ==
  /\ job[e].stage = "loaded"
  /\ JobBecomes(e, [job[e] EXCEPT !.stage = "dispatching",
                               !.todo = PermissionsFor(job[e].name)])
  /\ UNCHANGED <<proposal, tx, transactional, tables, deliveries, counters>>
  /\ Observe

DispatchForPermission(e, c) ==
  /\ job[e].stage = "dispatching" /\ job[e].targets = {}
  /\ c \in job[e].todo
  /\ JobBecomes(e, [job[e] EXCEPT !.todo = @ \ {c},
                               !.targets = RegistrationsFor(c, job[e].name)])
  /\ UNCHANGED <<proposal, tx, transactional, tables, deliveries, counters>>
  /\ Observe

EnqueueWebhook(e, r) ==
  /\ job[e].stage = "dispatching"
  /\ r \in job[e].targets
  /\ JobBecomes(e, [job[e] EXCEPT !.targets = @ \ {r}])
  /\ deliveries' = deliveries \cup
       {[change |-> e, registration |-> r, run |-> job[e].run,
         name |-> job[e].name, data |-> job[e].data, stage |-> "waiting",
         executions |-> 0, answer |-> NetworkError]}
  /\ UNCHANGED <<proposal, tx, transactional, tables, counters>>
  /\ Observe

EndJob(e) ==
  /\ job[e].stage = "dispatching"
  /\ job[e].todo = {} /\ job[e].targets = {}
  /\ JobBecomes(e, [job[e] EXCEPT !.stage = "performed"])
  /\ UNCHANGED <<proposal, tx, transactional, tables, deliveries, counters>>
  /\ Observe
-----------------------------------------------------------------------------
(* WebhookJob                                                              *)

Becomes(d, new) == deliveries' = (deliveries \ {d}) \cup {new}

\* The receiver says that it took the event, or its answer is lost.
Taken(answer) == answer \in 200..299 \/ answer = NetworkError

Tell(e, r) == told' = [told EXCEPT ![e][r] = @ + 1]

\* send_webhook: the registration is loaded now, the event is the stored one.
Post(d) ==
  /\ d.stage = "waiting"
  /\ registered[d.registration] = "live"
  /\ \E a \in Status \cup {NetworkError} :
       /\ Becomes(d, [d EXCEPT !.stage = "posted", !.answer = a,
                               !.executions = d.executions + 1])
       /\ IF Taken(a) THEN Tell(d.change, d.registration) ELSE UNCHANGED told
  /\ UNCHANGED <<proposal, tx, transactional, tables, job, deaths, edits>>
  /\ Observe

\* The argument cannot be loaded: ActiveJob::DeserializationError.
RegistrationMissing(d) ==
  /\ d.stage = "waiting"
  /\ registered[d.registration] # "live"
  /\ Becomes(d, [d EXCEPT !.stage = "gave_up"])
  /\ UNCHANGED <<proposal, tx, transactional, tables, job, counters>>
  /\ Observe

\* The end of perform: the delivery is over, or waits for another attempt.
End(d, success, retried, executions) ==
  /\ d.stage = "posted"
  /\ Becomes(d, [d EXCEPT !.executions = executions,
                          !.stage = IF success THEN "accepted"
                                    ELSE IF retried THEN "waiting"
                                    ELSE "gave_up"])
  /\ UNCHANGED <<proposal, tx, transactional, tables, job, counters>>
  /\ Observe

\* WebhookFailedError, which retry_on covers; the errors of Net::HTTP it does not.
Refused(d) == d.answer # NetworkError /\ ~Accepted(d.answer)

\* Mutants of EndPost: no retry_on; the range begins after 200; a retry is a
\* new job, which counts its attempts from zero.
EndPostOnce(d) == End(d, Accepted(d.answer), FALSE, d.executions)
EndPostStrict(d) ==
  End(d, d.answer \in 201..300, d.executions < Attempts, d.executions)
EndPostUncounted(d) ==
  End(d, Accepted(d.answer), Refused(d),
      IF Refused(d) THEN 0 ELSE d.executions)

EndPost(d) ==
  End(d, Accepted(d.answer), Refused(d) /\ d.executions < Attempts,
      d.executions)
-----------------------------------------------------------------------------
(* A worker dies; the adapter delivers the job again from its beginning.   *)

Die ==
  /\ deaths < MaxDeaths
  /\ deaths' = deaths + 1
  /\ UNCHANGED <<proposal, tx, transactional, tables, edits, told>>
  /\ Observe

KillJob(e) ==
  /\ job[e].stage \in {"loaded", "dispatching"}
  /\ JobBecomes(e, [job[e] EXCEPT !.stage = "waiting", !.todo = {},
                               !.targets = {}])
  /\ UNCHANGED deliveries
  /\ Die

KillPost(d) ==
  /\ d.stage = "posted"
  /\ Becomes(d, [d EXCEPT !.stage = "waiting",
                          !.executions = d.executions - 1])
  /\ UNCHANGED job
  /\ Die
-----------------------------------------------------------------------------
(* Administrators and API clients                                          *)

Edit ==
  /\ edits < MaxEdits
  /\ edits' = edits + 1
  /\ UNCHANGED <<proposal, tx, transactional, job, deliveries, deaths, told>>
  /\ Observe

\* PermissionsController#create replaces the permissions, subscriptions stay.
SetPermissions(c) ==
  /\ \E s \in SUBSET Subscribable : granted' = [granted EXCEPT ![c] = s]
  /\ UNCHANGED <<enabled, registered, subscriptions>>
  /\ Edit

\* WebhookRegistrationForm: only events the client is granted.
ValidSubscriptions(r, s) == s # {} /\ s \subseteq granted[Owner[r]]

CreateRegistration(r) ==
  /\ registered[r] = "new"
  /\ \E s \in SUBSET Subscribable :
       /\ ValidSubscriptions(r, s)
       /\ subscriptions' = [subscriptions EXCEPT ![r] = s]
  /\ registered' = [registered EXCEPT ![r] = "live"]
  /\ UNCHANGED <<enabled, granted>>
  /\ Edit

UpdateRegistration(r) ==
  /\ registered[r] = "live"
  /\ \E s \in SUBSET Subscribable :
       /\ ValidSubscriptions(r, s)
       /\ subscriptions' = [subscriptions EXCEPT ![r] = s]
  /\ UNCHANGED <<enabled, granted, registered>>
  /\ Edit

DestroyRegistration(r) ==
  /\ registered[r] = "live"
  /\ registered' = [registered EXCEPT ![r] = "destroyed"]
  /\ subscriptions' = [subscriptions EXCEPT ![r] = {}]
  /\ UNCHANGED <<enabled, granted>>
  /\ Edit

Toggle ==
  /\ enabled' = ~enabled
  /\ UNCHANGED <<granted, registered, subscriptions>>
  /\ Edit
-----------------------------------------------------------------------------
JobStep(e) ==
  \/ ModuleDisabled(e) \/ ProposalMissing(e) \/ LoadProposal(e)
  \/ LoadPermissions(e) \/ EndJob(e)
  \/ \E c \in Client : DispatchForPermission(e, c)
  \/ \E r \in Registration : EnqueueWebhook(e, r)

DeliveryStep(d) == Post(d) \/ RegistrationMissing(d) \/ EndPost(d)

ChangeStep(e) ==
  CreateDraft(e) \/ CreatePublished(e) \/ UpdateProposal(e) \/ Publish(e)

Administration ==
  \/ \E c \in Client : SetPermissions(c)
  \/ \E r \in Registration :
       CreateRegistration(r) \/ UpdateRegistration(r) \/ DestroyRegistration(r)
  \/ Toggle

Next ==
  \/ \E e \in Change : ChangeStep(e) \/ JobStep(e) \/ KillJob(e)
  \/ DestroyDraft \/ Commit \/ Rollback
  \/ \E d \in deliveries : DeliveryStep(d) \/ KillPost(d)
  \/ Administration

Spec == Init /\ [][Next]_vars

\* Workers take what waits and transactions end; nobody has to change anything,
\* and no receiver has to accept.
Fairness ==
  /\ WF_vars(Commit \/ Rollback)
  /\ \A e \in Change : WF_vars(JobStep(e))
  /\ WF_vars(\E d \in deliveries : DeliveryStep(d))

FairSpec == Spec /\ Fairness
-----------------------------------------------------------------------------
TypeOK ==
  /\ proposal \in Row \cup {"absent", "destroyed"}
  /\ tx \in [change : Change \cup {NoChange}, row : Row \cup {"absent"}]
  /\ transactional \in BOOLEAN
  /\ enabled \in BOOLEAN
  /\ granted \in [Client -> SUBSET Subscribable]
  /\ registered \in [Registration -> {"new", "live", "destroyed"}]
  /\ subscriptions \in [Registration -> SUBSET Subscribable]
  /\ job \in [Change -> Job]
  /\ deliveries \subseteq Delivery
  /\ deaths \in 0..MaxDeaths
  /\ edits \in 0..MaxEdits
  /\ told \in [Change -> [Registration -> Nat]]
  /\ witnessed \in [Change -> SUBSET Registration]
  /\ steady \in [Change -> SUBSET Registration]

\* Only a registration whose client was granted the event while the
\* registration subscribed to it, at some time between the event and the
\* look-up, is told of the event: permissions, subscriptions and the job's two
\* look-ups of them are never combined to tell anybody else
\* (PermissionsController#create, permissions_for, webhook_registrations_for).
OnlySubscribersTold ==
  \A d \in deliveries : d.registration \in witnessed[d.change]

\* When jobs commit with the change, a registration that was entitled from the
\* event until the job ended has its WebhookJob, and that ended only because
\* the receiver accepted, refused Attempts times or broke the connection, or
\* the registration is gone; a job that found no proposal was overtaken by a
\* destruction (ProposalWebhookJob#perform, retry_on, send_webhook).
Served(e, r) ==
  \E d \in deliveries :
    /\ d.change = e /\ d.registration = r
    /\ d.stage = "gave_up" => \/ d.executions = Attempts
                             \/ (d.executions > 0 /\ d.answer = NetworkError)
                             \/ registered[r] = "destroyed"

NoSubscriberMissed ==
  transactional =>
    \A e \in Change :
      /\ job[e].stage = "performed" => \A r \in steady[e] : Served(e, r)
      /\ job[e].stage = "missing" => proposal = "destroyed"

\* Every event is settled: its job ends, and every WebhookJob the job enqueued
\* ends, however many attempts fail and whatever dies on the way (retry_on with a
\* bounded number of attempts, deliveries that repeat only after a death).
Settled(e) ==
  /\ ~Open(e)
  /\ \A d \in deliveries : d.change = e => d.stage \in {"accepted", "gave_up"}

EveryEventSettles == \A e \in Change : Open(e) ~> Settled(e)

\* A receiver is told of one event twice only when a worker died: neither retries
\* nor the two levels of jobs repeat what it took or may have taken.
RepeatsNeedDeath ==
  \A e \in Change, r \in Registration : told[e][r] <= 1 + deaths

\* website/docs/integrator/webhooks.md:58: "Non-2xx responses are retried by the
\* platform job".  A delivery is over as a success only after a 2xx answer.
OnlySuccessAccepted ==
  \A d \in deliveries : d.stage = "accepted" => d.answer \in 200..299

\* The schema of an envelope is chosen by its type: an event about a draft
\* carries a draft, one about a published proposal carries a published proposal
\* (payload_schema_ref of the proposals engine; WebhookDeliveryEnvelope).
TypeMatchesData ==
  \A d \in deliveries :
    d.data = IF d.name \in {"draft_proposal_creation.succeeded",
                            "draft_proposal_update.succeeded"}
             THEN "draft" ELSE "published"
=============================================================================

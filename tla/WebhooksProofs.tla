--------------------------- MODULE WebhooksProofs ---------------------------
(***************************************************************************)
(* Type correctness of Webhooks and the proofs that only subscribers are   *)
(* told of an event, that none of them is missed, and that nobody is told  *)
(* of it twice unless a worker died.                                       *)
(***************************************************************************)
EXTENDS Webhooks, FiniteSetTheorems, TLAPS

\* What a delivery still has to do agrees with what it has done.
Counts ==
  \A d \in deliveries : /\ d.stage = "waiting" => d.executions < Attempts
                        /\ d.stage = "posted" => d.executions >= 1

TypeInv == TypeOK /\ Counts

\* The part of the type invariant the steps of the code are about.
CodeTypeOK ==
  /\ proposal \in Row \cup {"absent", "destroyed"}
  /\ tx \in [change : Change \cup {NoChange}, row : Row \cup {"absent"}]
  /\ transactional \in BOOLEAN
  /\ enabled \in BOOLEAN
  /\ granted \in [Client -> SUBSET Subscribable]
  /\ registered \in [Registration -> {"new", "live", "destroyed"}]
  /\ subscriptions \in [Registration -> SUBSET Subscribable]
  /\ job \in [Change -> Job]
  /\ deliveries \subseteq Delivery
  /\ deaths \in 0..MaxDeaths
  /\ edits \in 0..MaxEdits
  /\ told \in [Change -> [Registration -> Nat]]

\* The observer notes registrations only.
LEMMA ObserverTyped ==
  ASSUME TypeOK, Observe
  PROVE  /\ witnessed' \in [Change -> SUBSET Registration]
         /\ steady' \in [Change -> SUBSET Registration]
BY DEF TypeOK, Observe, Subscribers, Entitled

\* The observer takes part in every step.
LEMMA StepObserved == Next => Observe
BY DEF Next, ChangeStep, CreateDraft, CreatePublished, UpdateProposal, Publish,
       BeginChange, JobStep, ModuleDisabled, ProposalMissing, LoadProposal,
       LoadPermissions, EndJob, DispatchForPermission, EnqueueWebhook, KillJob,
       DestroyDraft, Commit, Rollback, DeliveryStep, Post, RegistrationMissing,
       EndPost, End, KillPost, Die, Administration, SetPermissions,
       CreateRegistration, UpdateRegistration, DestroyRegistration, Toggle, Edit

LEMMA InitTyped == Init => TypeInv
<1> SUFFICES ASSUME Init PROVE TypeInv
  OBVIOUS
<1>1. IdleJob \in Job
  BY DEF IdleJob, Job, Row, NoName, Name
<1>2. QED
  BY <1>1, WebhookBounds DEF Init, TypeInv, TypeOK, Counts, NoTx, Row

\* A job is replaced by one of the right type.
LEMMA JobBecomesTyped ==
  ASSUME TypeOK, NEW e \in Change, NEW new \in Job, JobBecomes(e, new)
  PROVE  job' \in [Change -> Job]
BY DEF TypeOK, JobBecomes

LEMMA ChangeTyped ==
  ASSUME TypeInv, NEW e \in Change, ChangeStep(e)
  PROVE  CodeTypeOK' /\ Counts'
<1>1. ASSUME NEW event, NEW from, NEW row \in Row,
             BeginChange(e, event, from, row)
      PROVE  CodeTypeOK' /\ Counts'
  <2>1. job[e] \in Job
    BY DEF TypeInv, TypeOK
  <2> DEFINE new == [job[e] EXCEPT !.stage = "waiting",
                                   !.name = PublishedName(event, row = "draft")]
  <2>2. PublishedName(event, row = "draft") \in Name \cup {NoName}
    BY DEF PublishedName, Name, NoName
  <2>3. new \in Job
    BY <2>1, <2>2 DEF Job
  <2>4. JobBecomes(e, new) \/ UNCHANGED job
    BY <1>1 DEF BeginChange, Dispatch
  <2> HIDE DEF new
  <2>5. job' \in [Change -> Job]
    BY <2>3, <2>4, JobBecomesTyped DEF TypeInv, TypeOK
  <2>6. QED
    BY <1>1, <2>5 DEF TypeInv, TypeOK, CodeTypeOK, Counts, BeginChange, tables,
                      counters
<1>2. QED
  BY <1>1 DEF ChangeStep, CreateDraft, CreatePublished, UpdateProposal, Publish,
              Row

LEMMA JobTyped ==
  ASSUME TypeInv, NEW e \in Change, JobStep(e) \/ KillJob(e)
  PROVE  CodeTypeOK' /\ Counts'
<1>0. job[e] \in Job
  BY DEF TypeInv, TypeOK
<1>1. ASSUME NEW new \in Job, JobBecomes(e, new),
             UNCHANGED <<proposal, tx, transactional, tables, deliveries, edits,
                        told>>,
             deaths' \in 0..MaxDeaths
      PROVE  CodeTypeOK' /\ Counts'
  <2>1. job' \in [Change -> Job]
    BY <1>1, JobBecomesTyped DEF TypeInv
  <2>2. QED
    BY <1>1, <2>1 DEF TypeInv, TypeOK, CodeTypeOK, Counts, tables
<1>2. deaths \in 0..MaxDeaths
  BY DEF TypeInv, TypeOK
<1>3. CASE ModuleDisabled(e) \/ EndJob(e)
  <2>1. [job[e] EXCEPT !.stage = "performed"] \in Job
    BY <1>0 DEF Job
  <2>2. QED
    BY <1>1, <1>2, <1>3, <2>1 DEF ModuleDisabled, EndJob, counters
<1>4. CASE ProposalMissing(e)
  <2>1. [job[e] EXCEPT !.stage = "missing"] \in Job
    BY <1>0 DEF Job
  <2>2. QED
    BY <1>1, <1>2, <1>4, <2>1 DEF ProposalMissing, counters
<1>5. CASE LoadProposal(e)
  <2> DEFINE new == [job[e] EXCEPT !.stage = "loaded", !.data = proposal,
                                   !.run = @ + 1]
  <2>1. proposal \in Row /\ JobBecomes(e, new)
    BY <1>5 DEF LoadProposal
  <2>2. job[e].run + 1 \in Nat
    BY <1>0 DEF Job
  <2>3. new = [job[e] EXCEPT !.stage = "loaded", !.data = proposal,
                             !.run = job[e].run + 1]
    BY <1>0 DEF Job
  <2> DEFINE n == job[e].run + 1
  <2> HIDE DEF n
  <2>4. [job[e] EXCEPT !.stage = "loaded", !.data = proposal, !.run = n] \in Job
    BY <1>0, <2>1, <2>2 DEF Job, n
  <2>5. new \in Job
    BY <2>3, <2>4 DEF n
  <2> HIDE DEF new
  <2>6. QED
    BY <1>1, <1>2, <1>5, <2>1, <2>5 DEF LoadProposal, counters
<1>6. CASE LoadPermissions(e)
  <2>1. [job[e] EXCEPT !.stage = "dispatching",
                       !.todo = PermissionsFor(job[e].name)] \in Job
    BY <1>0 DEF Job, PermissionsFor
  <2>2. QED
    BY <1>1, <1>2, <1>6, <2>1 DEF LoadPermissions, counters
<1>7. ASSUME NEW c \in Client, DispatchForPermission(e, c)
      PROVE  CodeTypeOK' /\ Counts'
  <2>1. [job[e] EXCEPT !.todo = @ \ {c},
                       !.targets = RegistrationsFor(c, job[e].name)] \in Job
    BY <1>0 DEF Job, RegistrationsFor
  <2>2. QED
    BY <1>1, <1>2, <1>7, <2>1 DEF DispatchForPermission, counters
<1>8. ASSUME NEW r \in Registration, EnqueueWebhook(e, r)
      PROVE  CodeTypeOK' /\ Counts'
  <2> DEFINE d == [change |-> e, registration |-> r, run |-> job[e].run,
                   name |-> job[e].name, data |-> job[e].data,
                   stage |-> "waiting", executions |-> 0,
                   answer |-> NetworkError]
  <2>1. [job[e] EXCEPT !.targets = @ \ {r}] \in Job
    BY <1>0 DEF Job
  <2>2. job' \in [Change -> Job]
    BY <1>8, <2>1, JobBecomesTyped DEF TypeInv, EnqueueWebhook
  <2>3. d \in Delivery
    BY <1>0, WebhookAssumption DEF Job, Delivery
  <2>4. d.stage = "waiting" /\ d.executions < Attempts
    BY WebhookAssumption
  <2>5. deliveries' = deliveries \cup {d}
    BY <1>8 DEF EnqueueWebhook
  <2> HIDE DEF d
  <2>6. QED
    BY <1>8, <2>2, <2>3, <2>4, <2>5
    DEF EnqueueWebhook, TypeInv, TypeOK, CodeTypeOK, Counts, tables, counters
<1>9. CASE KillJob(e)
  <2>1. [job[e] EXCEPT !.stage = "waiting", !.todo = {}, !.targets = {}] \in Job
    BY <1>0 DEF Job
  <2>2. deaths' \in 0..MaxDeaths
    BY <1>2, <1>9, WebhookBounds DEF KillJob, Die
  <2>3. QED
    BY <1>1, <1>9, <2>1, <2>2 DEF KillJob, Die
<1>10. QED
  BY <1>3, <1>4, <1>5, <1>6, <1>7, <1>8, <1>9 DEF JobStep

\* Telling a receiver counts for one event and one registration.
LEMMA TellTyped ==
  ASSUME TypeOK, NEW e \in Change, NEW r \in Registration,
         Tell(e, r) \/ UNCHANGED told
  PROVE  told' \in [Change -> [Registration -> Nat]]
<1>1. /\ told \in [Change -> [Registration -> Nat]]
      /\ told[e] \in [Registration -> Nat] /\ told[e][r] + 1 \in Nat
  BY DEF TypeOK
<1>2. CASE Tell(e, r)
  <2> DEFINE f == [told[e] EXCEPT ![r] = @ + 1]
  <2>1. f \in [Registration -> Nat]
    BY <1>1
  <2>2. told' = [told EXCEPT ![e] = f]
    BY <1>1, <1>2 DEF Tell
  <2> HIDE DEF f
  <2> QED BY <1>1, <2>1, <2>2
<1> QED BY <1>1, <1>2

\* A delivery is replaced by one of the right type that keeps the counts.
LEMMA DeliveryTyped ==
  ASSUME TypeInv, NEW d \in deliveries, DeliveryStep(d) \/ KillPost(d)
  PROVE  CodeTypeOK' /\ Counts'
<1> USE DEF TypeInv, TypeOK, Counts
<1>0. /\ d \in Delivery
      /\ Attempts \in Nat
      /\ d.executions \in 0..Attempts
      /\ d.change \in Change /\ d.registration \in Registration
  BY WebhookAssumption DEF Delivery
<1>1. ASSUME NEW new \in Delivery, Becomes(d, new),
             new.stage = "waiting" => new.executions < Attempts,
             new.stage = "posted" => new.executions >= 1
      PROVE  deliveries' \subseteq Delivery /\ Counts'
  BY <1>1 DEF Becomes
<1>2. CASE Post(d)
  <2> PICK a \in Status \cup {NetworkError} :
        /\ Becomes(d, [d EXCEPT !.stage = "posted", !.answer = a,
                                !.executions = d.executions + 1])
        /\ IF Taken(a) THEN Tell(d.change, d.registration) ELSE UNCHANGED told
    BY <1>2 DEF Post
  <2> DEFINE x == d.executions + 1
             new == [d EXCEPT !.stage = "posted", !.answer = a,
                              !.executions = x]
  <2>1. x \in 0..Attempts /\ x >= 1
    BY <1>0, <1>2 DEF Post
  <2>2. Becomes(d, new)
    OBVIOUS
  <2> HIDE DEF x
  <2>3. new \in Delivery /\ new.stage = "posted" /\ new.executions >= 1
    BY <1>0, <2>1 DEF Delivery
  <2> HIDE DEF new
  <2>4. deliveries' \subseteq Delivery /\ Counts'
    BY <1>1, <2>2, <2>3
  <2>5. told' \in [Change -> [Registration -> Nat]]
    BY <1>0, TellTyped
  <2> QED
    BY <1>2, <2>4, <2>5 DEF Post, CodeTypeOK, tables
<1>3. CASE RegistrationMissing(d)
  <2>1. [d EXCEPT !.stage = "gave_up"] \in Delivery
    BY <1>0 DEF Delivery
  <2>2. deliveries' \subseteq Delivery /\ Counts'
    BY <1>0, <1>1, <1>3, <2>1 DEF RegistrationMissing, Delivery
  <2>3. QED
    BY <1>3, <2>2 DEF RegistrationMissing, CodeTypeOK, tables, counters
<1>4. CASE EndPost(d)
  <2> DEFINE s == IF Accepted(d.answer) THEN "accepted"
                  ELSE IF Refused(d) /\ d.executions < Attempts THEN "waiting"
                  ELSE "gave_up"
             new == [d EXCEPT !.executions = d.executions, !.stage = s]
  <2>1. /\ s \in {"accepted", "waiting", "gave_up"}
        /\ s = "waiting" => d.executions < Attempts
    OBVIOUS
  <2>2. Becomes(d, new)
    BY <1>4 DEF EndPost, End
  <2> HIDE DEF s
  <2>3. /\ new \in Delivery
        /\ new.stage = s /\ new.executions = d.executions
    BY <1>0, <2>1 DEF Delivery
  <2> HIDE DEF new
  <2>4. deliveries' \subseteq Delivery /\ Counts'
    BY <1>1, <2>1, <2>2, <2>3
  <2>5. QED
    BY <1>4, <2>4 DEF EndPost, End, CodeTypeOK, tables, counters
<1>5. CASE KillPost(d)
  <2> DEFINE new == [d EXCEPT !.stage = "waiting",
                              !.executions = d.executions - 1]
  <2>1. d.executions >= 1
    BY <1>5 DEF KillPost
  <2>2. d.executions - 1 \in 0..Attempts /\ d.executions - 1 < Attempts
    BY <1>0, <2>1
  <2>3. /\ new \in Delivery
        /\ new.stage = "waiting" /\ new.executions < Attempts
    BY <1>0, <2>2 DEF Delivery
  <2>4. Becomes(d, new)
    BY <1>5 DEF KillPost
  <2> HIDE DEF new
  <2>5. deliveries' \subseteq Delivery /\ Counts'
    BY <1>1, <2>3, <2>4
  <2>6. QED
    BY <1>5, <2>5, WebhookBounds DEF KillPost, Die, CodeTypeOK, tables
<1>6. QED
  BY <1>2, <1>3, <1>4, <1>5 DEF DeliveryStep

LEMMA OtherTyped ==
  ASSUME TypeInv, DestroyDraft \/ Commit \/ Rollback \/ Administration
  PROVE  CodeTypeOK' /\ Counts'
<1> USE DEF TypeInv, TypeOK, CodeTypeOK, Counts, tables, counters
<1>1. CASE DestroyDraft
  BY <1>1 DEF DestroyDraft
<1>2. CASE Commit
  <2>1. tx.row \in Row \cup {"absent"}
    OBVIOUS
  <2>2. QED
    BY <1>2, <2>1 DEF Commit, NoTx
<1>3. CASE Rollback
  <2>1. tx.change \in Change => job[tx.change] \in Job
    OBVIOUS
  <2>2. tx.change \in Change =>
          [job[tx.change] EXCEPT !.stage = "undone"] \in Job
    BY <2>1 DEF Job
  <2>3. job' \in [Change -> Job]
    BY <1>3, <2>2 DEF Rollback, JobBecomes
  <2>4. QED
    BY <1>3, <2>3 DEF Rollback, NoTx
<1>4. CASE Administration
  <2>1. Edit
    BY <1>4 DEF Administration, SetPermissions, CreateRegistration,
                UpdateRegistration, DestroyRegistration, Toggle
  <2>2. edits' \in 0..MaxEdits
    BY <2>1, WebhookBounds DEF Edit
  <2>3. enabled' \in BOOLEAN
    BY <1>4 DEF Administration, SetPermissions, CreateRegistration,
                UpdateRegistration, DestroyRegistration, Toggle
  <2>4. granted' \in [Client -> SUBSET Subscribable]
    BY <1>4 DEF Administration, SetPermissions, CreateRegistration,
                UpdateRegistration, DestroyRegistration, Toggle
  <2>5. registered' \in [Registration -> {"new", "live", "destroyed"}]
    BY <1>4 DEF Administration, SetPermissions, CreateRegistration,
                UpdateRegistration, DestroyRegistration, Toggle
  <2>6. subscriptions' \in [Registration -> SUBSET Subscribable]
    BY <1>4 DEF Administration, SetPermissions, CreateRegistration,
                UpdateRegistration, DestroyRegistration, Toggle
  <2>7. QED
    BY <2>1, <2>2, <2>3, <2>4, <2>5, <2>6 DEF Edit
<1>5. QED
  BY <1>1, <1>2, <1>3, <1>4

LEMMA StepTyped ==
  ASSUME TypeInv, [Next]_vars
  PROVE  TypeInv'
<1>1. CASE Next
  <2>1. CodeTypeOK' /\ Counts'
    BY <1>1, ChangeTyped, JobTyped, DeliveryTyped, OtherTyped DEF Next
  <2>2. witnessed' \in [Change -> SUBSET Registration]
        /\ steady' \in [Change -> SUBSET Registration]
    BY <1>1, StepObserved, ObserverTyped DEF TypeInv
  <2>3. QED
    BY <2>1, <2>2 DEF TypeInv, TypeOK, CodeTypeOK
<1>2. CASE UNCHANGED vars
  BY <1>2 DEF TypeInv, TypeOK, Counts, vars
<1>3. QED
  BY <1>1, <1>2

\* Every reachable state is well typed, the attempts of a delivery included.
THEOREM WebhooksTypeCorrect == Spec => []TypeOK
<1>1. Init => TypeInv
  BY InitTyped
<1>2. TypeInv /\ [Next]_vars => TypeInv'
  BY StepTyped
<1>3. TypeInv => TypeOK
  BY DEF TypeInv
<1>4. QED
  BY <1>1, <1>2, <1>3, PTL DEF Spec

-----------------------------------------------------------------------------
(* Only subscribers are told.  The look-ups of the job happen at different *)
(* times: the permissions first, the registrations of a client later.  What *)
(* joins them is that a registration can take up an event only while its   *)
(* client is granted the event, and that the observer was looking then.    *)

Noted(e) == Open(e) => Subscribers(job[e].name) \subseteq witnessed[e]

Looked(e) ==
  /\ job[e].stage = "dispatching" =>
       \A c \in job[e].todo :
         RegistrationsFor(c, job[e].name) \subseteq witnessed[e]
  /\ job[e].targets \subseteq witnessed[e]

SourceInv ==
  /\ TypeInv
  /\ \A e \in Change : Noted(e) /\ Looked(e)
  /\ OnlySubscribersTold

LEMMA InitSource == Init => SourceInv
<1> SUFFICES ASSUME Init PROVE SourceInv
  OBVIOUS
<1>1. \A e \in Change : job[e].stage = "none" /\ job[e].targets = {}
  BY DEF Init, IdleJob
<1>2. QED
  BY <1>1, InitTyped
     DEF Init, SourceInv, Noted, Looked, Open, OnlySubscribersTold

\* The observer forgets nobody, and sees who subscribes now.
LEMMA ObserverSees ==
  ASSUME Observe, NEW e \in Change
  PROVE  /\ witnessed[e] \subseteq witnessed'[e]
         /\ Open(e)' => Subscribers(job[e].name)' \subseteq witnessed'[e]
BY DEF Observe

\* A registration that takes up an event is one of a granted client.
LEMMA NewRegistrationsGranted ==
  ASSUME TypeInv, Administration, NEW c, NEW n
  PROVE  RegistrationsFor(c, n)'
           \subseteq RegistrationsFor(c, n) \cup Subscribers(n)'
<1> SUFFICES ASSUME NEW r \in Registration, registered'[r] = "live",
                    Owner[r] = c, n \in subscriptions'[r],
                    ~(registered[r] = "live" /\ n \in subscriptions[r])
             PROVE  n \in granted'[Owner[r]]
  BY DEF RegistrationsFor, Subscribers
<1> USE DEF TypeInv, TypeOK
<1>1. ASSUME NEW q \in Registration, CreateRegistration(q) \/ UpdateRegistration(q)
      PROVE  n \in granted'[Owner[r]]
  <2>1. granted' = granted
    BY <1>1 DEF CreateRegistration, UpdateRegistration
  <2>2. PICK s \in SUBSET Subscribable :
               /\ ValidSubscriptions(q, s)
               /\ subscriptions' = [subscriptions EXCEPT ![q] = s]
    BY <1>1 DEF CreateRegistration, UpdateRegistration
  <2>3. CASE r = q
    <3>1. subscriptions'[r] = s
      BY <2>2, <2>3
    <3>2. QED
      BY <2>1, <2>2, <2>3, <3>1 DEF ValidSubscriptions
  <2>4. CASE r # q
    <3>1. subscriptions'[r] = subscriptions[r]
      BY <2>2, <2>4
    <3>2. registered'[r] = registered[r]
      BY <1>1, <2>4 DEF CreateRegistration, UpdateRegistration
    <3>3. QED
      BY <3>1, <3>2
  <2>5. QED
    BY <2>3, <2>4
<1>2. ASSUME NEW q \in Registration, DestroyRegistration(q)
      PROVE  FALSE
  BY <1>2 DEF DestroyRegistration
<1>3. ASSUME NEW q \in Client, SetPermissions(q)
      PROVE  FALSE
  BY <1>3 DEF SetPermissions
<1>4. CASE Toggle
  BY <1>4 DEF Toggle
<1>5. QED
  BY <1>1, <1>2, <1>3, <1>4 DEF Administration

\* A job that stands still keeps what it looked up.
LEMMA LookedKept ==
  ASSUME SourceInv, Observe, NEW e \in Change, job'[e] = job[e],
         \A c \in Client, n \in Name \cup {NoName} :
           RegistrationsFor(c, n)'
             \subseteq RegistrationsFor(c, n) \cup Subscribers(n)'
  PROVE  Looked(e)'
<1>1. /\ witnessed[e] \subseteq witnessed'[e]
      /\ Open(e)' => Subscribers(job[e].name)' \subseteq witnessed'[e]
  BY ObserverSees
<1>2. job[e] \in Job
  BY DEF SourceInv, TypeInv, TypeOK
<1>3. job[e].targets \subseteq witnessed'[e]
  BY <1>1 DEF SourceInv, Looked
<1>4. ASSUME job[e].stage = "dispatching", NEW c \in job[e].todo
      PROVE  RegistrationsFor(c, job[e].name)' \subseteq witnessed'[e]
  <2>1. c \in Client /\ job[e].name \in Name \cup {NoName}
    BY <1>2, <1>4 DEF Job
  <2>2. RegistrationsFor(c, job[e].name) \subseteq witnessed[e]
    BY <1>4 DEF SourceInv, Looked
  <2>3. Open(e)'
    BY <1>4 DEF Open
  <2>4. Subscribers(job[e].name)' \subseteq witnessed'[e]
    BY <1>1, <2>3
  <2>5. RegistrationsFor(c, job[e].name)'
          \subseteq RegistrationsFor(c, job[e].name) \cup Subscribers(job[e].name)'
    <3> DEFINE n == job[e].name
    <3>1. RegistrationsFor(c, n)'
            = {r \in Registration : /\ registered'[r] = "live" /\ Owner[r] = c
                                    /\ job[e].name \in subscriptions'[r]}
      BY DEF RegistrationsFor
    <3>2. Subscribers(n)'
            = {r \in Registration : /\ registered'[r] = "live"
                                    /\ job[e].name \in subscriptions'[r]
                                    /\ job[e].name \in granted'[Owner[r]]}
      BY DEF Subscribers
    <3>3. QED
      BY <2>1, <3>1, <3>2 DEF RegistrationsFor, Subscribers
  <2>6. QED
    BY <1>1, <2>2, <2>4, <2>5
<1>5. QED
  BY <1>3, <1>4 DEF Looked

\* Steps of a job look up what the observer has seen.
LEMMA JobSource ==
  ASSUME SourceInv, Observe, NEW e \in Change,
         ChangeStep(e) \/ JobStep(e) \/ KillJob(e)
  PROVE  (\A f \in Change : Looked(f)') /\ OnlySubscribersTold'
<1>0. /\ job \in [Change -> Job]
      /\ job[e] \in Job
      /\ witnessed[e] \subseteq witnessed'[e]
      /\ \A f \in Change : witnessed[f] \subseteq witnessed'[f]
  BY ObserverSees DEF SourceInv, TypeInv, TypeOK
<1>1. UNCHANGED tables
  BY DEF ChangeStep, CreateDraft, CreatePublished, UpdateProposal, Publish,
         BeginChange, JobStep, ModuleDisabled, ProposalMissing, LoadProposal,
         LoadPermissions, EndJob, DispatchForPermission, EnqueueWebhook,
         KillJob, Die
<1>2. \A c, n : RegistrationsFor(c, n)' = RegistrationsFor(c, n)
  BY <1>1 DEF tables, RegistrationsFor
<1>3. PICK new : job' = [job EXCEPT ![e] = new]
  <2>1. (\E new : JobBecomes(e, new)) \/ UNCHANGED job
    BY DEF ChangeStep, CreateDraft, CreatePublished, UpdateProposal, Publish,
           BeginChange, Dispatch, JobStep, ModuleDisabled, ProposalMissing,
           LoadProposal, LoadPermissions, EndJob, DispatchForPermission,
           EnqueueWebhook, KillJob
  <2>2. UNCHANGED job => job' = [job EXCEPT ![e] = job[e]]
    BY <1>0
  <2>3. QED
    BY <2>1, <2>2 DEF JobBecomes
<1>4. ASSUME NEW f \in Change, f # e
      PROVE  Looked(f)'
  <2>1. job'[f] = job[f]
    BY <1>0, <1>3, <1>4
  <2>2. QED
    BY <1>2, <2>1, LookedKept
<1>5. Looked(e)'
  <2>1. job[e].targets \subseteq witnessed'[e]
    BY <1>0 DEF SourceInv, Looked
  <2>2. CASE LoadPermissions(e)
    <3>1. job'[e] = [job[e] EXCEPT !.stage = "dispatching",
                                   !.todo = PermissionsFor(job[e].name)]
      BY <1>0, <2>2 DEF LoadPermissions, JobBecomes
    <3>2. /\ job'[e].todo = PermissionsFor(job[e].name)
          /\ job'[e].name = job[e].name
          /\ job'[e].targets = job[e].targets
      BY <1>0, <3>1 DEF Job
    <3>3. Subscribers(job[e].name) \subseteq witnessed'[e]
      BY <1>0, <2>2 DEF SourceInv, Noted, Open, LoadPermissions
    <3>4. \A c \in PermissionsFor(job[e].name) :
            RegistrationsFor(c, job[e].name) \subseteq Subscribers(job[e].name)
      BY DEF PermissionsFor, RegistrationsFor, Subscribers
    <3>5. QED
      BY <1>1, <2>1, <3>2, <3>3, <3>4 DEF Looked, RegistrationsFor, tables
  <2>3. ASSUME NEW c \in Client, DispatchForPermission(e, c)
        PROVE  Looked(e)'
    <3>1. job'[e] = [job[e] EXCEPT !.todo = @ \ {c},
                       !.targets = RegistrationsFor(c, job[e].name)]
      BY <1>0, <2>3 DEF DispatchForPermission, JobBecomes
    <3>2. /\ job'[e].todo = job[e].todo \ {c}
          /\ job'[e].name = job[e].name
          /\ job'[e].stage = job[e].stage
          /\ job'[e].targets = RegistrationsFor(c, job[e].name)
      BY <1>0, <3>1 DEF Job
    <3>3. \A d \in job[e].todo :
            RegistrationsFor(d, job[e].name) \subseteq witnessed'[e]
      BY <1>0, <2>3 DEF SourceInv, Looked, DispatchForPermission
    <3>4. c \in job[e].todo
      BY <2>3 DEF DispatchForPermission
    <3>5. QED
      BY <1>1, <3>2, <3>3, <3>4 DEF Looked, RegistrationsFor, tables
  <2>4. ASSUME NEW r \in Registration, EnqueueWebhook(e, r)
        PROVE  Looked(e)'
    <3>1. job'[e] = [job[e] EXCEPT !.targets = @ \ {r}]
      BY <1>0, <2>4 DEF EnqueueWebhook, JobBecomes
    <3>2. /\ job'[e].todo = job[e].todo
          /\ job'[e].name = job[e].name
          /\ job'[e].stage = job[e].stage
          /\ job'[e].targets = job[e].targets \ {r}
      BY <1>0, <3>1 DEF Job
    <3>3. \A d \in job[e].todo :
            RegistrationsFor(d, job[e].name) \subseteq witnessed'[e]
      BY <1>0, <2>4 DEF SourceInv, Looked, EnqueueWebhook
    <3>4. QED
      BY <1>1, <2>1, <3>2, <3>3 DEF Looked, RegistrationsFor, tables
  <2>5. CASE ModuleDisabled(e) \/ ProposalMissing(e) \/ LoadProposal(e)
             \/ EndJob(e) \/ KillJob(e)
    <3>1. /\ job'[e].stage # "dispatching"
          /\ job'[e].targets \subseteq job[e].targets
      <4>1. CASE ModuleDisabled(e) \/ ProposalMissing(e) \/ EndJob(e)
        BY <1>0, <4>1 DEF ModuleDisabled, ProposalMissing, EndJob, JobBecomes,
                          Job
      <4>2. CASE LoadProposal(e)
        <5> DEFINE n == job[e].run + 1
        <5>1. job'[e] = [job[e] EXCEPT !.stage = "loaded", !.data = proposal,
                                       !.run = n]
          BY <1>0, <4>2 DEF LoadProposal, JobBecomes, Job
        <5> HIDE DEF n
        <5>2. QED
          BY <1>0, <5>1 DEF Job
      <4>3. CASE KillJob(e)
        BY <1>0, <4>3 DEF KillJob, JobBecomes, Job
      <4>4. QED
        BY <2>5, <4>1, <4>2, <4>3
    <3>2. QED
      BY <2>1, <3>1 DEF Looked
  <2>6. CASE ChangeStep(e)
    <3>1. PICK event, from, row : BeginChange(e, event, from, row)
      BY <2>6 DEF ChangeStep, CreateDraft, CreatePublished, UpdateProposal,
                  Publish
    <3>2. /\ job'[e].stage # "dispatching"
          /\ job'[e].targets = job[e].targets
      BY <1>0, <3>1 DEF BeginChange, Dispatch, JobBecomes, Job
    <3>3. QED
      BY <2>1, <3>2 DEF Looked
  <2>7. QED
    BY <2>2, <2>3, <2>4, <2>5, <2>6 DEF JobStep
<1>6. OnlySubscribersTold'
  <2>1. ASSUME NEW r \in Registration, EnqueueWebhook(e, r)
        PROVE  OnlySubscribersTold'
    <3>1. r \in witnessed'[e]
      BY <1>0, <2>1 DEF EnqueueWebhook, SourceInv, Looked
    <3>2. \A d \in deliveries' :
            d \in deliveries \/ (d.change = e /\ d.registration = r)
      BY <2>1 DEF EnqueueWebhook
    <3>3. \A d \in deliveries : d.change \in Change
      BY DEF SourceInv, TypeInv, TypeOK, Delivery
    <3>4. QED
      BY <1>0, <3>1, <3>2, <3>3 DEF SourceInv, OnlySubscribersTold
  <2>2. CASE UNCHANGED deliveries
    <3>1. \A d \in deliveries : d.change \in Change
      BY DEF SourceInv, TypeInv, TypeOK, Delivery
    <3>2. QED
      BY <1>0, <2>2, <3>1 DEF SourceInv, OnlySubscribersTold
  <2>3. QED
    BY <2>1, <2>2 DEF ChangeStep, CreateDraft, CreatePublished, UpdateProposal,
       Publish, BeginChange, JobStep, ModuleDisabled, ProposalMissing,
       LoadProposal, LoadPermissions, EndJob, DispatchForPermission, KillJob
<1>7. QED
  BY <1>4, <1>5, <1>6

\* A delivery keeps its event and its registration.
LEMMA DeliverySource ==
  ASSUME SourceInv, Observe, NEW d \in deliveries, DeliveryStep(d) \/ KillPost(d)
  PROVE  (\A f \in Change : Looked(f)') /\ OnlySubscribersTold'
<1>1. UNCHANGED <<tables, job>>
  BY DEF DeliveryStep, Post, RegistrationMissing, EndPost, End, KillPost, Die
<1>2. \A c, n : RegistrationsFor(c, n)' = RegistrationsFor(c, n)
  BY <1>1 DEF tables, RegistrationsFor
<1>3. \A f \in Change : Looked(f)'
  BY <1>1, <1>2, LookedKept
<1>4. d \in Delivery /\ deliveries \subseteq Delivery
  BY DEF SourceInv, TypeInv, TypeOK
<1>5. PICK new : /\ Becomes(d, new)
                 /\ new.change = d.change
                 /\ new.registration = d.registration
  <2>1. CASE Post(d)
    <3>1. PICK a \in Status \cup {NetworkError} :
            Becomes(d, [d EXCEPT !.stage = "posted", !.answer = a,
                                 !.executions = d.executions + 1])
      BY <2>1 DEF Post
    <3> DEFINE x == d.executions + 1
               new == [d EXCEPT !.stage = "posted", !.answer = a,
                                !.executions = x]
    <3>2. Becomes(d, new)
      BY <3>1
    <3> HIDE DEF x
    <3>3. new.change = d.change /\ new.registration = d.registration
      BY <1>4 DEF Delivery
    <3> HIDE DEF new
    <3>4. QED
      BY <3>2, <3>3
  <2>2. CASE RegistrationMissing(d)
    BY <1>4, <2>2 DEF RegistrationMissing, Delivery
  <2>3. CASE EndPost(d)
    <3> DEFINE s == IF Accepted(d.answer) THEN "accepted"
                    ELSE IF Refused(d) /\ d.executions < Attempts THEN "waiting"
                    ELSE "gave_up"
               new == [d EXCEPT !.executions = d.executions, !.stage = s]
    <3>1. Becomes(d, new)
      BY <2>3 DEF EndPost, End
    <3> HIDE DEF s
    <3>2. new.change = d.change /\ new.registration = d.registration
      BY <1>4 DEF Delivery
    <3> HIDE DEF new
    <3>3. QED
      BY <3>1, <3>2
  <2>4. CASE KillPost(d)
    <3> DEFINE x == d.executions - 1
               new == [d EXCEPT !.stage = "waiting", !.executions = x]
    <3>1. Becomes(d, new)
      BY <2>4 DEF KillPost
    <3> HIDE DEF x
    <3>2. new.change = d.change /\ new.registration = d.registration
      BY <1>4 DEF Delivery
    <3> HIDE DEF new
    <3>3. QED
      BY <3>1, <3>2
  <2>5. QED
    BY <2>1, <2>2, <2>3, <2>4 DEF DeliveryStep
<1>6. \A x \in deliveries : x.change \in Change
  BY <1>4 DEF Delivery
<1>7. \A x \in deliveries' :
        \E y \in deliveries : x.change = y.change
                              /\ x.registration = y.registration
  BY <1>5 DEF Becomes
<1>8. \A f \in Change : witnessed[f] \subseteq witnessed'[f]
  BY ObserverSees
<1>9. QED
  BY <1>3, <1>6, <1>7, <1>8 DEF SourceInv, OnlySubscribersTold

LEMMA OtherSource ==
  ASSUME SourceInv, Observe, DestroyDraft \/ Commit \/ Rollback \/ Administration
  PROVE  (\A f \in Change : Looked(f)') /\ OnlySubscribersTold'
<1>0. /\ job \in [Change -> Job]
      /\ \A f \in Change : witnessed[f] \subseteq witnessed'[f]
  BY ObserverSees DEF SourceInv, TypeInv, TypeOK
<1>1. UNCHANGED deliveries
  BY DEF DestroyDraft, Commit, Rollback, Administration, SetPermissions,
         CreateRegistration, UpdateRegistration, DestroyRegistration, Toggle,
         Edit
<1>2. OnlySubscribersTold'
  <2>1. \A d \in deliveries : d.change \in Change
    BY DEF SourceInv, TypeInv, TypeOK, Delivery
  <2>2. QED
    BY <1>0, <1>1, <2>1 DEF SourceInv, OnlySubscribersTold
<1>3. \A c, n : RegistrationsFor(c, n)'
                  \subseteq RegistrationsFor(c, n) \cup Subscribers(n)'
  <2>1. CASE Administration
    BY <2>1, NewRegistrationsGranted DEF SourceInv
  <2>2. CASE UNCHANGED tables
    BY <2>2 DEF RegistrationsFor, tables
  <2>3. QED
    BY <2>1, <2>2 DEF DestroyDraft, Commit, Rollback
<1>4. ASSUME NEW f \in Change PROVE Looked(f)'
  <2>1. CASE job'[f] = job[f]
    BY <1>3, <2>1, LookedKept
  <2>2. CASE job'[f] # job[f]
    <3>1. Rollback /\ JobBecomes(tx.change, [job[tx.change] EXCEPT !.stage = "undone"])
      BY <2>2 DEF DestroyDraft, Commit, Rollback, Administration,
         SetPermissions, CreateRegistration, UpdateRegistration,
         DestroyRegistration, Toggle, Edit
    <3>2. f = tx.change
      BY <1>0, <2>2, <3>1 DEF JobBecomes
    <3>3. job'[f] = [job[f] EXCEPT !.stage = "undone"]
      BY <1>0, <3>1, <3>2 DEF JobBecomes
    <3>4. job'[f].stage = "undone" /\ job'[f].targets = job[f].targets
      BY <1>0, <3>3 DEF Job
    <3>5. QED
      BY <1>0, <3>4 DEF SourceInv, Looked
  <2>3. QED
    BY <2>1, <2>2
<1>5. QED
  BY <1>2, <1>4

LEMMA StepSource ==
  ASSUME SourceInv, [Next]_vars
  PROVE  SourceInv'
<1>1. TypeInv'
  BY StepTyped DEF SourceInv
<1>2. CASE Next
  <2>1. (\A f \in Change : Looked(f)') /\ OnlySubscribersTold'
    BY <1>2, StepObserved, JobSource, DeliverySource, OtherSource DEF Next
  <2>2. \A f \in Change : Noted(f)'
    BY <1>2, StepObserved, ObserverSees DEF Noted
  <2>3. QED
    BY <1>1, <2>1, <2>2 DEF SourceInv
<1>3. CASE UNCHANGED vars
  BY <1>1, <1>3 DEF SourceInv, vars, Noted, Looked, Open, Subscribers,
                    RegistrationsFor, OnlySubscribersTold
<1>4. QED
  BY <1>2, <1>3

\* Whatever the interleaving of events, look-ups, edits and deaths, a
\* registration is told of an event only if it was granted and subscribed to it
\* while the event was being processed.
THEOREM WebhooksOnlySubscribersTold == Spec => []OnlySubscribersTold
<1>1. Init => SourceInv
  BY InitSource
<1>2. SourceInv /\ [Next]_vars => SourceInv'
  BY StepSource
<1>3. SourceInv => OnlySubscribersTold
  BY DEF SourceInv
<1>4. QED
  BY <1>1, <1>2, <1>3, PTL DEF Spec
-----------------------------------------------------------------------------
(* No subscriber is missed.  A registration that was entitled all the time *)
(* is found by both look-ups of the job, and its delivery stays until it   *)
(* has ended for a reason.                                                 *)

\* What is told of an event is a registration that was there.
Known ==
  /\ \A e \in Change : \A r \in job[e].targets : registered[r] # "new"
  /\ \A d \in deliveries : registered[d.registration] # "new"

Coming(e, r) == Owner[r] \in job[e].todo \/ r \in job[e].targets \/ Served(e, r)

Progress(e) ==
  /\ Open(e) => steady[e] \subseteq Entitled(job[e].name)
  /\ job[e].stage = "dispatching" => \A r \in steady[e] : Coming(e, r)
  /\ job[e].stage = "performed" => \A r \in steady[e] : Served(e, r)

\* A job in the database is seen with the row that its change left.
TxKnows == tx # NoTx => tx.change \in Change /\ tx.row \in Row /\ proposal # "destroyed"

RowSeen(e) ==
  transactional =>
    /\ job[e].stage \notin {"none", "undone"} /\ tx.change # e => proposal # "absent"
    /\ job[e].stage = "missing" => proposal = "destroyed"

ServeInv ==
  /\ TypeInv
  /\ Known
  /\ TxKnows
  /\ \A e \in Change : Progress(e) /\ RowSeen(e)

LEMMA ServeInit == Init => ServeInv
<1> SUFFICES ASSUME Init PROVE ServeInv
  OBVIOUS
<1>1. \A e \in Change : job[e].stage = "none" /\ job[e].targets = {}
  BY DEF Init, IdleJob
<1>2. QED
  BY <1>1, InitTyped
     DEF Init, ServeInv, Known, TxKnows, Progress, RowSeen, Open

\* The observer: who was entitled all the time is entitled now, and nobody comes
\* back.
LEMMA SteadyNow ==
  ASSUME Observe, NEW e \in Change
  PROVE  /\ Open(e)' => steady'[e] \subseteq Entitled(job[e].name)'
         /\ job[e].stage # "none" => steady'[e] \subseteq steady[e]
BY DEF Observe

\* One step of one job leaves the others alone.
LEMMA OneJob ==
  ASSUME TypeInv, NEW e \in Change, NEW new, JobBecomes(e, new)
  PROVE  job'[e] = new /\ \A f \in Change : f # e => job'[f] = job[f]
BY DEF TypeInv, TypeOK, JobBecomes

\* A delivery that takes the place of another serves whom that one served.
LEMMA ServedAfter ==
  ASSUME NEW d \in deliveries, NEW new, Becomes(d, new),
         new.change = d.change, new.registration = d.registration,
         new.stage = "gave_up" => \/ new.executions = Attempts
                                  \/ new.executions > 0 /\ new.answer = NetworkError
                                  \/ registered[new.registration] = "destroyed",
         UNCHANGED registered, d.stage \notin {"accepted", "gave_up"},
         NEW e, NEW r, Served(e, r)
  PROVE  Served(e, r)'
<1>1. deliveries' = (deliveries \ {d}) \cup {new}
  BY DEF Becomes
<1>2. PICK x \in deliveries :
        /\ x.change = e /\ x.registration = r
        /\ x.stage = "gave_up" => \/ x.executions = Attempts
                                  \/ x.executions > 0 /\ x.answer = NetworkError
                                  \/ registered[r] = "destroyed"
  BY DEF Served
<1>3. CASE x = d
  BY <1>1, <1>2, <1>3 DEF Served
<1>4. CASE x # d
  BY <1>1, <1>2, <1>4 DEF Served
<1> QED BY <1>3, <1>4

\* The steps of a delivery, by what becomes of it.
LEMMA DeliveryEffect ==
  ASSUME TypeInv, Known, NEW d \in deliveries, DeliveryStep(d) \/ KillPost(d)
  PROVE  /\ d.stage \in {"waiting", "posted"}
         /\ UNCHANGED <<proposal, tx, transactional, tables, job>>
         /\ \E new :
              /\ Becomes(d, new)
              /\ new.change = d.change /\ new.registration = d.registration
              /\ new.stage = "gave_up" =>
                   \/ new.executions = Attempts
                   \/ new.executions > 0 /\ new.answer = NetworkError
                   \/ registered[new.registration] = "destroyed"
<1>0. /\ d \in Delivery /\ Attempts \in Nat /\ d.executions \in 0..Attempts
      /\ d.registration \in Registration
      /\ registered[d.registration] \in {"live", "destroyed"}
      /\ d.stage = "posted" => d.executions >= 1
  BY WebhookAssumption DEF TypeInv, TypeOK, Counts, Known, Delivery
<1>1. /\ d.stage \in {"waiting", "posted"}
      /\ UNCHANGED <<proposal, tx, transactional, tables, job>>
  BY DEF DeliveryStep, Post, RegistrationMissing, EndPost, End, KillPost, Die
<1>2. CASE Post(d)
  <2>1. PICK a \in Status \cup {NetworkError} :
          Becomes(d, [d EXCEPT !.stage = "posted", !.answer = a,
                               !.executions = d.executions + 1])
    BY <1>2 DEF Post
  <2> DEFINE x == d.executions + 1
             new == [d EXCEPT !.stage = "posted", !.answer = a,
                              !.executions = x]
  <2>2. Becomes(d, new)
    BY <2>1
  <2> HIDE DEF x
  <2>3. /\ new.change = d.change /\ new.registration = d.registration
        /\ new.stage = "posted"
    BY <1>0 DEF Delivery
  <2> HIDE DEF new
  <2> QED BY <1>1, <2>2, <2>3
<1>3. CASE RegistrationMissing(d)
  <2> DEFINE new == [d EXCEPT !.stage = "gave_up"]
  <2>1. Becomes(d, new) /\ registered[d.registration] # "live"
    BY <1>3 DEF RegistrationMissing
  <2>2. new.change = d.change /\ new.registration = d.registration
    BY <1>0 DEF Delivery
  <2> HIDE DEF new
  <2> QED BY <1>0, <1>1, <2>1, <2>2
<1>4. CASE EndPost(d)
  <2> DEFINE s == IF Accepted(d.answer) THEN "accepted"
                  ELSE IF Refused(d) /\ d.executions < Attempts THEN "waiting"
                  ELSE "gave_up"
             new == [d EXCEPT !.executions = d.executions, !.stage = s]
  <2>1. Becomes(d, new) /\ d.stage = "posted"
    BY <1>4 DEF EndPost, End
  <2>2. s = "gave_up" => d.executions = Attempts
                         \/ (d.executions > 0 /\ d.answer = NetworkError)
    BY <1>0, <2>1 DEF Refused
  <2> HIDE DEF s
  <2>3. /\ new.change = d.change /\ new.registration = d.registration
        /\ new.stage = s /\ new.executions = d.executions /\ new.answer = d.answer
    BY <1>0 DEF Delivery
  <2> HIDE DEF new
  <2> QED BY <1>1, <2>1, <2>2, <2>3
<1>5. CASE KillPost(d)
  <2> DEFINE x == d.executions - 1
             new == [d EXCEPT !.stage = "waiting", !.executions = x]
  <2>1. Becomes(d, new)
    BY <1>5 DEF KillPost
  <2> HIDE DEF x
  <2>2. /\ new.change = d.change /\ new.registration = d.registration
        /\ new.stage = "waiting"
    BY <1>0 DEF Delivery
  <2> HIDE DEF new
  <2> QED BY <1>1, <2>1, <2>2
<1> QED BY <1>2, <1>3, <1>4, <1>5 DEF DeliveryStep

\* A job that stands still stays on its way.
LEMMA ProgressKept ==
  ASSUME ServeInv, Observe, NEW e \in Change, job'[e] = job[e],
         \A r : Served(e, r) => Served(e, r)'
  PROVE  Progress(e)'
<1>1. Open(e)' => steady'[e] \subseteq Entitled(job[e].name)'
  BY SteadyNow
<1>2. job[e].stage # "none" => steady'[e] \subseteq steady[e]
  BY SteadyNow
<1>3. /\ job[e].stage = "dispatching" => \A r \in steady[e] : Coming(e, r)
      /\ job[e].stage = "performed" => \A r \in steady[e] : Served(e, r)
  BY DEF ServeInv, Progress
<1>4. \A r : Coming(e, r) => Coming(e, r)'
  BY DEF Coming
<1> QED BY <1>1, <1>2, <1>3, <1>4 DEF Progress

LEMMA DeliveryServes ==
  ASSUME ServeInv, Observe, NEW d \in deliveries, DeliveryStep(d) \/ KillPost(d)
  PROVE  /\ Known' /\ TxKnows'
         /\ \A e \in Change : Progress(e)' /\ RowSeen(e)'
<1>0. /\ d.stage \in {"waiting", "posted"}
      /\ UNCHANGED <<proposal, tx, transactional, tables, job>>
  BY DeliveryEffect DEF ServeInv
<1>1. PICK new :
        /\ Becomes(d, new)
        /\ new.change = d.change /\ new.registration = d.registration
        /\ new.stage = "gave_up" =>
             \/ new.executions = Attempts
             \/ new.executions > 0 /\ new.answer = NetworkError
             \/ registered[new.registration] = "destroyed"
  BY DeliveryEffect DEF ServeInv
<1>2. \A e, r : Served(e, r) => Served(e, r)'
  BY <1>0, <1>1, ServedAfter DEF tables
<1>3. Known'
  BY <1>0, <1>1 DEF ServeInv, Known, Becomes, tables
<1>4. \A e \in Change : Progress(e)'
  BY <1>0, <1>2, ProgressKept
<1> QED BY <1>0, <1>3, <1>4 DEF ServeInv, TxKnows, RowSeen

\* Everybody who was entitled all the time has its place in the look-ups.
LEMMA JobServes ==
  ASSUME ServeInv, Observe, NEW e \in Change, JobStep(e) \/ KillJob(e)
  PROVE  /\ Known' /\ TxKnows'
         /\ \A f \in Change : Progress(f)' /\ RowSeen(f)'
<1>0. /\ job[e] \in Job /\ job \in [Change -> Job]
      /\ TypeInv /\ Known
      /\ Open(e) => steady[e] \subseteq Entitled(job[e].name)
      /\ Open(e)' => steady'[e] \subseteq Entitled(job[e].name)'
      /\ job[e].stage # "none" => steady'[e] \subseteq steady[e]
  BY SteadyNow DEF ServeInv, TypeInv, TypeOK, Progress
<1>1. UNCHANGED <<proposal, tx, transactional, tables>>
  BY DEF JobStep, ModuleDisabled, ProposalMissing, LoadProposal, LoadPermissions,
         EndJob, DispatchForPermission, EnqueueWebhook, KillJob, Die
<1>2. PICK new : JobBecomes(e, new)
  BY DEF JobStep, ModuleDisabled, ProposalMissing, LoadProposal, LoadPermissions,
         EndJob, DispatchForPermission, EnqueueWebhook, KillJob
<1>3. job'[e] = new /\ \A f \in Change : f # e => job'[f] = job[f]
  BY <1>0, <1>2, OneJob
<1>4. \A d \in deliveries : d \in deliveries'
  BY DEF JobStep, ModuleDisabled, ProposalMissing, LoadProposal, LoadPermissions,
         EndJob, DispatchForPermission, EnqueueWebhook, KillJob
<1>5. \A f, r : Served(f, r) => Served(f, r)'
  BY <1>1, <1>4 DEF Served, tables
<1>6. \A f \in Change : f # e => Progress(f)' /\ RowSeen(f)'
  <2>1. \A f \in Change : f # e => Progress(f)'
    BY <1>3, <1>5, ProgressKept
  <2> QED BY <1>1, <1>3, <2>1 DEF ServeInv, RowSeen
<1>7. TxKnows'
  BY <1>1 DEF ServeInv, TxKnows
<1>8. ASSUME job'[e].targets \subseteq job[e].targets, UNCHANGED deliveries
      PROVE  Known'
  BY <1>0, <1>1, <1>3, <1>8 DEF Known, tables
<1>9. job[e].stage # "none" /\ job[e].stage # "undone"
  BY DEF JobStep, ModuleDisabled, ProposalMissing, LoadProposal, LoadPermissions,
         EndJob, DispatchForPermission, EnqueueWebhook, KillJob
<1>10. ASSUME job'[e].stage # "missing" PROVE RowSeen(e)'
  BY <1>1, <1>9, <1>10 DEF ServeInv, RowSeen
<1>11. CASE ModuleDisabled(e) \/ EndJob(e)
  <2>1. /\ job'[e].stage = "performed" /\ job'[e].targets = job[e].targets
        /\ UNCHANGED deliveries
    BY <1>0, <1>11, OneJob DEF ModuleDisabled, EndJob, Job
  <2>2. \A r \in steady[e] : Served(e, r)
    <3>1. CASE ModuleDisabled(e)
      <4>1. steady[e] = {}
        BY <1>0, <3>1 DEF ModuleDisabled, Open, Entitled
      <4> QED BY <4>1
    <3>2. CASE EndJob(e)
      BY <3>2 DEF EndJob, ServeInv, Progress, Coming
    <3> QED BY <1>11, <3>1, <3>2
  <2>3. Progress(e)'
    BY <1>0, <1>5, <1>9, <2>1, <2>2 DEF Progress, Open
  <2> QED BY <1>6, <1>7, <1>8, <1>10, <2>1, <2>3
<1>12. CASE ProposalMissing(e)
  <2>1. /\ job'[e].stage = "missing" /\ job'[e].targets = job[e].targets
        /\ UNCHANGED deliveries
    BY <1>0, <1>12, OneJob DEF ProposalMissing, Job
  <2>2. transactional => proposal = "destroyed"
    BY <1>0, <1>12 DEF ProposalMissing, Visible, ServeInv, RowSeen, TypeInv, TypeOK
  <2>3. Progress(e)' /\ RowSeen(e)'
    BY <1>1, <2>1, <2>2 DEF Progress, Open, RowSeen
  <2> QED BY <1>6, <1>7, <1>8, <2>1, <2>3
<1>13. CASE LoadProposal(e) \/ KillJob(e)
  <2>1. /\ job'[e].stage \in {"waiting", "loaded"}
        /\ job'[e].targets \subseteq job[e].targets
        /\ UNCHANGED deliveries
    <3>1. CASE LoadProposal(e)
      <4> DEFINE n == job[e].run + 1
      <4>1. job'[e] = [job[e] EXCEPT !.stage = "loaded", !.data = proposal,
                                     !.run = n]
        BY <1>0, <3>1, OneJob DEF LoadProposal, Job
      <4> HIDE DEF n
      <4> QED BY <1>0, <3>1, <4>1 DEF Job, LoadProposal
    <3>2. CASE KillJob(e)
      <4>1. job'[e] = [job[e] EXCEPT !.stage = "waiting", !.todo = {},
                                     !.targets = {}]
        BY <1>0, <3>2, OneJob DEF KillJob
      <4> QED BY <1>0, <3>2, <4>1 DEF KillJob, Job
    <3> QED BY <1>13, <3>1, <3>2
  <2>2. Progress(e)'
    BY <1>0, <2>1 DEF Progress
  <2> QED BY <1>6, <1>7, <1>8, <1>10, <2>1, <2>2
<1>14. CASE LoadPermissions(e)
  <2>1. /\ job'[e].stage = "dispatching" /\ job'[e].targets = job[e].targets
        /\ job'[e].todo = PermissionsFor(job[e].name)
        /\ job'[e].name = job[e].name
        /\ UNCHANGED deliveries
    <3>1. job'[e] = [job[e] EXCEPT !.stage = "dispatching",
                                   !.todo = PermissionsFor(job[e].name)]
      BY <1>0, <1>14, OneJob DEF LoadPermissions
    <3> QED BY <1>0, <1>14, <3>1 DEF LoadPermissions, Job
  <2>2. \A r \in Entitled(job[e].name) : Owner[r] \in PermissionsFor(job[e].name)
    BY WebhookAssumption DEF Entitled, Subscribers, PermissionsFor
  <2>3. steady'[e] \subseteq Entitled(job[e].name)
    BY <1>0, <1>9, <1>14 DEF LoadPermissions, Open
  <2>4. Progress(e)'
    BY <1>0, <2>1, <2>2, <2>3 DEF Progress, Coming
  <2> QED BY <1>6, <1>7, <1>8, <1>10, <2>1, <2>4
<1>15. ASSUME NEW c \in Client, DispatchForPermission(e, c)
       PROVE  /\ Known' /\ TxKnows'
              /\ \A f \in Change : Progress(f)' /\ RowSeen(f)'
  <2>1. /\ job'[e].stage = "dispatching" /\ job'[e].name = job[e].name
        /\ job'[e].targets = RegistrationsFor(c, job[e].name)
        /\ job'[e].todo = job[e].todo \ {c}
        /\ job[e].targets = {} /\ job[e].stage = "dispatching"
        /\ UNCHANGED deliveries
    <3>1. job'[e] = [job[e] EXCEPT !.todo = @ \ {c},
                                   !.targets = RegistrationsFor(c, job[e].name)]
      BY <1>0, <1>15, OneJob DEF DispatchForPermission
    <3> QED BY <1>0, <1>15, <3>1 DEF DispatchForPermission, Job
  <2>2. \A r \in steady[e] : Owner[r] = c => r \in RegistrationsFor(c, job[e].name)
    BY <1>0, <2>1 DEF Open, Entitled, Subscribers, RegistrationsFor
  <2>3. \A r \in steady[e] : Coming(e, r)
    BY <2>1 DEF ServeInv, Progress
  <2>4. \A r \in steady[e] : Coming(e, r)'
    BY <1>5, <2>1, <2>2, <2>3 DEF Coming
  <2>5. Progress(e)'
    BY <1>0, <1>9, <2>1, <2>4 DEF Progress
  <2>6. \A r \in RegistrationsFor(c, job[e].name) : registered[r] # "new"
    BY DEF RegistrationsFor
  <2>7. Known'
    BY <1>0, <1>1, <1>3, <2>1, <2>6 DEF Known, tables
  <2> QED BY <1>6, <1>7, <1>10, <2>1, <2>5, <2>7
<1>16. ASSUME NEW q \in Registration, EnqueueWebhook(e, q)
       PROVE  /\ Known' /\ TxKnows'
              /\ \A f \in Change : Progress(f)' /\ RowSeen(f)'
  <2>1. /\ job'[e].stage = "dispatching" /\ job'[e].name = job[e].name
        /\ job'[e].targets = job[e].targets \ {q}
        /\ job'[e].todo = job[e].todo
        /\ q \in job[e].targets /\ job[e].stage = "dispatching"
    BY <1>0, <1>16, OneJob DEF EnqueueWebhook, Job
  <2> DEFINE d == [change |-> e, registration |-> q, run |-> job[e].run,
                   name |-> job[e].name, data |-> job[e].data,
                   stage |-> "waiting", executions |-> 0,
                   answer |-> NetworkError]
  <2>2. /\ deliveries' = deliveries \cup {d}
        /\ d.change = e /\ d.registration = q /\ d.stage = "waiting"
    BY <1>16 DEF EnqueueWebhook
  <2> HIDE DEF d
  <2>3. Served(e, q)'
    BY <2>2 DEF Served
  <2>4. \A r \in steady[e] : Coming(e, r)
    BY <2>1 DEF ServeInv, Progress
  <2>5. \A r \in steady[e] : Coming(e, r)'
    BY <1>5, <2>1, <2>3, <2>4 DEF Coming
  <2>6. Progress(e)'
    BY <1>0, <1>9, <2>1, <2>5 DEF Progress
  <2>7. Known'
    BY <1>0, <1>1, <1>3, <2>1, <2>2 DEF Known, tables
  <2> QED BY <1>6, <1>7, <1>10, <2>1, <2>6, <2>7
<1> QED BY <1>11, <1>12, <1>13, <1>14, <1>15, <1>16 DEF JobStep

\* A change publishes its event inside its transaction.
LEMMA ChangeServes ==
  ASSUME ServeInv, Observe, NEW e \in Change, ChangeStep(e)
  PROVE  /\ Known' /\ TxKnows'
         /\ \A f \in Change : Progress(f)' /\ RowSeen(f)'
<1>1. PICK event, from, row :
        /\ BeginChange(e, event, from, row)
        /\ row \in Row /\ from \in Row \cup {"absent"}
  BY DEF ChangeStep, CreateDraft, CreatePublished, UpdateProposal, Publish, Row
<1>2. /\ TypeInv /\ job[e] \in Job /\ job \in [Change -> Job]
      /\ job[e].stage = "none" /\ tx = NoTx /\ tx.change \notin Change
      /\ tx' = [change |-> e, row |-> row] /\ proposal # "destroyed"
      /\ UNCHANGED <<proposal, transactional, tables, deliveries>>
  BY <1>1, WebhookAssumption DEF ServeInv, TypeInv, TypeOK, BeginChange, NoTx, Row
<1>3. /\ \A f \in Change : f # e => job'[f] = job[f]
      /\ job'[e].stage \in {"none", "waiting"} /\ job'[e].targets = job[e].targets
  <2>1. CASE UNCHANGED job
    BY <1>2, <2>1
  <2>2. CASE enabled
    <3> DEFINE n == PublishedName(event, row = "draft")
               new == [job[e] EXCEPT !.stage = "waiting", !.name = n]
    <3>1. JobBecomes(e, new)
      BY <1>1, <2>2 DEF BeginChange, Dispatch
    <3> HIDE DEF n
    <3>2. new.stage = "waiting" /\ new.targets = job[e].targets
      BY <1>2 DEF Job
    <3> HIDE DEF new
    <3> QED BY <1>2, <3>1, <3>2, OneJob
  <2> QED BY <1>1, <2>1, <2>2 DEF BeginChange, Dispatch
<1>4. Known'
  BY <1>2, <1>3 DEF ServeInv, Known, tables
<1>5. TxKnows'
  BY <1>1, <1>2 DEF TxKnows
<1>6. \A f, r : Served(f, r) => Served(f, r)'
  BY <1>2 DEF Served, tables
<1>7. \A f \in Change : f # e => Progress(f)' /\ RowSeen(f)'
  <2>1. \A f \in Change : f # e => Progress(f)'
    BY <1>3, <1>6, ProgressKept
  <2>2. \A f \in Change : f # e => RowSeen(f)'
    BY <1>2, <1>3 DEF ServeInv, RowSeen
  <2> QED BY <2>1, <2>2
<1>8. Progress(e)'
  BY <1>3, SteadyNow DEF Progress
<1>9. RowSeen(e)'
  BY <1>2, <1>3 DEF RowSeen
<1> QED BY <1>4, <1>5, <1>7, <1>8, <1>9

LEMMA OtherServes ==
  ASSUME ServeInv, Observe, DestroyDraft \/ Commit \/ Rollback \/ Administration
  PROVE  /\ Known' /\ TxKnows'
         /\ \A f \in Change : Progress(f)' /\ RowSeen(f)'
<1>0. TypeInv /\ job \in [Change -> Job] /\ UNCHANGED <<transactional, deliveries>>
  BY DEF ServeInv, TypeInv, TypeOK, DestroyDraft, Commit, Rollback, Administration,
         SetPermissions, CreateRegistration, UpdateRegistration,
         DestroyRegistration, Toggle, Edit
<1>1. /\ \A r \in Registration : registered[r] # "new" => registered'[r] # "new"
      /\ \A r \in Registration : registered[r] = "destroyed" =>
           registered'[r] = "destroyed"
  <2>1. registered \in [Registration -> {"new", "live", "destroyed"}]
    BY DEF ServeInv, TypeInv, TypeOK
  <2> QED BY <2>1 DEF DestroyDraft, Commit, Rollback, Administration,
         SetPermissions, CreateRegistration, UpdateRegistration,
         DestroyRegistration, Toggle, tables
<1>2. \A d \in deliveries : d.registration \in Registration
  BY DEF ServeInv, TypeInv, TypeOK, Delivery
<1>3. \A f, r : Served(f, r) => Served(f, r)'
  BY <1>0, <1>1, <1>2 DEF Served
<1>4. \A f \in Change : \/ job'[f] = job[f]
                       \/ /\ Rollback /\ f = tx.change
                          /\ job'[f].stage = "undone"
                          /\ job'[f].targets = job[f].targets
  <2>1. CASE Rollback /\ job' # job
    <3>1. /\ tx.change \in Change
          /\ JobBecomes(tx.change, [job[tx.change] EXCEPT !.stage = "undone"])
      BY <2>1 DEF Rollback, ServeInv, TxKnows
    <3>2. /\ job'[tx.change] = [job[tx.change] EXCEPT !.stage = "undone"]
          /\ \A f \in Change : f # tx.change => job'[f] = job[f]
      BY <1>0, <3>1, OneJob
    <3>3. job[tx.change] \in Job
      BY <1>0, <3>1
    <3> QED BY <2>1, <3>2, <3>3 DEF Job
  <2>2. CASE job' = job
    BY <2>2
  <2> QED BY <2>1, <2>2 DEF DestroyDraft, Commit, Administration, SetPermissions,
         CreateRegistration, UpdateRegistration, DestroyRegistration, Toggle, Edit
<1>5. Known'
  <2>1. \A f \in Change : job'[f].targets \subseteq Registration
                         /\ job'[f].targets = job[f].targets
    BY <1>0, <1>4 DEF Job
  <2> QED BY <1>0, <1>1, <1>2, <2>1 DEF ServeInv, Known
<1>6. \A f \in Change : Progress(f)'
  <2>1. \A f \in Change : job'[f] = job[f] => Progress(f)'
    BY <1>3, ProgressKept
  <2>2. \A f \in Change : job'[f].stage = "undone" => Progress(f)'
    BY DEF Progress, Open
  <2> QED BY <1>4, <2>1, <2>2
<1>7. CASE DestroyDraft \/ Administration
  <2>1. /\ UNCHANGED <<tx, job>>
        /\ UNCHANGED proposal \/ (tx = NoTx /\ proposal' = "destroyed")
    BY <1>7 DEF DestroyDraft, Administration, SetPermissions,
         CreateRegistration, UpdateRegistration, DestroyRegistration, Toggle, Edit
  <2>2. TxKnows' /\ \A f \in Change : RowSeen(f)'
    BY <1>0, <2>1 DEF ServeInv, TxKnows, RowSeen
  <2> QED BY <1>5, <1>6, <2>2
<1>8. CASE Commit
  <2>1. tx' = NoTx /\ proposal' \in Row /\ proposal # "destroyed" /\ UNCHANGED job
    BY <1>8 DEF Commit, ServeInv, TxKnows
  <2>2. TxKnows' /\ \A f \in Change : RowSeen(f)'
    BY <1>0, <2>1 DEF ServeInv, TxKnows, RowSeen, Row
  <2> QED BY <1>5, <1>6, <2>2
<1>9. CASE Rollback
  <2>1. /\ tx' = NoTx /\ UNCHANGED proposal /\ tx.change \in Change
        /\ transactional => job'[tx.change].stage \in {"none", "undone"}
    <3>1. /\ tx' = NoTx /\ UNCHANGED proposal /\ tx.change \in Change
      BY <1>9 DEF Rollback, ServeInv, TxKnows
    <3>2. ASSUME transactional, job[tx.change].stage # "none"
          PROVE  job'[tx.change].stage = "undone"
      <4>1. JobBecomes(tx.change, [job[tx.change] EXCEPT !.stage = "undone"])
        BY <1>9, <3>2 DEF Rollback
      <4>2. job'[tx.change] = [job[tx.change] EXCEPT !.stage = "undone"]
        BY <1>0, <3>1, <4>1, OneJob
      <4> QED BY <1>0, <3>1, <4>2 DEF Job
    <3> QED BY <1>9, <3>1, <3>2 DEF Rollback
  <2>2. \A f \in Change : f # tx.change => job'[f] = job[f]
    BY <1>4
  <2>3. TxKnows' /\ \A f \in Change : RowSeen(f)'
    BY <1>0, <2>1, <2>2 DEF ServeInv, TxKnows, RowSeen
  <2> QED BY <1>5, <1>6, <2>3
<1> QED BY <1>7, <1>8, <1>9

LEMMA ServeStep == ServeInv /\ [Next]_vars => ServeInv'
<1> SUFFICES ASSUME ServeInv, [Next]_vars PROVE ServeInv'
  OBVIOUS
<1>1. TypeInv'
  BY StepTyped DEF ServeInv
<1>2. CASE Next
  <2>1. Observe
    BY <1>2, StepObserved
  <2>2. /\ Known' /\ TxKnows'
        /\ \A f \in Change : Progress(f)' /\ RowSeen(f)'
    BY <1>2, <2>1, ChangeServes, JobServes, DeliveryServes, OtherServes DEF Next
  <2> QED BY <1>1, <2>2 DEF ServeInv
<1>3. CASE UNCHANGED vars
  BY <1>1, <1>3 DEF ServeInv, vars, Known, TxKnows, Progress, RowSeen, Coming, Served,
                    Open, Entitled, Subscribers
<1> QED BY <1>2, <1>3

\* Whatever the interleaving, no registration that was entitled from the event to
\* the end of the job goes without its delivery, and no delivery ends without a
\* reason.
THEOREM WebhooksNoSubscriberMissed == Spec => []NoSubscriberMissed
<1>1. ServeInv => NoSubscriberMissed
  BY DEF ServeInv, Progress, RowSeen, NoSubscriberMissed
<1> QED BY <1>1, ServeInit, ServeStep, PTL DEF Spec
-----------------------------------------------------------------------------
(* Repeats need a death.  An event may reach a receiver once for what has  *)
(* been told, once for every delivery that may still post, and once for    *)
(* the place the job still has for the registration: the sum of the three  *)
(* grows only when a worker dies.                                          *)

\* A delivery that may post again.
IsDue(d) == d.stage = "waiting" \/ (d.stage = "posted" /\ Refused(d))

Due(e, r) ==
  {d \in deliveries : d.change = e /\ d.registration = r /\ IsDue(d)}

\* The job of e may still enqueue a delivery for r.
Ahead(e, r) ==
  \/ job[e].stage \in {"none", "waiting", "loaded"}
  \/ /\ job[e].stage = "dispatching"
     /\ Owner[r] \in job[e].todo \/ r \in job[e].targets

Place(e, r) == IF Ahead(e, r) THEN 1 ELSE 0

MayReach(e, r) == told[e][r] + Cardinality(Due(e, r)) + Place(e, r)

\* The job looks up the registrations of a client once.
Tidy(e) ==
  /\ job[e].stage \in {"none", "waiting", "loaded"} => job[e].targets = {}
  /\ job[e].stage = "dispatching" =>
       \A r \in job[e].targets : Owner[r] \notin job[e].todo

OnceInv ==
  /\ TypeInv
  /\ IsFiniteSet(deliveries)
  /\ \A e \in Change : Tidy(e)
  /\ \A e \in Change, r \in Registration : MayReach(e, r) <= 1 + deaths

\* What a step owes to the invariant: the sum grows by no more than the deaths.
Owes ==
  /\ IsFiniteSet(deliveries)'
  /\ \A e \in Change : Tidy(e)'
  /\ \A e \in Change, r \in Registration :
       MayReach(e, r)' + deaths <= MayReach(e, r) + deaths'

LEMMA ReachTyped ==
  ASSUME TypeOK, IsFiniteSet(deliveries), NEW e \in Change, NEW r \in Registration
  PROVE  /\ told[e][r] \in Nat /\ Cardinality(Due(e, r)) \in Nat
         /\ Place(e, r) \in 0..1 /\ MayReach(e, r) \in Nat /\ deaths \in Nat
<1>1. IsFiniteSet(Due(e, r))
  BY FS_Subset DEF Due
<1>2. Cardinality(Due(e, r)) \in Nat
  BY <1>1, FS_CardinalityType
<1>3. told[e][r] \in Nat /\ deaths \in Nat
  BY WebhookBounds DEF TypeOK
<1>4. Place(e, r) \in 0..1
  BY DEF Place
<1> HIDE DEF Due, Place
<1> QED BY <1>2, <1>3, <1>4 DEF MayReach

LEMMA ReachNat ==
  TypeOK /\ IsFiniteSet(deliveries) =>
    \A e \in Change, r \in Registration : MayReach(e, r) \in Nat /\ deaths \in Nat
BY ReachTyped

LEMMA ReachNatNext ==
  (TypeOK /\ IsFiniteSet(deliveries))' =>
    (\A e \in Change, r \in Registration : MayReach(e, r) \in Nat /\ deaths \in Nat)'
BY ReachNat, PTL

LEMMA InitOnce == Init => OnceInv
<1> SUFFICES ASSUME Init PROVE OnceInv
  OBVIOUS
<1>1. /\ deliveries = {} /\ IsFiniteSet(deliveries) /\ deaths = 0
      /\ \A e \in Change : job[e].stage = "none" /\ job[e].targets = {}
      /\ \A e \in Change, r \in Registration : told[e][r] = 0
  BY FS_EmptySet DEF Init, IdleJob
<1>2. ASSUME NEW e \in Change, NEW r \in Registration
      PROVE  MayReach(e, r) <= 1 + deaths
  <2>1. Due(e, r) = {}
    BY <1>1 DEF Due
  <2>2. Cardinality(Due(e, r)) = 0 /\ Place(e, r) = 1
    BY <1>1, <2>1, FS_EmptySet DEF Place, Ahead
  <2> QED BY <1>1, <2>2 DEF MayReach
<1> QED BY <1>1, <1>2, InitTyped DEF OnceInv, Tidy

\* A delivery that takes the place of another one of the same event and the same
\* registration: what becomes of those that may still post.
LEMMA DueAfter ==
  ASSUME IsFiniteSet(deliveries), NEW d \in deliveries, NEW new, Becomes(d, new),
         new.change = d.change, new.registration = d.registration,
         NEW e, NEW r
  PROVE  /\ IsFiniteSet(deliveries')
         /\ Cardinality(Due(e, r)) \in Nat /\ Cardinality(Due(e, r)') \in Nat
         /\ Cardinality(Due(e, r)') <= Cardinality(Due(e, r)) + 1
         /\ IsDue(d) \/ ~IsDue(new) \/ e # d.change \/ r # d.registration =>
              Cardinality(Due(e, r)') <= Cardinality(Due(e, r))
         /\ IsDue(d) /\ ~IsDue(new) /\ e = d.change /\ r = d.registration =>
              Cardinality(Due(e, r)') <= Cardinality(Due(e, r)) - 1
<1> DEFINE D == Due(e, r)
           E == Due(e, r)'
<1>1. IsFiniteSet(deliveries')
  BY FS_RemoveElement, FS_AddElement DEF Becomes
<1>2. IsFiniteSet(D) /\ IsFiniteSet(E)
  BY <1>1, FS_Subset DEF Due
<1>3. Cardinality(D) \in Nat /\ Cardinality(E) \in Nat
  BY <1>2, FS_CardinalityType
<1>4. E \subseteq (D \ {d}) \cup {new}
  BY DEF Due, Becomes
<1>5. ~IsDue(new) => E \subseteq D \ {d}
  BY DEF Due, Becomes
<1>6. e # d.change \/ r # d.registration => E \subseteq D
  BY DEF Due, Becomes
<1>7. IsDue(d) /\ e = d.change /\ r = d.registration => d \in D
  BY DEF Due
<1>8. e # d.change \/ r # d.registration => d \notin D
  BY DEF Due
<1> HIDE DEF D, E
<1>9. /\ IsFiniteSet(D \ {d})
      /\ Cardinality(D \ {d}) = IF d \in D THEN Cardinality(D) - 1
                                           ELSE Cardinality(D)
  BY <1>2, FS_RemoveElement
<1>10. /\ IsFiniteSet((D \ {d}) \cup {new})
       /\ Cardinality((D \ {d}) \cup {new}) <= Cardinality(D \ {d}) + 1
  <2> DEFINE R == D \ {d}
  <2>1. Cardinality(R) \in Nat
    BY <1>9, FS_CardinalityType
  <2>2. IsFiniteSet(R)
    BY <1>9
  <2> HIDE DEF R
  <2>3. /\ IsFiniteSet(R \cup {new})
        /\ Cardinality(R \cup {new}) = IF new \in R THEN Cardinality(R)
                                                   ELSE Cardinality(R) + 1
    BY <2>2, FS_AddElement
  <2> QED BY <2>1, <2>3 DEF R
<1>11. Cardinality(E) <= Cardinality((D \ {d}) \cup {new})
  BY <1>4, <1>10, FS_Subset
<1>12. ~IsDue(new) => Cardinality(E) <= Cardinality(D \ {d})
  BY <1>5, <1>9, FS_Subset
<1>13. e # d.change \/ r # d.registration => Cardinality(E) <= Cardinality(D)
  BY <1>2, <1>6, FS_Subset
<1>14. Cardinality(D \ {d}) \in Nat /\ Cardinality((D \ {d}) \cup {new}) \in Nat
  BY <1>9, <1>10, FS_CardinalityType
<1> QED BY <1>1, <1>3, <1>7, <1>8, <1>9, <1>10, <1>11, <1>12, <1>13, <1>14 DEF D, E

\* A post tells the receiver only what the delivery may not post again.
LEMMA DeliveryOnce ==
  ASSUME OnceInv, TypeInv', NEW d \in deliveries, DeliveryStep(d) \/ KillPost(d)
  PROVE  Owes
<1>0. /\ TypeInv /\ IsFiniteSet(deliveries) /\ d \in Delivery
      /\ TypeOK /\ TypeOK'
      /\ d.change \in Change /\ d.registration \in Registration
  BY DEF OnceInv, TypeInv, TypeOK, Delivery
<1>1. UNCHANGED job
  BY DEF DeliveryStep, Post, RegistrationMissing, EndPost, End, KillPost
<1>2. \A e \in Change : Tidy(e)'
  BY <1>1 DEF OnceInv, Tidy
<1>3. \A e, r : Place(e, r)' = Place(e, r)
  BY <1>1 DEF Place, Ahead
<1>4. ASSUME NEW new, Becomes(d, new),
             new.change = d.change, new.registration = d.registration,
             \/ deaths' = deaths + 1 /\ UNCHANGED told
             \/ UNCHANGED <<deaths, told>> /\ (IsDue(d) \/ ~IsDue(new))
             \/ /\ UNCHANGED deaths /\ Tell(d.change, d.registration)
                /\ IsDue(d) /\ ~IsDue(new)
      PROVE  Owes
  <2>1. IsFiniteSet(deliveries)'
    BY <1>0, <1>4, DueAfter
  <2>2. ASSUME NEW e \in Change, NEW r \in Registration
        PROVE  MayReach(e, r)' + deaths <= MayReach(e, r) + deaths'
    <3> DEFINE n == Cardinality(Due(e, r))
    <3>1. /\ told[e][r] \in Nat /\ n \in Nat /\ Place(e, r) \in 0..1
          /\ deaths \in Nat
      BY <1>0, ReachTyped
    <3>2. told'[e][r] \in Nat /\ n' \in Nat /\ deaths' \in Nat
      <4>1. n' \in Nat
        BY <1>0, <1>4, DueAfter
      <4> QED BY <1>0, <4>1, WebhookBounds DEF TypeOK
    <3>3. /\ n' <= n + 1
          /\ IsDue(d) \/ ~IsDue(new) \/ e # d.change \/ r # d.registration =>
               n' <= n
          /\ IsDue(d) /\ ~IsDue(new) /\ e = d.change /\ r = d.registration =>
               n' <= n - 1
      BY <1>0, <1>4, DueAfter
    <3>4. Tell(d.change, d.registration) =>
            told'[e][r] = IF e = d.change /\ r = d.registration
                          THEN told[e][r] + 1 ELSE told[e][r]
      BY <1>0 DEF Tell, TypeOK
    <3> HIDE DEF n
    <3>5. told'[e][r] + n' + deaths <= told[e][r] + n + deaths'
      <4>1. CASE deaths' = deaths + 1 /\ UNCHANGED told
        BY <3>1, <3>2, <3>3, <4>1
      <4>2. CASE UNCHANGED <<deaths, told>> /\ (IsDue(d) \/ ~IsDue(new))
        BY <3>1, <3>2, <3>3, <4>2
      <4>3. CASE /\ UNCHANGED deaths /\ Tell(d.change, d.registration)
                 /\ IsDue(d) /\ ~IsDue(new)
        BY <3>1, <3>2, <3>3, <3>4, <4>3
      <4> QED BY <1>4, <4>1, <4>2, <4>3
    <3> QED BY <1>3, <3>1, <3>2, <3>5 DEF MayReach, n
  <2> QED BY <1>2, <2>1, <2>2 DEF Owes
<1>5. CASE Post(d)
  <2>1. PICK a \in Status \cup {NetworkError} :
          /\ Becomes(d, [d EXCEPT !.stage = "posted", !.answer = a,
                                  !.executions = d.executions + 1])
          /\ IF Taken(a) THEN Tell(d.change, d.registration) ELSE UNCHANGED told
    BY <1>5 DEF Post
  <2> DEFINE x == d.executions + 1
             new == [d EXCEPT !.stage = "posted", !.answer = a, !.executions = x]
  <2>2. Becomes(d, new)
    BY <2>1
  <2> HIDE DEF x
  <2>3. /\ new.change = d.change /\ new.registration = d.registration
        /\ new.stage = "posted" /\ new.answer = a
    BY <1>0 DEF Delivery
  <2> HIDE DEF new
  <2>4. Taken(a) => ~IsDue(new)
    BY <2>3 DEF Taken, IsDue, Refused, Accepted
  <2>5. UNCHANGED deaths /\ IsDue(d)
    BY <1>5 DEF Post, IsDue
  <2> QED BY <1>4, <2>1, <2>2, <2>3, <2>4, <2>5
<1>6. CASE RegistrationMissing(d)
  <2> DEFINE new == [d EXCEPT !.stage = "gave_up"]
  <2>1. /\ Becomes(d, new) /\ new.stage = "gave_up"
        /\ new.change = d.change /\ new.registration = d.registration
        /\ UNCHANGED <<deaths, told>>
    BY <1>0, <1>6 DEF RegistrationMissing, counters, Delivery
  <2> HIDE DEF new
  <2> QED BY <1>4, <2>1 DEF IsDue
<1>7. CASE EndPost(d)
  <2> DEFINE s == IF Accepted(d.answer) THEN "accepted"
                  ELSE IF Refused(d) /\ d.executions < Attempts THEN "waiting"
                  ELSE "gave_up"
             new == [d EXCEPT !.executions = d.executions, !.stage = s]
  <2>1. /\ s \in {"accepted", "waiting", "gave_up"}
        /\ s = "waiting" => Refused(d)
    OBVIOUS
  <2>2. Becomes(d, new) /\ d.stage = "posted" /\ UNCHANGED <<deaths, told>>
    BY <1>7 DEF EndPost, End, counters
  <2> HIDE DEF s
  <2>3. new.change = d.change /\ new.registration = d.registration /\ new.stage = s
    BY <1>0 DEF Delivery
  <2> HIDE DEF new
  <2> QED BY <1>4, <2>1, <2>2, <2>3 DEF IsDue
<1>8. CASE KillPost(d)
  <2> DEFINE x == d.executions - 1
             new == [d EXCEPT !.stage = "waiting", !.executions = x]
  <2>1. Becomes(d, new) /\ deaths' = deaths + 1 /\ UNCHANGED told
    BY <1>8 DEF KillPost, Die
  <2> HIDE DEF x
  <2>2. new.change = d.change /\ new.registration = d.registration
    BY <1>0 DEF Delivery
  <2> HIDE DEF new
  <2> QED BY <1>4, <2>1, <2>2
<1> QED BY <1>5, <1>6, <1>7, <1>8 DEF DeliveryStep

\* A step that leaves the deliveries and what was told alone is about the job only.
LEMMA PlaceOnce ==
  ASSUME OnceInv, UNCHANGED <<deliveries, told>>, deaths' \in Nat,
         \A e \in Change : Tidy(e)',
         \A e \in Change, r \in Registration :
           \/ Ahead(e, r)' => Ahead(e, r)
           \/ deaths' = deaths + 1,
         deaths' >= deaths
  PROVE  Owes
<1>1. TypeOK /\ IsFiniteSet(deliveries)
  BY DEF OnceInv, TypeInv
<1>2. ASSUME NEW e \in Change, NEW r \in Registration
      PROVE  MayReach(e, r)' + deaths <= MayReach(e, r) + deaths'
  <2> DEFINE n == Cardinality(Due(e, r))
  <2>1. told[e][r] \in Nat /\ n \in Nat /\ deaths \in Nat
    BY <1>1, ReachTyped
  <2>2. n' = n
    BY DEF Due
  <2>3. /\ Place(e, r) \in 0..1 /\ Place(e, r)' \in 0..1
        /\ Place(e, r)' <= Place(e, r) \/ deaths' = deaths + 1
    BY DEF Place
  <2> HIDE DEF n
  <2> QED BY <2>1, <2>2, <2>3 DEF MayReach, n
<1> QED BY <1>1, <1>2 DEF Owes

\* The job gives up a place for every delivery it enqueues.
LEMMA EnqueueOnce ==
  ASSUME OnceInv, NEW e \in Change, NEW q \in Registration, EnqueueWebhook(e, q)
  PROVE  Owes
<1>0. /\ TypeInv /\ TypeOK /\ IsFiniteSet(deliveries)
      /\ job[e] \in Job /\ job \in [Change -> Job]
      /\ \A f \in Change : Tidy(f)
  BY DEF OnceInv, TypeInv, TypeOK
<1>1. /\ job[e].stage = "dispatching" /\ q \in job[e].targets
      /\ job'[e].stage = "dispatching" /\ job'[e].todo = job[e].todo
      /\ job'[e].targets = job[e].targets \ {q}
      /\ \A f \in Change : f # e => job'[f] = job[f]
      /\ UNCHANGED <<deaths, told>>
  BY <1>0, OneJob DEF EnqueueWebhook, Job, counters
<1> DEFINE d == [change |-> e, registration |-> q, run |-> job[e].run,
                 name |-> job[e].name, data |-> job[e].data,
                 stage |-> "waiting", executions |-> 0, answer |-> NetworkError]
<1>2. /\ deliveries' = deliveries \cup {d}
      /\ d.change = e /\ d.registration = q
  BY DEF EnqueueWebhook
<1> HIDE DEF d
<1>3. IsFiniteSet(deliveries')
  BY <1>0, <1>2, FS_AddElement
<1>4. \A f \in Change : Tidy(f)'
  BY <1>0, <1>1 DEF Tidy
<1>5. ASSUME NEW f \in Change, NEW r \in Registration
      PROVE  MayReach(f, r)' + deaths <= MayReach(f, r) + deaths'
  <2> DEFINE n == Cardinality(Due(f, r))
  <2>1. /\ told[f][r] \in Nat /\ n \in Nat /\ Place(f, r) \in 0..1
        /\ deaths \in Nat
    BY <1>0, ReachTyped
  <2>2. CASE f = e /\ r = q
    <3>1. Place(f, r) = 1
      BY <1>1, <2>2 DEF Place, Ahead
    <3>2. Place(f, r)' = 0
      BY <1>0, <1>1, <2>2 DEF Place, Ahead, Tidy
    <3>3. n' \in Nat /\ n' <= n + 1
      <4> DEFINE D == Due(f, r)
                 E == Due(f, r)'
      <4>1. E \subseteq D \cup {d}
        BY <1>2 DEF Due
      <4>2. IsFiniteSet(D) /\ IsFiniteSet(E)
        BY <1>0, <1>3, FS_Subset DEF Due
      <4>3. n = Cardinality(D) /\ n' = Cardinality(E)
        OBVIOUS
      <4> HIDE DEF D, E, n
      <4>4. /\ IsFiniteSet(D \cup {d})
            /\ Cardinality(D \cup {d}) <= n + 1
        <5>1. /\ IsFiniteSet(D \cup {d})
              /\ Cardinality(D \cup {d}) = IF d \in D THEN Cardinality(D)
                                                    ELSE Cardinality(D) + 1
          BY <4>2, FS_AddElement
        <5> QED BY <2>1, <4>3, <5>1
      <4>5. Cardinality(E) <= Cardinality(D \cup {d})
        BY <4>1, <4>4, FS_Subset
      <4>6. Cardinality(E) \in Nat /\ Cardinality(D \cup {d}) \in Nat
        BY <4>2, <4>4, FS_CardinalityType
      <4> QED BY <2>1, <4>3, <4>4, <4>5, <4>6
    <3> HIDE DEF n
    <3> QED BY <1>1, <2>1, <3>1, <3>2, <3>3 DEF MayReach, n
  <2>3. CASE f # e \/ r # q
    <3>1. n' = n
      <4>1. Due(f, r)' = Due(f, r)
        BY <1>2, <2>3 DEF Due
      <4> QED BY <4>1
    <3>2. Place(f, r)' \in 0..1 /\ Place(f, r)' <= Place(f, r)
      BY <1>1, <2>3 DEF Place, Ahead
    <3> HIDE DEF n
    <3> QED BY <1>1, <2>1, <3>1, <3>2 DEF MayReach, n
  <2> QED BY <2>2, <2>3
<1> QED BY <1>3, <1>4, <1>5 DEF Owes

\* No other step of a job finds a place for a registration that had none, except
\* that a worker dies.
LEMMA JobOnce ==
  ASSUME OnceInv, NEW e \in Change, JobStep(e) \/ KillJob(e)
  PROVE  Owes
<1>0. /\ TypeInv /\ job[e] \in Job /\ job \in [Change -> Job]
      /\ deaths \in Nat /\ \A f \in Change : Tidy(f)
  BY WebhookBounds DEF OnceInv, TypeInv, TypeOK
<1>1. ASSUME NEW new, JobBecomes(e, new), UNCHANGED <<deliveries, told>>,
             new.stage \in {"waiting", "loaded"} => new.targets = {},
             new.stage = "dispatching" =>
               \A r \in new.targets : Owner[r] \notin new.todo,
             \/ deaths' = deaths + 1
             \/ /\ UNCHANGED deaths
                /\ job[e].stage \in {"waiting", "loaded"}
                /\ new.stage # "none"
             \/ UNCHANGED deaths /\ new.stage = "performed"
             \/ /\ UNCHANGED deaths
                /\ job[e].stage = "dispatching" /\ new.stage = "dispatching"
                /\ \A r \in Registration :
                     Owner[r] \in new.todo \/ r \in new.targets =>
                       Owner[r] \in job[e].todo,
             new.stage # "none"
      PROVE  Owes
  <2>1. job'[e] = new /\ \A f \in Change : f # e => job'[f] = job[f]
    BY <1>0, <1>1, OneJob
  <2>2. \A f \in Change : Tidy(f)'
    BY <1>0, <1>1, <2>1 DEF Tidy
  <2>3. \A f \in Change, r \in Registration :
          (Ahead(f, r)' => Ahead(f, r)) \/ deaths' = deaths + 1
    BY <1>1, <2>1 DEF Ahead
  <2>4. deaths' \in Nat /\ deaths' >= deaths
    BY <1>0, <1>1
  <2> QED BY <1>1, <2>2, <2>3, <2>4, PlaceOnce
<1>2. CASE ModuleDisabled(e) \/ EndJob(e)
  <2> DEFINE new == [job[e] EXCEPT !.stage = "performed"]
  <2>1. JobBecomes(e, new) /\ UNCHANGED <<deliveries, told, deaths>>
    BY <1>2 DEF ModuleDisabled, EndJob, counters
  <2>2. new.stage = "performed"
    BY <1>0 DEF Job
  <2> HIDE DEF new
  <2> QED BY <1>1, <2>1, <2>2
<1>3. CASE ProposalMissing(e)
  <2> DEFINE new == [job[e] EXCEPT !.stage = "missing"]
  <2>1. /\ JobBecomes(e, new) /\ UNCHANGED <<deliveries, told, deaths>>
        /\ job[e].stage = "waiting"
    BY <1>3 DEF ProposalMissing, counters
  <2>2. new.stage = "missing"
    BY <1>0 DEF Job
  <2> HIDE DEF new
  <2> QED BY <1>1, <2>1, <2>2
<1>4. CASE LoadProposal(e)
  <2> DEFINE n == job[e].run + 1
             new == [job[e] EXCEPT !.stage = "loaded", !.data = proposal, !.run = n]
  <2>1. /\ JobBecomes(e, new) /\ UNCHANGED <<deliveries, told, deaths>>
        /\ job[e].stage = "waiting"
    BY <1>0, <1>4 DEF LoadProposal, counters, Job
  <2>2. job[e].targets = {}
    BY <1>0, <2>1 DEF Tidy
  <2> HIDE DEF n
  <2>3. new.stage = "loaded" /\ new.targets = {}
    BY <1>0, <2>2 DEF Job
  <2> HIDE DEF new
  <2> QED BY <1>1, <2>1, <2>3
<1>5. CASE LoadPermissions(e)
  <2> DEFINE t == PermissionsFor(job[e].name)
             new == [job[e] EXCEPT !.stage = "dispatching", !.todo = t]
  <2>1. /\ JobBecomes(e, new) /\ UNCHANGED <<deliveries, told, deaths>>
        /\ job[e].stage = "loaded"
    BY <1>5 DEF LoadPermissions, counters
  <2>2. job[e].targets = {}
    BY <1>0, <2>1 DEF Tidy
  <2> HIDE DEF t
  <2>3. new.stage = "dispatching" /\ new.targets = {}
    BY <1>0, <2>2 DEF Job
  <2> HIDE DEF new
  <2> QED BY <1>1, <2>1, <2>3
<1>6. ASSUME NEW c \in Client, DispatchForPermission(e, c) PROVE Owes
  <2> DEFINE t == RegistrationsFor(c, job[e].name)
             new == [job[e] EXCEPT !.todo = @ \ {c}, !.targets = t]
  <2>1. /\ JobBecomes(e, new) /\ UNCHANGED <<deliveries, told, deaths>>
        /\ job[e].stage = "dispatching" /\ c \in job[e].todo
    BY <1>6 DEF DispatchForPermission, counters
  <2>2. \A r \in t : Owner[r] = c
    BY DEF RegistrationsFor
  <2> HIDE DEF t
  <2>3. new.stage = "dispatching" /\ new.targets = t /\ new.todo = job[e].todo \ {c}
    BY <1>0, <2>1 DEF Job
  <2> HIDE DEF new
  <2> QED BY <1>1, <2>1, <2>2, <2>3
<1>7. CASE KillJob(e)
  <2> DEFINE new == [job[e] EXCEPT !.stage = "waiting", !.todo = {}, !.targets = {}]
  <2>1. JobBecomes(e, new) /\ UNCHANGED <<deliveries, told>> /\ deaths' = deaths + 1
    BY <1>7 DEF KillJob, Die
  <2>2. new.stage = "waiting" /\ new.targets = {}
    BY <1>0 DEF Job
  <2> HIDE DEF new
  <2> QED BY <1>1, <2>1, <2>2
<1> QED BY <1>2, <1>3, <1>4, <1>5, <1>6, <1>7, EnqueueOnce DEF JobStep

LEMMA OtherOnce ==
  ASSUME OnceInv,
         \/ \E e \in Change : ChangeStep(e)
         \/ DestroyDraft \/ Commit \/ Rollback \/ Administration
  PROVE  Owes
<1>0. /\ TypeInv /\ TypeOK /\ job \in [Change -> Job]
      /\ deaths \in Nat /\ \A f \in Change : Tidy(f)
  BY WebhookBounds DEF OnceInv, TypeInv, TypeOK
<1>1. UNCHANGED <<deliveries, told, deaths>>
  BY DEF ChangeStep, CreateDraft, CreatePublished, UpdateProposal, Publish,
         BeginChange, DestroyDraft, Commit, Rollback, Administration,
         SetPermissions, CreateRegistration, UpdateRegistration,
         DestroyRegistration, Toggle, Edit, counters
<1>2. ASSUME \A f \in Change :
               \/ job'[f] = job[f]
               \/ /\ job[f].stage = "none" /\ job'[f].stage = "waiting"
                  /\ job'[f].targets = job[f].targets
               \/ job'[f].stage = "undone"
      PROVE  Owes
  <2>1. \A f \in Change : Tidy(f)'
    BY <1>0, <1>2 DEF Tidy
  <2>2. \A f \in Change, r \in Registration : Ahead(f, r)' => Ahead(f, r)
    BY <1>2 DEF Ahead
  <2> QED BY <1>0, <1>1, <2>1, <2>2, PlaceOnce
<1>3. CASE UNCHANGED job
  BY <1>2, <1>3
<1>4. ASSUME NEW e \in Change, NEW event, NEW from, NEW row,
             BeginChange(e, event, from, row), enabled
      PROVE  Owes
  <2> DEFINE n == PublishedName(event, row = "draft")
             new == [job[e] EXCEPT !.stage = "waiting", !.name = n]
  <2>1. JobBecomes(e, new) /\ job[e].stage = "none"
    BY <1>4 DEF BeginChange, Dispatch
  <2> HIDE DEF n
  <2>2. new.stage = "waiting" /\ new.targets = job[e].targets
    BY <1>0 DEF Job
  <2> HIDE DEF new
  <2> QED BY <1>0, <1>2, <2>1, <2>2, OneJob
<1>5. CASE Rollback /\ transactional /\ job[tx.change].stage # "none"
  <2>1. JobBecomes(tx.change, [job[tx.change] EXCEPT !.stage = "undone"])
    BY <1>5 DEF Rollback
  <2>2. ASSUME NEW f \in Change
        PROVE  job'[f] = job[f] \/ job'[f].stage = "undone"
    <3>1. CASE f = tx.change
      <4> DEFINE new == [job[tx.change] EXCEPT !.stage = "undone"]
      <4>1. JobBecomes(tx.change, new)
        BY <2>1
      <4>2. new.stage = "undone"
        BY <1>0, <3>1 DEF Job
      <4> HIDE DEF new
      <4> QED BY <1>0, <3>1, <4>1, <4>2 DEF JobBecomes
    <3>2. CASE f # tx.change
      BY <1>0, <2>1, <3>2 DEF JobBecomes
    <3> QED BY <3>1, <3>2
  <2> QED BY <1>2, <2>2
<1>6. ASSUME NEW e \in Change, ChangeStep(e) PROVE Owes
  <2>1. PICK event, from, row : BeginChange(e, event, from, row)
    BY <1>6 DEF ChangeStep, CreateDraft, CreatePublished, UpdateProposal, Publish
  <2>2. CASE enabled
    BY <1>4, <2>1, <2>2
  <2>3. CASE ~enabled
    <3>1. UNCHANGED job
      BY <2>1, <2>3 DEF BeginChange, Dispatch
    <3> QED BY <1>3, <3>1
  <2> QED BY <2>2, <2>3
<1>7. CASE Rollback
  <2>1. CASE UNCHANGED job
    BY <1>3, <2>1
  <2> QED BY <1>5, <1>7, <2>1 DEF Rollback
<1>8. CASE DestroyDraft \/ Commit \/ Administration
  <2>1. UNCHANGED job
    BY <1>8 DEF DestroyDraft, Commit, Administration, SetPermissions,
         CreateRegistration, UpdateRegistration, DestroyRegistration, Toggle, Edit
  <2> QED BY <1>3, <2>1
<1> QED BY <1>6, <1>7, <1>8

LEMMA OnceStep == OnceInv /\ [Next]_vars => OnceInv'
<1> SUFFICES ASSUME OnceInv, [Next]_vars PROVE OnceInv'
  OBVIOUS
<1>1. TypeInv'
  BY StepTyped DEF OnceInv
<1>2. CASE Next
  <2>1. Owes
    BY <1>1, <1>2, DeliveryOnce, JobOnce, OtherOnce DEF Next
  <2>2. ASSUME NEW e \in Change, NEW r \in Registration
        PROVE  MayReach(e, r)' <= 1 + deaths'
    <3>1. MayReach(e, r) \in Nat /\ deaths \in Nat /\ MayReach(e, r) <= 1 + deaths
      BY ReachTyped DEF OnceInv, TypeInv
    <3>2. MayReach(e, r)' \in Nat /\ deaths' \in Nat
      <4>1. TypeOK' /\ IsFiniteSet(deliveries)'
        BY <1>1, <2>1 DEF Owes, TypeInv
      <4> QED BY <4>1, ReachNatNext
    <3>3. MayReach(e, r)' + deaths <= MayReach(e, r) + deaths'
      BY <2>1 DEF Owes
    <3> QED BY <3>1, <3>2, <3>3
  <2> QED BY <1>1, <2>1, <2>2 DEF OnceInv, Owes
<1>3. CASE UNCHANGED vars
  BY <1>1, <1>3 DEF OnceInv, vars, MayReach, Due, Place, Ahead, Tidy
<1> QED BY <1>2, <1>3

\* A receiver is told of an event more often than workers died plus once never,
\* however its answers and the edits of the tables interleave.
THEOREM WebhooksRepeatsNeedDeath == Spec => []RepeatsNeedDeath
<1>1. OnceInv => RepeatsNeedDeath
  <2> SUFFICES ASSUME OnceInv, NEW e \in Change, NEW r \in Registration
               PROVE  told[e][r] <= 1 + deaths
    BY DEF RepeatsNeedDeath
  <2>1. /\ told[e][r] \in Nat /\ Cardinality(Due(e, r)) \in Nat
        /\ Place(e, r) \in 0..1 /\ deaths \in Nat /\ MayReach(e, r) <= 1 + deaths
    BY ReachTyped DEF OnceInv, TypeInv
  <2> HIDE DEF Place, Due
  <2> QED BY <2>1 DEF MayReach
<1> QED BY <1>1, InitOnce, OnceStep, PTL DEF Spec
=============================================================================

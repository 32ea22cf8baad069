# Formal model of decidim-rest-full

decidim-rest-full adds a REST API to Decidim, a Ruby on Rails participation
platform. This directory holds TLA+ modules for the parts of it whose
correctness depends on the order of steps taken by different processes, the TLC
configurations that check small instances of them, and TLAPS proofs of the
properties that matter most. Paths below are relative to the repository;
`core`, `proposals`, `forms`, `blogs` and `meetings` stand for the directories
`decidim-restfull-<name>`.

## 1. Inventory

### 1.1 Components

| Component | Sources | State it keeps | Operations |
|---|---|---|---|
| Asynchronous writes | `core/app/jobs/.../execute_api_job_job.rb`, `core/app/models/.../api_job.rb`, `async_api_job_enqueuing.rb`, `jobs_controller.rb`, `lib/.../sync_runner.rb`, `api_job_command_runner.rb` | rows of `decidim_rest_full_api_jobs` (status, payload, result, error), deliveries in the Active Job adapter | create and enqueue, execute, fail, poll, list, delete |
| Safe host update | `syncronize_unconfirmed_host.rb`, its job, `update_organization_*_override.rb`, `organizations_update!` | `organizations.host`, key `unconfirmed_host` of the organization's bag, waiting jobs | request a host, look up the DNS, switch, clear, retry |
| Extended data | `api_system_operations.rb:26-65, 365-489`, `extended_data_at_path.rb`, `has_extended_data.rb` | one JSON bag per organization, component, space, proposal, meeting; a column of users | read at a path, merge at a path, compact, size limit |
| Webhooks | `webhook_dispatcher.rb`, `*_webhook_job.rb`, `webhook_registration.rb`, handlers | registrations and subscriptions, fan-out and delivery jobs | dispatch, fan out, sign and deliver, retry |
| HTTP caching | `conditional_get_rendering.rb`, `http_cache/*` | validators held by clients | conditional GET of a row or a collection |
| Draft proposals and votes | `draft_proposals_operations.rb`, `proposal_votes_operations.rb`, `vote_proposals_operations.rb`, `proposal_vote_eligibility.rb` | proposals, their API client, votes | create, update, publish, destroy a draft; vote |
| Roles | `roles_writer.rb`, `roles_aggregator.rb`, `role_id_codec.rb` | admin flag of users, role rows of processes, assemblies, conferences | list, create, destroy by composite id |
| Clients, permissions, tokens | `doorkeeper_config.rb`, `impersonate_resource_owner_from_credentials.rb`, `ability.rb`, `api_client.rb`, `lib/.../cli/*` | OAuth applications, permissions, access tokens | issue tokens, impersonate or register, grant, revoke, delete |
| Magic links | `magic_token.rb`, `user_magic_token_override.rb`, `magic_links_controller.rb` | one token per user, its expiry | create, replace, sign in |
| Forms | `forms/app/services/...` | questionnaires, questions, answers | author, answer (synchronously or as a job), bundle |
| Blogs, attachments | `blogs_operations.rb`, `attachments_operations.rb` | posts, attachments | create, update, destroy |
| Pagination, visibility, module availability | `collection_pagination.rb`, `participatory_space_visibility.rb`, `module_availability.rb` | none (functions of the database) | page, filter, toggle |
| Extension registries | `extension.rb`, `*_registry.rb`, `routes.rb`, `configuration.rb` | tables filled at boot | register |
| TypeScript client | `contrib/decidim-node-client/*.ts` | none (a configuration with tokens) | one function per endpoint: assert the parameters, attach a token, send, type the answer |
| Load tests | `perf/k6/lib/auth.js`, `perf/k6/scenarios/*.js` | the token of the setup | ask for a token, send and check requests |
| Serializers, OpenAPI definitions, i18n, views, website, test helpers | many | none | formatting |

### 1.2 How they interact

* A controller authorizes the request and either runs an operation inside one
  database transaction (`SyncRunner`, the `/sync` routes) or stores it as an
  `ApiJob` and hands the row's id to the Active Job adapter. A worker executes
  the same operation inside `SyncRunner` and stores the outcome in the row; the
  client polls the row.
* `organizations_update!` runs Decidim's `UpdateOrganization`, whose
  `save_organization` is overridden to store the wanted host in the bag and to
  enqueue `SyncronizeUnconfirmedHostJob`. Host and bag are shared with the
  extended-data endpoints, and the bag is always stored as a whole.
* Decidim's events reach the webhook dispatcher, which enqueues a fan-out job,
  which enqueues one delivery per registration.
* Rows of extended data touch the resource they belong to, so that the
  validators of conditional GETs, which are made of `updated_at`, move with them.
* The TypeScript client and the k6 scenarios are written (or generated) apart
  from the controllers: they have to agree on paths, parameters, flows, scopes
  and types of answers.

### 1.3 What is hard

Nothing in this code holds a lock across two statements. `ApiJob.lock.find` is
executed outside a transaction; every other read-then-write (bags, drafts,
votes, magic tokens) relies on a read that may be stale when the write
happens. Three processes are involved in every asynchronous write (web, adapter,
worker) and each can stop between two of its database statements. Retries come
from `retry_on`, from the adapter and from the clients. `PROJECT.json` lists the
hazards with their lines.

What makes each component correct:

* asynchronous writes: an accepted write takes effect and settles; the reported
  outcome agrees with what happened; nothing is done twice unless the adapter
  delivers twice;
* safe host update: an organization is only ever served under a host that was
  set up; a request for a host is neither forgotten nor left pending unwatched;
* extended data: a merge changes what it names and nothing else; what one
  client stored is not undone by another writer;
* webhooks: every subscribed registration gets every event, or the failure is
  retried; a 2xx answer and only a 2xx answer ends the delivery;
* HTTP caching: a client that is told "not modified" holds the current data;
* drafts and votes: at most one draft per author and component, at most one vote
  per author and proposal, a publication is complete or does not happen, an update
  takes back nothing it does not name;
* clients of the API: what follows the declarations of the TypeScript client is
  served and answered as typed;
* roles: destroying an id removes that role and no other;
* clients and tokens: revoked rights end; a deletion is complete or does nothing;
* magic links: at most one usable token per user, none after its expiry.

## 2. Modules

| Module | Purpose |
|---|---|
| `AsyncWrite` | abstract: what an asynchronous write promises to its client |
| `ApiJobs` | rows, adapter and workers of the asynchronous writes; implements `AsyncWrite` |
| `ApiJobsProofs` | theorems about `ApiJobs` |
| `MCApiJobs` | instances of `ApiJobs` for TLC |
| `HostPromise` | abstract: what the safe update of a host promises to who asks for one |
| `HostSync` | requests for a host, the bag they share with API clients, the job and its retries; implements `HostPromise` |
| `HostSyncProofs` | theorems about `HostSync` |
| `MCHostSync` | instances of `HostSync` for TLC |
| `Webhooks` | the events of a proposal, their fan-out job and their deliveries, permissions and registrations |
| `WebhooksProofs` | theorems about `Webhooks` |
| `MCWebhooks` | instances of `Webhooks` for TLC |
| `NodeClient` | the operations of the TypeScript client: request, parameters, flows, answer |
| `LoadTests` | the k6 scenarios: tokens, requests, checks |
| `Endpoints` | what each controller action asks of a request and answers |
| `Access` | composes the three: an API client from its first token to its deletion |
| `AccessProofs` | theorems about `Access` |
| `MCAccess` | instances of `Access` for TLC |
| `Drafts` | drafts, publication and votes under concurrent operations |
| `DraftsProofs` | theorems about `Drafts` |
| `MCDrafts` | instances of `Drafts` for TLC |
| `ExtendedData` | hashes of extended data: merge at a path, compaction, reading |
| `ExtendedDataProofs` | what a merge keeps and yields |
| `Caching` | conditional GETs and the updates of extended data against writers |
| `CachingProofs`, `CachingCausesProofs` | theorems about `Caching` |
| `MCCaching` | instances of `Caching` for TLC |

### 2.1 ApiJobs

`row` is the database row (status, result, error), `queue` and `deliveries` the
adapter, `pc`, `held`, `loaded` and `returned` the local state of each thread
that executes `perform`, `request` the HTTP request that submits a job,
`oversized` the jobs whose payload exceeds the configured limit (checked again
by every validating save), `commits` a ghost that counts committed executions.

Each action is one statement that other processes can interleave with: `Find`
(`lock.find`), `MarkProcessing` (`update_columns`), `RunCommand` (the commit of
`SyncRunner`), `Complete` (`update!`), `FailJob` (`update` in `fail_job!`, which
returns false and writes nothing when the row is invalid). `PerformRaises` is
every way into the `rescue`. `Saved` is Active Record's partial update: a column
equal to what this process last read is not written. An `UPDATE` of a row that
was deleted meanwhile changes nothing and raises nothing.

`Fault` names what the deployment may do in an instance: the web process stops
between row and delivery (`enqueueLost`); a worker dies and the adapter delivers
again (`requeue`) or not (`lose`); the adapter delivers again although the
worker lives (`overlap`, a visibility timeout); a statement outside the command
raises (`dbError`); the size limit changes with a restart (`capChange`).

The commands themselves are one step: they run in a single transaction, so they
either commit or change nothing. The identity of the command does not matter to
the properties of the row.

### 2.2 HostSync

`bag[o]` has the key `unconfirmed` and `note`, which stands for every other key
that API clients keep there. `client` holds what a request has read: the form
keeps the host of the moment it was loaded (`BeginUpdate`), because the API and
the hidden field of the system form send it back, and the pending host unless the
payload names one (`BuildForm`); Decidim's `UpdateOrganization` loads the
organization again (`FindOrganization`) and the override its bag
(`ReadPending`); `SaveOrganization` writes and enqueues the job inside the
transaction; `CommitUpdate` publishes the writes, and only columns that differ
from what was loaded. Between `SaveOrganization` and `CommitUpdate` the rows are
locked, and the job may already run. `LoadBag` and `StoreBag` are the
extended-data endpoint. The job loads host and bag (`StartJob`, `ReadBag`), looks
up the DNS, and then writes the host (`SwitchHost`) and the bag as it was loaded
(`ClearPending`) in two transactions. `waiting[o][n]` counts the jobs waiting for their n-th attempt (`retry_on`). `dns` changes at
any time; `ready` is a ghost for the hosts that at some time resolved to every
address of the balancer; `wanted` and `noted` are ghosts for what was last
requested and stored; `gaveUp` records that the last job of an organization
ended with an error, and `raced` the organizations for which a request or job ever
started while another was under way (`Starts`). Such a pair does lose updates in the
code (section 5), so the properties about lost updates are stated of the
organizations that have not raced: they say that nothing else loses one.

`HostPromise` has no bags, jobs or transactions: an organization serves its host
until the one it was asked to take is set up and free, and then changes over in
one step. The mapping (`Promise`) takes a pending host that is served already
(`Pending`), which is what a death between `SwitchHost` and `ClearPending` leaves,
for none; `asked` is the ghost `wanted`. `SwitchHost` maps to `Switch`,
`ClearPending` to a stutter, `CommitUpdate` to `Ask`, `StoreBag` to `Store`.

`loadbalancer_ips` is assumed to hold valid addresses (an invalid one discards
the job by `discard_on IPAddr::InvalidAddressError`). API clients are assumed to
leave the key `unconfirmed_host` alone. That `host` is unique among
organizations is enforced by Decidim, not by this repository.

### 2.3 Webhooks

One proposal and the changes of it that publish an event. `tx` is the
transaction that makes a change (row locks let one run at a time); the
dispatcher runs inside it, so `Dispatch` names the event after the row as the
transaction left it and enqueues the job before the commit. `transactional` is
chosen at the start: with an adapter that keeps its jobs in the application's
database, the job is visible when the change is and is rolled back with it; with
one that does not (Redis), a worker may take it at once, and a rollback leaves
it. `job[e]` is the `ProposalWebhookJob`: it checks the toggle and loads the
proposal (`LoadProposal`), loads the permissions (`LoadPermissions`), and for
each permission the registrations of its client (`DispatchForPermission`), for
which it enqueues one `WebhookJob` after the other (`EnqueueWebhook`).
`deliveries` are those jobs: `Post` is the POST and its answer, `EndPost` what
`retry_on` makes of the answer; a broken connection and a destroyed registration
end the delivery. A worker may die in either job; the adapter then delivers the
job again from its beginning (`KillJob`, `KillPost`). A job that ends with an
error is not delivered again: the adapter is assumed to have no retries of its
own. `SetPermissions` replaces the permissions of a client and leaves its
subscriptions; registrations are validated against the permissions only when
they are created or updated.

`told` is a ghost that counts, per event and registration, the posts the receiver
took (a 2xx answer) or may have taken (the connection broke). `Observe`, a conjunct
of every step, keeps two more ghosts per event: `witnessed`,
who was granted and subscribed at some time while the event was processed, and
`steady`, who was entitled all that time. The check and the two loads at the
start of the job are one step, enqueuing a retry and leaving the old attempt
another. URL, key and signature are read when the POST is made and do not change
who is told, so they are left out, and so is `payload.valid?`, which holds for
every event that has a name: only those have permissions. Drafts that are created
or updated through the API (`draft_proposals_operations.rb:15-38`) are saved
without a Decidim command and publish nothing; `CreateDraft` and `UpdateProposal`
are Decidim's commands.

### 2.4 NodeClient, LoadTests, Endpoints and Access

An operation of `NodeClient` is what its `...ApiAxiosParamCreator` builds: verb,
path, asserted parameters and declared flows; the `...ApiFp` records add the
type of the answer, the `...Api` sets name the methods of the classes. An
endpoint of `Endpoints` is the `before_action`s of its controller and what the
action answers: module, bearer, scopes, permissions, user, required parameters,
and which record it writes; `Actions` holds them all and `Route` looks one up. A path
parameter is `:id` whatever its name. `LoadTests` has for each scenario the token its setup
asks for and the requests with the answers its checks accept.

`Access` sends these requests. `Prepare` is a call of a program on the
TypeScript client (`Arrives`: the assertions, then the token of the flow),
`Setup` and `Iterate` are a k6 scenario, `Receive`, `Admit` and `Refuse` the
guards, `Serve`, `Issue`, `Enqueue`, `WithdrawJob` and `Fail` the action, `Work`
and `WorkRaises` a worker that executes a job whatever became of the rights of
its token. An administrator edits permissions (`EditPermissions`), switches
modules (`SwitchModules`), blocks the user, revokes or deletes the client; the
CLI deletes tokens, permissions, registrations and the client one after the
other (`DeleteTokens` to `DestroyClient`), and `DeletionFails` where a foreign key
is in the way. Optional parameters, payloads and pages are left out; the life
cycle of a job is in `ApiJobs`.

### 2.5 Drafts

`rows` are proposals with author, API client, state and what their title and body
hold, `requests` the operations of web processes and workers. One action is one
statement others can come between: the look for an existing draft
(`CheckDraft`), the count of the limit (`CheckLimit`), the insertion
(`CreateDraft`), the load of a draft (`Load`), the write of an update, a
publication or a destruction by id. Each runs in one transaction of READ
COMMITTED. The form is filled from the row as it was loaded (`seen`).

A field is NULL, the empty hash or a text. An update moves both fields of the
record it loaded to the current locale before it lays the payload over them
(`Overlaid`), so NULL becomes the empty hash, and stores what differs from what it
loaded (`Dirty`; a text may differ from a text or not). What was loaded is written
over what others stored meanwhile, by id, whatever became of the row.

A request may name a space. `filter_for_context` then looks at the components of
that space only, and where the request names another space than the proposal's
(`elsewhere`), `Collection` is empty: an existing draft is not seen, and one of its
own is not found. The creation finds its component without that filter. Jobs carry
the same two parameters, so a worker behaves like a request. Which spaces a user
sees is fixed, and an update that names neither title nor body, which only reads, is
left out.

`nulls`, `raced` and `strayed` are ghosts: who was answered `null`, who had two
operations under way at once, and who asked for a draft naming another space. They
guard no action; the properties use them to name the causes of what the code does
not exclude. What Decidim's own commands do (`PublishProposal`, `VoteProposal`,
`UnvoteProposal`) is taken from how the operations use them.

### 2.6 ExtendedData and Caching

A hash of extended data is the function of the paths of its leaves to their
values; blanks and hashes left empty have no leaf, which is what
`compact_blank_recursively` leaves. `Overwritten` says which paths the merge
writes over: `Hash#merge!` replaces the topmost keys that are sent, an assignment
the path. `Merges` has the outcomes where a scalar is in the way. `At` is
`ExtendedDataAtPath.fetch`.

`Caching` has published proposals with `updated_at`, their rows of extended data
and votes, writers and one client that reads one URL: the list, a proposal or
extended data at a path. A writer takes its time (`BeginSave`, `BeginVote`,
`Stamp`) before the commit that shows it; updates of one hash wait for each other
from the moment one has written the row (`Locked`), but the hash was loaded before
(`Load`), so an update may be overtaken. The reader loads the rows (`Ask`), then
what each page needs (`ReadDetails`, `ReadHash`, `ReadMissingHash`, the last of which
creates the row), then takes the validator (`Validator`: from the database for a
list or a proposal, from the loaded row for extended data) and answers 304 or the
page (`Respond`). `cache.why` is a ghost that collects why the validator of the
page kept may not tell of a change: a write overlapped the request that fetched
it, a write committed below a stamp that was out (`late`), something was taken away
(`removal`), a proposal of the list was voted for (`vote`), a neighbour of the
proposal was written (`neighbour`, its page links to the next and the previous
one). Times are unique; a page shows of a proposal its stamp, its hash and
whether the user voted.

## 3. Runs

| Run | Instance | Shows |
|---|---|---|
| `jobs_at_most_once` | 2 jobs, 2 workers, each job delivered once; lost enqueues, dying workers, changing size limit | `TypeOK`; `PromiseKept`: rows, queue and workers implement `AsyncWrite` |
| `jobs_redelivered` | 2 jobs, 2 workers, up to 3 deliveries, every fault but `overlap` | `OutcomeIsLastExecution`: the columns of a settled row belong together |
| `jobs_progress` | 2 jobs, 2 workers, up to 2 deliveries, `requeue`, `overlap`, `enqueueLost`, fairness | `CompletedMeansCommitted`, `NoForgottenJob`, and `AcceptedSettles`: every accepted write settles for good or is dropped |
| `host_serial` | 2 organizations, 3 hosts, 3 requests, one at a time per organization, 2 attempts, fairness | `NilMeansNothingToUpdate`: no request is lost, also when another organization takes the host meanwhile; `SwitchIsOneStep`: requests and jobs implement `HostPromise`; `PendingIsWatched`, `PendingIsDecided`: a pending host is looked after and decided |
| `host_concurrent` | 1 organization, 2 hosts, 2 balancer addresses, 2 requests, 2 workers, all faults | `TypeOK`; `HostWasReady`: only hosts that were set up are ever taken; `NilMeansNothingToUpdate`, `ClientDataKept`: a request for a host, or what a client keeps beside it, is undone only by two requests or jobs under way at once, never by deaths, retries or loss alone |
| `webhooks` | 2 clients, 1 registration, 1 change, 2 attempts, 1 death, 2 edits of permissions, registration or toggle, any initial permissions and subscriptions, both adapters, fairness | `TypeOK`; `OnlySubscribersTold`: nobody else is told; `NoSubscriberMissed`: with a transactional adapter everybody entitled throughout is served; `RepeatsNeedDeath`; `EveryEventSettles` |
| `webhooks_envelope` (violation) | 1 client, 1 registration, 2 changes | the type of an envelope and its data disagree, although the type selects the schema |
| `webhooks_redirect` (violation) | 1 client, 1 registration, 1 change, answers 200, 300, 500 | a delivery answered 300 ends as a success, although only 2xx answers should end it |
| `access` | every method, endpoint and scenario; 2 tokens (client, user), 1 row for jobs, 1 edit, expiry, block or deletion | `TypeOK`; `DeclaredFlowServed`, `AnswersAsTyped`: client and server agree; `ChecksPass`: a scenario's scopes are enough; `WritesInScope`; `GoneMeansNothingLeft` |
| `drafts` | 2 users, 2 clients, 2 proposals, 2 operations at a time, 6 in all, limit 1; creations, publications and votes also with another space named | `TypeOK`; `SecondDraftHasCause`, `LimitHasCause`: two drafts, or more publications than the limit, take two operations of one user at once or a draft asked for with another space named; `IncompleteNeedsRace`, `FilledStays`, `NullNeedsRace`, `PublishedStays`: an incomplete publication, a field emptied, a null answer and a published proposal destroyed take two operations at once; `PublishedIsAnnounced`, `VotesAreForPublished` |
| `caching` | 2 proposals, 2 writers, 2 writes, 2 keys, paths of 2, 4 updates, 4 URLs | `TypeOK`; `StaleHasCause`: a 304 for a page that changed has one of the five causes; `DataNeverStale`: extended data are never answered so; `RestKept`: an update leaves alone what it does not name |
| `data_merge` (violation) | as `caching`, extended data only | the merge is one level deep, although the documentation says it is recursive |

Bounds. Two jobs show that jobs do not disturb each other and let the symmetry
reduction work; two workers are enough for every race, because the properties
relate at most two executions of one job; three deliveries allow an execution
that fails, one that is interrupted and one that succeeds. Two attempts stand
for the ten of `retry_on`: one that is followed by another, and the last one.
Three hosts for two organizations let both ask for the same one. Two addresses
of the balancer make partial DNS answers possible. The events of different
changes share nothing but the tables, so one change suffices wherever the data of
the proposal is not the question; two edits are what it takes to combine a
withdrawn permission or a toggle with a new subscription; one death in either job
exercises every place where the work is repeated; one registration is enough for
the runs because deliveries to two receivers share nothing, and the theorems of
section 4 hold for any number. `host_serial` is without dying workers for the sake
of its liveness property; what it shows of the request, the data beside it and
`HostPromise` is proved with them too. In `access` a request meets one
edit before, between or after its steps, and one row is enough because jobs share
nothing but the token; the programs and scenarios are all there. Two operations
make every race of two statements in `drafts`, and six in all let a draft be
created, filled, published and voted for beside another, and a field be emptied
after its publication (a creation, two updates and a publication). `Roaming` bounds
which operations name another space: a creation, one of the three that load a draft
and one of the two that concern votes; the others are refused by the same operator. In `caching` the hash at
first stands for the writes before, so two writes let one overtake the other and
let a stamp come late; two proposals let the list lose one and keep one, paths of
length two tell a merge of one level from a recursive one.

Deadlock is not checked: a system whose requests are all answered and whose
jobs are all done stops.

Fairness. `ApiJobs!FairSpec` is weakly fair for the steps of `perform` of each
worker (a live thread executes its next statement) and for the adapter handing
out a delivery that stays available; neither the clients nor any fault is fair.
`HostSync!FairSpec` is weakly fair for a request that was begun (the web server
bounds its duration, it commits or rolls back), for a running job and for the
adapter; nobody has to submit requests, and the DNS never has to be right.
`Webhooks!FairSpec` is weakly fair for the end of a transaction, for the fan-out
job of each event and for the workers that take deliveries (some delivery
advances as long as one can); deaths, edits and changes are not fair and no
receiver has to accept.
`AcceptedSettles` needs an adapter that redelivers what a dead worker held;
with one that forgets it (`lose`) a row stays "processing" for ever, as it does
when the size limit is lowered below a stored payload (`fail_job!` then writes
nothing), and no code of the repository looks for such rows. In the same way
`PendingIsDecided` is checked without dying workers: when one dies between
`SwitchHost` and `ClearPending`, the next attempt finds the pending host current
and is discarded, and the key stays.

## 4. Proofs

All theorems hold for any values of the constants that satisfy the named ASSUMEs
of `ApiJobs`, `HostSync`, `Webhooks`, `Access`, `Drafts`, `ExtendedData` and
`Caching`: any number of jobs, workers, organizations, hosts, tokens, users,
proposals and writers, and any bound. Two of them shape the system and not only
the types: the items of `Caching` are finitely many, and no update it is given
names a path longer than `MaxDepth`.

* `TypeCorrect` (ApiJobsProofs): `Spec => []TypeOK`.
* `CompletedIsCommitted`: `Spec => []CompletedMeansCommitted`, whatever the
  faults. The invariant is strengthened by what a worker at "complete" knows:
  its command was committed. `SavedStatus` covers the partial update: the status
  it leaves is the one it writes or the one it found.
* `NothingForgotten`: without `lose`, `dbError` and `capChange`,
  `Spec => []NoForgottenJob`. The inductive invariant adds that
  a worker past the mark remembers "processing", so that the partial update of
  its outcome does write the terminal status, and that a stored row stays within
  the size limit, so that neither `update!` nor `fail_job!` is refused.
* `SettledRowsConsistent`: without `overlap`, `Spec => []OutcomeIsLastExecution`.
  `OneDelivery` (a job is queued once or held by one worker) makes `MemoryIsRow`
  inductive: what the worker remembers of the row is the row.
* `PromiseIsKept`: without `requeue`, `overlap` and `dbError`,
  `Spec => PromiseKept`, the refinement of `AsyncWrite`. `SingleExecution` says
  how many commits a job has at each point of its only execution; `StepSimulation`
  maps each action to a step of `AsyncWrite` or to a stutter.
* `HostTypeCorrect` and `OnlyReadyHosts` (HostSyncProofs): `Spec => []TypeOK`
  and `Spec => []HostWasReady` for every fault. The invariant follows a host
  from the DNS answer to the worker's memory, to the column, to the forms that
  send it back.
* `HostNilMeansNothing`, `HostClientDataKept`, `HostPendingWatched`: the three
  properties, for any organizations, hosts, clients and workers and every fault (the
  last one without `redeliver` and `lose`).
  Who has loaded an organization that has not raced has it alone (`ClientAlone`,
  `WorkerAlone`), so what he remembers is what the tables have (`ClientKnows`,
  `WorkerKnows`); a step at a raced organization leaves the others alone
  (`RacedMoves`); the
  host wanted last is the pending one if there is one and the host if not
  (`Aim`), so a job that finds nothing to do drops nothing.
* `HostSwitchIsOneStep`: without `overlap`, `Spec => SwitchIsOneStep`, the refinement
  of `HostPromise`, with dying workers. Each action is mapped to a step or a stutter
  under the same invariant: a commit stores what was asked for or leaves what is
  pending as it is, and a job that died after `SwitchHost` left a key that says what
  is served.
* `WebhooksTypeCorrect` and `WebhooksOnlySubscribersTold` (WebhooksProofs):
  `Spec => []TypeOK` and `Spec => []OnlySubscribersTold`. The look-ups of the
  fan-out happen at different times, so what it has looked up need not be
  anybody's rights at any one time. The invariant says why nobody is told
  wrongly: the registrations of every client still to be dispatched, and the
  targets already looked up, were seen by the observer (`Looked`), because a
  registration can take up an event only while its client is granted it
  (`NewRegistrationsGranted`).
* `WebhooksNoSubscriberMissed`: `Spec => []NoSubscriberMissed`. Who was entitled
  all the time is found by both look-ups: while the fan-out runs he is in a client
  still to be dispatched, among the targets, or served (`Progress`); his
  registration never goes back to being new (`Known`), and a job in the database
  finds the row its change left (`RowSeen`).
* `WebhooksRepeatsNeedDeath`: `Spec => []RepeatsNeedDeath`. The bound alone is not
  inductive: a delivery that waits will tell its receiver once more, and so will a
  job that has a place for the registration. `MayReach` counts all three (what was
  told, the deliveries that may still post, the place the job still has); a post
  that the receiver may have taken is never posted again, an enqueued delivery
  takes up the job's place, and only `KillJob` and `KillPost` raise the sum, by one
  each. `Tidy` says why a place is taken up once: the job looks up the
  registrations of a client only when it strikes the client off its list.

* `AccessTypes`, `NothingLeftBehind`, `WorkersStayInScope` (AccessProofs):
  `TypeOK`, `GoneMeansNothingLeft` and `WritesInScope` for any tokens, slots,
  programs and edits. The deletion of a client takes its rows in an order in which
  no request that is still under way can add one that the foreign keys let live;
  `WritesInScope` follows a token's scopes from the guard into the row of the job.
* `AnswersKeepTheirTypes`, `DeclaredFlowsAreServed`, `ScenariosPassTheirChecks`:
  `AnswersAsTyped`, `DeclaredFlowServed` and `ChecksPass`, for any tokens, slots,
  programs and edits. `Suits` says what has to hold between an operation of the
  client and the action its request reaches, `Passes` the same for a request of a
  scenario; both are proved from the tables, one lemma per part of the API
  (`AttachmentsSuit` to `WebhooksSuit`, `ReadsAreGranted`) and one step per
  operation, from lemmas that read the constructors of the tables field by field.
  `OperationOfClass` says that no two classes share a method, so that an operation
  is looked up in one way only. The invariant `CallInv` carries this to the
  request under way: it is one that an operation or a scenario sends, nothing is
  answered before the end and then what the action answers, and a scenario holds
  a token only for client credentials, because its passwords go without a client.
  `DeclaredIsAdmitted` and `ScenarioIsAdmitted` then go through the guards one by
  one, and `AnsweringSteps` names the steps that could still turn a caller away.
* `DraftTypes`, `SecondDraftExplained`, `LimitExplained`, `PublicationsAnnounced`,
  `IncompleteExplained`, `NullsExplained`, `VotesSound`, `PublicationsStay`,
  `FieldsStay` (DraftsProofs): all properties of `drafts`, for any number of users,
  clients, proposals and operations and any limit. The invariant says what an
  operation may rely on: `LoadedRows`, whoever races, a loaded row does not change
  its author; `StillSo`, the row of a user that did not race is the draft that was
  loaded, with the same texts, and one that looked for its drafts without another
  space's filter (`Strays`) has none until it inserts. An update then writes what it
  loaded over itself, and a publication publishes the texts it validated. For the
  limit, `LimitInv` counts drafts and publications together: fewer than the limit
  when a draft is allowed, and no more afterwards.

* `MergesAreHashes`, `OtherLeavesStay`, `AtIsFound` (ExtendedDataProofs): lemmas
  about the operators, for any keys, values and depth. A hash is a set of paths
  to leaves of which none is a prefix of another; a merge at a path yields one
  again whatever is found on the way, keeps each leaf that the update does not
  name, and what is read at a path is a scalar or a hash.
* `CachingTypes`, `LeavesKept`, `DataFresh` (CachingProofs): `TypeOK`, `RestKept`
  and `DataNeverStale` for any proposals, writers, updates and URLs. `RestKept`
  needs to know what a writer at "ready" or "stamped" still holds: `Rebased` says
  that unless it was overtaken, its hash is a merge into the hash that is stored
  now; `OneHasRow`, that no other update commits between its touch and its commit.
  `DataNeverStale` rests on time: a stamp taken for a commit to come is in no row,
  no answer and no other writer (`Unused`), so a commit moves the validator to a
  value nobody holds, even when it is below the one that was out; `Fresh` then
  says that a page held or being made whose validator is the current one shows
  the current hash.
* `StaleExplained` (CachingCausesProofs): `Spec => []StaleHasCause`: the causes
  that `Caching` names are all there are. A page that is made while nobody writes
  is the current one as far as it is made (`Made`); a page kept with no cause to
  doubt it is the current one, or its validator is below the current one (`Told`),
  and a commit with no cause either leaves the page and its validator alone or has
  a stamp above all that are stored (`NotLate`, from `Unused`). `WasThere` says
  that a proposal that was asked for does not come into being later.

Only model-checked: the liveness properties (`AcceptedSettles`,
`PendingIsDecided`, `EveryEventSettles`), which rest on fairness and `ENABLED`,
out of the prover's reach. Every other property of a passing run is a theorem.

The provers have no definition of the operators of `TLC`, and their encoding of
strings knows neither braces nor the empty string; the tables are therefore sets
of records with paths like `/jobs/:id`, looked up with `CHOOSE`. A `CHOOSE` is
expanded in two lemmas only (`RouteIs`, `OperationIs`) and there by Zenon.

## 5. Disagreements met

Three are shown by runs: the one-level merge (`data_merge`), envelopes whose type
and data disagree (`webhooks_envelope`), and an answer of 300 that ends a delivery
(`webhooks_redirect`; `between?(200, 300)` includes its end). Others were met while
modelling and have no run of their own:

* `DELETE /jobs/{id}` destroys rows whatever their status
  (`jobs_controller.rb:37`), `website/docs/integrator/async-and-jobs.md:16` speaks of
  completed and failed rows; `PromiseKept` has the step as a withdrawal.
* `execute_api_job_job.rb:11` says the row is locked; `lock.find` runs outside a
  transaction, and under `overlap` two workers process one row.
* A writer that stores a bag it loaded before erases the host another request
  asked for (`syncronize_unconfirmed_host.rb:39-40`); `website/docs/dev/update-hosts.md:43`
  says nil means nothing to update. In the same way it erases what a client stored
  beside it (`api_system_operations.rb:44-51`). Both take two requests or jobs of one
  organization under way at once; `NilMeansNothingToUpdate` and `ClientDataKept` say
  that nothing less does it.
* Two drafts of one user in one component are possible with overlapping
  operations, and without them when the second request names another space:
  `create!` looks for a draft in that space (`draft_proposals_operations.rb:18`,
  `:97-104`) and finds the component without it (`:127`). `draft_proposals_tag.rb:12`
  says that only a single draft may exist and that creating again returns 400. Both
  drafts may then be published, one beyond the limit of proposals.
* An update writes back both fields as it loaded them
  (`draft_proposals_operations.rb:210-216`, `:233`). One that loaded an empty title
  leaves the title empty although another update filled it and the proposal was
  published meanwhile: the publication is incomplete after all.
* The k6 scenarios that ask for a token with user name and password send neither
  `client_id` nor `auth_type` (`perf/k6/lib/auth.js:28-49`): the token is refused and
  `setup` throws, so they never start. `mixed.js:6` announces shares of asynchronous
  writes and votes that it never sends.
* `listJobs` of the TypeScript client sends filters with suffixes (`_eq` and the
  like), the server reads `filter[command_key]` and `filter[status]` only.
* `rest-full delete` deletes in several statements without a transaction; a token
  an ApiJob refers to makes the first one fail.
* `questionnaires_controller.rb:57` defines `authorize_manage!` and never calls it.
* `compact_blank_recursively` removes `false` too; the documentation names null and
  empty values.
* `PUT extended_data` with a scalar as `data` works synchronously; enqueued, it
  raises in `rest_full_api_job_payload`.
* `resource_extended_data.rb:11` says that touching the parent invalidates
  collection ETags; a write that commits late moves none, and votes and removals
  move none either (`cache.why`).

## 6. Not modelled

Serializers, OpenAPI definitions, translations, views, the website, the
interfaces of payloads in the TypeScript client and the test helpers hold no
state that a property could be about; the registries are filled once at boot, by
one thread. Roles, forms, blogs, attachments and magic links are modelled as far
as their endpoints go: what they write is one record by one request, behind a
unique index or inside Decidim. Pages and visible spaces are functions of the
database. Impersonation merges into `users.extended_data` in the way
`HostSync` has for the bag of an organization and is not modelled again. What a
command does inside its transaction is one step throughout.

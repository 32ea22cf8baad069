------------------------------ MODULE HostSync ------------------------------
(***************************************************************************)
(* Safe update of an organization's host.  A request stores the wanted     *)
(* host under the key unconfirmed_host of the organization's extended-data *)
(* bag and enqueues SyncronizeUnconfirmedHostJob; the job compares the DNS *)
(* with the addresses of the load balancer, switches the host and clears   *)
(* the key.  The bag is one JSON column that every writer loads, changes   *)
(* and stores as a whole; API clients keep their own keys in it.           *)
(*                                                                         *)
(* The two writes of the job are transactions of their own.  A request     *)
(* writes in one transaction, and its perform_later inside that            *)
(* transaction reaches the adapter before the commit.                      *)
(***************************************************************************)
EXTENDS Naturals, FiniteSets

CONSTANTS
  Org, Host,
  NoHost,        \* a nil or missing unconfirmed_host
  NoOrg,         \* what an idle request or worker holds
  FirstHost,     \* FirstHost[o]: the host of o before any request
  Ip,            \* the addresses DNS may answer with
  Balancer,      \* loadbalancer_ips of the configuration
  Client,        \* requests that may be in flight together
  Worker,        \* threads that execute the job
  MaxAttempts,   \* attempts of retry_on
  Fault,         \* the misbehaviours this instance admits
  MaxRequests    \* bound: requests started

FaultKind == {"overlap",  \* requests and jobs of one organization interleave
              "redeliver",  \* a worker dies, the adapter delivers again
              "lose"}       \* a worker dies, the adapter forgets the job

ASSUME HostAssumption ==
  /\ NoHost \notin Host
  /\ NoOrg \notin Org
  /\ FirstHost \in [Org -> Host]
  /\ Balancer \subseteq Ip
ASSUME HostBounds ==
  /\ MaxAttempts \in Nat \ {0}
  /\ MaxRequests \in Nat
  /\ Fault \subseteq FaultKind

VARIABLES
  host,      \* host[o]: the column organizations.host
  bag,       \* bag[o]: the JSON column of the extended-data row
  dns,       \* dns[h]: the addresses h resolves to
  waiting,   \* waiting[o][n]: jobs of o that wait for their n-th attempt
  client,    \* client[c]: what the request c has read and computed
  worker,    \* worker[w]: what the job executed by w has read
  requests,  \* requests started so far
  wanted,    \* wanted[o]: the host last requested and committed
  noted,     \* noted[o]: the client data last stored and committed
  ready,     \* hosts that resolved to the whole balancer at some time
  gaveUp,    \* organizations whose last job ended with an error
  raced      \* organizations with two requests or jobs under way at once

vars == <<host, bag, dns, waiting, client, worker, requests,
          wanted, noted, ready, gaveUp, raced>>

Attempt == 1..MaxAttempts

\* note stands for every key of the bag but unconfirmed_host.
Bag == [unconfirmed : Host \cup {NoHost}, note : 0..MaxRequests]

ClientState == [pc : {"idle", "form", "find", "read", "save", "commit",
                      "store"},
                org : Org \cup {NoOrg},
                formHost : Host \cup {NoHost},    \* form.host
                target : Host \cup {NoHost},      \* form.unconfirmed_host
                seen : Host \cup {NoHost},        \* host as UpdateOrganization
                                                  \* loaded it
                asked : BOOLEAN,                  \* the payload names a host
                bag : Bag]

WorkerState == [pc : {"idle", "read", "check", "switch", "clear"},
                org : Org \cup {NoOrg},
                attempt : Attempt,
                host : Host \cup {NoHost},
                bag : Bag]

EmptyBag   == [unconfirmed |-> NoHost, note |-> 0]
IdleClient == [pc |-> "idle", org |-> NoOrg, formHost |-> NoHost,
               target |-> NoHost, seen |-> NoHost, asked |-> FALSE,
               bag |-> EmptyBag]
IdleWorker == [pc |-> "idle", org |-> NoOrg, attempt |-> 1, host |-> NoHost,
               bag |-> EmptyBag]

\* Organizations.host is unique.
Taken(h, o) == \E p \in Org \ {o} : host[p] = h

\* A request that has written but not committed holds the locks of the rows
\* of its organization.
Locked(o) == \E c \in Client : client[c].org = o /\ client[c].pc = "commit"

Busy(o) == \/ \E c \in Client : client[c].org = o
           \/ \E w \in Worker : worker[w].org = o

MayStart(o) == "overlap" \in Fault \/ ~Busy(o)

\* A request or a job of o starts; o has raced when another is under way.
Starts(o) ==
  /\ MayStart(o)
  /\ raced' = IF Busy(o) THEN raced \cup {o} ELSE raced

\* form.unconfirmed_host == form.host ? nil : form.unconfirmed_host
Unconfirmed(c) ==
  IF client[c].target = client[c].formHost THEN NoHost ELSE client[c].target

Queue(o, n) == waiting' = [waiting EXCEPT ![o][n] = @ + 1]

-----------------------------------------------------------------------------
\* PUT /organizations/{id}, synchronous or executed as an ApiJob.

\* The organization is loaded; h is the host in the payload, or NoHost.
BeginUpdate(c, o, h) ==
  /\ client[c].pc = "idle"
  /\ requests < MaxRequests
  /\ Starts(o)
  /\ requests' = requests + 1
  /\ client' = [client EXCEPT ![c] =
       [IdleClient EXCEPT !.pc = "form", !.org = o, !.formHost = host[o],
                          !.target = h, !.asked = (h # NoHost)]]
  /\ UNCHANGED <<host, bag, dns, waiting, worker, wanted, noted, ready,
                 gaveUp>>

\* The form keeps the host, and the pending one unless the payload names
\* another; it is valid when no other organization has that host.
BuildForm(c) ==
  LET o == client[c].org
      pending == IF bag[o].unconfirmed = NoHost THEN client[c].formHost
                                                ELSE bag[o].unconfirmed
      h == IF client[c].asked THEN client[c].target ELSE pending
  IN
  /\ client[c].pc = "form"
  /\ h # client[c].formHost => ~Taken(h, o)
  /\ client' = [client EXCEPT ![c].pc = "find", ![c].target = h]
  /\ UNCHANGED <<host, bag, dns, waiting, worker, requests, wanted, noted,
                 ready, gaveUp, raced>>

\* Decidim::System::UpdateOrganization loads the organization again ...
FindOrganization(c) ==
  /\ client[c].pc = "find"
  /\ client' = [client EXCEPT ![c].pc = "read",
                              ![c].seen = host[client[c].org]]
  /\ UNCHANGED <<host, bag, dns, waiting, worker, requests, wanted, noted,
                 ready, gaveUp, raced>>

\* ... and save_organization its bag.
ReadPending(c) ==
  /\ client[c].pc = "read"
  /\ client' = [client EXCEPT ![c].pc = "save",
                              ![c].bag = bag[client[c].org]]
  /\ UNCHANGED <<host, bag, dns, waiting, worker, requests, wanted, noted,
                 ready, gaveUp, raced>>

\* save_organization: the columns are written, the job is enqueued.
SaveOrganization(c) ==
  LET o == client[c].org IN
  /\ client[c].pc = "save"
  /\ ~Locked(o)
  /\ Queue(o, 1)
  /\ client' = [client EXCEPT ![c].pc = "commit"]
  /\ gaveUp' = gaveUp \ {o}
  /\ UNCHANGED <<host, bag, dns, worker, requests, wanted, noted, ready,
                 raced>>

\* The transaction commits.  Only columns that differ from what was loaded are
\* written: the host when form.host is stale, the bag when its key changed.
CommitUpdate(c) ==
  LET o == client[c].org
      mine == client[c]
      new == [mine.bag EXCEPT !.unconfirmed = Unconfirmed(c)]
  IN
  /\ mine.pc = "commit"
  /\ mine.formHost # mine.seen => ~Taken(mine.formHost, o)
  /\ host' = IF mine.formHost = mine.seen
               THEN host ELSE [host EXCEPT ![o] = mine.formHost]
  /\ bag' = IF new = mine.bag THEN bag ELSE [bag EXCEPT ![o] = new]
  /\ wanted' = IF mine.asked THEN [wanted EXCEPT ![o] = mine.target] ELSE wanted
  /\ client' = [client EXCEPT ![c] = IdleClient]
  /\ UNCHANGED <<dns, waiting, worker, requests, noted, ready, gaveUp, raced>>

\* A form is not valid, a command fails, or the host is not unique any more:
\* nothing is written, the job stays enqueued.
Rollback(c) ==
  /\ client[c].pc \in {"form", "find", "read", "save", "commit"}
  /\ client' = [client EXCEPT ![c] = IdleClient]
  /\ UNCHANGED <<host, bag, dns, waiting, worker, requests, wanted, noted,
                 ready, gaveUp, raced>>

\* PUT /organizations/{id}/extended_data: the bag is loaded and merged ...
LoadBag(c, o) ==
  /\ client[c].pc = "idle"
  /\ requests < MaxRequests
  /\ Starts(o)
  /\ requests' = requests + 1
  /\ client' = [client EXCEPT ![c] =
       [IdleClient EXCEPT !.pc = "store", !.org = o,
                          !.bag = [bag[o] EXCEPT !.note = requests + 1]]]
  /\ UNCHANGED <<host, bag, dns, waiting, worker, wanted, noted, ready,
                 gaveUp>>

\* ... and stored as a whole.
StoreBag(c) ==
  LET o == client[c].org IN
  /\ client[c].pc = "store"
  /\ ~Locked(o)
  /\ bag' = [bag EXCEPT ![o] = client[c].bag]
  /\ noted' = [noted EXCEPT ![o] = client[c].bag.note]
  /\ client' = [client EXCEPT ![c] = IdleClient]
  /\ UNCHANGED <<host, dns, waiting, worker, requests, wanted, ready, gaveUp,
                 raced>>

-----------------------------------------------------------------------------
\* SyncronizeUnconfirmedHostJob and the command it calls.

\* Mutant of Finish: the job ends, its organization stays with the worker.
FinishKeepingOrg(w) == worker' = [worker EXCEPT ![w].pc = "idle"]

Finish(w) == worker' = [worker EXCEPT ![w] = IdleWorker]

\* The organization is loaded ...
StartJob(w, o, n) ==
  /\ worker[w].pc = "idle"
  /\ waiting[o][n] > 0
  /\ Starts(o)
  /\ waiting' = [waiting EXCEPT ![o][n] = @ - 1]
  /\ worker' = [worker EXCEPT ![w] =
       [IdleWorker EXCEPT !.pc = "read", !.org = o, !.attempt = n,
                          !.host = host[o]]]
  /\ UNCHANGED <<host, bag, dns, client, requests, wanted, noted, ready,
                 gaveUp>>

\* ... and then its bag.
ReadBag(w) ==
  /\ worker[w].pc = "read"
  /\ worker' = [worker EXCEPT ![w].pc = "check",
                              ![w].bag = bag[worker[w].org]]
  /\ UNCHANGED <<host, bag, dns, waiting, client, requests, wanted, noted,
                 ready, gaveUp, raced>>

\* Nothing is pending, or BadRequest (discarded) because the host is current.
NothingToDo(w) ==
  /\ worker[w].pc = "check"
  /\ worker[w].bag.unconfirmed \in {NoHost, worker[w].host}
  /\ Finish(w)
  /\ UNCHANGED <<host, bag, dns, waiting, client, requests, wanted, noted,
                 ready, gaveUp, raced>>

\* Mutant of Confirmed: one address of the balancer is enough.
ConfirmedByAny(h) == Balancer = {} \/ Balancer \cap dns[h] # {}

\* Every address of the balancer must be among the answers; without configured
\* addresses nothing is looked up.
Confirmed(h) == Balancer \subseteq dns[h]

\* Mutant of LookupSucceeds: the key is cleared before the host is switched.
LookupSucceedsClearing(w) ==
  LET o == worker[w].org IN
  /\ worker[w].pc = "check"
  /\ worker[w].bag.unconfirmed \notin {NoHost, worker[w].host}
  /\ Confirmed(worker[w].bag.unconfirmed)
  /\ bag' = [bag EXCEPT ![o] = [worker[w].bag EXCEPT !.unconfirmed = NoHost]]
  /\ worker' = [worker EXCEPT ![w].pc = "switch"]
  /\ UNCHANGED <<host, dns, waiting, client, requests, wanted, noted, ready,
                 gaveUp, raced>>

LookupSucceeds(w) ==
  /\ worker[w].pc = "check"
  /\ worker[w].bag.unconfirmed \notin {NoHost, worker[w].host}
  /\ Confirmed(worker[w].bag.unconfirmed)
  /\ worker' = [worker EXCEPT ![w].pc = "switch"]
  /\ UNCHANGED <<host, bag, dns, waiting, client, requests, wanted, noted,
                 ready, gaveUp, raced>>

\* Mutant of LookupFails: NotFound is discarded, as BadRequest is.
LookupFailsDiscarded(w) ==
  /\ worker[w].pc = "check"
  /\ worker[w].bag.unconfirmed \notin {NoHost, worker[w].host}
  /\ ~Confirmed(worker[w].bag.unconfirmed)
  /\ Finish(w)
  /\ UNCHANGED <<host, bag, dns, waiting, client, requests, wanted, noted,
                 ready, gaveUp, raced>>

\* Mutant of LookupFails: attempts are not counted.
LookupFailsUncounted(w) ==
  /\ worker[w].pc = "check"
  /\ worker[w].bag.unconfirmed \notin {NoHost, worker[w].host}
  /\ ~Confirmed(worker[w].bag.unconfirmed)
  /\ Queue(worker[w].org, worker[w].attempt)
  /\ Finish(w)
  /\ UNCHANGED <<host, bag, dns, client, requests, wanted, noted, ready,
                 gaveUp, raced>>

\* NotFound: the job waits for its next attempt, the last error is final.
LookupFails(w) ==
  LET o == worker[w].org IN
  /\ worker[w].pc = "check"
  /\ worker[w].bag.unconfirmed \notin {NoHost, worker[w].host}
  /\ ~Confirmed(worker[w].bag.unconfirmed)
  /\ IF worker[w].attempt < MaxAttempts
       THEN Queue(o, worker[w].attempt + 1) /\ UNCHANGED gaveUp
       ELSE gaveUp' = gaveUp \cup {o} /\ UNCHANGED waiting
  /\ Finish(w)
  /\ UNCHANGED <<host, bag, dns, client, requests, wanted, noted, ready,
                 raced>>

\* organization.update!(host:).
SwitchHost(w) ==
  LET o == worker[w].org IN
  /\ worker[w].pc = "switch"
  /\ ~Locked(o)
  /\ ~Taken(worker[w].bag.unconfirmed, o)
  /\ host' = [host EXCEPT ![o] = worker[w].bag.unconfirmed]
  /\ worker' = [worker EXCEPT ![w].pc = "clear"]
  /\ UNCHANGED <<bag, dns, waiting, client, requests, wanted, noted, ready,
                 gaveUp, raced>>

\* Mutant of SwitchFails: the error is swallowed and the key is cleared.
SwitchFailsSilently(w) ==
  /\ worker[w].pc = "switch"
  /\ Taken(worker[w].bag.unconfirmed, worker[w].org)
  /\ worker' = [worker EXCEPT ![w].pc = "clear"]
  /\ UNCHANGED <<host, bag, dns, waiting, client, requests, wanted, noted,
                 ready, gaveUp, raced>>

\* RecordInvalid: another organization has taken the host meanwhile.
SwitchFails(w) ==
  LET o == worker[w].org IN
  /\ worker[w].pc = "switch"
  /\ Taken(worker[w].bag.unconfirmed, o)
  /\ gaveUp' = gaveUp \cup {o}
  /\ Finish(w)
  /\ UNCHANGED <<host, bag, dns, waiting, client, requests, wanted, noted,
                 ready, raced>>

\* Mutant of ClearPending: the bag is emptied.
ClearBag(w) ==
  LET o == worker[w].org IN
  /\ worker[w].pc = "clear"
  /\ ~Locked(o)
  /\ bag' = [bag EXCEPT ![o] = EmptyBag]
  /\ Finish(w)
  /\ UNCHANGED <<host, dns, waiting, client, requests, wanted, noted, ready,
                 gaveUp, raced>>

\* The bag as it was loaded is stored, without its key.
ClearPending(w) ==
  LET o == worker[w].org IN
  /\ worker[w].pc = "clear"
  /\ ~Locked(o)
  /\ bag' = [bag EXCEPT ![o] = [worker[w].bag EXCEPT !.unconfirmed = NoHost]]
  /\ Finish(w)
  /\ UNCHANGED <<host, dns, waiting, client, requests, wanted, noted, ready,
                 gaveUp, raced>>

\* The worker dies.
Kill(w) ==
  /\ worker[w].pc # "idle"
  /\ \/ "redeliver" \in Fault /\ Queue(worker[w].org, worker[w].attempt)
     \/ "lose" \in Fault /\ UNCHANGED waiting
  /\ Finish(w)
  /\ UNCHANGED <<host, bag, dns, client, requests, wanted, noted, ready,
                 gaveUp, raced>>

\* The owner of the domain changes its records.
ChangeDns(h, answer) ==
  /\ dns' = [dns EXCEPT ![h] = answer]
  /\ ready' = IF Balancer \subseteq answer THEN ready \cup {h} ELSE ready
  /\ UNCHANGED <<host, bag, waiting, client, worker, requests, wanted, noted,
                 gaveUp, raced>>

-----------------------------------------------------------------------------
Init ==
  /\ host = FirstHost
  /\ bag = [o \in Org |-> EmptyBag]
  /\ dns = [h \in Host |-> {}]
  /\ waiting = [o \in Org |-> [n \in Attempt |-> 0]]
  /\ client = [c \in Client |-> IdleClient]
  /\ worker = [w \in Worker |-> IdleWorker]
  /\ requests = 0
  /\ wanted = FirstHost
  /\ noted = [o \in Org |-> 0]
  /\ ready = {h \in Host : Confirmed(h)}
  /\ gaveUp = {}
  /\ raced = {}

BeginRequest(c) ==
  \E o \in Org : LoadBag(c, o) \/ \E h \in Host \cup {NoHost} :
                                    BeginUpdate(c, o, h)

RequestStep(c) ==
  \/ BuildForm(c) \/ FindOrganization(c) \/ ReadPending(c)
  \/ SaveOrganization(c) \/ CommitUpdate(c) \/ Rollback(c)
  \/ StoreBag(c)

TakeJob(o) == \E w \in Worker, n \in Attempt : StartJob(w, o, n)

JobStep(w) ==
  \/ ReadBag(w) \/ NothingToDo(w) \/ LookupSucceeds(w) \/ LookupFails(w)
  \/ SwitchHost(w) \/ SwitchFails(w) \/ ClearPending(w)

Next ==
  \/ \E c \in Client : BeginRequest(c) \/ RequestStep(c)
  \/ \E o \in Org : TakeJob(o)
  \/ \E w \in Worker : JobStep(w) \/ Kill(w)
  \/ \E h \in Host, answer \in SUBSET Ip : ChangeDns(h, answer)

Spec == Init /\ [][Next]_vars

\* A request that was begun ends, a live worker goes on and the adapter hands
\* out what waits.  Nobody has to submit requests or to set up the DNS.
FairSpec ==
  /\ Spec
  /\ \A c \in Client : WF_vars(RequestStep(c))
  /\ \A w \in Worker : WF_vars(JobStep(w))
  /\ \A o \in Org : WF_vars(TakeJob(o))

-----------------------------------------------------------------------------
\* Properties.

\* Every variable has its type; who works for an organization is not idle.
TypeOK ==
  /\ host \in [Org -> Host]
  /\ bag \in [Org -> Bag]
  /\ dns \in [Host -> SUBSET Ip]
  /\ waiting \in [Org -> [Attempt -> Nat]]
  /\ client \in [Client -> ClientState]
  /\ worker \in [Worker -> WorkerState]
  /\ requests \in 0..MaxRequests
  /\ wanted \in [Org -> Host]
  /\ noted \in [Org -> 0..MaxRequests]
  /\ ready \in SUBSET Host
  /\ gaveUp \in SUBSET Org
  /\ raced \in SUBSET Org
  /\ \A c \in Client : client[c].org = NoOrg <=> client[c].pc = "idle"
  /\ \A w \in Worker : worker[w].org = NoOrg <=> worker[w].pc = "idle"

\* An organization is never served under a host that was not set up: apart
\* from its first host it takes only hosts that resolved to every address of
\* the balancer, however requests, jobs, retries and deaths interleave.
HostWasReady == \A o \in Org : host[o] \in ready \cup {FirstHost[o]}

\* website/docs/dev/update-hosts.md:42-43: "If nil: we have nothing to update".
\* An organization without a pending host has the host last requested, unless
\* two of its requests and jobs were under way at once: only such a pair undoes
\* a request, a job that dies and comes back does not.
NilMeansNothingToUpdate ==
  \A o \in Org \ raced : bag[o].unconfirmed = NoHost => host[o] = wanted[o]

\* What an API client stored in the bag stays there: a request for a new host
\* and its job, which store the bag as a whole, take it back only from an
\* organization of which two were under way at once.
ClientDataKept == \A o \in Org \ raced : bag[o].note = noted[o]

\* A pending host is looked after: a job waits or runs, or the last one ended
\* with an error; a job that started before the request committed may end
\* without a look at it.
PendingIsWatched ==
  \A o \in Org \ raced : bag[o].unconfirmed # NoHost =>
    \/ o \in gaveUp
    \/ \E n \in Attempt : waiting[o][n] > 0
    \/ \E w \in Worker : worker[w].org = o

\* A requested host does not stay pending for ever: it becomes the host, is
\* replaced by another request, or its job gives up.
PendingIsDecided ==
  \A o \in Org : bag[o].unconfirmed # NoHost
                   ~> bag[o].unconfirmed = NoHost \/ o \in gaveUp

\* The host that is pending to somebody outside: between the two commits of the
\* job the key still has the host that was taken.
Pending(o) ==
  IF bag[o].unconfirmed = host[o] THEN NoHost ELSE bag[o].unconfirmed

Promise == INSTANCE HostPromise WITH
             serving <- host,
             asked   <- wanted,
             pending <- [o \in Org |-> Pending(o)],
             notes   <- [o \in Org |-> bag[o].note],
             Stamp   <- 1..MaxRequests

\* Requests, stores and jobs implement HostPromise: the two commits of the job
\* are one change-over to everybody else, also when the worker dies between
\* them and another job finds what it left; a host that was asked for stays
\* pending until it serves or another is asked for; and none of the writers
\* that replace the bag as a whole undoes what another one did.
SwitchIsOneStep == Promise!Spec
=============================================================================

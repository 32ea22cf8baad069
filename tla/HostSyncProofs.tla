--------------------------- MODULE HostSyncProofs ---------------------------
(***************************************************************************)
(* What is proved about HostSync: its types, that an organization is only  *)
(* ever served under a host that was set up, and, of organizations whose   *)
(* requests and jobs never overlapped, what nil means, that clients' data  *)
(* are kept and that a pending host is looked after.  Where none overlap,  *)
(* HostSync implements HostPromise: the change-over is one step.           *)
(***************************************************************************)
EXTENDS HostSync, TLAPS

-----------------------------------------------------------------------------
\* Types of the records that actions build.

LEMMA ConstantRecords ==
  /\ EmptyBag \in Bag
  /\ IdleClient \in ClientState
  /\ IdleWorker \in WorkerState
BY HostBounds
DEF EmptyBag, IdleClient, IdleWorker, Bag, ClientState, WorkerState, Attempt

\* What the organization of a request or job that is not idle is.
LEMMA ActiveOrg ==
  ASSUME TypeOK
  PROVE  /\ \A c \in Client : client[c].pc # "idle" => client[c].org \in Org
         /\ \A w \in Worker : worker[w].pc # "idle" => worker[w].org \in Org
BY DEF TypeOK, ClientState, WorkerState

\* Enqueuing keeps the type of the queues.
LEMMA QueueType ==
  ASSUME TypeOK, NEW o \in Org, NEW n \in Attempt, Queue(o, n)
  PROVE  waiting' \in [Org -> [Attempt -> Nat]]
<1>1. waiting[o] \in [Attempt -> Nat] /\ waiting[o][n] \in Nat
  BY DEF TypeOK
<1>2. [waiting[o] EXCEPT ![n] = @ + 1] \in [Attempt -> Nat]
  BY <1>1
<1>3. waiting' = [waiting EXCEPT ![o] = [waiting[o] EXCEPT ![n] = @ + 1]]
  BY DEF Queue, TypeOK
<1>4. QED
  BY <1>2, <1>3 DEF TypeOK

LEMMA InitTypeOK == Init => TypeOK
BY ConstantRecords, HostAssumption, HostBounds
DEF Init, TypeOK, EmptyBag, IdleClient, IdleWorker, Attempt

-----------------------------------------------------------------------------
\* The inductive invariant follows a host that was set up from the DNS answer
\* to the memory of the worker, to the column, and from there to the forms
\* that send it back.
KeepsHost(r) ==
  /\ r.pc \in {"form", "find", "read", "save", "commit"} =>
       r.formHost \in ready \cup {FirstHost[r.org]}
  /\ r.pc = "form" /\ r.asked => r.target \in Host
  /\ r.pc \in {"find", "read", "save", "commit"} => r.target \in Host

ReadyIsKnown ==
  /\ \A h \in Host : Confirmed(h) => h \in ready
  /\ \A w \in Worker : worker[w].pc = "switch" =>
       worker[w].bag.unconfirmed \in ready
  /\ \A o \in Org : host[o] \in ready \cup {FirstHost[o]}
  /\ \A c \in Client : KeepsHost(client[c])

HostInv == TypeOK /\ ReadyIsKnown

LEMMA InitHostInv == Init => HostInv
<1>1. Init => ReadyIsKnown
  BY HostAssumption
  DEF Init, ReadyIsKnown, KeepsHost, Confirmed, IdleClient, IdleWorker
<1>2. QED
  BY <1>1, InitTypeOK DEF HostInv

\* What a request step leaves of the other variables.
RequestFrame ==
  /\ UNCHANGED <<dns, worker, ready>>
  /\ host' \in [Org -> Host]
  /\ \A o \in Org : host'[o] \in ready \cup {FirstHost[o]}
  /\ bag' \in [Org -> Bag]
  /\ waiting' \in [Org -> [Attempt -> Nat]]
  /\ requests' \in 0..MaxRequests
  /\ wanted' \in [Org -> Host]
  /\ noted' \in [Org -> 0..MaxRequests]
  /\ gaveUp' \in SUBSET Org
  /\ raced' \in SUBSET Org

\* A record a request may leave behind.
ClientRecord(r) ==
  /\ r \in ClientState
  /\ r.org = NoOrg <=> r.pc = "idle"
  /\ KeepsHost(r)

LEMMA ClientStep ==
  ASSUME HostInv, NEW c \in Client, NEW r, ClientRecord(r), RequestFrame,
         client' = [client EXCEPT ![c] = r]
  PROVE  HostInv'
<1>1. client' \in [Client -> ClientState]
  BY DEF HostInv, TypeOK, ClientRecord
<1>2. \A d \in Client : client'[d] = IF d = c THEN r ELSE client[d]
  BY DEF HostInv, TypeOK
<1>3. TypeOK'
  BY <1>1, <1>2 DEF HostInv, TypeOK, ClientRecord, RequestFrame
<1>4. ReadyIsKnown'
  BY <1>2
  DEF HostInv, ReadyIsKnown, KeepsHost, Confirmed, ClientRecord, RequestFrame
<1>5. QED
  BY <1>3, <1>4 DEF HostInv

\* What a job step leaves of the other variables.
JobFrame ==
  /\ UNCHANGED <<dns, client, ready, requests, wanted, noted>>
  /\ host' \in [Org -> Host]
  /\ \A o \in Org : host'[o] \in ready \cup {FirstHost[o]}
  /\ bag' \in [Org -> Bag]
  /\ waiting' \in [Org -> [Attempt -> Nat]]
  /\ gaveUp' \in SUBSET Org
  /\ raced' \in SUBSET Org

\* A record a job may leave behind.
WorkerRecord(r) ==
  /\ r \in WorkerState
  /\ r.org = NoOrg <=> r.pc = "idle"
  /\ r.pc = "switch" => r.bag.unconfirmed \in ready

LEMMA WorkerStep ==
  ASSUME HostInv, NEW w \in Worker, NEW r, WorkerRecord(r), JobFrame,
         worker' = [worker EXCEPT ![w] = r]
  PROVE  HostInv'
<1>1. worker' \in [Worker -> WorkerState]
  BY DEF HostInv, TypeOK, WorkerRecord
<1>2. \A d \in Worker : worker'[d] = IF d = w THEN r ELSE worker[d]
  BY DEF HostInv, TypeOK
<1>3. TypeOK'
  BY <1>1, <1>2 DEF HostInv, TypeOK, WorkerRecord, JobFrame
<1>4. ReadyIsKnown'
  BY <1>2
  DEF HostInv, ReadyIsKnown, KeepsHost, Confirmed, WorkerRecord, JobFrame
<1>5. QED
  BY <1>3, <1>4 DEF HostInv

LEMMA IdleRecords == ClientRecord(IdleClient) /\ WorkerRecord(IdleWorker)
BY ConstantRecords
DEF ClientRecord, KeepsHost, WorkerRecord, IdleClient, IdleWorker

-----------------------------------------------------------------------------
\* Requests.

LEMMA BeginHolds ==
  ASSUME HostInv, NEW c \in Client, BeginRequest(c)
  PROVE  HostInv'
<1>1. PICK o \in Org :
        LoadBag(c, o) \/ \E h \in Host \cup {NoHost} : BeginUpdate(c, o, h)
  BY DEF BeginRequest
<1>2. requests < MaxRequests /\ requests \in Nat /\ MaxRequests \in Nat
  <2>1. requests < MaxRequests
    BY <1>1, Zenon DEF LoadBag, BeginUpdate
  <2>2. requests \in 0..MaxRequests
    BY DEF HostInv, TypeOK
  <2>3. QED
    BY <2>1, <2>2, HostBounds
<1>3. o # NoOrg /\ host[o] \in Host /\ bag[o] \in Bag
  BY HostAssumption DEF HostInv, TypeOK
<1>4. CASE LoadBag(c, o)
  <2> DEFINE r == [IdleClient EXCEPT !.pc = "store", !.org = o,
                          !.bag = [bag[o] EXCEPT !.note = requests + 1]]
  <2>1. [bag[o] EXCEPT !.note = requests + 1] \in Bag
    BY <1>2, <1>3 DEF Bag
  <2>2. r \in ClientState /\ r.pc = "store" /\ r.org = o
    BY <2>1, ConstantRecords DEF ClientState, IdleClient
  <2>3. requests' \in 0..MaxRequests
    BY <1>2, <1>4 DEF LoadBag
  <2>4. client' = [client EXCEPT ![c] = r]
    BY <1>4 DEF LoadBag
  <2>5. ClientRecord(r)
    BY <1>3, <2>2 DEF ClientRecord, KeepsHost
  <2>6. RequestFrame
    BY <1>4, <2>3
    DEF RequestFrame, LoadBag, Starts, HostInv, TypeOK, ReadyIsKnown
  <2> HIDE DEF r
  <2>7. QED
    BY <2>4, <2>5, <2>6, ClientStep
<1>5. CASE \E h \in Host \cup {NoHost} : BeginUpdate(c, o, h)
  <2>1. PICK h \in Host \cup {NoHost} : BeginUpdate(c, o, h)
    BY <1>5
  <2> DEFINE r == [IdleClient EXCEPT !.pc = "form", !.org = o,
                          !.formHost = host[o], !.target = h,
                          !.asked = (h # NoHost)]
  <2>2. r \in ClientState /\ r.pc = "form" /\ r.org = o
        /\ r.formHost = host[o] /\ r.target = h
        /\ (r.asked <=> h # NoHost)
    BY <1>3, ConstantRecords DEF ClientState, IdleClient
  <2>3. requests' \in 0..MaxRequests
    BY <1>2, <2>1 DEF BeginUpdate
  <2>4. client' = [client EXCEPT ![c] = r]
    BY <2>1 DEF BeginUpdate
  <2> HIDE DEF r
  <2>5. ClientRecord(r)
    BY <1>3, <2>2 DEF ClientRecord, KeepsHost, HostInv, ReadyIsKnown
  <2>6. RequestFrame
    BY <2>1, <2>3
    DEF RequestFrame, BeginUpdate, Starts, HostInv, TypeOK, ReadyIsKnown
  <2>7. QED
    BY <2>4, <2>5, <2>6, ClientStep
<1>6. QED
  BY <1>1, <1>4, <1>5

LEMMA RequestHolds ==
  ASSUME HostInv, NEW c \in Client, RequestStep(c)
  PROVE  HostInv'
<1>1. TypeOK /\ client[c] \in ClientState
  BY DEF HostInv, TypeOK
<1>2. client[c].pc # "idle" /\ client[c].org \in Org
  BY <1>1, ActiveOrg DEF RequestStep, BuildForm, FindOrganization, ReadPending,
                         SaveOrganization, CommitUpdate, Rollback, StoreBag
<1>3. client[c].org # NoOrg /\ NoOrg \notin Org
  BY <1>2, HostAssumption
<1>4. CASE BuildForm(c)
  <2> DEFINE o == client[c].org
             pending == IF bag[o].unconfirmed = NoHost
                          THEN client[c].formHost ELSE bag[o].unconfirmed
             h == IF client[c].asked THEN client[c].target ELSE pending
             r == [client[c] EXCEPT !.pc = "find", !.target = h]
  <2>1. client[c].pc = "form"
    BY <1>4 DEF BuildForm
  <2>2. /\ client[c].formHost \in ready \cup {FirstHost[o]}
        /\ client[c].asked => client[c].target \in Host
    BY <2>1 DEF HostInv, ReadyIsKnown, KeepsHost
  <2>3. client[c].formHost \in Host
    BY <1>1, <1>2, <2>2, HostAssumption DEF TypeOK
  <2>4. bag[o].unconfirmed \in Host \cup {NoHost}
    BY <1>1, <1>2 DEF TypeOK, Bag
  <2>5. h \in Host
    BY <2>2, <2>3, <2>4
  <2>6. client' = [client EXCEPT ![c] = r]
    BY <1>1, <1>4 DEF BuildForm, TypeOK
  <2> HIDE DEF h
  <2>7. /\ r \in ClientState /\ r.pc = "find" /\ r.org = o
        /\ r.formHost = client[c].formHost /\ r.target = h
    BY <1>1, <2>5 DEF ClientState
  <2>8. ClientRecord(r)
    BY <1>3, <2>2, <2>5, <2>7 DEF ClientRecord, KeepsHost
  <2>9. RequestFrame
    BY <1>4 DEF RequestFrame, BuildForm, HostInv, TypeOK, ReadyIsKnown
  <2>10. QED
    BY <2>6, <2>8, <2>9, ClientStep
<1>5. CASE FindOrganization(c)
  <2> DEFINE r == [client[c] EXCEPT !.pc = "read",
                                    !.seen = host[client[c].org]]
  <2>1. host[client[c].org] \in Host
    BY <1>1, <1>2 DEF TypeOK
  <2>2. /\ r \in ClientState /\ r.pc = "read" /\ r.org = client[c].org
        /\ r.formHost = client[c].formHost /\ r.target = client[c].target
    BY <1>1, <2>1 DEF ClientState
  <2>3. client' = [client EXCEPT ![c] = r]
    BY <1>1, <1>5 DEF FindOrganization, TypeOK
  <2>4. client[c].pc = "find"
    BY <1>5 DEF FindOrganization
  <2> HIDE DEF r
  <2>5. ClientRecord(r)
    BY <1>3, <2>2, <2>4 DEF ClientRecord, KeepsHost, HostInv, ReadyIsKnown
  <2>6. RequestFrame
    BY <1>5 DEF RequestFrame, FindOrganization, HostInv, TypeOK, ReadyIsKnown
  <2>7. QED
    BY <2>3, <2>5, <2>6, ClientStep
<1>6. CASE ReadPending(c)
  <2> DEFINE r == [client[c] EXCEPT !.pc = "save",
                                    !.bag = bag[client[c].org]]
  <2>1. bag[client[c].org] \in Bag
    BY <1>1, <1>2 DEF TypeOK
  <2>2. /\ r \in ClientState /\ r.pc = "save" /\ r.org = client[c].org
        /\ r.formHost = client[c].formHost /\ r.target = client[c].target
    BY <1>1, <2>1 DEF ClientState
  <2>3. client' = [client EXCEPT ![c] = r]
    BY <1>1, <1>6 DEF ReadPending, TypeOK
  <2>4. client[c].pc = "read"
    BY <1>6 DEF ReadPending
  <2> HIDE DEF r
  <2>5. ClientRecord(r)
    BY <1>3, <2>2, <2>4 DEF ClientRecord, KeepsHost, HostInv, ReadyIsKnown
  <2>6. RequestFrame
    BY <1>6 DEF RequestFrame, ReadPending, HostInv, TypeOK, ReadyIsKnown
  <2>7. QED
    BY <2>3, <2>5, <2>6, ClientStep
<1>7. CASE SaveOrganization(c)
  <2> DEFINE r == [client[c] EXCEPT !.pc = "commit"]
  <2>1. /\ r \in ClientState /\ r.pc = "commit" /\ r.org = client[c].org
        /\ r.formHost = client[c].formHost /\ r.target = client[c].target
    BY <1>1 DEF ClientState
  <2>2. client' = [client EXCEPT ![c] = r]
    BY <1>1, <1>7 DEF SaveOrganization, TypeOK
  <2>3. waiting' \in [Org -> [Attempt -> Nat]]
    BY <1>1, <1>2, <1>7, HostBounds, QueueType DEF SaveOrganization, Attempt
  <2>4. client[c].pc = "save"
    BY <1>7 DEF SaveOrganization
  <2> HIDE DEF r
  <2>5. ClientRecord(r)
    BY <1>3, <2>1, <2>4 DEF ClientRecord, KeepsHost, HostInv, ReadyIsKnown
  <2>6. RequestFrame
    BY <1>7, <2>3
    DEF RequestFrame, SaveOrganization, HostInv, TypeOK, ReadyIsKnown
  <2>7. QED
    BY <2>2, <2>5, <2>6, ClientStep
<1>8. CASE CommitUpdate(c)
  <2>1. /\ client[c].formHost \in ready \cup {FirstHost[client[c].org]}
        /\ client[c].target \in Host
    BY <1>8 DEF CommitUpdate, KeepsHost, HostInv, ReadyIsKnown
  <2>2. client[c].formHost \in Host
    BY <1>1, <1>2, <2>1, HostAssumption DEF TypeOK
  <2>3. /\ host' \in [Org -> Host]
        /\ \A o \in Org : host'[o] \in ready \cup {FirstHost[o]}
    BY <1>2, <1>8, <2>1, <2>2 DEF CommitUpdate, HostInv, TypeOK, ReadyIsKnown
  <2>4. [client[c].bag EXCEPT !.unconfirmed = Unconfirmed(c)] \in Bag
    <3>1. Unconfirmed(c) \in Host \cup {NoHost} /\ client[c].bag \in Bag
      BY <1>1, <2>1 DEF Unconfirmed, ClientState
    <3>2. QED
      BY <3>1 DEF Bag
  <2>5. bag' \in [Org -> Bag]
    BY <1>1, <1>2, <1>8, <2>4 DEF CommitUpdate, TypeOK
  <2>6. wanted' \in [Org -> Host]
    BY <1>1, <1>2, <1>8, <2>1 DEF CommitUpdate, TypeOK
  <2>7. client' = [client EXCEPT ![c] = IdleClient]
    BY <1>8 DEF CommitUpdate
  <2>8. RequestFrame
    BY <1>1, <1>8, <2>3, <2>5, <2>6 DEF RequestFrame, CommitUpdate, TypeOK
  <2>9. QED
    BY <2>7, <2>8, ClientStep, IdleRecords
<1>9. CASE Rollback(c)
  <2>1. RequestFrame
    BY <1>9 DEF RequestFrame, Rollback, HostInv, TypeOK, ReadyIsKnown
  <2>2. client' = [client EXCEPT ![c] = IdleClient]
    BY <1>9 DEF Rollback
  <2>3. QED
    BY <2>1, <2>2, ClientStep, IdleRecords
<1>10. CASE StoreBag(c)
  <2>1. client[c].bag \in Bag /\ client[c].bag.note \in 0..MaxRequests
    BY <1>1 DEF ClientState, Bag
  <2>2. bag' \in [Org -> Bag] /\ noted' \in [Org -> 0..MaxRequests]
    BY <1>1, <1>2, <1>10, <2>1 DEF StoreBag, TypeOK
  <2>3. RequestFrame
    BY <1>10, <2>2 DEF RequestFrame, StoreBag, HostInv, TypeOK, ReadyIsKnown
  <2>4. client' = [client EXCEPT ![c] = IdleClient]
    BY <1>10 DEF StoreBag
  <2>5. QED
    BY <2>3, <2>4, ClientStep, IdleRecords
<1>11. QED
  BY <1>4, <1>7, <1>8, <1>9, <1>10, <1>5, <1>6 DEF RequestStep

-----------------------------------------------------------------------------
\* Jobs.

LEMMA TakeHolds ==
  ASSUME HostInv, NEW o \in Org, TakeJob(o)
  PROVE  HostInv'
<1>1. PICK w \in Worker, n \in Attempt : StartJob(w, o, n)
  BY DEF TakeJob
<1>2. host[o] \in Host /\ bag[o] \in Bag /\ o # NoOrg
      /\ waiting[o] \in [Attempt -> Nat]
  BY HostAssumption DEF HostInv, TypeOK
<1> DEFINE r == [IdleWorker EXCEPT !.pc = "read", !.org = o, !.attempt = n,
                                   !.host = host[o]]
<1>3. r \in WorkerState /\ r.pc = "read" /\ r.org = o
  BY <1>2, ConstantRecords DEF WorkerState, IdleWorker
<1>4. [waiting[o] EXCEPT ![n] = @ - 1] \in [Attempt -> Nat]
  BY <1>1, <1>2 DEF StartJob
<1>5. waiting' = [waiting EXCEPT ![o] = [waiting[o] EXCEPT ![n] = @ - 1]]
  BY <1>1 DEF StartJob, HostInv, TypeOK
<1>6. waiting' \in [Org -> [Attempt -> Nat]]
  BY <1>4, <1>5 DEF HostInv, TypeOK
<1>7. worker' = [worker EXCEPT ![w] = r]
  BY <1>1 DEF StartJob
<1> HIDE DEF r
<1>8. WorkerRecord(r)
  BY <1>2, <1>3 DEF WorkerRecord
<1>9. JobFrame
  BY <1>1, <1>6 DEF JobFrame, StartJob, Starts, HostInv, TypeOK, ReadyIsKnown
<1>10. QED
  BY <1>7, <1>8, <1>9, WorkerStep

\* A worker that lets go of its job.
LEMMA FinishHolds ==
  ASSUME HostInv, NEW w \in Worker, Finish(w),
         UNCHANGED <<host, dns, client, ready, requests, wanted, noted, raced>>,
         bag' \in [Org -> Bag],
         waiting' \in [Org -> [Attempt -> Nat]],
         gaveUp' \in SUBSET Org
  PROVE  HostInv'
<1>1. JobFrame
  BY DEF JobFrame, HostInv, TypeOK, ReadyIsKnown
<1>2. QED
  BY <1>1, WorkerStep, IdleRecords DEF Finish

LEMMA JobHolds ==
  ASSUME HostInv, NEW w \in Worker, JobStep(w)
  PROVE  HostInv'
<1>1. TypeOK /\ worker[w] \in WorkerState
  BY DEF HostInv, TypeOK
<1>2. worker[w].pc # "idle" /\ worker[w].org \in Org
  BY <1>1, ActiveOrg
  DEF JobStep, ReadBag, NothingToDo, LookupSucceeds, LookupFails, SwitchHost,
      SwitchFails, ClearPending
<1>3. worker[w].org # NoOrg
  BY <1>2, HostAssumption
<1>4. worker[w].bag \in Bag /\ worker[w].bag.unconfirmed \in Host \cup {NoHost}
  BY <1>1 DEF WorkerState, Bag
<1>5. CASE ReadBag(w)
  <2> DEFINE r == [worker[w] EXCEPT !.pc = "check",
                                    !.bag = bag[worker[w].org]]
  <2>1. bag[worker[w].org] \in Bag
    BY <1>1, <1>2 DEF TypeOK
  <2>2. r \in WorkerState /\ r.pc = "check" /\ r.org = worker[w].org
    BY <1>1, <2>1 DEF WorkerState
  <2>3. worker' = [worker EXCEPT ![w] = r]
    BY <1>1, <1>5 DEF ReadBag, TypeOK
  <2> HIDE DEF r
  <2>4. WorkerRecord(r)
    BY <1>3, <2>2 DEF WorkerRecord
  <2>5. JobFrame
    BY <1>5 DEF JobFrame, ReadBag, HostInv, TypeOK, ReadyIsKnown
  <2>6. QED
    BY <2>3, <2>4, <2>5, WorkerStep
<1>6. CASE NothingToDo(w)
  BY <1>1, <1>6, FinishHolds DEF NothingToDo, TypeOK
<1>7. CASE LookupSucceeds(w)
  <2> DEFINE r == [worker[w] EXCEPT !.pc = "switch"]
  <2>1. /\ r \in WorkerState /\ r.pc = "switch" /\ r.org = worker[w].org
        /\ r.bag = worker[w].bag
    BY <1>1 DEF WorkerState
  <2>2. worker[w].bag.unconfirmed \in ready
    BY <1>4, <1>7 DEF LookupSucceeds, HostInv, ReadyIsKnown
  <2>3. worker' = [worker EXCEPT ![w] = r]
    BY <1>1, <1>7 DEF LookupSucceeds, TypeOK
  <2> HIDE DEF r
  <2>4. WorkerRecord(r)
    BY <1>3, <2>1, <2>2 DEF WorkerRecord
  <2>5. JobFrame
    BY <1>7 DEF JobFrame, LookupSucceeds, HostInv, TypeOK, ReadyIsKnown
  <2>6. QED
    BY <2>3, <2>4, <2>5, WorkerStep
<1>8. CASE LookupFails(w)
  <2>1. CASE worker[w].attempt < MaxAttempts
    <3>1. worker[w].attempt + 1 \in Attempt
      BY <1>1, <2>1, HostBounds DEF WorkerState, Attempt
    <3>2. Queue(worker[w].org, worker[w].attempt + 1) /\ gaveUp' = gaveUp
      BY <1>8, <2>1 DEF LookupFails
    <3>3. waiting' \in [Org -> [Attempt -> Nat]]
      BY <1>1, <1>2, <3>1, <3>2, QueueType
    <3>4. QED
      BY <1>1, <1>8, <3>2, <3>3, FinishHolds DEF LookupFails, TypeOK
  <2>2. CASE ~(worker[w].attempt < MaxAttempts)
    BY <1>1, <1>2, <1>8, <2>2, FinishHolds DEF LookupFails, TypeOK
  <2>3. QED
    BY <2>1, <2>2
<1>9. CASE SwitchHost(w)
  <2> DEFINE r == [worker[w] EXCEPT !.pc = "clear"]
  <2>1. r \in WorkerState /\ r.pc = "clear" /\ r.org = worker[w].org
    BY <1>1 DEF WorkerState
  <2>2. worker[w].bag.unconfirmed \in ready
    BY <1>9 DEF SwitchHost, HostInv, ReadyIsKnown
  <2>3. /\ host' \in [Org -> Host]
        /\ \A o \in Org : host'[o] \in ready \cup {FirstHost[o]}
    BY <1>2, <1>9, <2>2 DEF SwitchHost, HostInv, TypeOK, ReadyIsKnown
  <2>4. worker' = [worker EXCEPT ![w] = r]
    BY <1>1, <1>9 DEF SwitchHost, TypeOK
  <2> HIDE DEF r
  <2>5. WorkerRecord(r)
    BY <1>3, <2>1 DEF WorkerRecord
  <2>6. JobFrame
    BY <1>1, <1>9, <2>3 DEF JobFrame, SwitchHost, TypeOK
  <2>7. QED
    BY <2>4, <2>5, <2>6, WorkerStep
<1>10. CASE SwitchFails(w)
  BY <1>1, <1>2, <1>10, FinishHolds DEF SwitchFails, TypeOK
<1>11. CASE ClearPending(w)
  <2>1. [worker[w].bag EXCEPT !.unconfirmed = NoHost] \in Bag
    BY <1>4 DEF Bag
  <2>2. bag' \in [Org -> Bag]
    BY <1>1, <1>2, <1>11, <2>1 DEF ClearPending, TypeOK
  <2>3. QED
    BY <1>1, <1>11, <2>2, FinishHolds DEF ClearPending, TypeOK
<1>12. QED
  BY <1>6, <1>7, <1>8, <1>9, <1>10, <1>11, <1>5 DEF JobStep

LEMMA KillHolds ==
  ASSUME HostInv, NEW w \in Worker, Kill(w)
  PROVE  HostInv'
<1>1. TypeOK /\ worker[w].org \in Org /\ worker[w].attempt \in Attempt
  BY ActiveOrg DEF HostInv, TypeOK, Kill, WorkerState
<1>2. waiting' \in [Org -> [Attempt -> Nat]]
  BY <1>1, QueueType DEF Kill, TypeOK
<1>3. QED
  BY <1>1, <1>2, FinishHolds DEF Kill, TypeOK

LEMMA DnsHolds ==
  ASSUME HostInv, NEW h \in Host, NEW answer \in SUBSET Ip,
         ChangeDns(h, answer)
  PROVE  HostInv'
<1>1. ready \subseteq ready' /\ ready' \in SUBSET Host
  BY DEF ChangeDns, HostInv, TypeOK
<1>2. dns' \in [Host -> SUBSET Ip]
  BY DEF ChangeDns, HostInv, TypeOK
<1>3. TypeOK'
  BY <1>1, <1>2 DEF ChangeDns, HostInv, TypeOK
<1>4. \A k \in Host : Confirmed(k)' => k \in ready'
  BY DEF ChangeDns, HostInv, TypeOK, ReadyIsKnown, Confirmed
<1>5. QED
  BY <1>1, <1>3, <1>4 DEF ChangeDns, HostInv, ReadyIsKnown, KeepsHost

LEMMA StepHolds == HostInv /\ [Next]_vars => HostInv'
<1>1. SUFFICES ASSUME HostInv, [Next]_vars PROVE HostInv'
  OBVIOUS
<1>2. CASE \E c \in Client : BeginRequest(c) \/ RequestStep(c)
  BY <1>1, <1>2, BeginHolds, RequestHolds
<1>3. CASE \E o \in Org : TakeJob(o)
  BY <1>1, <1>3, TakeHolds
<1>4. CASE \E w \in Worker : JobStep(w) \/ Kill(w)
  BY <1>1, <1>4, JobHolds, KillHolds
<1>5. CASE \E h \in Host, answer \in SUBSET Ip : ChangeDns(h, answer)
  BY <1>1, <1>5, DnsHolds
<1>6. CASE UNCHANGED vars
  BY <1>1, <1>6 DEF vars, HostInv, TypeOK, ReadyIsKnown, KeepsHost, Confirmed
<1>7. QED
  BY <1>1, <1>2, <1>3, <1>4, <1>5, <1>6 DEF Next

-----------------------------------------------------------------------------
\* Every reachable state is well typed, whatever interleaves, dies or is lost.
THEOREM HostTypeCorrect == Spec => []TypeOK
<1>1. HostInv => TypeOK
  BY DEF HostInv
<1>2. QED
  BY <1>1, InitHostInv, StepHolds, PTL DEF Spec

\* An organization only ever takes a host that resolved to every address of
\* the balancer, however many requests, jobs, retries and deaths interleave:
\* what HostWasReady states.
THEOREM OnlyReadyHosts == Spec => []HostWasReady
<1>1. HostInv => HostWasReady
  BY DEF HostInv, ReadyIsKnown, HostWasReady
<1>2. QED
  BY <1>1, InitHostInv, StepHolds, PTL DEF Spec
-----------------------------------------------------------------------------
(* Organizations that have not raced.  Whoever has such an organization    *)
(* has it alone, and what it remembers of the tables is what they have.    *)
(* A step at a raced organization disturbs no other one.                   *)

Serial == "overlap" \notin Fault
Alive  == "redeliver" \notin Fault /\ "lose" \notin Fault

\* The host an organization is to have.
Aim(o) == IF bag[o].unconfirmed = NoHost THEN host[o] ELSE bag[o].unconfirmed

Waits(o) == \E n \in Attempt : waiting[o][n] > 0

ClientAlone(c) ==
  client[c].org # NoOrg =>
    /\ \A d \in Client : client[d].org = client[c].org => d = c
    /\ \A w \in Worker : worker[w].org # client[c].org

WorkerAlone(w) ==
  worker[w].org # NoOrg =>
    \A x \in Worker : worker[x].org = worker[w].org => x = w

ClientKnows(c) ==
  LET o == client[c].org
      mine == client[c]
  IN  /\ mine.pc \in {"form", "find", "read", "save", "commit"} => mine.formHost = host[o]
      /\ mine.pc \in {"find", "read", "save", "commit"} /\ ~mine.asked =>
           mine.target = Aim(o)
      /\ mine.pc \in {"read", "save", "commit"} => mine.seen = host[o]
      /\ mine.pc \in {"save", "commit"} => mine.bag = bag[o]
      /\ mine.pc = "commit" => Waits(o)
      /\ mine.pc = "store" => mine.bag.unconfirmed = bag[o].unconfirmed

WorkerKnows(w) ==
  LET o == worker[w].org
      mine == worker[w]
  IN  /\ mine.pc \in {"read", "check"} => mine.host = host[o]
      /\ mine.pc \in {"check", "switch", "clear"} => mine.bag = bag[o]
      /\ mine.pc \in {"switch", "clear"} => mine.bag.unconfirmed \in Host
      /\ mine.pc = "clear" => mine.bag.unconfirmed = host[o]

\* A pending host that is the host already is being cleared.
Watched(o) ==
  /\ bag[o].unconfirmed # NoHost =>
       o \in gaveUp \/ Waits(o) \/ \E w \in Worker : worker[w].org = o
  /\ bag[o].unconfirmed = host[o] =>
       \E w \in Worker : worker[w].org = o /\ worker[w].pc = "clear"

OrgKnows(o) ==
  /\ wanted[o] = Aim(o)
  /\ bag[o].note = noted[o]
  /\ Alive => Watched(o)

SerialInv ==
  /\ HostInv
  /\ \A c \in Client : client[c].org \notin raced =>
                        ClientAlone(c) /\ ClientKnows(c)
  /\ \A w \in Worker : worker[w].org \notin raced =>
                        WorkerAlone(w) /\ WorkerKnows(w)
  /\ \A o \in Org \ raced : OrgKnows(o)

LEMMA SerialInit == Init => SerialInv
<1> SUFFICES ASSUME Init PROVE SerialInv
  OBVIOUS
<1>1. \A c \in Client : client[c].org = NoOrg /\ client[c].pc = "idle"
  BY DEF Init, IdleClient
<1>2. \A w \in Worker : worker[w].org = NoOrg /\ worker[w].pc = "idle"
  BY DEF Init, IdleWorker
<1>3. \A o \in Org : bag[o].unconfirmed = NoHost /\ bag[o].note = 0 /\ noted[o] = 0
                     /\ wanted[o] = host[o] /\ host[o] # NoHost
  BY HostAssumption DEF Init, EmptyBag
<1> QED BY <1>1, <1>2, <1>3, InitHostInv
        DEF SerialInv, ClientAlone, ClientKnows, WorkerAlone, WorkerKnows, OrgKnows,
            Aim, Watched

\* A step that is about one organization leaves the others' tables alone.
Elsewhere(o) ==
  \A p \in Org : p # o =>
    /\ host'[p] = host[p] /\ bag'[p] = bag[p] /\ waiting'[p] = waiting[p]
    /\ wanted'[p] = wanted[p] /\ noted'[p] = noted[p]
    /\ p \in gaveUp' <=> p \in gaveUp

LEMMA ClientElsewhere ==
  ASSUME SerialInv, NEW o \in Org, Elsewhere(o), NEW d \in Client,
         client'[d] = client[d], client[d].org # o, client[d].org \notin raced
  PROVE  ClientKnows(d)'
<1>1. client[d].pc # "idle" => client[d].org \in Org
  BY ActiveOrg DEF SerialInv, HostInv
<1>2. CASE client[d].pc = "idle"
  BY <1>2 DEF ClientKnows
<1>3. CASE client[d].pc # "idle"
  <2> DEFINE p == client[d].org
  <2>1. /\ host'[p] = host[p] /\ bag'[p] = bag[p] /\ waiting'[p] = waiting[p]
        /\ client'[d].org = p
    BY <1>1, <1>3 DEF Elsewhere
  <2>2. ClientKnows(d)
    BY DEF SerialInv
  <2> QED BY <2>1, <2>2 DEF ClientKnows, Aim, Waits
<1> QED BY <1>2, <1>3

LEMMA WorkerElsewhere ==
  ASSUME SerialInv, NEW o \in Org, Elsewhere(o), NEW x \in Worker,
         worker'[x] = worker[x], worker[x].org # o, worker[x].org \notin raced
  PROVE  WorkerKnows(x)'
<1>1. worker[x].pc # "idle" => worker[x].org \in Org
  BY ActiveOrg DEF SerialInv, HostInv
<1>2. CASE worker[x].pc = "idle"
  BY <1>2 DEF WorkerKnows
<1>3. CASE worker[x].pc # "idle"
  <2> DEFINE p == worker[x].org
  <2>1. host'[p] = host[p] /\ bag'[p] = bag[p] /\ worker'[x].org = p
    BY <1>1, <1>3 DEF Elsewhere
  <2>2. WorkerKnows(x)
    BY DEF SerialInv
  <2> QED BY <2>1, <2>2 DEF WorkerKnows
<1> QED BY <1>2, <1>3

\* A step that only requests and jobs of one organization take part in.
Local(o) ==
  /\ Elsewhere(o)
  /\ raced \subseteq raced' /\ raced' \subseteq raced \cup {o}
  /\ \A d \in Client : \/ client'[d] = client[d]
                       \/ {client[d].org, client'[d].org} \subseteq {o, NoOrg}
  /\ \A x \in Worker : \/ worker'[x] = worker[x]
                       \/ {worker[x].org, worker'[x].org} \subseteq {o, NoOrg}

\* Whatever happens at an organization that has raced, the others' requests,
\* jobs and tables stay as they are.
LEMMA RacedMoves ==
  ASSUME SerialInv, HostInv', NEW o \in Org, o \in raced', Local(o)
  PROVE  SerialInv'
<1>1. o # NoOrg /\ Elsewhere(o)
  BY HostAssumption DEF Local
<1>2. ASSUME NEW d \in Client, client'[d].org \notin raced'
      PROVE  ClientAlone(d)' /\ ClientKnows(d)'
  <2>1. CASE client'[d].org = NoOrg
    <3>1. client'[d].pc = "idle"
      BY <2>1 DEF HostInv, TypeOK
    <3> QED BY <2>1, <3>1 DEF ClientAlone, ClientKnows
  <2>2. CASE client'[d].org # NoOrg
    <3>1. /\ client'[d] = client[d] /\ client[d].org \notin {o, NoOrg}
          /\ client[d].org \notin raced
      BY <1>2, <2>2 DEF Local
    <3>2. ClientKnows(d)'
      BY <1>1, <3>1, ClientElsewhere
    <3>3. ClientAlone(d)
      BY <3>1 DEF SerialInv
    <3>4. ClientAlone(d)'
      BY <3>1, <3>3 DEF ClientAlone, Local
    <3> QED BY <3>2, <3>4
  <2> QED BY <2>1, <2>2
<1>3. ASSUME NEW x \in Worker, worker'[x].org \notin raced'
      PROVE  WorkerAlone(x)' /\ WorkerKnows(x)'
  <2>1. CASE worker'[x].org = NoOrg
    <3>1. worker'[x].pc = "idle"
      BY <2>1 DEF HostInv, TypeOK
    <3> QED BY <2>1, <3>1 DEF WorkerAlone, WorkerKnows
  <2>2. CASE worker'[x].org # NoOrg
    <3>1. /\ worker'[x] = worker[x] /\ worker[x].org \notin {o, NoOrg}
          /\ worker[x].org \notin raced
      BY <1>3, <2>2 DEF Local
    <3>2. WorkerKnows(x)'
      BY <1>1, <3>1, WorkerElsewhere
    <3>3. WorkerAlone(x)
      BY <3>1 DEF SerialInv
    <3>4. WorkerAlone(x)'
      BY <3>1, <3>3 DEF WorkerAlone, Local
    <3> QED BY <3>2, <3>4
  <2> QED BY <2>1, <2>2
<1>4. ASSUME NEW p \in Org \ raced'
      PROVE  OrgKnows(p)'
  <2>1. p # o /\ p # NoOrg /\ OrgKnows(p)
    BY HostAssumption DEF Local, SerialInv
  <2>2. wanted'[p] = Aim(p)' /\ bag'[p].note = noted'[p]
    BY <1>1, <2>1 DEF OrgKnows, Aim, Elsewhere
  <2>3. ASSUME Alive PROVE Watched(p)'
    <3>1. \A x \in Worker : worker[x].org = p => worker'[x] = worker[x]
      BY <2>1 DEF Local
    <3>2. Watched(p)
      BY <2>1, <2>3 DEF OrgKnows
    <3> QED BY <1>1, <2>1, <3>1, <3>2 DEF Watched, Waits, Elsewhere
  <2> QED BY <2>2, <2>3 DEF OrgKnows
<1> QED BY <1>2, <1>3, <1>4 DEF SerialInv

\* A step in which one request, or one job, moves is local.
LEMMA ClientLocal ==
  ASSUME HostInv, NEW c \in Client, NEW o \in Org, NEW r,
         client' = [client EXCEPT ![c] = r], worker' = worker,
         client[c].org \in {o, NoOrg}, r.org \in {o, NoOrg}, Elsewhere(o),
         raced \subseteq raced', raced' \subseteq raced \cup {o}
  PROVE  Local(o)
<1>1. client'[c] = r /\ \A d \in Client : d # c => client'[d] = client[d]
  BY DEF HostInv, TypeOK
<1> QED BY <1>1 DEF Local

LEMMA WorkerLocal ==
  ASSUME HostInv, NEW w \in Worker, NEW o \in Org, NEW r,
         worker' = [worker EXCEPT ![w] = r], client' = client,
         worker[w].org \in {o, NoOrg}, r.org \in {o, NoOrg}, Elsewhere(o),
         raced \subseteq raced', raced' \subseteq raced \cup {o}
  PROVE  Local(o)
<1>1. worker'[w] = r /\ \A x \in Worker : x # w => worker'[x] = worker[x]
  BY DEF HostInv, TypeOK
<1> QED BY <1>1 DEF Local

\* A request that has its organization, or finds it free, and moves on.
LEMMA ClientMoves ==
  ASSUME SerialInv, HostInv', NEW c \in Client, NEW o \in Org, NEW r,
         o \notin raced, raced' = raced,
         client' = [client EXCEPT ![c] = r], worker' = worker,
         r.org \in {o, NoOrg}, client[c].org = o \/ ~Busy(o),
         Elsewhere(o), OrgKnows(o)', ClientKnows(c)'
  PROVE  SerialInv'
<1>1. o # NoOrg
  BY HostAssumption
<1>2. client'[c] = r /\ \A d \in Client : d # c => client'[d] = client[d]
  BY DEF SerialInv, HostInv, TypeOK
<1>3. /\ \A d \in Client : d # c => client[d].org # o
      /\ \A w \in Worker : worker[w].org # o
  BY <1>1 DEF SerialInv, ClientAlone, Busy
<1>4. \A d \in Client : client'[d].org \notin raced' => ClientAlone(d)'
  BY <1>2, <1>3 DEF SerialInv, ClientAlone
<1>5. \A d \in Client : client'[d].org \notin raced' => ClientKnows(d)'
  BY <1>2, <1>3, ClientElsewhere
<1>6. \A w \in Worker : worker'[w].org \notin raced' =>
                        WorkerAlone(w)' /\ WorkerKnows(w)'
  <2>1. \A w \in Worker : worker[w].org \notin raced => WorkerKnows(w)'
    BY <1>3, WorkerElsewhere
  <2> QED BY <2>1 DEF SerialInv, WorkerAlone
<1>7. \A p \in Org \ raced' : p # o => OrgKnows(p)'
  BY DEF SerialInv, OrgKnows, Aim, Watched, Waits, Elsewhere
<1> QED BY <1>4, <1>5, <1>6, <1>7 DEF SerialInv

\* The same of a job.
LEMMA WorkerMoves ==
  ASSUME SerialInv, HostInv', NEW w \in Worker, NEW o \in Org, NEW r,
         o \notin raced, raced' = raced,
         worker' = [worker EXCEPT ![w] = r], client' = client,
         r.org \in {o, NoOrg},
         worker[w].org = o \/ (worker[w].org = NoOrg /\ ~Busy(o)),
         Elsewhere(o), OrgKnows(o)', WorkerKnows(w)'
  PROVE  SerialInv'
<1>1. o # NoOrg
  BY HostAssumption
<1>2. worker'[w] = r /\ \A x \in Worker : x # w => worker'[x] = worker[x]
  BY DEF SerialInv, HostInv, TypeOK
<1>3. /\ \A x \in Worker : x # w => worker[x].org # o
      /\ \A d \in Client : client[d].org # o
  BY <1>1 DEF SerialInv, ClientAlone, WorkerAlone, Busy
<1>4. \A d \in Client : client'[d].org \notin raced' => ClientAlone(d)'
  BY <1>1, <1>2, <1>3 DEF SerialInv, ClientAlone
<1>5. \A d \in Client : client'[d].org \notin raced' => ClientKnows(d)'
  BY <1>3, ClientElsewhere
<1>6. \A x \in Worker : worker'[x].org \notin raced' => WorkerKnows(x)'
  BY <1>2, <1>3, WorkerElsewhere
<1>7. \A x \in Worker : worker'[x].org \notin raced' => WorkerAlone(x)'
  BY <1>2, <1>3 DEF SerialInv, WorkerAlone
<1>8. \A p \in Org \ raced' : p # o => OrgKnows(p)'
  <2>1. \A p \in Org \ raced : p # o => (wanted'[p] = Aim(p)' /\ bag'[p].note = noted'[p])
    BY DEF SerialInv, OrgKnows, Aim, Elsewhere
  <2>2. ASSUME Alive, NEW p \in Org \ raced, p # o PROVE Watched(p)'
    <3>1. Watched(p)
      BY <2>2 DEF SerialInv, OrgKnows
    <3>2. worker[w].org # p
      <4>1. p # NoOrg
        BY HostAssumption
      <4> QED BY <2>2, <4>1
    <3> QED BY <1>2, <2>2, <3>1, <3>2 DEF Watched, Waits, Elsewhere
  <2> QED BY <2>1, <2>2 DEF OrgKnows
<1> QED BY <1>4, <1>5, <1>6, <1>7, <1>8 DEF SerialInv

\* What a step of an organization's own request or job starts from.
LEMMA Alone ==
  ASSUME SerialInv, NEW o \in Org, o \notin raced
  PROVE  /\ \A c \in Client : client[c].pc = "idle" => client[c].org = NoOrg
         /\ \A w \in Worker : worker[w].pc = "idle" => worker[w].org = NoOrg
         /\ host[o] \in Host /\ bag[o] \in Bag /\ NoHost \notin Host /\ o # NoOrg
         /\ wanted[o] = Aim(o) /\ bag[o].note = noted[o]
         /\ Alive => Watched(o)
BY HostAssumption DEF SerialInv, HostInv, TypeOK, OrgKnows

\* A request or job that starts without a race finds its organization free.
LEMMA StartsAlone ==
  ASSUME NEW o \in Org, Starts(o), o \notin raced'
  PROVE  ~Busy(o) /\ raced' = raced /\ o \notin raced
BY DEF Starts

LEMMA IdleKnows ==
  /\ IdleClient.pc = "idle" /\ IdleClient.org = NoOrg
  /\ IdleWorker.pc = "idle" /\ IdleWorker.org = NoOrg
BY DEF IdleClient, IdleWorker

\* An organization whose tables stay as they are.
LEMMA OrgStays ==
  ASSUME SerialInv, NEW o \in Org, o \notin raced,
         UNCHANGED <<host, bag, wanted, noted>>,
         Alive => Watched(o)'
  PROVE  OrgKnows(o)'
BY Alone DEF OrgKnows, Aim

LEMMA BeginSerial ==
  ASSUME SerialInv, NEW c \in Client, NEW o \in Org, o \notin raced',
         LoadBag(c, o) \/ \E h \in Host \cup {NoHost} : BeginUpdate(c, o, h)
  PROVE  SerialInv'
<1>0. HostInv'
  BY BeginHolds DEF SerialInv, BeginRequest
<1>1. Starts(o)
  BY Zenon DEF LoadBag, BeginUpdate
<1>2. /\ ~Busy(o) /\ o \notin raced /\ client \in [Client -> ClientState]
      /\ UNCHANGED <<host, bag, waiting, worker, wanted, noted, gaveUp, raced>>
  <2>1. UNCHANGED <<host, bag, waiting, worker, wanted, noted, gaveUp>>
    BY Zenon DEF LoadBag, BeginUpdate
  <2> QED BY <1>1, <2>1, StartsAlone DEF SerialInv, HostInv, TypeOK
<1>3. OrgKnows(o)' /\ Elsewhere(o)
  BY <1>2, Alone DEF SerialInv, OrgKnows, Aim, Watched, Waits, Elsewhere
<1>4. CASE LoadBag(c, o)
  <2> DEFINE new == [bag[o] EXCEPT !.note = requests + 1]
             r == [IdleClient EXCEPT !.pc = "store", !.org = o, !.bag = new]
  <2>1. new.unconfirmed = bag[o].unconfirmed
    BY Alone DEF Bag
  <2>2. client' = [client EXCEPT ![c] = r]
    BY <1>4 DEF LoadBag
  <2> HIDE DEF new
  <2>3. r.pc = "store" /\ r.org = o /\ r.bag = new
    BY DEF IdleClient
  <2> HIDE DEF r
  <2>4. ClientKnows(c)'
    BY <1>2, <2>1, <2>2, <2>3 DEF ClientKnows
  <2> QED BY <1>0, <1>2, <1>3, <2>2, <2>3, <2>4, ClientMoves
<1>5. ASSUME NEW h \in Host \cup {NoHost}, BeginUpdate(c, o, h)
      PROVE  SerialInv'
  <2> DEFINE r == [IdleClient EXCEPT !.pc = "form", !.org = o,
                          !.formHost = host[o], !.target = h,
                          !.asked = (h # NoHost)]
  <2>1. r.pc = "form" /\ r.org = o /\ r.formHost = host[o]
    BY DEF IdleClient
  <2>2. client' = [client EXCEPT ![c] = r]
    BY <1>5, Zenon DEF BeginUpdate
  <2> HIDE DEF r
  <2>3. ClientKnows(c)'
    BY <1>2, <2>1, <2>2 DEF ClientKnows
  <2> QED BY <1>0, <1>2, <1>3, <2>1, <2>2, <2>3, ClientMoves
<1> QED BY <1>4, <1>5

\* A request that goes on without a write.
LEMMA RequestReads ==
  ASSUME SerialInv, NEW c \in Client, HostInv', client[c].pc # "idle", NEW r,
         client[c].org \notin raced, raced' = raced,
         client' = [client EXCEPT ![c] = r], r.org \in {client[c].org, NoOrg},
         UNCHANGED <<host, bag, waiting, worker, wanted, noted, gaveUp>>,
         ClientKnows(c)'
  PROVE  SerialInv'
<1>1. PICK o \in Org : o = client[c].org
  BY ActiveOrg DEF SerialInv, HostInv
<1>2. OrgKnows(o)' /\ Elsewhere(o)
  BY <1>1 DEF SerialInv, OrgKnows, Aim, Watched, Waits, Elsewhere
<1> QED BY <1>1, <1>2, ClientMoves

\* A request under way does not race on its own.
LEMMA RequestFrames ==
  ASSUME NEW c \in Client, RequestStep(c)
  PROVE  raced' = raced
BY DEF RequestStep, BuildForm, FindOrganization, ReadPending, SaveOrganization,
       CommitUpdate, Rollback, StoreBag

LEMMA RequestSerial ==
  ASSUME SerialInv, NEW c \in Client, RequestStep(c), client[c].org \notin raced
  PROVE  SerialInv'
<1>0. HostInv' /\ client \in [Client -> ClientState] /\ client[c] \in ClientState
  BY RequestHolds DEF SerialInv, HostInv, TypeOK
<1>1. PICK o \in Org : client[c].pc # "idle" /\ o = client[c].org
  BY ActiveOrg DEF SerialInv, HostInv, RequestStep, BuildForm, FindOrganization,
         ReadPending, SaveOrganization, CommitUpdate, Rollback, StoreBag
<1>2. ClientKnows(c) /\ KeepsHost(client[c]) /\ raced' = raced
  BY RequestFrames DEF SerialInv, HostInv, ReadyIsKnown
<1>3. CASE BuildForm(c)
  <2> DEFINE pending == IF bag[o].unconfirmed = NoHost
                          THEN client[c].formHost ELSE bag[o].unconfirmed
             h == IF client[c].asked THEN client[c].target ELSE pending
             r == [client[c] EXCEPT !.pc = "find", !.target = h]
  <2>1. client[c].pc = "form" /\ client[c].formHost = host[o]
    BY <1>1, <1>2, <1>3 DEF BuildForm, ClientKnows
  <2>2. ~client[c].asked => h = Aim(o)
    BY <1>1, <2>1 DEF Aim
  <2>3. client' = [client EXCEPT ![c] = r]
    BY <1>1, <1>0, <1>3 DEF BuildForm
  <2> HIDE DEF h
  <2>4. /\ r.pc = "find" /\ r.org = o /\ r.formHost = client[c].formHost
        /\ r.target = h /\ r.asked = client[c].asked
    BY <1>1, <1>0 DEF ClientState
  <2> HIDE DEF r
  <2>5. UNCHANGED <<host, bag, waiting, worker, wanted, noted, gaveUp>>
    BY <1>1, <1>3 DEF BuildForm
  <2>6. client'[c] = r
    BY <1>1, <1>0, <2>3
  <2>7. ClientKnows(c)'
    BY <1>1, <2>1, <2>2, <2>4, <2>5, <2>6 DEF ClientKnows, Aim
  <2> QED BY <1>0, <1>1, <1>2, <2>3, <2>4, <2>5, <2>7, RequestReads
<1>4. CASE FindOrganization(c)
  <2> DEFINE r == [client[c] EXCEPT !.pc = "read", !.seen = host[o]]
  <2>1. client' = [client EXCEPT ![c] = r] /\ client[c].pc = "find"
    BY <1>1, <1>0, <1>4 DEF FindOrganization
  <2>2. /\ r.pc = "read" /\ r.org = o /\ r.formHost = client[c].formHost
        /\ r.target = client[c].target /\ r.asked = client[c].asked
        /\ r.seen = host[o]
    BY <1>1, <1>0 DEF ClientState
  <2> HIDE DEF r
  <2>3. UNCHANGED <<host, bag, waiting, worker, wanted, noted, gaveUp>>
    BY <1>1, <1>4 DEF FindOrganization
  <2>4. client'[c] = r
    BY <1>1, <1>0, <2>1
  <2>5. ClientKnows(c)'
    BY <1>1, <1>2, <2>1, <2>2, <2>3, <2>4 DEF ClientKnows, Aim
  <2> QED BY <1>0, <1>1, <1>2, <2>1, <2>2, <2>3, <2>5, RequestReads
<1>5. CASE ReadPending(c)
  <2> DEFINE r == [client[c] EXCEPT !.pc = "save", !.bag = bag[o]]
  <2>1. client' = [client EXCEPT ![c] = r] /\ client[c].pc = "read"
    BY <1>1, <1>0, <1>5 DEF ReadPending
  <2>2. /\ r.pc = "save" /\ r.org = o /\ r.formHost = client[c].formHost
        /\ r.target = client[c].target /\ r.asked = client[c].asked
        /\ r.seen = client[c].seen /\ r.bag = bag[o]
    BY <1>1, <1>0 DEF ClientState
  <2> HIDE DEF r
  <2>3. UNCHANGED <<host, bag, waiting, worker, wanted, noted, gaveUp>>
    BY <1>1, <1>5 DEF ReadPending
  <2>4. client'[c] = r
    BY <1>1, <1>0, <2>1
  <2>5. ClientKnows(c)'
    BY <1>1, <1>2, <2>1, <2>2, <2>3, <2>4 DEF ClientKnows, Aim
  <2> QED BY <1>0, <1>1, <1>2, <2>1, <2>2, <2>3, <2>5, RequestReads
<1>6. CASE Rollback(c)
  <2>1. /\ client' = [client EXCEPT ![c] = IdleClient]
        /\ UNCHANGED <<host, bag, waiting, worker, wanted, noted, gaveUp>>
    BY <1>1, <1>6 DEF Rollback
  <2>2. ClientKnows(c)'
    BY <1>1, <1>0, <2>1, IdleKnows DEF ClientKnows
  <2> QED BY <1>0, <1>1, <1>2, <2>1, <2>2, IdleKnows, RequestReads
<1>7. CASE SaveOrganization(c)
  <2> DEFINE r == [client[c] EXCEPT !.pc = "commit"]
  <2>1. /\ client' = [client EXCEPT ![c] = r] /\ client[c].pc = "save"
        /\ Queue(o, 1) /\ gaveUp' = gaveUp \ {o}
        /\ UNCHANGED <<host, bag, worker, wanted, noted>>
    BY <1>1, <1>0, <1>7 DEF SaveOrganization
  <2>2. /\ r.pc = "commit" /\ r.org = o /\ r.formHost = client[c].formHost
        /\ r.target = client[c].target /\ r.asked = client[c].asked
        /\ r.seen = client[c].seen /\ r.bag = client[c].bag
    BY <1>1, <1>0 DEF ClientState
  <2> HIDE DEF r
  <2>3. Waits(o)' /\ \A p \in Org : p # o => waiting'[p] = waiting[p]
    <3>1. 1 \in Attempt /\ waiting \in [Org -> [Attempt -> Nat]]
      BY HostBounds DEF Attempt, SerialInv, HostInv, TypeOK
    <3>2. waiting'[o][1] = waiting[o][1] + 1 /\ waiting[o][1] \in Nat
      BY <1>1, <2>1, <3>1 DEF Queue
    <3>3. waiting'[o][1] > 0
      BY <1>1, <3>2
    <3>4. \A p \in Org : p # o => waiting'[p] = waiting[p]
      BY <1>1, <2>1, <3>1 DEF Queue
    <3> QED BY <1>1, <3>1, <3>3, <3>4 DEF Waits
  <2>4. client'[c] = r
    BY <1>1, <1>0, <2>1
  <2>5. ClientKnows(c)'
    BY <1>1, <1>2, <2>1, <2>2, <2>3, <2>4 DEF ClientKnows, Aim
  <2>6. OrgKnows(o)'
    <3>1. Alive => Watched(o)'
      BY <1>1, <2>1, <2>3, Alone DEF Watched
    <3> QED BY <1>1, <2>1, <3>1, OrgStays
  <2>7. Elsewhere(o)
    BY <1>1, <2>1, <2>3 DEF Elsewhere
  <2>8. client[c].org = o
    BY <1>1
  <2> QED BY <1>0, <1>1, <1>2, <2>1, <2>2, <2>5, <2>6, <2>7, <2>8, ClientMoves
<1>8. CASE StoreBag(c)
  <2>1. /\ client[c].pc = "store" /\ client' = [client EXCEPT ![c] = IdleClient]
        /\ bag' = [bag EXCEPT ![o] = client[c].bag]
        /\ noted' = [noted EXCEPT ![o] = client[c].bag.note]
        /\ UNCHANGED <<host, waiting, worker, wanted, gaveUp>>
    BY <1>1, <1>8 DEF StoreBag
  <2>2. bag \in [Org -> Bag] /\ noted \in [Org -> 0..MaxRequests]
    BY DEF SerialInv, HostInv, TypeOK
  <2>3. bag'[o].unconfirmed = bag[o].unconfirmed /\ bag'[o].note = noted'[o]
    BY <1>1, <1>2, <2>1, <2>2 DEF ClientKnows
  <2>4. OrgKnows(o)'
    BY <1>1, <2>1, <2>3, Alone DEF OrgKnows, Aim, Watched, Waits
  <2>5. Elsewhere(o)
    BY <1>1, <2>1, <2>2 DEF Elsewhere
  <2>6. ClientKnows(c)' /\ client[c].org = o
    BY <1>1, <1>0, <2>1, IdleKnows DEF ClientKnows
  <2> QED BY <1>0, <1>1, <1>2, <2>1, <2>4, <2>5, <2>6, IdleKnows, ClientMoves
<1>9. CASE CommitUpdate(c)
  <2> DEFINE new == [client[c].bag EXCEPT !.unconfirmed = Unconfirmed(c)]
  <2>1. /\ client[c].pc = "commit" /\ client' = [client EXCEPT ![c] = IdleClient]
        /\ client[c].formHost = host[o] /\ client[c].seen = host[o]
        /\ client[c].bag = bag[o] /\ Waits(o)
        /\ ~client[c].asked => client[c].target = Aim(o)
    BY <1>1, <1>2, <1>9 DEF CommitUpdate, ClientKnows
  <2>2. /\ UNCHANGED <<host, waiting, worker, noted, gaveUp>>
        /\ bag' = IF new = bag[o] THEN bag ELSE [bag EXCEPT ![o] = new]
        /\ wanted' = IF client[c].asked THEN [wanted EXCEPT ![o] = client[c].target]
                     ELSE wanted
    BY <1>1, <1>9, <2>1 DEF CommitUpdate
  <2>3. /\ bag \in [Org -> Bag] /\ wanted \in [Org -> Host] /\ bag[o] \in Bag
        /\ client[c].target \in Host
    BY <1>1, <1>2, <2>1 DEF SerialInv, HostInv, TypeOK, KeepsHost
  <2>4. new.unconfirmed = Unconfirmed(c) /\ new.note = bag[o].note
    BY <1>1, <2>1, <2>3 DEF Bag
  <2> HIDE DEF new
  <2>5. bag'[o] = new /\ \A p \in Org : p # o => bag'[p] = bag[p]
    BY <1>1, <2>2, <2>3
  <2>6. /\ wanted'[o] = IF client[c].asked THEN client[c].target ELSE wanted[o]
        /\ \A p \in Org : p # o => wanted'[p] = wanted[p]
    BY <1>1, <2>2, <2>3
  <2>7. wanted'[o] = client[c].target
    BY <1>1, <2>1, <2>6, Alone
  <2>8. bag'[o].unconfirmed = IF wanted'[o] = host[o] THEN NoHost ELSE wanted'[o]
    BY <1>1, <2>1, <2>4, <2>5, <2>7 DEF Unconfirmed
  <2>9. wanted'[o] = Aim(o)' /\ bag'[o].unconfirmed # host[o]
    BY <1>1, <2>2, <2>3, <2>7, <2>8, Alone DEF Aim
  <2>10. OrgKnows(o)'
    BY <1>1, <2>1, <2>2, <2>4, <2>5, <2>9, Alone DEF OrgKnows, Watched, Waits
  <2>11. Elsewhere(o)
    BY <1>1, <2>2, <2>5, <2>6 DEF Elsewhere
  <2>12. ClientKnows(c)' /\ client[c].org = o
    BY <1>1, <1>0, <2>1, IdleKnows DEF ClientKnows
  <2> QED BY <1>0, <1>1, <1>2, <2>1, <2>2, <2>10, <2>11, <2>12, IdleKnows, ClientMoves
<1> QED BY <1>1, <1>3, <1>4, <1>5, <1>6, <1>7, <1>8, <1>9 DEF RequestStep

LEMMA TakeSerial ==
  ASSUME SerialInv, NEW o \in Org, TakeJob(o), o \notin raced'
  PROVE  SerialInv'
<1>1. PICK w \in Worker, n \in Attempt : StartJob(w, o, n)
  BY DEF TakeJob
<1> DEFINE r == [IdleWorker EXCEPT !.pc = "read", !.org = o, !.attempt = n,
                                   !.host = host[o]]
<1>2. /\ worker' = [worker EXCEPT ![w] = r] /\ worker[w].pc = "idle" /\ Starts(o)
      /\ waiting' = [waiting EXCEPT ![o][n] = @ - 1]
      /\ UNCHANGED <<host, bag, client, wanted, noted, gaveUp>>
  BY <1>1 DEF StartJob
<1>3. r.pc = "read" /\ r.org = o /\ r.host = host[o]
  BY DEF IdleWorker
<1> HIDE DEF r
<1>4. HostInv' /\ worker'[w] = r
  BY <1>2, TakeHolds DEF SerialInv, HostInv, TypeOK
<1>5. worker[w].org = NoOrg /\ ~Busy(o) /\ o \notin raced /\ raced' = raced
  BY <1>2, Alone, StartsAlone
<1>6. Elsewhere(o)
  BY <1>2 DEF Elsewhere, SerialInv, HostInv, TypeOK
<1>7. WorkerKnows(w)'
  BY <1>2, <1>3, <1>4 DEF WorkerKnows
<1>8. Alive => Watched(o)'
  <2>1. Alive => Watched(o)
    BY <1>5, Alone
  <2>2. \A x \in Worker : worker[x].org # o
    BY <1>5 DEF Busy
  <2> QED BY <1>2, <1>3, <1>4, <2>1, <2>2 DEF Watched
<1>9. OrgKnows(o)'
  BY <1>2, <1>5, <1>8, OrgStays
<1> QED BY <1>2, <1>3, <1>4, <1>5, <1>6, <1>7, <1>9, WorkerMoves

\* A job that goes on, or ends, without a write of the tables.
LEMMA JobReads ==
  ASSUME SerialInv, NEW w \in Worker, HostInv', NEW o \in Org,
         o = worker[w].org, o \notin raced, raced' = raced, NEW r,
         worker' = [worker EXCEPT ![w] = r], r.org \in {o, NoOrg},
         UNCHANGED <<host, bag, client, wanted, noted>>,
         \A p \in Org : p # o => waiting'[p] = waiting[p] /\ (p \in gaveUp' <=> p \in gaveUp),
         WorkerKnows(w)',
         Alive => Watched(o)'
  PROVE  SerialInv'
<1>1. OrgKnows(o)'
  BY OrgStays
<1>2. Elsewhere(o)
  BY DEF Elsewhere
<1> QED BY <1>1, <1>2, WorkerMoves

LEMMA JobSerial ==
  ASSUME SerialInv, NEW w \in Worker, JobStep(w), worker[w].org \notin raced
  PROVE  SerialInv'
<1>0. HostInv' /\ worker \in [Worker -> WorkerState] /\ worker[w] \in WorkerState
      /\ IdleWorker.org = NoOrg /\ IdleWorker.pc = "idle"
  BY JobHolds, IdleKnows DEF SerialInv, HostInv, TypeOK
<1>1. PICK o \in Org : worker[w].pc # "idle" /\ o = worker[w].org
  BY ActiveOrg DEF SerialInv, HostInv, JobStep, ReadBag, NothingToDo, LookupSucceeds,
         LookupFails, SwitchHost, SwitchFails, ClearPending
<1>2. WorkerKnows(w) /\ raced' = raced
  BY DEF SerialInv, JobStep, ReadBag, NothingToDo, LookupSucceeds, LookupFails,
         SwitchHost, SwitchFails, ClearPending
<1>3. /\ \A x \in Worker : worker[x].org = o => x = w
      /\ o # NoOrg
  BY <1>1, HostAssumption DEF SerialInv, WorkerAlone
<1>4. /\ host[o] \in Host /\ bag[o] \in Bag /\ NoHost \notin Host
      /\ wanted[o] = Aim(o) /\ bag[o].note = noted[o]
      /\ Alive => Watched(o)
  BY <1>1, Alone
<1>5. \A r : worker' = [worker EXCEPT ![w] = r] =>
              /\ worker'[w] = r
              /\ \A x \in Worker : x # w => worker'[x] = worker[x]
  BY <1>0
<1>6. ASSUME worker' = [worker EXCEPT ![w] = IdleWorker]
      PROVE  WorkerKnows(w)'
  BY <1>0, <1>5, <1>6 DEF WorkerKnows
<1>7. CASE ReadBag(w)
  <2> DEFINE r == [worker[w] EXCEPT !.pc = "check", !.bag = bag[o]]
  <2>1. /\ worker' = [worker EXCEPT ![w] = r] /\ worker[w].pc = "read"
        /\ UNCHANGED <<host, bag, waiting, client, wanted, noted, gaveUp>>
    BY <1>0, <1>1, <1>7 DEF ReadBag
  <2>2. r.pc = "check" /\ r.org = o /\ r.host = worker[w].host /\ r.bag = bag[o]
    BY <1>0, <1>1 DEF WorkerState
  <2> HIDE DEF r
  <2>3. WorkerKnows(w)'
    BY <1>1, <1>2, <1>5, <2>1, <2>2 DEF WorkerKnows
  <2>4. Alive => Watched(o)'
    BY <1>1, <1>3, <1>4, <1>5, <2>1, <2>2 DEF Watched, Waits
  <2> QED BY <1>0, <1>1, <1>2, <2>1, <2>2, <2>3, <2>4, JobReads
<1>8. CASE NothingToDo(w)
  <2>1. /\ worker' = [worker EXCEPT ![w] = IdleWorker] /\ worker[w].pc = "check"
        /\ worker[w].bag.unconfirmed \in {NoHost, worker[w].host}
        /\ UNCHANGED <<host, bag, waiting, client, wanted, noted, gaveUp>>
    BY <1>8 DEF NothingToDo, Finish
  <2>2. bag[o].unconfirmed \in {NoHost, host[o]}
    BY <1>1, <1>2, <2>1 DEF WorkerKnows
  <2>3. Alive => bag[o].unconfirmed = NoHost
    BY <1>1, <1>3, <1>4, <2>1, <2>2 DEF Watched
  <2>4. Alive => Watched(o)'
    BY <1>4, <2>1, <2>3 DEF Watched
  <2> QED BY <1>0, <1>1, <1>2, <1>6, <2>1, <2>4, JobReads
<1>9. CASE LookupSucceeds(w)
  <2> DEFINE r == [worker[w] EXCEPT !.pc = "switch"]
  <2>1. /\ worker' = [worker EXCEPT ![w] = r] /\ worker[w].pc = "check"
        /\ worker[w].bag.unconfirmed # NoHost
        /\ UNCHANGED <<host, bag, waiting, client, wanted, noted, gaveUp>>
    BY <1>0, <1>9 DEF LookupSucceeds
  <2>2. r.pc = "switch" /\ r.org = o /\ r.bag = worker[w].bag
    BY <1>0, <1>1 DEF WorkerState
  <2>3. worker[w].bag.unconfirmed \in Host
    BY <1>0, <2>1 DEF WorkerState, Bag
  <2> HIDE DEF r
  <2>4. WorkerKnows(w)'
    BY <1>1, <1>2, <1>5, <2>1, <2>2, <2>3 DEF WorkerKnows
  <2>5. Alive => Watched(o)'
    BY <1>1, <1>3, <1>4, <1>5, <2>1, <2>2 DEF Watched, Waits
  <2> QED BY <1>0, <1>1, <1>2, <2>1, <2>2, <2>4, <2>5, JobReads
<1>10. CASE LookupFails(w)
  <2>1. /\ worker' = [worker EXCEPT ![w] = IdleWorker] /\ worker[w].pc = "check"
        /\ UNCHANGED <<host, bag, client, wanted, noted>>
        /\ \/ /\ worker[w].attempt < MaxAttempts
              /\ Queue(o, worker[w].attempt + 1) /\ UNCHANGED gaveUp
           \/ gaveUp' = gaveUp \cup {o} /\ UNCHANGED waiting
    BY <1>1, <1>10 DEF LookupFails, Finish
  <2>2. /\ waiting \in [Org -> [Attempt -> Nat]] /\ worker[w].attempt \in Attempt
    BY <1>0 DEF SerialInv, HostInv, TypeOK, WorkerState
  <2>3. CASE Queue(o, worker[w].attempt + 1) /\ UNCHANGED gaveUp
             /\ worker[w].attempt < MaxAttempts
    <3> DEFINE n == worker[w].attempt + 1
    <3>1. PICK m : m = n
      OBVIOUS
    <3>2. m \in Attempt /\ waiting' = [waiting EXCEPT ![o][m] = @ + 1]
      BY <2>2, <2>3, <3>1, HostBounds DEF Attempt, Queue
    <3> HIDE DEF n
    <3>3. waiting'[o][m] = waiting[o][m] + 1 /\ waiting[o][m] \in Nat
      BY <2>2, <3>2
    <3>4. Waits(o)'
      BY <3>2, <3>3 DEF Waits
    <3>5. \A p \in Org : p # o => waiting'[p] = waiting[p]
      BY <2>2, <3>2
    <3>6. Alive => Watched(o)'
      BY <1>1, <1>3, <1>4, <2>1, <3>4 DEF Watched
    <3> QED BY <1>0, <1>1, <1>2, <1>6, <2>1, <2>3, <3>5, <3>6, JobReads
  <2>4. CASE gaveUp' = gaveUp \cup {o} /\ UNCHANGED waiting
    <3>1. Alive => Watched(o)'
      BY <1>1, <1>3, <1>4, <2>1, <2>4 DEF Watched
    <3> QED BY <1>0, <1>1, <1>2, <1>6, <2>1, <2>4, <3>1, JobReads
  <2> QED BY <2>1, <2>3, <2>4
<1>11. CASE SwitchFails(w)
  <2>1. /\ worker' = [worker EXCEPT ![w] = IdleWorker] /\ worker[w].pc = "switch"
        /\ UNCHANGED <<host, bag, waiting, client, wanted, noted>>
        /\ gaveUp' = gaveUp \cup {o}
    BY <1>1, <1>11 DEF SwitchFails, Finish
  <2>2. Alive => Watched(o)'
    BY <1>1, <1>3, <1>4, <2>1 DEF Watched
  <2> QED BY <1>0, <1>1, <1>2, <1>6, <2>1, <2>2, JobReads
<1>12. CASE SwitchHost(w)
  <2> DEFINE r == [worker[w] EXCEPT !.pc = "clear"]
  <2>1. /\ worker' = [worker EXCEPT ![w] = r] /\ worker[w].pc = "switch"
        /\ host' = [host EXCEPT ![o] = worker[w].bag.unconfirmed]
        /\ UNCHANGED <<bag, waiting, client, wanted, noted, gaveUp>>
    BY <1>0, <1>1, <1>12 DEF SwitchHost
  <2>2. r.pc = "clear" /\ r.org = o /\ r.bag = worker[w].bag
    BY <1>0, <1>1 DEF WorkerState
  <2> HIDE DEF r
  <2>3. host \in [Org -> Host]
    BY DEF SerialInv, HostInv, TypeOK
  <2>4. /\ bag[o].unconfirmed \in Host /\ worker[w].bag = bag[o]
        /\ host'[o] = bag[o].unconfirmed
    BY <1>1, <1>2, <2>1, <2>3 DEF WorkerKnows
  <2>5. WorkerKnows(w)'
    BY <1>5, <2>1, <2>2, <2>4 DEF WorkerKnows
  <2>6. worker'[w].org = o /\ worker'[w].pc = "clear"
    BY <1>5, <2>1, <2>2
  <2>7. OrgKnows(o)'
    BY <1>4, <2>1, <2>4, <2>6 DEF OrgKnows, Aim, Watched
  <2>8. Elsewhere(o)
    BY <2>1, <2>3 DEF Elsewhere
  <2> QED BY <1>0, <1>1, <1>2, <2>1, <2>2, <2>5, <2>7, <2>8, WorkerMoves
<1>13. CASE ClearPending(w)
  <2> DEFINE new == [worker[w].bag EXCEPT !.unconfirmed = NoHost]
  <2>1. /\ worker' = [worker EXCEPT ![w] = IdleWorker] /\ worker[w].pc = "clear"
        /\ bag' = [bag EXCEPT ![o] = new]
        /\ UNCHANGED <<host, waiting, client, wanted, noted, gaveUp>>
    BY <1>1, <1>13 DEF ClearPending, Finish
  <2>2. bag \in [Org -> Bag]
    BY DEF SerialInv, HostInv, TypeOK
  <2>3. /\ worker[w].bag = bag[o] /\ bag[o].unconfirmed = host[o]
    BY <1>1, <1>2, <2>1 DEF WorkerKnows
  <2>4. new.unconfirmed = NoHost /\ new.note = bag[o].note
    BY <1>4, <2>3 DEF Bag
  <2> HIDE DEF new
  <2>5. bag'[o] = new
    BY <2>1, <2>2
  <2>6. wanted[o] = host[o]
    BY <1>4, <2>3 DEF Aim
  <2>7. OrgKnows(o)'
    BY <1>4, <2>1, <2>4, <2>5, <2>6 DEF OrgKnows, Aim, Watched
  <2>8. Elsewhere(o)
    BY <2>1, <2>2 DEF Elsewhere
  <2> QED BY <1>0, <1>1, <1>2, <1>6, <2>1, <2>7, <2>8, WorkerMoves
<1> QED BY <1>7, <1>8, <1>9, <1>10, <1>11, <1>12, <1>13 DEF JobStep

LEMMA KillSerial ==
  ASSUME SerialInv, NEW w \in Worker, Kill(w), worker[w].org \notin raced
  PROVE  SerialInv'
<1>0. HostInv' /\ worker \in [Worker -> WorkerState]
      /\ IdleWorker.org = NoOrg /\ IdleWorker.pc = "idle"
      /\ waiting \in [Org -> [Attempt -> Nat]]
  BY KillHolds, IdleKnows DEF SerialInv, HostInv, TypeOK
<1>1. PICK o \in Org : o = worker[w].org
  BY ActiveOrg DEF SerialInv, HostInv, Kill
<1>2. /\ worker' = [worker EXCEPT ![w] = IdleWorker] /\ ~Alive
      /\ UNCHANGED <<host, bag, client, wanted, noted, gaveUp, raced>>
      /\ Queue(o, worker[w].attempt) \/ UNCHANGED waiting
  BY <1>1 DEF Kill, Finish, Alive
<1>3. worker'[w] = IdleWorker
  BY <1>0, <1>2
<1>4. \A p \in Org : p # o => waiting'[p] = waiting[p]
  BY <1>0, <1>2 DEF Queue
<1>5. WorkerKnows(w)'
  BY <1>0, <1>3 DEF WorkerKnows
<1> QED BY <1>0, <1>1, <1>2, <1>4, <1>5, JobReads

LEMMA BeginLocal ==
  ASSUME HostInv, NEW c \in Client, NEW o \in Org,
         LoadBag(c, o) \/ \E h \in Host \cup {NoHost} : BeginUpdate(c, o, h)
  PROVE  Local(o)
<1>1. Starts(o) /\ client[c].pc = "idle"
  BY Zenon DEF LoadBag, BeginUpdate
<1>2. /\ raced \subseteq raced' /\ raced' \subseteq raced \cup {o}
      /\ client[c].org = NoOrg
  BY <1>1 DEF Starts, HostInv, TypeOK
<1>3. Elsewhere(o) /\ worker' = worker
  <2>1. UNCHANGED <<host, bag, waiting, worker, wanted, noted, gaveUp>>
    BY Zenon DEF LoadBag, BeginUpdate
  <2> QED BY <2>1 DEF Elsewhere
<1>4. CASE LoadBag(c, o)
  <2> DEFINE r == [IdleClient EXCEPT !.pc = "store", !.org = o,
                          !.bag = [bag[o] EXCEPT !.note = requests + 1]]
  <2>1. client' = [client EXCEPT ![c] = r]
    BY <1>4 DEF LoadBag
  <2>2. r.org = o
    BY DEF IdleClient
  <2> HIDE DEF r
  <2> QED BY <1>2, <1>3, <2>1, <2>2, ClientLocal
<1>5. ASSUME NEW h \in Host \cup {NoHost}, BeginUpdate(c, o, h)
      PROVE  Local(o)
  <2> DEFINE r == [IdleClient EXCEPT !.pc = "form", !.org = o,
                          !.formHost = host[o], !.target = h,
                          !.asked = (h # NoHost)]
  <2>1. client' = [client EXCEPT ![c] = r]
    BY <1>5, Zenon DEF BeginUpdate
  <2>2. r.org = o
    BY DEF IdleClient
  <2> HIDE DEF r
  <2> QED BY <1>2, <1>3, <2>1, <2>2, ClientLocal
<1> QED BY <1>4, <1>5

LEMMA RequestLocal ==
  ASSUME HostInv, NEW c \in Client, RequestStep(c),
         NEW o \in Org, o = client[c].org
  PROVE  Local(o)
<1>1. /\ client[c] \in ClientState /\ IdleClient.org = NoOrg
      /\ host \in [Org -> Host] /\ bag \in [Org -> Bag]
      /\ waiting \in [Org -> [Attempt -> Nat]] /\ wanted \in [Org -> Host]
      /\ noted \in [Org -> 0..MaxRequests]
  BY IdleKnows DEF HostInv, TypeOK
<1>2. raced' = raced
  BY RequestFrames
<1>3. worker' = worker /\ Elsewhere(o)
  <2>1. CASE BuildForm(c) \/ FindOrganization(c) \/ ReadPending(c) \/ Rollback(c)
    BY <2>1 DEF BuildForm, FindOrganization, ReadPending, Rollback, Elsewhere
  <2>2. CASE SaveOrganization(c)
    BY <1>1, <2>2 DEF SaveOrganization, Queue, Elsewhere
  <2>3. CASE CommitUpdate(c)
    BY <1>1, <2>3 DEF CommitUpdate, Elsewhere
  <2>4. CASE StoreBag(c)
    BY <1>1, <2>4 DEF StoreBag, Elsewhere
  <2> QED BY <2>1, <2>2, <2>3, <2>4 DEF RequestStep
<1>4. PICK r : client' = [client EXCEPT ![c] = r] /\ r.org \in {o, NoOrg}
  <2>1. CASE CommitUpdate(c) \/ Rollback(c) \/ StoreBag(c)
    BY <1>1, <2>1 DEF CommitUpdate, Rollback, StoreBag
  <2>2. CASE BuildForm(c) \/ FindOrganization(c) \/ ReadPending(c)
             \/ SaveOrganization(c)
    <3>1. client' \in [Client -> ClientState]
      BY RequestHolds DEF HostInv, TypeOK
    <3>2. client' = [client EXCEPT ![c] = client'[c]] /\ client'[c].org = o
      BY <1>1, <2>2, <3>1 DEF BuildForm, FindOrganization, ReadPending,
         SaveOrganization, HostInv, TypeOK, ClientState
    <3> QED BY <3>2
  <2> QED BY <2>1, <2>2 DEF RequestStep
<1> QED BY <1>2, <1>3, <1>4, ClientLocal

LEMMA TakeLocal ==
  ASSUME HostInv, NEW o \in Org, TakeJob(o)
  PROVE  Local(o)
<1>1. PICK w \in Worker, n \in Attempt : StartJob(w, o, n)
  BY DEF TakeJob
<1> DEFINE r == [IdleWorker EXCEPT !.pc = "read", !.org = o, !.attempt = n,
                                   !.host = host[o]]
<1>2. worker' = [worker EXCEPT ![w] = r] /\ r.org = o
  BY <1>1 DEF StartJob, IdleWorker
<1> HIDE DEF r
<1>3. /\ raced \subseteq raced' /\ raced' \subseteq raced \cup {o}
      /\ worker[w].org = NoOrg /\ client' = client
  BY <1>1 DEF StartJob, Starts, HostInv, TypeOK
<1>4. Elsewhere(o)
  BY <1>1 DEF StartJob, Elsewhere, HostInv, TypeOK
<1> QED BY <1>2, <1>3, <1>4, WorkerLocal

LEMMA JobLocal ==
  ASSUME HostInv, NEW w \in Worker, JobStep(w) \/ Kill(w),
         NEW o \in Org, o = worker[w].org
  PROVE  Local(o)
<1>1. /\ worker[w] \in WorkerState /\ IdleWorker.org = NoOrg
      /\ host \in [Org -> Host] /\ bag \in [Org -> Bag]
      /\ waiting \in [Org -> [Attempt -> Nat]]
      /\ worker \in [Worker -> WorkerState]
  BY IdleKnows DEF HostInv, TypeOK
<1>2. raced' = raced /\ client' = client
  BY DEF JobStep, ReadBag, NothingToDo, LookupSucceeds, LookupFails, SwitchHost,
         SwitchFails, ClearPending, Kill
<1>3. Elsewhere(o)
  <2>1. CASE ReadBag(w) \/ NothingToDo(w) \/ LookupSucceeds(w)
    BY <2>1 DEF ReadBag, NothingToDo, LookupSucceeds, Elsewhere
  <2>2. CASE LookupFails(w)
    BY <1>1, <2>2 DEF LookupFails, Queue, Elsewhere
  <2>3. CASE SwitchHost(w) \/ SwitchFails(w)
    BY <1>1, <2>3 DEF SwitchHost, SwitchFails, Elsewhere
  <2>4. CASE ClearPending(w)
    BY <1>1, <2>4 DEF ClearPending, Elsewhere
  <2>5. CASE Kill(w)
    BY <1>1, <2>5 DEF Kill, Queue, Elsewhere
  <2> QED BY <2>1, <2>2, <2>3, <2>4, <2>5 DEF JobStep
<1>4. PICK r : worker' = [worker EXCEPT ![w] = r] /\ r.org \in {o, NoOrg}
  <2>1. CASE NothingToDo(w) \/ LookupFails(w) \/ SwitchFails(w)
             \/ ClearPending(w) \/ Kill(w)
    BY <1>1, <2>1
    DEF NothingToDo, LookupFails, SwitchFails, ClearPending, Kill, Finish
  <2>2. CASE ReadBag(w) \/ LookupSucceeds(w) \/ SwitchHost(w)
    <3>1. worker' = [worker EXCEPT ![w] = worker'[w]] /\ worker'[w].org = o
      BY <1>1, <2>2 DEF ReadBag, LookupSucceeds, SwitchHost, WorkerState
    <3> QED BY <3>1
  <2> QED BY <2>1, <2>2 DEF JobStep
<1> QED BY <1>2, <1>3, <1>4, WorkerLocal

LEMMA SerialStep ==
  ASSUME SerialInv, [Next]_vars
  PROVE  SerialInv'
<1>0. HostInv /\ HostInv'
  BY StepHolds DEF SerialInv
<1>1. ASSUME NEW c \in Client, BeginRequest(c)
      PROVE  SerialInv'
  <2>1. PICK o \in Org :
          LoadBag(c, o) \/ \E h \in Host \cup {NoHost} : BeginUpdate(c, o, h)
    BY <1>1 DEF BeginRequest
  <2>2. CASE o \in raced'
    BY <1>0, <2>1, <2>2, BeginLocal, RacedMoves
  <2>3. CASE o \notin raced'
    BY <2>1, <2>3, BeginSerial
  <2> QED BY <2>2, <2>3
<1>2. ASSUME NEW c \in Client, RequestStep(c)
      PROVE  SerialInv'
  <2>1. client[c].org \in Org /\ raced' = raced
    BY <1>0, <1>2, RequestFrames, ActiveOrg
    DEF HostInv, RequestStep, BuildForm, FindOrganization, ReadPending,
        SaveOrganization, CommitUpdate, Rollback, StoreBag
  <2>2. CASE client[c].org \in raced
    BY <1>0, <1>2, <2>1, <2>2, RequestLocal, RacedMoves
  <2> QED BY <1>2, <2>2, RequestSerial
<1>3. ASSUME NEW o \in Org, TakeJob(o)
      PROVE  SerialInv'
  <2>1. CASE o \in raced'
    BY <1>0, <1>3, <2>1, TakeLocal, RacedMoves
  <2> QED BY <1>3, <2>1, TakeSerial
<1>4. ASSUME NEW w \in Worker, JobStep(w) \/ Kill(w)
      PROVE  SerialInv'
  <2>1. worker[w].org \in Org /\ raced' = raced
    BY <1>0, <1>4, ActiveOrg
    DEF HostInv, JobStep, ReadBag, NothingToDo, LookupSucceeds, LookupFails,
        SwitchHost, SwitchFails, ClearPending, Kill
  <2>2. CASE worker[w].org \in raced
    BY <1>0, <1>4, <2>1, <2>2, JobLocal, RacedMoves
  <2> QED BY <1>4, <2>2, JobSerial, KillSerial
<1>5. CASE (\E h \in Host, answer \in SUBSET Ip : ChangeDns(h, answer))
           \/ UNCHANGED vars
  <2>1. UNCHANGED <<host, bag, waiting, client, worker, wanted, noted, gaveUp,
                    raced>>
    BY <1>5 DEF ChangeDns, vars
  <2> QED BY <1>0, <2>1 DEF SerialInv, ClientAlone, ClientKnows, WorkerAlone,
             WorkerKnows, OrgKnows, Aim, Watched, Waits
<1> QED BY <1>1, <1>2, <1>3, <1>4, <1>5 DEF Next

\* What the documentation of the host update says of nil is true of every
\* organization whose requests and jobs never overlapped, even if workers die.
THEOREM HostNilMeansNothing == Spec => []NilMeansNothingToUpdate
<1>1. SerialInv => NilMeansNothingToUpdate
  BY DEF SerialInv, OrgKnows, Aim, NilMeansNothingToUpdate
<1> QED BY <1>1, SerialInit, SerialStep, PTL DEF Spec

\* Nobody's store of the whole bag takes back what an API client stored in it,
\* unless two requests or jobs of the organization were under way at once.
THEOREM HostClientDataKept == Spec => []ClientDataKept
<1>1. SerialInv => ClientDataKept
  BY DEF SerialInv, OrgKnows, ClientDataKept
<1> QED BY <1>1, SerialInit, SerialStep, PTL DEF Spec

\* Without deaths a pending host has its job, or one that gave up, unless two
\* requests or jobs of the organization were under way at once.
THEOREM HostPendingWatched ==
  ASSUME Alive PROVE Spec => []PendingIsWatched
<1>1. SerialInv => PendingIsWatched
  BY DEF SerialInv, OrgKnows, Watched, Waits, PendingIsWatched
<1> QED BY <1>1, SerialInit, SerialStep, PTL DEF Spec

-----------------------------------------------------------------------------
(* The refinement of HostPromise.  Between the two commits of the job the  *)
(* key has the host that was taken, so nothing is pending to somebody      *)
(* outside: the first commit is the whole change-over, the second one, or  *)
(* the job that comes after a death between them, changes nothing.         *)

\* What is stored in a bag grows: nobody stores what he loaded before another
\* client stored something.
NotesGrow ==
  /\ \A o \in Org : bag[o].note <= requests
  /\ \A c \in Client : client[c].pc = "store" =>
       /\ client[c].bag.note <= requests
       /\ client[c].bag.note > bag[client[c].org].note

PromiseInv == SerialInv /\ NotesGrow /\ raced = {}

\* When requests and jobs of one organization may not overlap, none ever do.
LEMMA NobodyRaces ==
  ASSUME Serial, raced = {}, [Next]_vars
  PROVE  raced' = {}
<1>1. ASSUME NEW o \in Org, Starts(o)
      PROVE  raced' = {}
  BY <1>1 DEF Starts, MayStart, Serial
<1>2. ASSUME NEW c \in Client, BeginRequest(c)
      PROVE  raced' = {}
  <2>1. \E o \in Org : Starts(o)
    BY <1>2, Zenon DEF BeginRequest, LoadBag, BeginUpdate
  <2> QED BY <1>1, <2>1
<1>3. ASSUME NEW o \in Org, TakeJob(o)
      PROVE  raced' = {}
  BY <1>1, <1>3 DEF TakeJob, StartJob
<1>4. ASSUME NEW w \in Worker, JobStep(w) \/ Kill(w)
      PROVE  raced' = {}
  BY <1>4 DEF JobStep, ReadBag, NothingToDo, LookupSucceeds, LookupFails, SwitchHost,
              SwitchFails, ClearPending, Kill
<1>5. CASE (\E h \in Host, answer \in SUBSET Ip : ChangeDns(h, answer))
           \/ UNCHANGED vars
  BY <1>5 DEF ChangeDns, vars
<1> QED BY <1>2, <1>3, <1>4, <1>5, RequestFrames DEF Next

\* What SerialInv says of those who have not raced it says of everybody.
LEMMA EverybodyKnows ==
  ASSUME SerialInv, raced = {}
  PROVE  /\ \A c \in Client : ClientAlone(c) /\ ClientKnows(c)
         /\ \A w \in Worker : WorkerKnows(w)
         /\ \A o \in Org : OrgKnows(o)
BY DEF SerialInv

\* What somebody outside sees of an organization.
Outside(o) == <<host[o], Pending(o), bag[o].note>>

LEMMA PromiseInit == Init => PromiseInv /\ Promise!Init
<1> SUFFICES ASSUME Init PROVE PromiseInv /\ Promise!Init
  OBVIOUS
<1>1. SerialInv /\ ready \in SUBSET Host /\ raced = {}
  BY SerialInit DEF Init, SerialInv, HostInv, TypeOK
<1>2. /\ \A o \in Org : /\ bag[o].note = 0 /\ bag[o].unconfirmed = NoHost
                        /\ host[o] \in Host
      /\ \A c \in Client : client[c].pc = "idle" 
      /\ requests = 0 /\ host = FirstHost /\ wanted = FirstHost
  BY HostAssumption DEF Init, EmptyBag, IdleClient
<1>3. NotesGrow
  BY <1>2 DEF NotesGrow
<1>4. \A o \in Org : Pending(o) = NoHost
  BY <1>2 DEF Pending
<1> QED BY <1>1, <1>2, <1>3, <1>4 DEF PromiseInv, Promise!Init

\* A step after which everybody outside sees what he saw.
LEMMA Unseen ==
  ASSUME SerialInv, SerialInv', UNCHANGED <<wanted, ready>>,
         \A o \in Org : Outside(o)' = Outside(o)
  PROVE  UNCHANGED Promise!hostVars
<1>1. host' = host
  BY DEF SerialInv, HostInv, TypeOK, Outside
<1>2. [o \in Org |-> Pending(o)]' = [o \in Org |-> Pending(o)]
  BY DEF Outside
<1>3. [o \in Org |-> bag[o].note]' = [o \in Org |-> bag[o].note]
  BY DEF Outside
<1> QED BY <1>1, <1>2, <1>3 DEF Promise!hostVars

\* The commit of a request is a question for a host.
LEMMA CommitAsks ==
  ASSUME SerialInv, raced = {}, NEW c \in Client, CommitUpdate(c)
  PROVE  /\ \E o \in Org, h \in Host : Promise!Ask(o, h)
         /\ \A p \in Org : bag'[p].note = bag[p].note
<1>1. PICK o \in Org : client[c].pc = "commit" /\ o = client[c].org
  BY ActiveOrg DEF SerialInv, HostInv, CommitUpdate
<1>2. ClientKnows(c) /\ KeepsHost(client[c])
  BY EverybodyKnows DEF SerialInv, HostInv, ReadyIsKnown
<1>3. /\ client[c].formHost = host[o] /\ client[c].seen = host[o]
      /\ client[c].bag = bag[o] /\ client[c].target \in Host
  BY <1>1, <1>2 DEF ClientKnows, KeepsHost
<1>4. PICK h \in Host : h = client[c].target
  BY <1>3
<1> DEFINE new == [client[c].bag EXCEPT !.unconfirmed = Unconfirmed(c)]
<1>5. /\ UNCHANGED <<host, ready>>
      /\ bag' = IF new = bag[o] THEN bag ELSE [bag EXCEPT ![o] = new]
  BY <1>1, <1>3 DEF CommitUpdate
<1>6. bag \in [Org -> Bag] /\ bag[o] \in Bag
  BY DEF SerialInv, HostInv, TypeOK
<1>7. /\ new.unconfirmed = IF h = host[o] THEN NoHost ELSE h
      /\ new.note = bag[o].note
  BY <1>3, <1>4, <1>6 DEF Bag, Unconfirmed
<1> HIDE DEF new
<1>8. bag'[o] = new /\ \A p \in Org : p # o => bag'[p] = bag[p]
  BY <1>5, <1>6
<1>9. \A p \in Org : bag'[p].note = bag[p].note
  BY <1>7, <1>8
<1>10. Pending(o)' = IF h = host[o] THEN NoHost ELSE h
  BY <1>5, <1>7, <1>8 DEF Pending
<1>11. \A p \in Org : p # o => Pending(p)' = Pending(p)
  BY <1>5, <1>8 DEF Pending
<1>12. [p \in Org |-> Pending(p)]' =
         [[p \in Org |-> Pending(p)] EXCEPT ![o] = IF h = host[o] THEN NoHost ELSE h]
  BY <1>10, <1>11
<1>13. [p \in Org |-> bag[p].note]' = [p \in Org |-> bag[p].note]
  BY <1>9
<1>14. wanted' = [wanted EXCEPT ![o] = h]
  <2>1. CASE client[c].asked
    BY <1>1, <1>4, <2>1 DEF CommitUpdate
  <2>2. CASE ~client[c].asked
    <3>1. h = wanted[o] /\ wanted' = wanted /\ wanted \in [Org -> Host]
      BY <1>1, <1>2, <1>4, <2>2, EverybodyKnows
      DEF CommitUpdate, ClientKnows, SerialInv, OrgKnows, HostInv, TypeOK
    <3> QED BY <3>1
  <2> QED BY <2>1, <2>2
<1> QED BY <1>5, <1>9, <1>12, <1>13, <1>14 DEF Promise!Ask

\* The store of the extended-data endpoint leaves the key as it is.
LEMMA StoreStores ==
  ASSUME PromiseInv, NEW c \in Client, StoreBag(c)
  PROVE  \E o \in Org, n \in 1..MaxRequests : Promise!Store(o, n)
<1>1. PICK o \in Org : client[c].pc = "store" /\ o = client[c].org
  BY ActiveOrg DEF PromiseInv, SerialInv, HostInv, StoreBag
<1>2. /\ bag' = [bag EXCEPT ![o] = client[c].bag]
      /\ UNCHANGED <<host, wanted, ready>>
  BY <1>1 DEF StoreBag
<1>3. /\ bag \in [Org -> Bag] /\ bag[o].note \in 0..MaxRequests
      /\ client[c].bag.note \in 0..MaxRequests /\ MaxRequests \in Nat
  BY HostBounds DEF PromiseInv, SerialInv, HostInv, TypeOK, ClientState, Bag
<1>4. client[c].bag.unconfirmed = bag[o].unconfirmed
  BY <1>1, EverybodyKnows DEF PromiseInv, ClientKnows
<1>5. client[c].bag.note > bag[o].note
  BY <1>1 DEF PromiseInv, NotesGrow
<1>6. PICK n \in 1..MaxRequests : n = client[c].bag.note
  BY <1>3, <1>5
<1>7. /\ bag'[o].unconfirmed = bag[o].unconfirmed /\ bag'[o].note = n
      /\ \A p \in Org : p # o => bag'[p] = bag[p]
  BY <1>2, <1>3, <1>4, <1>6
<1>8. [p \in Org |-> Pending(p)]' = [p \in Org |-> Pending(p)]
  BY <1>2, <1>7 DEF Pending
<1>9. [p \in Org |-> bag[p].note]' = [[p \in Org |-> bag[p].note] EXCEPT ![o] = n]
  BY <1>7
<1> QED BY <1>2, <1>5, <1>6, <1>8, <1>9 DEF Promise!Store

\* The first commit of the job is the change-over, unless a job that died left
\* the host changed over already.
LEMMA SwitchSwitches ==
  ASSUME SerialInv, raced = {}, SerialInv', NEW w \in Worker, SwitchHost(w)
  PROVE  (\E o \in Org : Promise!Switch(o)) \/ UNCHANGED Promise!hostVars
<1>1. PICK o \in Org : worker[w].pc = "switch" /\ o = worker[w].org
  BY ActiveOrg DEF SerialInv, HostInv, SwitchHost
<1>2. /\ worker[w].bag = bag[o] /\ bag[o].unconfirmed \in ready
      /\ host \in [Org -> Host]
  BY <1>1, EverybodyKnows DEF SerialInv, WorkerKnows, HostInv, ReadyIsKnown, TypeOK
<1>3. /\ host' = [host EXCEPT ![o] = bag[o].unconfirmed]
      /\ UNCHANGED <<bag, wanted, ready>>
      /\ \A p \in Org \ {o} : host[p] # bag[o].unconfirmed
  BY <1>1, <1>2 DEF SwitchHost, Taken
<1>4. /\ \A p \in Org : p # o => Pending(p)' = Pending(p)
      /\ Pending(o)' = NoHost
  BY <1>2, <1>3 DEF Pending
<1>5. [p \in Org |-> bag[p].note]' = [p \in Org |-> bag[p].note]
  BY <1>3
<1>6. CASE bag[o].unconfirmed # host[o]
  <2>1. Pending(o) = bag[o].unconfirmed
    BY <1>6 DEF Pending
  <2>2. [p \in Org |-> Pending(p)]' = [[p \in Org |-> Pending(p)] EXCEPT ![o] = NoHost]
    BY <1>4
  <2> QED BY <1>2, <1>3, <1>5, <2>1, <2>2 DEF Promise!Switch
<1>7. CASE bag[o].unconfirmed = host[o]
  <2>1. host' = host
    BY <1>2, <1>3, <1>7
  <2>2. \A p \in Org : Outside(p)' = Outside(p)
    BY <1>3, <2>1 DEF Outside, Pending
  <2> QED BY <1>3, <2>2, Unseen
<1> QED BY <1>6, <1>7

\* The second commit is not seen.
LEMMA ClearUnseen ==
  ASSUME SerialInv, raced = {}, SerialInv', NEW w \in Worker, ClearPending(w)
  PROVE  /\ UNCHANGED Promise!hostVars
         /\ \A p \in Org : bag'[p].note = bag[p].note
<1>1. PICK o \in Org : worker[w].pc = "clear" /\ o = worker[w].org
  BY ActiveOrg DEF SerialInv, HostInv, ClearPending
<1>2. /\ worker[w].bag = bag[o] /\ bag[o].unconfirmed = host[o]
      /\ bag \in [Org -> Bag] /\ bag[o] \in Bag /\ host[o] \in Host
  BY <1>1, EverybodyKnows DEF SerialInv, WorkerKnows, HostInv, TypeOK
<1> DEFINE new == [bag[o] EXCEPT !.unconfirmed = NoHost]
<1>3. bag' = [bag EXCEPT ![o] = new] /\ UNCHANGED <<host, wanted, ready>>
  BY <1>1, <1>2 DEF ClearPending
<1>4. new.unconfirmed = NoHost /\ new.note = bag[o].note
  BY <1>2 DEF Bag
<1> HIDE DEF new
<1>5. bag'[o] = new /\ \A p \in Org : p # o => bag'[p] = bag[p]
  BY <1>2, <1>3
<1>6. \A p \in Org : bag'[p].note = bag[p].note
  BY <1>4, <1>5
<1>7. \A p \in Org : Pending(p)' = Pending(p)
  BY <1>2, <1>3, <1>4, <1>5, HostAssumption DEF Pending
<1>8. \A p \in Org : Outside(p)' = Outside(p)
  BY <1>3, <1>6, <1>7 DEF Outside
<1> QED BY <1>3, <1>6, <1>8, Unseen

\* A step that writes no bag and hands out no stamp.
LEMMA NotesStay ==
  ASSUME NotesGrow, SerialInv, requests' \in Nat, requests' >= requests,
         \A o \in Org : bag'[o].note = bag[o].note,
         \A c \in Client : client'[c].pc = "store" => client'[c] = client[c]
  PROVE  NotesGrow'
<1>1. /\ requests \in Nat
      /\ \A o \in Org : bag[o].note \in Nat
      /\ \A c \in Client : /\ client[c].bag.note \in Nat
                           /\ client[c].pc # "idle" => client[c].org \in Org
  BY ActiveOrg, HostBounds DEF SerialInv, HostInv, TypeOK, ClientState, Bag
<1>2. \A o \in Org : bag'[o].note <= requests'
  BY <1>1 DEF NotesGrow
<1>3. ASSUME NEW c \in Client, client'[c].pc = "store"
      PROVE  /\ client'[c].bag.note <= requests'
             /\ client'[c].bag.note > bag'[client'[c].org].note
  <2>1. client'[c] = client[c] /\ client[c].pc = "store" /\ client[c].org \in Org
    BY <1>1, <1>3
  <2>2. /\ client[c].bag.note <= requests
        /\ client[c].bag.note > bag[client[c].org].note
    BY <2>1 DEF NotesGrow
  <2> QED BY <1>1, <2>1, <2>2
<1> QED BY <1>2, <1>3 DEF NotesGrow

LEMMA NotesStep ==
  ASSUME PromiseInv, SerialInv', [Next]_vars
  PROVE  NotesGrow'
<1>0. /\ SerialInv /\ NotesGrow /\ raced = {} /\ client \in [Client -> ClientState]
      /\ bag \in [Org -> Bag] /\ \A o \in Org : bag[o] \in Bag
      /\ requests \in Nat /\ requests' \in Nat
      /\ \A o \in Org : bag[o].note \in Nat
  BY HostBounds DEF PromiseInv, SerialInv, HostInv, TypeOK, Bag
<1>1. ASSUME NEW c \in Client, NEW o \in Org, LoadBag(c, o)
      PROVE  NotesGrow'
  <2> DEFINE new == [bag[o] EXCEPT !.note = requests + 1]
             r == [IdleClient EXCEPT !.pc = "store", !.org = o, !.bag = new]
  <2>1. new.note = requests + 1
    BY <1>0 DEF Bag
  <2>2. /\ client' = [client EXCEPT ![c] = r]
        /\ requests' = requests + 1 /\ UNCHANGED bag
    BY <1>1 DEF LoadBag
  <2> HIDE DEF new
  <2>3. r.pc = "store" /\ r.org = o /\ r.bag = new
    BY DEF IdleClient
  <2> HIDE DEF r
  <2>4. client'[c] = r /\ \A d \in Client : d # c => client'[d] = client[d]
    BY <1>0, <2>2
  <2>5. \A p \in Org : bag'[p].note <= requests'
    BY <1>0, <2>2 DEF NotesGrow
  <2>6. ASSUME NEW d \in Client, client'[d].pc = "store"
        PROVE  /\ client'[d].bag.note <= requests'
               /\ client'[d].bag.note > bag'[client'[d].org].note
    <3>1. CASE d = c
      BY <1>0, <2>1, <2>2, <2>3, <2>4, <3>1 DEF NotesGrow
    <3>2. CASE d # c
      <4>1. client'[d] = client[d] /\ client[d].pc = "store"
        BY <2>4, <2>6, <3>2
      <4>2. client[d].bag.note \in Nat /\ client[d].bag.note <= requests
        BY <1>0, <4>1 DEF NotesGrow, ClientState, Bag
      <4>3. client[d].bag.note > bag[client[d].org].note
        BY <1>0, <4>1 DEF NotesGrow
      <4> QED BY <1>0, <2>2, <4>1, <4>2, <4>3
    <3> QED BY <3>1, <3>2
  <2> QED BY <2>5, <2>6 DEF NotesGrow
<1>2. ASSUME NEW c \in Client, StoreBag(c)
      PROVE  NotesGrow'
  <2>1. PICK o \in Org : client[c].pc = "store" /\ o = client[c].org
    BY <1>0, <1>2, ActiveOrg DEF SerialInv, HostInv, StoreBag
  <2>2. /\ bag' = [bag EXCEPT ![o] = client[c].bag]
        /\ client' = [client EXCEPT ![c] = IdleClient]
        /\ UNCHANGED requests
    BY <1>2, <2>1 DEF StoreBag
  <2>3. client[c].bag.note <= requests
    BY <1>0, <2>1 DEF NotesGrow
  <2>4. \A p \in Org : bag'[p].note <= requests'
    BY <1>0, <2>1, <2>2, <2>3 DEF NotesGrow
  <2>5. client'[c].pc = "idle" /\ \A d \in Client : d # c => client'[d] = client[d]
    BY <1>0, <2>2 DEF IdleClient
  <2>6. \A d \in Client : d # c => client[d].org # o
    BY <1>0, <2>1, HostAssumption, EverybodyKnows DEF ClientAlone
  <2>7. ASSUME NEW d \in Client, client'[d].pc = "store"
        PROVE  /\ client'[d].bag.note <= requests'
               /\ client'[d].bag.note > bag'[client'[d].org].note
    <3>1. d # c /\ client'[d] = client[d] /\ client[d].org # o
      BY <2>5, <2>6, <2>7
    <3>2. client[d].org \in Org
      BY <1>0, <2>7, <3>1, ActiveOrg DEF SerialInv, HostInv
    <3>3. bag'[client[d].org] = bag[client[d].org]
      BY <1>0, <2>2, <3>1, <3>2
    <3> QED BY <1>0, <2>2, <2>7, <3>1, <3>3 DEF NotesGrow
  <2> QED BY <2>4, <2>7 DEF NotesGrow
<1>3. ASSUME NEW c \in Client, CommitUpdate(c)
      PROVE  NotesGrow'
  <2>1. client' = [client EXCEPT ![c] = IdleClient] /\ UNCHANGED requests
    BY <1>3 DEF CommitUpdate
  <2>2. \A d \in Client : client'[d].pc = "store" => client'[d] = client[d]
    BY <1>0, <2>1 DEF IdleClient
  <2>3. \A p \in Org : bag'[p].note = bag[p].note
    BY <1>0, <1>3, CommitAsks
  <2> QED BY <1>0, <2>1, <2>2, <2>3, NotesStay
<1>4. ASSUME NEW w \in Worker, ClearPending(w)
      PROVE  NotesGrow'
  <2>1. UNCHANGED <<client, requests>>
    BY <1>4 DEF ClearPending
  <2>2. \A p \in Org : bag'[p].note = bag[p].note
    BY <1>0, <1>4, ClearUnseen
  <2> QED BY <1>0, <2>1, <2>2, NotesStay
<1>5. ASSUME NEW c \in Client,
             \/ \E o \in Org, h \in Host \cup {NoHost} : BeginUpdate(c, o, h)
             \/ BuildForm(c) \/ FindOrganization(c) \/ ReadPending(c)
             \/ SaveOrganization(c) \/ Rollback(c)
      PROVE  NotesGrow'
  <2>1. /\ UNCHANGED bag /\ requests' >= requests
        /\ client'[c].pc # "store"
        /\ \A d \in Client : d # c => client'[d] = client[d]
    <3>1. CASE \E o \in Org, h \in Host \cup {NoHost} : BeginUpdate(c, o, h)
      BY <1>0, <3>1 DEF BeginUpdate, IdleClient
    <3>2. CASE BuildForm(c)
      BY <1>0, <3>2 DEF BuildForm, ClientState
    <3>3. CASE FindOrganization(c) \/ ReadPending(c) \/ SaveOrganization(c)
      BY <1>0, <3>3 DEF FindOrganization, ReadPending, SaveOrganization, ClientState
    <3>4. CASE Rollback(c)
      BY <1>0, <3>4 DEF Rollback, IdleClient
    <3> QED BY <1>5, <3>1, <3>2, <3>3, <3>4
  <2> QED BY <1>0, <2>1, NotesStay
<1>6. CASE \/ \E o \in Org : TakeJob(o)
           \/ \E w \in Worker :
                \/ ReadBag(w) \/ NothingToDo(w) \/ LookupSucceeds(w)
                \/ LookupFails(w) \/ SwitchHost(w) \/ SwitchFails(w) \/ Kill(w)
           \/ \E h \in Host, answer \in SUBSET Ip : ChangeDns(h, answer)
           \/ UNCHANGED vars
  <2>1. UNCHANGED <<bag, client, requests>>
    BY <1>6, Zenon DEF TakeJob, StartJob, ReadBag, NothingToDo, LookupSucceeds, LookupFails,
                SwitchHost, SwitchFails, Kill, ChangeDns, vars
  <2> QED BY <1>0, <2>1, NotesStay
<1> QED BY <1>1, <1>2, <1>3, <1>4, <1>5, <1>6
        DEF Next, BeginRequest, RequestStep, JobStep

\* Every step is one of the promise's or is not seen.
LEMMA StepIsPromised ==
  ASSUME PromiseInv, SerialInv', [Next]_vars
  PROVE  [Promise!Next]_(Promise!hostVars)
<1>0. SerialInv /\ raced = {}
  BY DEF PromiseInv
<1>1. CASE \E c \in Client : CommitUpdate(c)
  BY <1>0, <1>1, CommitAsks DEF Promise!Next
<1>2. CASE \E c \in Client : StoreBag(c)
  BY <1>2, StoreStores DEF Promise!Next
<1>3. CASE \E w \in Worker : SwitchHost(w)
  BY <1>0, <1>3, SwitchSwitches DEF Promise!Next
<1>4. CASE \E w \in Worker : ClearPending(w)
  BY <1>0, <1>4, ClearUnseen
<1>5. CASE \E h \in Host, answer \in SUBSET Ip : ChangeDns(h, answer)
  <2>1. PICK h \in Host, answer \in SUBSET Ip : ChangeDns(h, answer)
    BY <1>5
  <2>2. UNCHANGED <<host, bag, wanted>>
    BY <2>1 DEF ChangeDns
  <2>3. \A o \in Org : Outside(o)' = Outside(o)
    BY <2>2 DEF Outside, Pending
  <2>4. CASE ready' = ready
    BY <1>0, <2>2, <2>3, <2>4, Unseen
  <2>5. CASE ready' = ready \cup {h}
    <3>1. /\ [o \in Org |-> Pending(o)]' = [o \in Org |-> Pending(o)]
          /\ [o \in Org |-> bag[o].note]' = [o \in Org |-> bag[o].note]
      BY <2>2 DEF Pending
    <3> QED BY <2>2, <2>5, <3>1 DEF Promise!Next, Promise!SetUp
  <2> QED BY <2>1, <2>4, <2>5 DEF ChangeDns
<1>6. CASE \/ \E c \in Client : \/ BeginRequest(c) \/ BuildForm(c)
                                \/ FindOrganization(c) \/ ReadPending(c)
                                \/ SaveOrganization(c) \/ Rollback(c)
           \/ \E o \in Org : TakeJob(o)
           \/ \E w \in Worker :
                \/ ReadBag(w) \/ NothingToDo(w) \/ LookupSucceeds(w)
                \/ LookupFails(w) \/ SwitchFails(w) \/ Kill(w)
           \/ UNCHANGED vars
  <2>1. UNCHANGED <<host, bag, wanted, ready>>
    BY <1>6, Zenon DEF BeginRequest, LoadBag, BeginUpdate, BuildForm, FindOrganization,
                ReadPending, SaveOrganization, Rollback, TakeJob, StartJob, ReadBag,
                NothingToDo, LookupSucceeds, LookupFails, SwitchFails, Kill, vars
  <2>2. \A o \in Org : Outside(o)' = Outside(o)
    BY <2>1 DEF Outside, Pending
  <2> QED BY <1>0, <2>1, <2>2, Unseen
<1> QED BY <1>1, <1>2, <1>3, <1>4, <1>5, <1>6 DEF Next, RequestStep, JobStep

\* Without overlap the two commits of the job are one change-over to everybody
\* else, wherever workers die and jobs are lost, and every other write of the bag
\* is a question for a host or a client's own store.
THEOREM HostSwitchIsOneStep ==
  ASSUME Serial PROVE Spec => SwitchIsOneStep
<1>1. Init => PromiseInv /\ Promise!Init
  BY PromiseInit
<1>2. PromiseInv /\ [Next]_vars => PromiseInv' /\ [Promise!Next]_(Promise!hostVars)
  <2> SUFFICES ASSUME PromiseInv, [Next]_vars
               PROVE  PromiseInv' /\ [Promise!Next]_(Promise!hostVars)
    OBVIOUS
  <2>1. SerialInv'
    BY SerialStep DEF PromiseInv
  <2>2. raced' = {}
    BY NobodyRaces DEF PromiseInv
  <2> QED BY <2>1, <2>2, NotesStep, StepIsPromised DEF PromiseInv
<1> QED BY <1>1, <1>2, PTL DEF Spec, SwitchIsOneStep, Promise!Spec
=============================================================================

------------------------------ MODULE Caching -------------------------------
(***************************************************************************)
(* The reading of proposals with conditional GET while others write.  An   *)
(* answer is put together by several queries, its validator by one of them *)
(* or by a later one; a writer takes the time of its stamp before the      *)
(* commit that shows it.  One client reads one URL again and again and     *)
(* sends the validator it got last.                                        *)
(***************************************************************************)
EXTENDS ExtendedData, FiniteSets

CONSTANTS
  Item,       \* the proposals
  Writer,     \* the writes under way at a time
  Me, Other,  \* the user the client acts for, another one
  NoHash,      \* a resource without its row of extended data
  Update,     \* records of an object_path and data, as PUT sends them
  FirstHash,  \* what the proposals there have as extended data at first
  Url,        \* records of a kind of page, an item and an object_path
  MaxWrites   \* a bound: so many writes begin

Kind == {"index", "show", "data"}

ASSUME CachingAssumption ==
  /\ IsFiniteSet(Item)
  /\ NoHash \notin Hash
  /\ MaxWrites \in Nat
  /\ FirstHash \subseteq Hash \cup {NoHash}
  /\ Update \subseteq
       {u \in [path : ObjectPath, datum : Datum] :
          \A r \in DOMAIN u.datum : u.path \o r \in ObjectPath}
  /\ Url \subseteq [kind : Kind, item : Item, path : ObjectPath]

VARIABLES
  clock,    \* the last time taken
  rows,     \* the published proposals with their updated_at
  hashes,     \* the rows of extended data
  votes,    \* the votes with their updated_at
  writers,  \* the writes under way
  reader,   \* the request of the client
  cache,    \* what the client keeps of its URL
  begun     \* writes begun so far

vars == <<clock, rows, hashes, votes, writers, reader, cache, begun>>

Operation == {"put", "save", "destroy", "vote", "unvote"}

Nowhere == [path |-> <<>>, datum |-> EmptyHash]

\* What is seen of an item on a page.
Nothing == [there |-> FALSE, stamp |-> 0, hash |-> NoHash, voted |-> FALSE]

NoPage == [i \in Item |-> Nothing]

NoWrite == [at |-> "idle", op |-> "none", item |-> "none", user |-> "none",
            path |-> <<>>, datum |-> EmptyHash, hash |-> NoHash, stamp |-> 0,
            overtaken |-> FALSE]

\* `tag` is the updated_at loaded first, `left` the items that miss their details.
NoRequest == [url |-> Nowhere, at |-> "idle", page |-> NoPage, tag |-> 0,
              left |-> {}, overlap |-> FALSE]

Init ==
  /\ clock = 0
  /\ rows \in [Item -> [state : {"absent", "there"}, stamp : {0}]]
  /\ \E hash \in FirstHash :
       hashes = [i \in Item |-> IF rows[i].state = "there" THEN hash ELSE NoHash]
  /\ votes = {}
  /\ writers = [w \in Writer |-> NoWrite]
  /\ \E u \in Url :
       reader = [NoRequest EXCEPT !.url = u]
  /\ cache = [held |-> FALSE, page |-> NoPage, tag |-> 0, why |-> {}]
  /\ begun = 0

There(i) == i \in Item /\ rows[i].state = "there"

Voted(i) == \E v \in votes : v.item = i /\ v.user = Me

\* A proposal links to the ones next to it.
OnPage(url, i) == url.kind # "data" \/ url.item = i

(* The validators *)

Latest(stamps) == CHOOSE t \in stamps \cup {0} : \A s \in stamps : s <= t

\* CollectionFingerprint: the latest updated_at of the relation.
CollectionTag == Latest({rows[i].stamp : i \in {j \in Item : There(j)}})

\* ProposalShowFingerprint: the row and its votes, 0 when it is gone.
ShowTag(i) ==
  IF There(i)
  THEN Latest({rows[i].stamp} \cup {v.stamp : v \in {x \in votes : x.item = i}})
  ELSE 0

\* The validator the database has for a URL.
TagNow(url) ==
  IF url.kind = "index" THEN CollectionTag
  ELSE IF url.kind = "show" THEN ShowTag(url.item)
  ELSE rows[url.item].stamp

\* What the page of a URL shows of an item: a list has its extended data, a
\* proposal alone does not, extended data alone are read at a path.
Shown(url, i) ==
  LET listed == url.kind = "index" \/ (url.kind = "show" /\ url.item = i)
  IN  [there |-> TRUE,
       stamp |-> IF listed THEN rows[i].stamp ELSE 0,
       hash |-> IF url.kind = "index" THEN hashes[i]
               ELSE IF url.kind = "show" \/ hashes[i] = NoHash THEN NoHash
               ELSE At(hashes[i], url.path),
       voted |-> listed /\ Voted(i)]

PageNow(url) ==
  [i \in Item |-> IF OnPage(url, i) /\ There(i) THEN Shown(url, i) ELSE Nothing]

\* What a commit that touches an item does to the request under way and to the
\* page kept, `causes` being why the validator may not tell.
Disturb(i, causes) ==
  /\ reader' = [reader EXCEPT !.overlap =
                  @ \/ (reader.at # "idle" /\ OnPage(reader.url, i))]
  /\ cache' = [cache EXCEPT !.why =
                 IF cache.held /\ OnPage(reader.url, i) THEN @ \cup causes ELSE @]

\* A stamp below one that is out already.
Late(stamp) == {c \in {"late"} : stamp < TagNow(reader.url)}

\* A proposal is shown without a look at the ones it links to.
Beside(i) ==
  {c \in {"neighbour"} : reader.url.kind = "show" /\ reader.url.item # i}

Done(w) == writers' = [writers EXCEPT ![w] = NoWrite]

(* Writers *)

\* A write of an item begins.
Begin(w, write) ==
  /\ begun < MaxWrites
  /\ writers[w].at = "idle"
  /\ writers' = [writers EXCEPT ![w] = write]
  /\ begun' = begun + 1
  /\ UNCHANGED <<rows, hashes, votes, reader, cache>>

\* A PUT finds the proposal and looks for its row.
BeginPut(w, i) ==
  /\ There(i)
  /\ Begin(w, [NoWrite EXCEPT !.op = "put", !.item = i,
                 !.at = IF hashes[i] = NoHash THEN "insert" ELSE "ensured"])
  /\ UNCHANGED clock

\* A write whose updated_at is taken, the statement and the commit follow.
Stamped(op, i, user) ==
  [NoWrite EXCEPT !.at = "stamped", !.op = op, !.item = i, !.user = user,
                  !.stamp = clock + 1]

\* Decidim stores a proposal, a new one or one that is there.
BeginSave(w, i) ==
  /\ rows[i].state # "gone"
  /\ Begin(w, Stamped("save", i, "none"))
  /\ clock' = clock + 1

BeginVote(w, i, user) ==
  /\ There(i)
  /\ Begin(w, Stamped("vote", i, user))
  /\ clock' = clock + 1

\* The row is inserted and touches its resource.
CreateRow(i) ==
  /\ hashes' = [hashes EXCEPT ![i] = EmptyHash]
  /\ clock' = clock + 1
  /\ rows' = [rows EXCEPT ![i].stamp = clock + 1]

\* Mutant of Insert: no index keeps the row that is there.
InsertAgain(w) ==
  LET i == writers[w].item
  IN  /\ writers[w].at = "insert"
      /\ IF There(i)
         THEN /\ CreateRow(i) /\ Disturb(i, {})
              /\ writers' = [writers EXCEPT ![w].at = "ensured"]
         ELSE Done(w) /\ UNCHANGED <<clock, rows, hashes, reader, cache>>
      /\ UNCHANGED <<votes, begun>>

\* The insert of create_extended_data!: the unique index raises when another
\* request was faster.
Insert(w) ==
  LET i == writers[w].item
  IN  /\ writers[w].at = "insert"
      /\ IF There(i) /\ hashes[i] = NoHash
         THEN /\ CreateRow(i) /\ Disturb(i, {})
              /\ writers' = [writers EXCEPT ![w].at = "ensured"]
         ELSE Done(w) /\ UNCHANGED <<clock, rows, hashes, reader, cache>>
      /\ UNCHANGED <<votes, begun>>

\* The hash is loaded and what the PUT sends is merged; a merge that changes
\* nothing stores nothing.
Load(w, update) ==
  LET i == writers[w].item
  IN  /\ writers[w].at = "ensured"
      /\ There(i)
      /\ \E hash \in Merges(hashes[i], update.path, update.datum) :
           IF hash = hashes[i] THEN Done(w)
           ELSE writers' = [writers EXCEPT ![w].at = "ready", ![w].hash = hash,
                              ![w].path = update.path, ![w].datum = update.datum]
      /\ UNCHANGED <<clock, rows, hashes, votes, reader, cache, begun>>

\* The resource is not found, the merge raises, the hash is too large.
Refuse(w) ==
  /\ writers[w].at = "ensured"
  /\ Done(w)
  /\ UNCHANGED <<clock, rows, hashes, votes, reader, cache, begun>>

\* A put has written its hash: others wait for the row until it commits.
Locked(i) ==
  \E w \in Writer : /\ writers[w].op = "put" /\ writers[w].item = i
                   /\ writers[w].at = "stamped"

\* A put writes its hash, has the row, and takes the time of its touch.
Stamp(w) ==
  /\ writers[w].at = "ready" /\ ~Locked(writers[w].item)
  /\ clock' = clock + 1
  /\ writers' = [writers EXCEPT ![w].at = "stamped", ![w].stamp = clock + 1]
  /\ UNCHANGED <<rows, hashes, votes, reader, cache, begun>>

\* The other updates of the item that loaded its hash before.
Overtake(w) ==
  writers' = [x \in Writer |->
    IF x = w THEN NoWrite
    ELSE [writers[x] EXCEPT !.overtaken =
            @ \/ (writers[x].op = "put" /\ writers[x].item = writers[w].item
                  /\ writers[x].at = "ready")]]

\* Mutant of CommitPut: the resource is not touched.
CommitPutUntouched(w) ==
  LET i == writers[w].item
  IN  /\ writers[w].at = "stamped" /\ writers[w].op = "put"
      /\ IF There(i)
         THEN /\ hashes' = [hashes EXCEPT ![i] = writers[w].hash]
              /\ Overtake(w) /\ Disturb(i, Late(writers[w].stamp))
         ELSE Done(w) /\ UNCHANGED <<hashes, reader, cache>>
      /\ UNCHANGED <<clock, rows, votes, begun>>

\* The hash is stored as a whole and the resource touched; on a row that is
\* gone meanwhile nothing is stored and the reload raises.
CommitPut(w) ==
  LET i == writers[w].item
  IN  /\ writers[w].at = "stamped" /\ writers[w].op = "put"
      /\ IF There(i)
         THEN /\ hashes' = [hashes EXCEPT ![i] = writers[w].hash]
              /\ rows' = [rows EXCEPT ![i].stamp = writers[w].stamp]
              /\ Overtake(w) /\ Disturb(i, Late(writers[w].stamp))
         ELSE Done(w) /\ UNCHANGED <<rows, hashes, reader, cache>>
      /\ UNCHANGED <<clock, votes, begun>>

\* A new proposal gets its row of extended data after it is created.
CommitSave(w) ==
  LET i == writers[w].item
  IN  /\ writers[w].at = "stamped" /\ writers[w].op = "save"
      /\ IF rows[i].state # "gone"
         THEN /\ rows' = [rows EXCEPT ![i] =
                            [state |-> "there", stamp |-> writers[w].stamp]]
              /\ hashes' = [hashes EXCEPT ![i] =
                            IF There(i) THEN @ ELSE EmptyHash]
              /\ Disturb(i, Late(writers[w].stamp) \cup Beside(i))
         ELSE UNCHANGED <<rows, hashes, reader, cache>>
      /\ Done(w)
      /\ UNCHANGED <<clock, votes, begun>>

\* A vote does not touch its proposal: the list cannot tell.
CommitVote(w) ==
  LET i == writers[w].item
      user == writers[w].user
  IN  /\ writers[w].at = "stamped" /\ writers[w].op = "vote"
      /\ IF There(i) /\ ~\E v \in votes : v.item = i /\ v.user = user
         THEN /\ votes' = votes \cup
                   {[item |-> i, user |-> user, stamp |-> writers[w].stamp]}
              /\ Disturb(i, Late(writers[w].stamp)
                              \cup {c \in {"vote"} : reader.url.kind = "index"})
         ELSE UNCHANGED <<votes, reader, cache>>
      /\ Done(w)
      /\ UNCHANGED <<clock, rows, hashes, begun>>

\* A vote is withdrawn.
Unvote(v) ==
  /\ begun < MaxWrites
  /\ v \in votes
  /\ votes' = votes \ {v}
  /\ begun' = begun + 1
  /\ Disturb(v.item, {"removal"})
  /\ UNCHANGED <<clock, rows, hashes, writers>>

\* A proposal goes, with its extended data and its votes.
Destroy(i) ==
  /\ begun < MaxWrites
  /\ There(i) /\ ~Locked(i)
  /\ rows' = [rows EXCEPT ![i] = [state |-> "gone", stamp |-> 0]]
  /\ hashes' = [hashes EXCEPT ![i] = NoHash]
  /\ votes' = {v \in votes : v.item # i}
  /\ begun' = begun + 1
  /\ Disturb(i, {"removal"})
  /\ UNCHANGED <<clock, writers>>

(* The reader *)

\* The first query: the proposals listed, or the one asked for.
Ask ==
  LET url == reader.url
      found == {i \in Item : There(i) /\ (url.kind = "index" \/ url.item = i)}
  IN  /\ reader.at = "idle"
      /\ url.kind = "index" \/ found # {}
      /\ reader' = [reader EXCEPT
           !.at = IF url.kind = "data" THEN "ensure" ELSE "details",
           !.page = [i \in Item |->
             IF i \in found
             THEN [Nothing EXCEPT !.there = TRUE,
                                  !.stamp = IF url.kind = "data" THEN 0
                                            ELSE rows[i].stamp]
             ELSE Nothing],
           !.tag = IF url.kind = "data" THEN rows[url.item].stamp ELSE 0,
           !.left = IF url.kind = "show" THEN Item ELSE found,
           !.overlap = FALSE]
      /\ UNCHANGED <<clock, rows, hashes, votes, writers, cache, begun>>

\* The queries made for each proposal while it is serialized.
ReadDetails(i) ==
  LET url == reader.url
      hash == IF url.kind = "index" THEN hashes[i] ELSE reader.page[i].hash
  IN  /\ reader.at = "details" /\ i \in reader.left
      /\ reader' = [reader EXCEPT
           !.left = @ \ {i},
           !.page[i] = IF url.kind = "show" /\ url.item # i THEN PageNow(url)[i]
                       ELSE [@ EXCEPT !.hash = hash, !.voted = Voted(i)]]
      /\ UNCHANGED <<clock, rows, hashes, votes, writers, cache, begun>>

\* ensure_resource_extended_data of a GET: the row found is the one read.
ReadHash ==
  LET i == reader.url.item
  IN  /\ reader.at = "ensure"
      /\ reader' = IF hashes[i] = NoHash THEN [reader EXCEPT !.at = "insert"]
                   ELSE [reader EXCEPT !.at = "details", !.left = {},
                           !.page[i].hash = At(hashes[i], reader.url.path)]
      /\ UNCHANGED <<clock, rows, hashes, votes, writers, cache, begun>>

\* A GET that finds no row creates it, its touch is known to the loaded proposal.
ReadMissingHash ==
  LET i == reader.url.item
  IN  /\ reader.at = "insert"
      /\ IF There(i) /\ hashes[i] = NoHash
         THEN /\ CreateRow(i)
              /\ reader' = [reader EXCEPT !.at = "details", !.left = {},
                              !.page[i].hash = EmptyHash, !.tag = clock + 1]
         ELSE /\ reader' = [reader EXCEPT !.at = "idle"]
              /\ UNCHANGED <<clock, rows, hashes>>
      /\ UNCHANGED <<votes, writers, cache, begun>>

\* Mutant of Validator: the proposal is read again for its fingerprint.
ValidatorReadAgain == TagNow(reader.url)

\* fingerprint.etag, asked for after the payload is made.
Validator == IF reader.url.kind = "data" THEN reader.tag ELSE TagNow(reader.url)

\* stale? answers 304 to the validator the client holds and the page otherwise.
Respond ==
  /\ reader.at = "details" /\ reader.left = {}
  /\ cache' = IF cache.held /\ cache.tag = Validator THEN cache
              ELSE [held |-> TRUE, page |-> reader.page, tag |-> Validator,
                    why |-> {c \in {"overlap"} : reader.overlap}]
  /\ reader' = [reader EXCEPT !.at = "idle", !.page = NoPage, !.tag = 0,
                              !.overlap = FALSE]
  /\ UNCHANGED <<clock, rows, hashes, votes, writers, begun>>

Write(w) ==
  \/ \E i \in Item : BeginPut(w, i) \/ BeginSave(w, i)
  \/ \E i \in Item, user \in {Me, Other} : BeginVote(w, i, user)
  \/ \E update \in Update : Load(w, update)
  \/ Insert(w) \/ Refuse(w) \/ Stamp(w)
  \/ CommitPut(w) \/ CommitSave(w) \/ CommitVote(w)

Read ==
  \/ Ask \/ ReadHash \/ ReadMissingHash \/ Respond
  \/ \E i \in Item : ReadDetails(i)

Next ==
  \/ \E w \in Writer : Write(w)
  \/ \E v \in votes : Unvote(v)
  \/ \E i \in Item : Destroy(i)
  \/ Read

Spec == Init /\ [][Next]_vars

(* Properties *)

LeavesOf(i) == IF hashes[i] = NoHash THEN EmptyHash ELSE hashes[i]

Stamps == Nat

Page == [Item -> [there : BOOLEAN, stamp : Stamps, hash : Found \cup {NoHash},
                  voted : BOOLEAN]]

Place == {"idle", "insert", "ensured", "ready", "stamped"}

\* The state has its types; a hash that is stored is one without blanks.
TypeOK ==
  /\ clock \in Nat
  /\ rows \in [Item -> [state : {"absent", "there", "gone"}, stamp : Stamps]]
  /\ hashes \in [Item -> Hash \cup {NoHash}]
  /\ votes \subseteq [item : Item, user : {Me, Other}, stamp : Stamps]
  /\ writers \in [Writer ->
       [at : Place, op : Operation \cup {"none"}, item : Item \cup {"none"},
        user : {Me, Other, "none"}, path : ObjectPath,
        datum : Datum \cup {EmptyHash}, hash : Hash \cup {NoHash},
        stamp : Stamps, overtaken : BOOLEAN]]
  /\ reader \in [url : Url, at : {"idle", "ensure", "insert", "details"},
                 page : Page, tag : Stamps, left : SUBSET Item, overlap : BOOLEAN]
  /\ cache \in [held : BOOLEAN, page : Page, tag : Stamps,
                why : SUBSET {"overlap", "late", "removal", "vote", "neighbour"}]
  /\ begun \in 0..MaxWrites

\* The client is told that nothing changed while its page is another one now.
Stale ==
  /\ cache.held /\ cache.tag = TagNow(reader.url)
  /\ reader.url.kind = "index" \/ There(reader.url.item)
  /\ cache.page # PageNow(reader.url)

\* A list or a proposal that is answered 304 is the one the client holds, unless
\* a write overlapped the request that fetched it, or since then one committed
\* below a stamp that was out, something was taken away, a proposal of the list
\* was voted for or one beside the proposal was written.
StaleHasCause == Stale => cache.why # {}

\* Extended data are never answered 304 when they changed: the proposal is loaded
\* with its updated_at before its hash, and a write of the hash touches it.
DataNeverStale == reader.url.kind = "data" => ~Stale

\* A leaf is lost or changed in a step that leaves its proposal.
Changed(i, q) ==
  There(i)' /\ ~(q \in DOMAIN LeavesOf(i)' /\ LeavesOf(i)'[q] = LeavesOf(i)[q])

PutCommits(w, i) ==
  writers[w].op = "put" /\ writers[w].item = i /\ writers[w].at = "stamped"

\* A leaf of the hash of a proposal that stays is left alone by all but the update
\* that names it and the update that was overtaken while it merged.
RestKept ==
  [][\A i \in Item : \A q \in DOMAIN LeavesOf(i) : Changed(i, q) =>
       \E w \in Writer :
         /\ PutCommits(w, i)
         /\ \/ Names(writers[w].path, writers[w].datum, q)
            \/ writers[w].overtaken]_vars

\* The documented semantics, a recursive merge at object_path: nested hashes
\* merge, so an update changes the leaves it sends and what is in their way.
MergesRecursively ==
  [][\A i \in Item : \A q \in DOMAIN LeavesOf(i) : Changed(i, q) =>
       \E w \in Writer :
         /\ PutCommits(w, i)
         /\ \/ Reaches(writers[w].path, writers[w].datum, q)
            \/ writers[w].overtaken]_vars
=============================================================================

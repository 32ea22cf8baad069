------------------------------- MODULE Drafts -------------------------------
(***************************************************************************)
(* The proposals of one component and the votes for them, as the requests  *)
(* and workers of the API write them.  Every operation runs in one         *)
(* transaction of READ COMMITTED: a statement sees what others committed   *)
(* before it, and its own writes are seen by all when the operation ends.  *)
(* What a transaction writes it writes last, on rows found by id, so the   *)
(* write and the commit are one step.                                      *)
(***************************************************************************)
EXTENDS Naturals, FiniteSets

CONSTANTS
  User,         \* the participants
  Client,       \* the API clients
  Proposal,     \* a bound: so many rows are ever inserted
  Request,      \* the operations under way at a time
  Field,        \* allowed_data_keys
  Roaming,      \* a bound: the operations that may name another space
  Limit,        \* proposal_limit of the component, 0 for none
  MaxRequests   \* a bound: so many operations are begun

ASSUME DraftAssumption ==
  /\ IsFiniteSet(Proposal)
  /\ Limit \in Nat
  /\ MaxRequests \in Nat

VARIABLES
  rows,        \* the rows of proposals
  votes,       \* the rows of votes, unique per author and proposal
  announced,   \* how often the publication of a proposal was announced
  requests,    \* the operations under way
  nulls,       \* the users a publication was answered null to
  raced,       \* the users that had two operations under way at once
  strayed,     \* the users a draft was asked for with another space's filter
  begun        \* operations begun so far

vars   == <<rows, votes, announced, requests, nulls, raced, strayed, begun>>
ghosts == <<raced, strayed, begun>>

Operation == {"create", "update", "publish", "destroy", "vote", "unvote"}

\* What a field holds: NULL, the empty hash, or a text in some locale.
Text   == [Field -> {"null", "empty", "filled"}]
NoText == [f \in Field |-> "null"]
Filled == [f \in Field |-> "filled"]

NoRow == [state |-> "none", author |-> "nobody", client |-> "nobody",
          text |-> NoText]

\* Mutant of NewRow: the coauthor recorded is the client.
NewRowOfClient(u, c) == [NoRow EXCEPT !.state = "draft", !.author = c, !.client = c]

\* create_new_draft inserts without validation, title and body are NULL.
NewRow(u, c) == [NoRow EXCEPT !.state = "draft", !.author = u, !.client = c]

Idle == [at |-> "idle", op |-> "none", user |-> "nobody", client |-> "nobody",
         proposal |-> "none", elsewhere |-> FALSE, payload |-> {}, seen |-> NoText]

Init ==
  /\ rows = [p \in Proposal |-> NoRow]
  /\ votes = {}
  /\ announced = [p \in Proposal |-> 0]
  /\ requests = [r \in Request |-> Idle]
  /\ nulls = {}
  /\ raced = {}
  /\ strayed = {}
  /\ begun = 0

Present(p) == p \in Proposal /\ rows[p].state \in {"draft", "published"}

DraftsOf(u) == {p \in Proposal : rows[p].state = "draft" /\ rows[p].author = u}

PublishedOf(u) ==
  {p \in Proposal : rows[p].state = "published" /\ rows[p].author = u}

\* filter_for_context: nothing is left of the component when the request names
\* another space than its own.
InContext(r, found) == IF requests[r].elsewhere THEN {} ELSE found

\* collection: the drafts of the user, whatever client made them.
Collection(r) == InContext(r, DraftsOf(requests[r].user))

Active(r) == requests[r].at # "idle"

At(r, op, place) == requests[r].op = op /\ requests[r].at = place

Answer(r, answer) ==
  /\ requests' = [requests EXCEPT ![r] = Idle]
  /\ nulls' = nulls \cup {u \in {requests[r].user} : answer = "null"}

GoOn(r, place) ==
  /\ requests' = [requests EXCEPT ![r].at = place]
  /\ UNCHANGED nulls

\* What an operation is begun with.  An update without a key of Field only reads
\* and is left out; votes do not look at the client.
Input ==
  {i \in [op : Operation, user : User, client : Client \cup {"nobody"},
          proposal : Proposal \cup {"none"}, elsewhere : BOOLEAN,
          payload : SUBSET Field] :
     /\ i.elsewhere => i.op \in Roaming
     /\ i.op = "create" <=> i.proposal = "none"
     /\ i.op = "update" <=> i.payload # {}
     /\ i.op \in {"vote", "unvote"} <=> i.client = "nobody"}

\* A request, or a worker with the payload of a job, begins an operation; both
\* carry the space_manifest and space_id of the query.  Nobody knows the id of a
\* row that was never made.
Begin(r, i) ==
  /\ begun < MaxRequests
  /\ ~Active(r)
  /\ i.op # "create" => rows[i.proposal].state # "none"
  /\ requests' = [requests EXCEPT ![r] =
                    [at |-> "begun", op |-> i.op, user |-> i.user,
                     client |-> i.client, proposal |-> i.proposal,
                     elsewhere |-> i.elsewhere, payload |-> i.payload,
                     seen |-> NoText]]
  /\ raced' = raced \cup {u \in {i.user} :
                  \E q \in Request : Active(q) /\ requests[q].user = u}
  /\ strayed' = strayed \cup {u \in {i.user} : i.op = "create" /\ i.elsewhere}
  /\ begun' = begun + 1
  /\ UNCHANGED <<rows, votes, announced, nulls>>

(* create! *)

\* Mutant of CheckDraft: only the drafts of the same client are looked for.
CheckDraftOfClient(r) ==
  /\ At(r, "create", "begun")
  /\ IF {p \in Collection(r) : rows[p].client = requests[r].client} # {}
     THEN Answer(r, "refused")
     ELSE GoOn(r, "checked")
  /\ UNCHANGED <<rows, votes, announced, ghosts>>

\* One draft per user and component, of those in the context of the request; no
\* index backs the check.
CheckDraft(r) ==
  /\ At(r, "create", "begun")
  /\ IF Collection(r) # {}
     THEN Answer(r, "refused")
     ELSE GoOn(r, "checked")
  /\ UNCHANGED <<rows, votes, announced, ghosts>>

\* Mutant of LimitReached: one proposal too many.
LimitExceeded(u) == Limit # 0 /\ Cardinality(PublishedOf(u)) > Limit

\* limit_reached?
LimitReached(u) == Limit # 0 /\ Cardinality(PublishedOf(u)) >= Limit

CheckLimit(r) ==
  /\ At(r, "create", "checked")
  /\ IF LimitReached(requests[r].user)
     THEN Answer(r, "refused")
     ELSE GoOn(r, "allowed")
  /\ UNCHANGED <<rows, votes, announced, ghosts>>

\* The row, its coauthorship and its application id, one transaction.  The
\* component is found without the filter.
CreateDraft(r) ==
  /\ At(r, "create", "allowed")
  /\ \E p \in Proposal :
       /\ rows[p].state = "none"
       /\ rows' = [rows EXCEPT ![p] =
                     NewRow(requests[r].user, requests[r].client)]
  /\ Answer(r, "ok")
  /\ UNCHANGED <<votes, announced, ghosts>>

(* update!, publish! and destroy! *)

\* Mutant of Mine: published_at is not looked at.
MineWhateverState(r, p) ==
  /\ p \in InContext(r, {q \in Proposal : Present(q)})
  /\ rows[p].author = requests[r].user
  /\ rows[p].client = requests[r].client

\* Mutant of Mine: the drafts of the client, whoever their author is.
MineOfAnyAuthor(r, p) ==
  /\ p \in InContext(r, {q \in Proposal : rows[q].state = "draft"})
  /\ rows[p].client = requests[r].client

\* draft_record: a draft of the user that this client made.
Mine(r, p) ==
  /\ p \in Collection(r)
  /\ rows[p].client = requests[r].client

Load(r) ==
  /\ requests[r].op \in {"update", "publish", "destroy"}
  /\ requests[r].at = "begun"
  /\ LET p == requests[r].proposal
     IN  IF Mine(r, p)
         THEN /\ requests' = [requests EXCEPT ![r].at = "loaded",
                                              ![r].seen = rows[p].text]
              /\ UNCHANGED nulls
         ELSE Answer(r, "refused")
  /\ UNCHANGED <<rows, votes, announced, ghosts>>

\* Mutant of Overlaid: what the payload does not bring is emptied.
OverlaidOnly(seen, payload) ==
  [f \in Field |-> IF f \in payload THEN "filled" ELSE "empty"]

\* The record in memory: both fields are moved to the current locale, where NULL
\* becomes the empty hash, and the payload is laid over them.
Overlaid(seen, payload) ==
  [f \in Field |-> IF f \in payload THEN "filled"
                   ELSE IF seen[f] = "null" THEN "empty" ELSE seen[f]]

\* The columns that save may write: those that differ from what was loaded.  A
\* text may differ from a text, in its locale or its wording, or not.
Dirty(seen, new) ==
  {d \in SUBSET Field :
     \A f \in Field : /\ new[f] # seen[f] => f \in d
                      /\ f \in d => new[f] # seen[f] \/ new[f] = "filled"}

\* The keys of the payload are validated, the others are not; the row is
\* written by its id, and reload raises when it is gone.
Update(r) ==
  LET p == requests[r].proposal
      seen == requests[r].seen
      new == Overlaid(seen, requests[r].payload)
  IN  /\ At(r, "update", "loaded")
      /\ IF Present(p)
         THEN /\ \E d \in Dirty(seen, new) :
                   rows' = [rows EXCEPT ![p].text =
                              [f \in Field |-> IF f \in d THEN new[f] ELSE @[f]]]
              /\ Answer(r, "ok")
         ELSE UNCHANGED rows /\ Answer(r, "refused")
      /\ UNCHANGED <<votes, announced, ghosts>>

\* A value of the payload that the form does not accept.
RejectUpdate(r) ==
  /\ At(r, "update", "loaded")
  /\ Answer(r, "refused")
  /\ UNCHANGED <<rows, votes, announced, ghosts>>

\* Mutant of RejectPublication: published_at is stored before the form is
\* validated, and stays.
RejectPublicationTooLate(r) ==
  LET p == requests[r].proposal
  IN  /\ At(r, "publish", "loaded")
      /\ requests[r].seen # Filled
      /\ rows' = IF Present(p) THEN [rows EXCEPT ![p].state = "published"]
                 ELSE rows
      /\ Answer(r, "refused")
      /\ UNCHANGED <<votes, announced, ghosts>>

\* The form is filled from the row as it was loaded.
RejectPublication(r) ==
  /\ At(r, "publish", "loaded")
  /\ requests[r].seen # Filled
  /\ Answer(r, "refused")
  /\ UNCHANGED <<rows, votes, announced, ghosts>>

\* Mutant of Publish: the form is not validated.
PublishUnchecked(r) ==
  LET p == requests[r].proposal
  IN  /\ At(r, "publish", "loaded")
      /\ IF Present(p)
         THEN /\ rows' = [rows EXCEPT ![p].state = "published"]
              /\ announced' = [announced EXCEPT ![p] = @ + 1]
              /\ Answer(r, "ok")
         ELSE UNCHANGED <<rows, announced>> /\ Answer(r, "null")
      /\ UNCHANGED <<votes, ghosts>>

\* published_at is written by id; PublishProposal then looks up whether the
\* user is an author and announces the publication.  Without the row there is
\* no author: the answer is null, as the form itself was valid.
Publish(r) ==
  LET p == requests[r].proposal
  IN  /\ At(r, "publish", "loaded")
      /\ requests[r].seen = Filled
      /\ IF Present(p)
         THEN /\ rows' = [rows EXCEPT ![p].state = "published"]
              /\ announced' = [announced EXCEPT ![p] = @ + 1]
              /\ Answer(r, "ok")
         ELSE UNCHANGED <<rows, announced>> /\ Answer(r, "null")
      /\ UNCHANGED <<votes, ghosts>>

\* Mutant of Destroy: the votes are left behind.
DestroyKeepingVotes(r) ==
  LET p == requests[r].proposal
  IN  /\ At(r, "destroy", "loaded")
      /\ rows' = IF Present(p)
                 THEN [rows EXCEPT ![p] = [NoRow EXCEPT !.state = "destroyed"]]
                 ELSE rows
      /\ Answer(r, "ok")
      /\ UNCHANGED <<votes, announced, ghosts>>

\* The row is deleted by its id with its votes, whatever became of it.
Destroy(r) ==
  LET p == requests[r].proposal
  IN  /\ At(r, "destroy", "loaded")
      /\ rows' = IF Present(p)
                 THEN [rows EXCEPT ![p] = [NoRow EXCEPT !.state = "destroyed"]]
                 ELSE rows
      /\ votes' = {v \in votes : v[2] # p}
      /\ Answer(r, "ok")
      /\ UNCHANGED <<announced, ghosts>>

(* Votes *)

\* voted?, among the published proposals.
CheckVote(r) ==
  LET p == requests[r].proposal
  IN  /\ At(r, "vote", "begun")
      /\ IF /\ p \in InContext(r, {q \in Proposal : rows[q].state = "published"})
            /\ <<requests[r].user, p>> \notin votes
         THEN GoOn(r, "loaded")
         ELSE Answer(r, "refused")
      /\ UNCHANGED <<rows, votes, announced, ghosts>>

\* VoteProposal locks the proposal and inserts; the index on author and
\* proposal and the foreign key raise.
CastVote(r) ==
  LET p == requests[r].proposal
  IN  /\ At(r, "vote", "loaded")
      /\ Present(p)
      /\ <<requests[r].user, p>> \notin votes
      /\ votes' = votes \cup {<<requests[r].user, p>>}
      /\ Answer(r, "ok")
      /\ UNCHANGED <<rows, announced, ghosts>>

\* The insert raised, or the command answered :invalid.
VoteFails(r) ==
  /\ At(r, "vote", "loaded")
  /\ Answer(r, "refused")
  /\ UNCHANGED <<rows, votes, announced, ghosts>>

\* find_vote!, of the user only.
FindVote(r) ==
  /\ At(r, "unvote", "begun")
  /\ IF <<requests[r].user, requests[r].proposal>> \in InContext(r, votes)
     THEN GoOn(r, "loaded")
     ELSE Answer(r, "refused")
  /\ UNCHANGED <<rows, votes, announced, ghosts>>

Unvote(r) ==
  /\ At(r, "unvote", "loaded")
  /\ votes' = votes \ {<<requests[r].user, requests[r].proposal>>}
  /\ Answer(r, "ok")
  /\ UNCHANGED <<rows, announced, ghosts>>

Step(r) ==
  \/ CheckDraft(r) \/ CheckLimit(r) \/ CreateDraft(r)
  \/ Load(r) \/ Update(r) \/ RejectUpdate(r)
  \/ RejectPublication(r) \/ Publish(r) \/ Destroy(r)
  \/ CheckVote(r) \/ CastVote(r) \/ VoteFails(r) \/ FindVote(r) \/ Unvote(r)

Next ==
  \E r \in Request :
    \/ \E i \in Input : Begin(r, i)
    \/ Step(r)

Spec == Init /\ [][Next]_vars

(* Properties *)

\* Types of the variables.
TypeOK ==
  /\ rows \in [Proposal ->
       [state : {"none", "draft", "published", "destroyed"},
        author : User \cup {"nobody"}, client : Client \cup {"nobody"},
        text : Text]]
  /\ votes \subseteq User \X Proposal
  /\ announced \in [Proposal -> Nat]
  /\ requests \in [Request ->
       [at : {"idle", "begun", "checked", "allowed", "loaded"},
        op : Operation \cup {"none"}, user : User \cup {"nobody"},
        client : Client \cup {"nobody"}, proposal : Proposal \cup {"none"},
        elsewhere : BOOLEAN, payload : SUBSET Field, seen : Text]]
  /\ nulls \subseteq User
  /\ raced \subseteq User
  /\ strayed \subseteq User
  /\ begun \in 0..MaxRequests

\* draft_proposals_tag.rb:12: "only a single draft may exist".  A second draft of
\* a user has one of two causes: two operations of that user at once, for the
\* check and the insertion have nothing else that keeps them together, or a
\* request that named another space, which narrows the check and not the
\* creation.
SecondDraftHasCause ==
  \A p, q \in Proposal :
    rows[p].state = "draft" /\ rows[q].state = "draft"
    /\ rows[p].author = rows[q].author /\ p # q =>
      rows[p].author \in raced \cup strayed

\* So has going beyond the limit of proposals: the limit is looked at when a
\* draft is made and never again when it is published.
LimitHasCause ==
  Limit # 0 =>
    \A u \in User \ (raced \cup strayed) : Cardinality(PublishedOf(u)) <= Limit

\* What is published was announced, once unless its author raced, and what is
\* a draft was not: published_at is never left behind by a publication that
\* did not go through.
PublishedIsAnnounced ==
  \A p \in Proposal :
    /\ rows[p].state = "published" =>
         /\ announced[p] >= 1
         /\ announced[p] > 1 => rows[p].author \in raced
    /\ rows[p].state \in {"none", "draft"} => announced[p] = 0

\* What is published has title and body, though updates validate only what
\* they bring and publication only what it loaded.  The exception is a user that
\* raced: an update stores with its own field the blank it loaded for the
\* other one, also when that was filled and published meanwhile.
IncompleteNeedsRace ==
  \A p \in Proposal :
    rows[p].state = "published" /\ rows[p].author \notin raced =>
      rows[p].text = Filled

\* A publication that answers null lost its draft to another operation of the
\* same user.
NullNeedsRace == nulls \subseteq raced

\* There are votes for published proposals only, whatever is destroyed.
VotesAreForPublished ==
  \A v \in votes : rows[v[2]].state = "published"

\* A published proposal goes only with an operation of an author that raced:
\* destroy! loaded it as a draft.
PublishedStays ==
  [][\A p \in Proposal :
       rows[p].state = "published" /\ rows[p].author \notin raced =>
         rows'[p].state = "published"]_vars

\* A field that was filled is not emptied again without such a race, although
\* every update rewrites both fields from what it loaded.
FilledStays ==
  [][\A p \in Proposal, f \in Field :
       rows[p].text[f] = "filled" /\ rows[p].author \notin raced =>
         rows'[p].text[f] = "filled" \/ rows'[p].state = "destroyed"]_vars
=============================================================================

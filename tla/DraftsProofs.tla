---------------------------- MODULE DraftsProofs ----------------------------
(***************************************************************************)
(* What Drafts promises for any number of users, clients, proposals and    *)
(* operations under way.  A user outside `raced` has one operation under   *)
(* way at most, so what it read is still so when it writes, and outside    *)
(* `strayed` it looked among all its drafts before it made one; that, and  *)
(* what stays true of a loaded row whoever writes it, is the invariant.    *)
(***************************************************************************)
EXTENDS Drafts, TLAPS, FiniteSetTheorems

\* A loaded draft is about to be written.
Touches(r) ==
  requests[r].at = "loaded" /\ requests[r].op \in {"update", "publish", "destroy"}

\* Which operations are at which place, and on what.
Places ==
  \A r \in Request :
    /\ Active(r) => requests[r].user \in User /\ requests[r].op \in Operation
    /\ requests[r].at \in {"checked", "allowed"} => requests[r].op = "create"
    /\ requests[r].at = "loaded" =>
         requests[r].op # "create" /\ requests[r].proposal \in Proposal

OneAtATime ==
  \A r, q \in Request :
    r # q /\ Active(r) /\ Active(q) /\ requests[r].user = requests[q].user =>
      requests[r].user \in raced

\* Who asks for a draft with another space's filter has strayed.
Strays ==
  \A r \in Request :
    requests[r].at \in {"begun", "checked", "allowed"} /\ requests[r].op = "create"
    /\ requests[r].elsewhere =>
      requests[r].user \in strayed

\* A loaded row never gets another author.
LoadedRows ==
  \A r \in Request :
    Touches(r) =>
      LET p == requests[r].proposal
      IN  /\ rows[p].state # "none"
          /\ Present(p) => rows[p].author = requests[r].user

LoadedVotes ==
  \A r \in Request :
    At(r, "vote", "loaded") =>
      rows[requests[r].proposal].state \in {"published", "destroyed"}

\* What a user without races has read is still so.
StillSo ==
  \A r \in Request :
    requests[r].user \notin raced =>
      /\ Touches(r) => LET p == requests[r].proposal
                       IN  /\ rows[p].state = "draft"
                           /\ rows[p].text = requests[r].seen
      /\ requests[r].at \in {"checked", "allowed"}
         /\ requests[r].user \notin strayed =>
           DraftsOf(requests[r].user) = {}

RowsInv ==
  /\ \A p \in Proposal : /\ Present(p) => rows[p].author \in User
                         /\ rows[p].state = "none" => rows[p].text = NoText
  /\ SecondDraftHasCause
  /\ PublishedIsAnnounced
  /\ IncompleteNeedsRace
  /\ VotesAreForPublished

RequestsInv ==
  Places /\ OneAtATime /\ Strays /\ LoadedRows /\ LoadedVotes /\ StillSo

IInv == TypeOK /\ RequestsInv /\ RowsInv /\ NullNeedsRace

-----------------------------------------------------------------------------
\* The steps that write no row and no vote.
Reads(r) ==
  \/ CheckDraft(r) \/ CheckLimit(r) \/ Load(r) \/ RejectUpdate(r)
  \/ RejectPublication(r) \/ CheckVote(r) \/ VoteFails(r) \/ FindVote(r)

\* The steps that write one.
Writes(r) ==
  CreateDraft(r) \/ Update(r) \/ Publish(r) \/ Destroy(r) \/ CastVote(r) \/ Unvote(r)

LEMMA StepSplit == \A r \in Request : Step(r) <=> Reads(r) \/ Writes(r)
  BY DEF Step, Reads, Writes

\* The records of the operations.
Requests ==
  [at : {"idle", "begun", "checked", "allowed", "loaded"},
   op : Operation \cup {"none"}, user : User \cup {"nobody"},
   client : Client \cup {"nobody"}, proposal : Proposal \cup {"none"},
   elsewhere : BOOLEAN, payload : SUBSET Field, seen : Text]

\* The rows of proposals.
Row ==
  [state : {"none", "draft", "published", "destroyed"},
   author : User \cup {"nobody"}, client : Client \cup {"nobody"}, text : Text]

LEMMA TypedRequests == TypeOK => requests \in [Request -> Requests]
  BY DEF TypeOK, Requests

LEMMA TypedRows == TypeOK => rows \in [Proposal -> Row]
  BY DEF TypeOK, Row

LEMMA Texts == NoText \in Text /\ Filled \in Text
  BY DEF NoText, Filled, Text

LEMMA IdleFacts == Idle \in Requests /\ Idle.at = "idle"
  BY Texts DEF Idle, Requests

LEMMA NoRowFacts ==
  /\ NoRow \in Row /\ NoRow.state = "none" /\ NoRow.text = NoText
  /\ [NoRow EXCEPT !.state = "destroyed"] \in Row
  /\ [NoRow EXCEPT !.state = "destroyed"].state = "destroyed"
  BY Texts DEF NoRow, Row

\* An answer ends the operation and no other one.
LEMMA AnswerEffect ==
  ASSUME TypeOK, NEW r \in Request, NEW answer, Answer(r, answer)
  PROVE  /\ requests' \in [Request -> Requests]
         /\ requests'[r].at = "idle"
         /\ \A q \in Request : q # r => requests'[q] = requests[q]
         /\ answer # "null" => nulls' = nulls
         /\ nulls' \subseteq nulls \cup {requests[r].user}
<1>1. requests' = [requests EXCEPT ![r] = Idle]
  BY DEF Answer
<1>2. nulls' = nulls \cup {u \in {requests[r].user} : answer = "null"}
  BY DEF Answer
<1>3. answer # "null" => {u \in {requests[r].user} : answer = "null"} = {}
  OBVIOUS
<1> QED
  BY <1>1, <1>2, <1>3, IdleFacts, TypedRequests

\* An operation goes on, with what it began with.
LEMMA GoOnEffect ==
  ASSUME TypeOK, NEW r \in Request,
         NEW place \in {"checked", "allowed", "loaded"}, GoOn(r, place)
  PROVE  /\ requests' \in [Request -> Requests]
         /\ requests'[r] = [requests[r] EXCEPT !.at = place]
         /\ \A q \in Request : q # r => requests'[q] = requests[q]
         /\ nulls' = nulls
<1>1. requests[r] \in Requests
  BY TypedRequests
<1>2. [requests[r] EXCEPT !.at = place] \in Requests
  BY <1>1 DEF Requests
<1> QED
  BY <1>2, TypedRequests DEF GoOn

\* What a reading step leaves at the operation that took it.
Found(r) ==
  LET p == requests[r].proposal
  IN  \/ requests'[r].at = "idle"
      \/ /\ requests'[r].user = requests[r].user
         /\ requests'[r].op = requests[r].op
         /\ requests'[r].proposal = p
         /\ requests'[r].elsewhere = requests[r].elsewhere
         /\ \/ /\ requests[r].op = "create"
               /\ requests[r].at = "begun" /\ requests'[r].at = "checked"
               /\ Collection(r) = {}
            \/ /\ requests[r].op = "create"
               /\ requests[r].at = "checked" /\ requests'[r].at = "allowed"
               /\ ~LimitReached(requests[r].user)
            \/ /\ requests[r].op \in {"update", "publish", "destroy"}
               /\ requests'[r].at = "loaded"
               /\ Mine(r, p)
               /\ requests'[r].seen = rows[p].text
            \/ /\ requests[r].op = "vote" /\ requests'[r].at = "loaded"
               /\ p \in Proposal
               /\ rows[p].state = "published"
            \/ /\ requests[r].op = "unvote" /\ requests'[r].at = "loaded"
               /\ p \in Proposal

\* A reading step ends one operation, or moves it on with what it found.
LEMMA ReadsEffect ==
  ASSUME TypeOK, NEW r \in Request, Reads(r)
  PROVE  /\ UNCHANGED <<rows, votes, announced, nulls, raced, strayed, begun>>
         /\ Active(r)
         /\ requests' \in [Request -> Requests]
         /\ \A q \in Request : q # r => requests'[q] = requests[q]
         /\ Found(r)
<1> USE DEF Found
<1>1. CASE CheckDraft(r)
  <2>1. CASE Answer(r, "refused")
    BY <1>1, <2>1, AnswerEffect DEF CheckDraft, At, Active, ghosts
  <2>2. CASE Collection(r) = {} /\ GoOn(r, "checked")
    BY <1>1, <2>2, GoOnEffect, TypedRequests
       DEF CheckDraft, At, Active, Requests, ghosts
  <2> QED
    BY <1>1, <2>1, <2>2 DEF CheckDraft
<1>2. CASE CheckLimit(r)
  <2>1. CASE Answer(r, "refused")
    BY <1>2, <2>1, AnswerEffect DEF CheckLimit, At, Active, ghosts
  <2>2. CASE ~LimitReached(requests[r].user) /\ GoOn(r, "allowed")
    BY <1>2, <2>2, GoOnEffect, TypedRequests
       DEF CheckLimit, At, Active, Requests, ghosts
  <2> QED
    BY <1>2, <2>1, <2>2 DEF CheckLimit
<1>3. CASE Load(r)
  <2> DEFINE p == requests[r].proposal
  <2>1. CASE ~Mine(r, p)
    BY <1>3, <2>1, AnswerEffect DEF Load, Active, ghosts
  <2>2. CASE Mine(r, p)
    <3>0. /\ nulls' = nulls
          /\ requests' = [requests EXCEPT ![r].at = "loaded",
                                          ![r].seen = rows[p].text]
      BY <1>3, <2>2 DEF Load
    <3>1. p \in Proposal /\ rows[p].text \in Text
      BY <2>2 DEF Mine, Collection, InContext, DraftsOf, TypeOK
    <3>2. requests[r] \in Requests
      BY TypedRequests
    <3>3. requests'[r] = [requests[r] EXCEPT !.at = "loaded", !.seen = rows[p].text]
      BY <3>0, TypedRequests
    <3>4. requests'[r] \in Requests
      BY <3>1, <3>2, <3>3 DEF Requests
    <3>5. \A q \in Request : q # r => requests'[q] = requests[q]
      BY <3>0, TypedRequests
    <3>6. requests' \in [Request -> Requests]
      <4>1. requests' = [q \in Request |-> requests'[q]]
        BY <3>0, TypedRequests
      <4>2. \A q \in Request : requests'[q] \in Requests
        BY <3>4, <3>5, TypedRequests
      <4> HIDE DEF p
      <4> QED
        BY <4>1, <4>2
    <3>7. /\ requests'[r].user = requests[r].user
          /\ requests'[r].op = requests[r].op
          /\ requests'[r].proposal = p
          /\ requests'[r].elsewhere = requests[r].elsewhere
          /\ requests'[r].at = "loaded"
          /\ requests'[r].seen = rows[p].text
      BY <3>2, <3>3 DEF Requests
    <3> QED
      BY <1>3, <2>2, <3>0, <3>5, <3>6, <3>7 DEF Load, Active, ghosts
  <2> QED
    BY <2>1, <2>2
<1>4. CASE RejectUpdate(r) \/ RejectPublication(r) \/ VoteFails(r)
  BY <1>4, AnswerEffect
     DEF RejectUpdate, RejectPublication, VoteFails, At, Active, ghosts
<1>5. CASE CheckVote(r)
  <2>1. CASE Answer(r, "refused")
    BY <1>5, <2>1, AnswerEffect DEF CheckVote, At, Active, ghosts
  <2>2. CASE /\ requests[r].proposal \in Proposal
             /\ rows[requests[r].proposal].state = "published"
             /\ GoOn(r, "loaded")
    BY <1>5, <2>2, GoOnEffect, TypedRequests
       DEF CheckVote, At, Active, Requests, ghosts
  <2> QED
    BY <1>5, <2>1, <2>2 DEF CheckVote, InContext
<1>6. CASE FindVote(r)
  <2>1. CASE Answer(r, "refused")
    BY <1>6, <2>1, AnswerEffect DEF FindVote, At, Active, ghosts
  <2>2. CASE <<requests[r].user, requests[r].proposal>> \in votes /\ GoOn(r, "loaded")
    <3>1. requests[r].proposal \in Proposal
      BY <2>2 DEF TypeOK
    <3> QED
      BY <1>6, <2>2, <3>1, GoOnEffect, TypedRequests
         DEF FindVote, At, Active, Requests, ghosts
  <2> QED
    BY <1>6, <2>1, <2>2 DEF FindVote, InContext
<1> QED
  BY <1>1, <1>2, <1>3, <1>4, <1>5, <1>6 DEF Reads

-----------------------------------------------------------------------------
\* The initial states satisfy the invariant.
LEMMA InitIInv == Init => IInv
<1> SUFFICES ASSUME Init PROVE IInv
  OBVIOUS
<1>1. TypeOK
  BY DraftAssumption, IdleFacts, NoRowFacts DEF Init, TypeOK, Row, Requests
<1>2. RequestsInv
  BY DEF Init, RequestsInv, Places, OneAtATime, Strays, LoadedRows, LoadedVotes,
         StillSo, Active, Touches, At, Idle
<1>3. RowsInv /\ NullNeedsRace
  BY DEF Init, RowsInv, SecondDraftHasCause, PublishedIsAnnounced,
         IncompleteNeedsRace, VotesAreForPublished, NullNeedsRace, NoRow, Present
<1> QED
  BY <1>1, <1>2, <1>3 DEF IInv

-----------------------------------------------------------------------------
\* An operation begins: its user has raced if another one is under way.
LEMMA BeginIInv ==
  ASSUME IInv, NEW r \in Request, NEW i \in Input, Begin(r, i)
  PROVE  IInv'
<1> DEFINE u == i.user
           new == [at |-> "begun", op |-> i.op, user |-> u, client |-> i.client,
                   proposal |-> i.proposal, elsewhere |-> i.elsewhere,
                   payload |-> i.payload, seen |-> NoText]
<1>1. /\ TypeOK /\ UNCHANGED <<rows, votes, announced, nulls>>
      /\ requests' = [requests EXCEPT ![r] = new]
      /\ raced' = raced \cup
           {v \in {u} : \E q \in Request : Active(q) /\ requests[q].user = v}
      /\ strayed' = strayed \cup {v \in {u} : i.op = "create" /\ i.elsewhere}
      /\ begun' = begun + 1 /\ begun < MaxRequests
  BY DEF Begin, IInv
<1>0. u \in User /\ i.op \in Operation
  BY DEF Input
<1>2. new \in Requests
  BY Texts DEF Requests, Input
<1>3. /\ requests' \in [Request -> Requests]
      /\ requests'[r] = new
      /\ \A q \in Request : q # r => requests'[q] = requests[q]
  BY <1>1, <1>2, TypedRequests
<1>4. /\ new.at = "begun" /\ new.user = u /\ new.op = i.op
      /\ new.elsewhere = i.elsewhere
  OBVIOUS
<1>5. /\ raced \subseteq raced' /\ raced' \subseteq User
      /\ strayed \subseteq strayed' /\ strayed' \subseteq User
  BY <1>0, <1>1 DEF TypeOK
<1>11. i.op = "create" /\ i.elsewhere => u \in strayed'
  BY <1>1
<1> HIDE DEF new, u
<1>6. TypeOK'
  BY <1>1, <1>3, <1>5, DraftAssumption DEF TypeOK, Requests
<1>7. Places' /\ Strays' /\ LoadedRows' /\ LoadedVotes'
  <2>1. Places' /\ LoadedRows' /\ LoadedVotes'
    BY <1>0, <1>1, <1>3, <1>4 DEF IInv, RequestsInv, Places, LoadedRows, LoadedVotes,
       Active, Touches, At, Present
  <2>2. Strays'
    BY <1>3, <1>4, <1>5, <1>11 DEF IInv, RequestsInv, Strays
  <2> QED
    BY <2>1, <2>2
<1>8. OneAtATime'
  <2> SUFFICES ASSUME NEW a \in Request, NEW b \in Request, a # b,
                      Active(a)', Active(b)',
                      requests'[a].user = requests'[b].user
               PROVE  requests'[a].user \in raced'
    BY DEF OneAtATime
  <2>1. CASE a # r /\ b # r
    BY <1>3, <1>5, <2>1 DEF IInv, RequestsInv, OneAtATime, Active
  <2>2. CASE a = r
    BY <1>1, <1>3, <1>4, <2>2 DEF Active
  <2>3. CASE b = r
    BY <1>1, <1>3, <1>4, <2>3 DEF Active
  <2> QED
    BY <2>1, <2>2, <2>3
<1>9. StillSo'
  BY <1>1, <1>3, <1>4, <1>5
     DEF IInv, RequestsInv, StillSo, Touches, DraftsOf
<1>10. RowsInv' /\ NullNeedsRace'
  BY <1>1, <1>5, <1>6 DEF IInv, RowsInv, SecondDraftHasCause, PublishedIsAnnounced,
     IncompleteNeedsRace, VotesAreForPublished, NullNeedsRace, Present
<1> QED
  BY <1>6, <1>7, <1>8, <1>9, <1>10 DEF IInv, RequestsInv

\* A reading step: what it found holds of the rows as they are.
LEMMA ReadsIInv ==
  ASSUME IInv, NEW r \in Request, Reads(r)
  PROVE  IInv'
<1>1. TypeOK
  BY DEF IInv
<1>2. /\ UNCHANGED <<rows, votes, announced, nulls, raced, strayed, begun>>
      /\ Active(r)
      /\ requests' \in [Request -> Requests]
      /\ \A q \in Request : q # r => requests'[q] = requests[q]
      /\ Found(r)
  BY <1>1, ReadsEffect
<1>3. requests'[r].at = "idle" \/ requests'[r].user = requests[r].user
  BY <1>2 DEF Found
<1>4. TypeOK'
  BY <1>1, <1>2 DEF TypeOK, Requests
<1>5. Places' /\ Strays'
  <2>1. Places'
    BY <1>1, <1>2 DEF IInv, RequestsInv, Places, Active, Found, Mine, Collection,
       InContext, DraftsOf, Operation
  <2>2. requests'[r].elsewhere = requests[r].elsewhere \/ requests'[r].at = "idle"
    BY <1>2 DEF Found
  <2>3. Strays'
    BY <1>2, <2>2 DEF IInv, RequestsInv, Strays, Found
  <2> QED
    BY <2>1, <2>3
<1>6. OneAtATime'
  BY <1>2, <1>3 DEF IInv, RequestsInv, OneAtATime, Active
<1>7. LoadedRows' /\ LoadedVotes'
  BY <1>1, <1>2 DEF IInv, RequestsInv, LoadedRows, LoadedVotes, Found, Mine,
     Collection, InContext, DraftsOf, Touches, At, Present
<1>8. StillSo'
  <2>1. ASSUME requests[r].op = "create", requests[r].user \notin strayed,
               requests[r].at = "begun", Collection(r) = {}
        PROVE  DraftsOf(requests[r].user) = {}
    BY <2>1 DEF IInv, RequestsInv, Strays, Collection, InContext
  <2> QED
    BY <1>1, <1>2, <2>1 DEF IInv, RequestsInv, StillSo, Found, Mine, Collection,
       InContext, DraftsOf, Touches
<1>9. RowsInv' /\ NullNeedsRace'
  BY <1>2 DEF IInv, RowsInv, SecondDraftHasCause, PublishedIsAnnounced,
     IncompleteNeedsRace, VotesAreForPublished, NullNeedsRace, Present
<1> QED
  BY <1>4, <1>5, <1>6, <1>7, <1>8, <1>9 DEF IInv, RequestsInv

-----------------------------------------------------------------------------
\* A step that ends an operation leaves the places of the others as they were.
LEMMA EndedPlaces ==
  ASSUME IInv, NEW r \in Request, NEW answer, Answer(r, answer),
         UNCHANGED <<raced, strayed>>
  PROVE  /\ Places' /\ OneAtATime' /\ Strays'
         /\ \A q \in Request : Active(q)' => q # r /\ requests'[q] = requests[q]
         /\ \A q \in Request :
              (Touches(q) \/ requests[q].at \in {"checked", "allowed"})' => Active(q)'
<1>1. /\ requests'[r].at = "idle"
      /\ \A q \in Request : q # r => requests'[q] = requests[q]
  BY AnswerEffect DEF IInv
<1> QED
  BY <1>1 DEF IInv, RequestsInv, Places, OneAtATime, Strays, Active, Touches

\* A user without races has the writing operation as its only one.
LEMMA OthersAreAlone ==
  ASSUME IInv, NEW r \in Request, Active(r), NEW q \in Request, q # r, Active(q),
         requests[q].user \notin raced
  PROVE  requests[q].user # requests[r].user
  BY DEF IInv, RequestsInv, OneAtATime

\* The new row is the only draft of its author, unless that author raced.
LEMMA CreateIInv ==
  ASSUME IInv, NEW r \in Request, CreateDraft(r)
  PROVE  IInv'
<1> DEFINE u == requests[r].user
<1>1. PICK p \in Proposal :
        /\ rows[p].state = "none"
        /\ rows' = [rows EXCEPT ![p] = NewRow(u, requests[r].client)]
  BY DEF CreateDraft
<1>2. /\ Answer(r, "ok") /\ UNCHANGED <<votes, announced, raced, strayed, begun>>
      /\ At(r, "create", "allowed") /\ Active(r) /\ TypeOK
  BY DEF CreateDraft, IInv, At, Active, ghosts
<1>3. u \in User /\ requests[r].client \in Client \cup {"nobody"}
  BY <1>2 DEF IInv, RequestsInv, Places, TypeOK
<1>4. /\ rows'[p].state = "draft" /\ rows'[p].author = u
      /\ rows'[p] \in Row
      /\ \A q \in Proposal : q # p => rows'[q] = rows[q]
  <2>1. /\ NewRow(u, requests[r].client) \in Row
        /\ NewRow(u, requests[r].client).state = "draft"
        /\ NewRow(u, requests[r].client).author = u
    BY <1>3, NoRowFacts DEF NewRow, NoRow, Row
  <2>2. rows'[p] = NewRow(u, requests[r].client)
    BY <1>1, <1>2, TypedRows
  <2> QED
    BY <1>1, <1>2, <2>1, <2>2, TypedRows
<1>5. u \notin raced \cup strayed => DraftsOf(u) = {}
  BY <1>2 DEF IInv, RequestsInv, StillSo, At
<1>6. TypeOK'
  <2>1. rows' \in [Proposal -> Row]
    BY <1>1, <1>2, <1>4, TypedRows
  <2> QED
    BY <1>2, <2>1, AnswerEffect DEF TypeOK, Row, Requests
<1>7. /\ Places' /\ OneAtATime' /\ Strays'
      /\ \A q \in Request : Active(q)' => q # r /\ requests'[q] = requests[q]
      /\ \A q \in Request :
           (Touches(q) \/ requests[q].at \in {"checked", "allowed"})' => Active(q)'
  BY <1>2, EndedPlaces
<1>8. LoadedRows' /\ LoadedVotes'
  BY <1>1, <1>4, <1>7
     DEF IInv, RequestsInv, LoadedRows, LoadedVotes, Touches, At, Active, Present,
         Places
<1>9. StillSo'
  <2> SUFFICES ASSUME NEW q \in Request, requests'[q].user \notin raced', Active(q)'
               PROVE  /\ Touches(q)' =>
                           LET o == requests'[q].proposal
                           IN  /\ rows'[o].state = "draft"
                               /\ rows'[o].text = requests'[q].seen
                      /\ requests'[q].at \in {"checked", "allowed"}
                         /\ requests[q].user \notin strayed =>
                           DraftsOf(requests[q].user)' = {}
    BY <1>2, <1>7 DEF StillSo
  <2>1. q # r /\ requests'[q] = requests[q] /\ Active(q)
    BY <1>7 DEF Active
  <2>2. requests[q].user # u
    BY <1>2, <2>1, OthersAreAlone
  <2>3. Touches(q)' => /\ rows'[requests'[q].proposal].state = "draft"
                       /\ rows'[requests'[q].proposal].text = requests'[q].seen
    BY <1>1, <1>2, <1>4, <2>1 DEF IInv, RequestsInv, StillSo, Touches, Places
  <2>4. requests'[q].at \in {"checked", "allowed"} /\ requests[q].user \notin strayed =>
          DraftsOf(requests[q].user)' = {}
    BY <1>2, <1>4, <2>1, <2>2 DEF IInv, RequestsInv, StillSo, DraftsOf
  <2> QED
    BY <2>3, <2>4
<1>10. \A q \in Proposal : /\ Present(q)' => rows'[q].author \in User
                           /\ rows'[q].state = "none" => rows'[q].text = NoText
  BY <1>3, <1>4 DEF IInv, RowsInv, Present
<1>11. SecondDraftHasCause'
  BY <1>2, <1>4, <1>5 DEF IInv, RowsInv, SecondDraftHasCause, DraftsOf
<1>12. PublishedIsAnnounced' /\ IncompleteNeedsRace'
  BY <1>1, <1>2, <1>4 DEF IInv, RowsInv, PublishedIsAnnounced, IncompleteNeedsRace
<1>13. VotesAreForPublished'
  BY <1>1, <1>2, <1>4 DEF IInv, RowsInv, VotesAreForPublished, TypeOK
<1>14. NullNeedsRace'
  BY <1>2, AnswerEffect DEF IInv, NullNeedsRace
<1> QED
  BY <1>6, <1>7, <1>8, <1>9, <1>10, <1>11, <1>12, <1>13, <1>14
     DEF IInv, RequestsInv, RowsInv

\* An update writes some texts of a row that is there: a field that was loaded
\* filled is stored filled or left alone.
LEMMA UpdateEffect ==
  ASSUME TypeOK, NEW r \in Request, Update(r), requests[r].proposal \in Proposal
  PROVE  /\ rows' \in [Proposal -> Row]
         /\ \/ rows' = rows
            \/ LET p == requests[r].proposal
               IN  /\ Present(p)
                   /\ rows'[p].state = rows[p].state
                   /\ rows'[p].author = rows[p].author
                   /\ \A f \in Field :
                        requests[r].seen[f] = "filled" =>
                          rows'[p].text[f] \in {"filled", rows[p].text[f]}
                   /\ \A q \in Proposal : q # p => rows'[q] = rows[q]
<1> DEFINE p == requests[r].proposal
           seen == requests[r].seen
           new == Overlaid(seen, requests[r].payload)
<1>1. CASE rows' = rows
  BY <1>1, TypedRows
<1>2. CASE Present(p) /\ \E d \in Dirty(seen, new) :
             rows' = [rows EXCEPT ![p].text =
                        [f \in Field |-> IF f \in d THEN new[f] ELSE @[f]]]
  <2>1. PICK d \in Dirty(seen, new) :
          rows' = [rows EXCEPT ![p].text =
                     [f \in Field |-> IF f \in d THEN new[f] ELSE @[f]]]
    BY <1>2
  <2> DEFINE text == [f \in Field |-> IF f \in d THEN new[f] ELSE rows[p].text[f]]
  <2>2. rows[p] \in Row /\ seen \in Text
    BY TypedRows, TypedRequests DEF Requests
  <2>3. rows[p].text \in Text
    BY <2>2 DEF Row
  <2>4. new \in Text /\ \A f \in Field : seen[f] = "filled" => new[f] = "filled"
    BY <2>2 DEF Overlaid, Text
  <2>5. text \in Text
    BY <2>3, <2>4 DEF Text
  <2>6. \A f \in Field :
          seen[f] = "filled" => text[f] \in {"filled", rows[p].text[f]}
    BY <2>4
  <2>7. rows' = [rows EXCEPT ![p] = [rows[p] EXCEPT !.text = text]]
    BY <2>1
  <2> HIDE DEF text, new, seen
  <2>8. /\ rows'[p] = [rows[p] EXCEPT !.text = text]
        /\ \A q \in Proposal : q # p => rows'[q] = rows[q]
    BY <2>7, TypedRows
  <2>9. /\ rows'[p] \in Row /\ rows'[p].text = text
        /\ rows'[p].state = rows[p].state /\ rows'[p].author = rows[p].author
    BY <2>2, <2>5, <2>8 DEF Row
  <2>10. rows' \in [Proposal -> Row]
    BY <2>7, <2>8, <2>9, TypedRows
  <2> QED
    BY <1>2, <2>6, <2>8, <2>9, <2>10 DEF seen
<1> QED
  BY <1>1, <1>2 DEF Update

\* An update: the row stays what it is and, unless the user raced, it is a draft
\* with the texts that were loaded.
LEMMA UpdateIInv ==
  ASSUME IInv, NEW r \in Request, Update(r)
  PROVE  IInv'
<1> DEFINE p == requests[r].proposal
<1>2. /\ Answer(r, "ok") \/ Answer(r, "refused")
      /\ UNCHANGED <<votes, announced, raced, strayed, begun>>
      /\ At(r, "update", "loaded") /\ Active(r) /\ TypeOK /\ p \in Proposal
  BY DEF Update, IInv, At, Active, RequestsInv, Places, ghosts
<1>3. rows' \in [Proposal -> Row]
  BY <1>2, UpdateEffect
<1>4. \A q \in Proposal :
        /\ rows'[q].state = rows[q].state /\ rows'[q].author = rows[q].author
        /\ rows'[q] # rows[q] => q = p /\ Present(p)
  <2>1. \/ rows' = rows
        \/ /\ Present(p)
           /\ rows'[p].state = rows[p].state /\ rows'[p].author = rows[p].author
           /\ \A q \in Proposal : q # p => rows'[q] = rows[q]
    BY <1>2, UpdateEffect
  <2> HIDE DEF p
  <2> QED
    BY <2>1, Zenon
<1>5. /\ Present(p) => rows[p].author = requests[r].user
      /\ requests[r].user \notin raced => rows[p].state = "draft"
  BY <1>2 DEF IInv, RequestsInv, LoadedRows, StillSo, Touches, At
<1>6. TypeOK'
  BY <1>2, <1>3, AnswerEffect DEF TypeOK, Row, Requests
<1>7. /\ Places' /\ OneAtATime' /\ Strays'
      /\ \A q \in Request : Active(q)' => q # r /\ requests'[q] = requests[q]
      /\ \A q \in Request :
           (Touches(q) \/ requests[q].at \in {"checked", "allowed"})' => Active(q)'
  BY <1>2, EndedPlaces
<1>8. LoadedRows' /\ LoadedVotes'
  BY <1>4, <1>7
     DEF IInv, RequestsInv, LoadedRows, LoadedVotes, Touches, At, Active, Present,
         Places
<1>9. StillSo'
  <2> SUFFICES ASSUME NEW q \in Request, requests'[q].user \notin raced', Active(q)'
               PROVE  /\ Touches(q)' =>
                           LET o == requests'[q].proposal
                           IN  /\ rows'[o].state = "draft"
                               /\ rows'[o].text = requests'[q].seen
                      /\ requests'[q].at \in {"checked", "allowed"}
                         /\ requests[q].user \notin strayed =>
                           DraftsOf(requests[q].user)' = {}
    BY <1>2, <1>7 DEF StillSo
  <2>1. q # r /\ requests'[q] = requests[q] /\ Active(q)
    BY <1>7 DEF Active
  <2>2. requests[q].user # requests[r].user
    BY <1>2, <2>1, OthersAreAlone
  <2>3. ASSUME Touches(q)
        PROVE  /\ rows[requests[q].proposal].state = "draft"
               /\ rows[requests[q].proposal].text = requests[q].seen
               /\ requests[q].proposal \in Proposal
               /\ requests[q].proposal # p
    <3>1. /\ rows[requests[q].proposal].state = "draft"
          /\ rows[requests[q].proposal].text = requests[q].seen
          /\ requests[q].proposal \in Proposal
      BY <1>2, <2>1, <2>3 DEF IInv, RequestsInv, StillSo, Touches, Places
    <3>2. rows[requests[q].proposal].author = requests[q].user
      BY <2>3, <3>1 DEF IInv, RequestsInv, LoadedRows, Present
    <3> QED
      BY <1>5, <2>2, <3>1, <3>2 DEF Present
  <2>4. Touches(q)' => /\ rows'[requests'[q].proposal].state = "draft"
                       /\ rows'[requests'[q].proposal].text = requests'[q].seen
    BY <1>4, <2>1, <2>3 DEF Touches
  <2>5. requests'[q].at \in {"checked", "allowed"} /\ requests[q].user \notin strayed =>
          DraftsOf(requests[q].user)' = {}
    BY <1>2, <1>4, <2>1 DEF IInv, RequestsInv, StillSo, DraftsOf
  <2> QED
    BY <2>4, <2>5
<1>10. \A q \in Proposal : /\ Present(q)' => rows'[q].author \in User
                           /\ rows'[q].state = "none" => rows'[q].text = NoText
  BY <1>4 DEF IInv, RowsInv, Present
<1>11. SecondDraftHasCause'
  BY <1>2, <1>4 DEF IInv, RowsInv, SecondDraftHasCause
<1>12. PublishedIsAnnounced' /\ IncompleteNeedsRace'
  <2>1. PublishedIsAnnounced'
    BY <1>2, <1>4 DEF IInv, RowsInv, PublishedIsAnnounced
  <2>2. IncompleteNeedsRace'
    BY <1>2, <1>4, <1>5 DEF IInv, RowsInv, IncompleteNeedsRace
  <2> QED
    BY <2>1, <2>2
<1>13. VotesAreForPublished'
  BY <1>2, <1>4 DEF IInv, RowsInv, VotesAreForPublished, TypeOK
<1>14. NullNeedsRace'
  BY <1>2, AnswerEffect DEF IInv, NullNeedsRace
<1> QED
  BY <1>6, <1>7, <1>8, <1>9, <1>10, <1>11, <1>12, <1>13, <1>14
     DEF IInv, RequestsInv, RowsInv

\* A publication: the row was complete when it was loaded and, unless the user
\* raced, it is that row still.
LEMMA PublishIInv ==
  ASSUME IInv, NEW r \in Request, Publish(r)
  PROVE  IInv'
<1> DEFINE p == requests[r].proposal
<1>1. /\ At(r, "publish", "loaded") /\ Touches(r) /\ Active(r)
      /\ TypeOK /\ p \in Proposal /\ requests[r].user \in User
      /\ UNCHANGED <<votes, raced, strayed, begun>>
  BY DEF Publish, IInv, At, Active, RequestsInv, Places, Touches, ghosts
<1>2. requests[r].user \notin raced =>
        rows[p].state = "draft" /\ rows[p].text = requests[r].seen
  BY <1>1 DEF IInv, RequestsInv, StillSo
<1>3. CASE ~Present(p)
  <2>1. Answer(r, "null") /\ UNCHANGED <<rows, announced>>
    BY <1>3 DEF Publish
  <2>2. requests[r].user \in raced
    BY <1>1, <1>2, <1>3 DEF Present
  <2>3. NullNeedsRace'
    BY <1>1, <2>1, <2>2, AnswerEffect DEF IInv, NullNeedsRace
  <2>4. TypeOK'
    BY <1>1, <2>1, AnswerEffect DEF TypeOK, Requests
  <2>5. /\ Places' /\ OneAtATime' /\ Strays'
        /\ \A q \in Request : Active(q)' => q # r /\ requests'[q] = requests[q]
        /\ \A q \in Request :
             (Touches(q) \/ requests[q].at \in {"checked", "allowed"})' => Active(q)'
    BY <1>1, <2>1, EndedPlaces
  <2>6. LoadedRows' /\ LoadedVotes' /\ StillSo'
    BY <1>1, <2>1, <2>5
       DEF IInv, RequestsInv, LoadedRows, LoadedVotes, StillSo, Touches, At, Active,
           Present, DraftsOf
  <2>7. RowsInv'
    BY <1>1, <2>1 DEF IInv, RowsInv, SecondDraftHasCause, PublishedIsAnnounced,
       IncompleteNeedsRace, VotesAreForPublished, Present
  <2> QED
    BY <2>3, <2>4, <2>5, <2>6, <2>7 DEF IInv, RequestsInv
<1>4. CASE Present(p)
  <2>1. /\ Answer(r, "ok")
        /\ rows' = [rows EXCEPT ![p].state = "published"]
        /\ announced' = [announced EXCEPT ![p] = @ + 1]
    BY <1>4 DEF Publish
  <2>2. /\ rows[p].author = requests[r].user
        /\ requests[r].seen = Filled
    BY <1>1, <1>4 DEF IInv, RequestsInv, LoadedRows, Publish
  <2>3. /\ rows'[p].state = "published"
        /\ rows'[p].author = rows[p].author /\ rows'[p].text = rows[p].text
        /\ \A q \in Proposal : q # p => rows'[q] = rows[q]
        /\ announced'[p] = announced[p] + 1
        /\ \A q \in Proposal : q # p => announced'[q] = announced[q]
    BY <1>1, <2>1 DEF TypeOK
  <2>4. TypeOK'
    <3>1. rows' \in [Proposal -> Row]
      BY <1>1, <2>1, TypedRows DEF Row
    <3>2. announced' \in [Proposal -> Nat]
      BY <1>1, <2>1 DEF TypeOK
    <3>3. requests' \in [Request -> Requests] /\ nulls' = nulls
      BY <1>1, <2>1, AnswerEffect
    <3> QED
      BY <1>1, <3>1, <3>2, <3>3 DEF TypeOK, Row, Requests
  <2>5. /\ Places' /\ OneAtATime' /\ Strays'
        /\ \A q \in Request : Active(q)' => q # r /\ requests'[q] = requests[q]
        /\ \A q \in Request :
             (Touches(q) \/ requests[q].at \in {"checked", "allowed"})' => Active(q)'
    BY <1>1, <2>1, EndedPlaces
  <2>6. LoadedRows' /\ LoadedVotes'
    <3>1. \A q \in Proposal :
            /\ rows[q].state # "none" => rows'[q].state # "none"
            /\ rows[q].state \in {"published", "destroyed"} =>
                 rows'[q].state \in {"published", "destroyed"}
            /\ Present(q)' => Present(q)
            /\ rows'[q].author = rows[q].author
      BY <1>4, <2>3 DEF Present
    <3>2. LoadedRows'
      BY <2>5, <3>1 DEF IInv, RequestsInv, LoadedRows, Touches, Active, Places
    <3>3. LoadedVotes'
      BY <2>5, <3>1 DEF IInv, RequestsInv, LoadedVotes, At, Active, Places
    <3> QED
      BY <3>2, <3>3
  <2>7. StillSo'
    <3> SUFFICES ASSUME NEW q \in Request, requests'[q].user \notin raced', Active(q)'
                 PROVE  /\ Touches(q)' =>
                             LET o == requests'[q].proposal
                             IN  /\ rows'[o].state = "draft"
                                 /\ rows'[o].text = requests'[q].seen
                        /\ requests'[q].at \in {"checked", "allowed"}
                           /\ requests[q].user \notin strayed =>
                             DraftsOf(requests[q].user)' = {}
      BY <1>1, <2>5 DEF StillSo
    <3>1. q # r /\ requests'[q] = requests[q] /\ Active(q)
      BY <2>5 DEF Active
    <3>2. requests[q].user # requests[r].user
      BY <1>1, <3>1, OthersAreAlone
    <3>3. Touches(q)' => /\ rows'[requests'[q].proposal].state = "draft"
                         /\ rows'[requests'[q].proposal].text = requests'[q].seen
      <4>1. Touches(q) /\ requests[q].proposal # p =>
              /\ rows'[requests[q].proposal].state = "draft"
              /\ rows'[requests[q].proposal].text = requests[q].seen
        BY <1>1, <2>3, <3>1 DEF IInv, RequestsInv, StillSo, Touches, Places
      <4>2. Touches(q) => requests[q].proposal # p
        BY <1>4, <2>2, <3>1, <3>2 DEF IInv, RequestsInv, LoadedRows
      <4> QED
        BY <3>1, <4>1, <4>2 DEF Touches
    <3>4. requests'[q].at \in {"checked", "allowed"} /\ requests[q].user \notin strayed =>
            DraftsOf(requests[q].user)' = {}
      BY <1>1, <2>3, <3>1 DEF IInv, RequestsInv, StillSo, DraftsOf
    <3> QED
      BY <3>3, <3>4
  <2>8. \A q \in Proposal : /\ Present(q)' => rows'[q].author \in User
                            /\ rows'[q].state = "none" => rows'[q].text = NoText
    BY <1>4, <2>3 DEF IInv, RowsInv, Present
  <2>9. SecondDraftHasCause'
    BY <1>1, <2>3 DEF IInv, RowsInv, SecondDraftHasCause
  <2>10. PublishedIsAnnounced'
    <3>1. rows[p].state = "draft" => announced[p] = 0
      BY <1>1 DEF IInv, RowsInv, PublishedIsAnnounced
    <3>2. announced[p] \in Nat
      BY <1>1 DEF TypeOK
    <3> QED
      BY <1>1, <1>2, <2>2, <2>3, <3>1, <3>2 DEF IInv, RowsInv, PublishedIsAnnounced
  <2>11. IncompleteNeedsRace'
    <3>1. rows[p].author \notin raced => rows[p].text = Filled
      BY <1>2, <2>2
    <3> QED
      BY <1>1, <2>3, <3>1 DEF IInv, RowsInv, IncompleteNeedsRace
  <2>12. VotesAreForPublished'
    BY <1>1, <2>3 DEF IInv, RowsInv, VotesAreForPublished, TypeOK
  <2>13. NullNeedsRace'
    BY <1>1, <2>1, AnswerEffect DEF IInv, NullNeedsRace
  <2> QED
    BY <2>4, <2>5, <2>6, <2>7, <2>8, <2>9, <2>10, <2>11, <2>12, <2>13
       DEF IInv, RequestsInv, RowsInv
<1> QED
  BY <1>3, <1>4

\* A deletion: nothing is left for a vote or another operation to rest on.
LEMMA DestroyIInv ==
  ASSUME IInv, NEW r \in Request, Destroy(r)
  PROVE  IInv'
<1> DEFINE p == requests[r].proposal
<1>1. /\ At(r, "destroy", "loaded") /\ Touches(r) /\ Active(r)
      /\ TypeOK /\ p \in Proposal
      /\ Answer(r, "ok")
      /\ votes' = {v \in votes : v[2] # p}
      /\ UNCHANGED <<announced, raced, strayed, begun>>
  BY DEF Destroy, IInv, At, Active, RequestsInv, Places, Touches, ghosts
<1>2. /\ rows' \in [Proposal -> Row]
      /\ rows'[p].state = "destroyed"
      /\ \A q \in Proposal : q # p => rows'[q] = rows[q]
  <2>1. CASE Present(p)
    <3>1. rows' = [rows EXCEPT ![p] = [NoRow EXCEPT !.state = "destroyed"]]
      BY <2>1 DEF Destroy
    <3> QED
      BY <1>1, <3>1, NoRowFacts, TypedRows
  <2>2. CASE ~Present(p)
    <3>1. rows' = rows
      BY <2>2 DEF Destroy
    <3>2. rows[p].state = "destroyed"
      BY <1>1, <2>2 DEF IInv, RequestsInv, LoadedRows, Present, TypeOK
    <3> QED
      BY <1>1, <3>1, <3>2, TypedRows
  <2> QED
    BY <2>1, <2>2
<1>3. rows[p].state # "none" /\ (Present(p) => rows[p].author = requests[r].user)
  BY <1>1 DEF IInv, RequestsInv, LoadedRows
<1>4. TypeOK'
  BY <1>1, <1>2, AnswerEffect DEF TypeOK, Row, Requests
<1>5. /\ Places' /\ OneAtATime' /\ Strays'
      /\ \A q \in Request : Active(q)' => q # r /\ requests'[q] = requests[q]
      /\ \A q \in Request :
           (Touches(q) \/ requests[q].at \in {"checked", "allowed"})' => Active(q)'
  BY <1>1, EndedPlaces
<1>6. LoadedRows' /\ LoadedVotes'
  <2>1. LoadedRows'
    BY <1>2, <1>5
       DEF IInv, RequestsInv, LoadedRows, Touches, Active, Present, Places
  <2>2. LoadedVotes'
    BY <1>2, <1>5 DEF IInv, RequestsInv, LoadedVotes, At, Active, Places
  <2> QED
    BY <2>1, <2>2
<1>7. StillSo'
  <2> SUFFICES ASSUME NEW q \in Request, requests'[q].user \notin raced', Active(q)'
               PROVE  /\ Touches(q)' =>
                           LET o == requests'[q].proposal
                           IN  /\ rows'[o].state = "draft"
                               /\ rows'[o].text = requests'[q].seen
                      /\ requests'[q].at \in {"checked", "allowed"}
                         /\ requests[q].user \notin strayed =>
                           DraftsOf(requests[q].user)' = {}
    BY <1>1, <1>5 DEF StillSo
  <2>1. q # r /\ requests'[q] = requests[q] /\ Active(q)
    BY <1>5 DEF Active
  <2>2. requests[q].user # requests[r].user
    BY <1>1, <2>1, OthersAreAlone
  <2>3. Touches(q) => /\ rows[requests[q].proposal].state = "draft"
                      /\ rows[requests[q].proposal].text = requests[q].seen
                      /\ requests[q].proposal \in Proposal
    BY <1>1, <2>1 DEF IInv, RequestsInv, StillSo, Touches, Places
  <2>4. Touches(q) => requests[q].proposal # p
    BY <1>1, <1>3, <2>1, <2>2, <2>3 DEF IInv, RequestsInv, LoadedRows, Present
  <2>5. requests'[q].at \in {"checked", "allowed"} /\ requests[q].user \notin strayed =>
          DraftsOf(requests[q].user)' = {}
    BY <1>1, <1>2, <2>1 DEF IInv, RequestsInv, StillSo, DraftsOf
  <2> QED
    BY <1>2, <2>1, <2>3, <2>4, <2>5 DEF Touches
<1>8. \A q \in Proposal : /\ Present(q)' => rows'[q].author \in User
                          /\ rows'[q].state = "none" => rows'[q].text = NoText
  BY <1>2 DEF IInv, RowsInv, Present
<1>9. SecondDraftHasCause'
  BY <1>1, <1>2 DEF IInv, RowsInv, SecondDraftHasCause
<1>10. PublishedIsAnnounced' /\ IncompleteNeedsRace'
  <2>1. PublishedIsAnnounced'
    BY <1>1, <1>2 DEF IInv, RowsInv, PublishedIsAnnounced
  <2>2. IncompleteNeedsRace'
    BY <1>1, <1>2 DEF IInv, RowsInv, IncompleteNeedsRace
  <2> QED
    BY <2>1, <2>2
<1>11. VotesAreForPublished'
  BY <1>1, <1>2 DEF IInv, RowsInv, VotesAreForPublished, TypeOK
<1>12. NullNeedsRace'
  BY <1>1, AnswerEffect DEF IInv, NullNeedsRace
<1> QED
  BY <1>4, <1>5, <1>6, <1>7, <1>8, <1>9, <1>10, <1>11, <1>12
     DEF IInv, RequestsInv, RowsInv

\* A vote cast or withdrawn: the proposal that is still there is published.
LEMMA VotesIInv ==
  ASSUME IInv, NEW r \in Request, CastVote(r) \/ Unvote(r)
  PROVE  IInv'
<1> DEFINE p == requests[r].proposal
<1>1. /\ TypeOK /\ Answer(r, "ok") /\ UNCHANGED <<rows, announced, raced, strayed, begun>>
      /\ Active(r) /\ p \in Proposal /\ requests[r].user \in User
  BY DEF CastVote, Unvote, IInv, At, Active, RequestsInv, Places, ghosts
<1>2. \A v \in votes' : v \in User \X Proposal /\ rows[v[2]].state = "published"
  <2>1. CASE CastVote(r)
    <3>1. rows[p].state = "published"
      BY <1>1, <2>1 DEF CastVote, IInv, RequestsInv, LoadedVotes, Present
    <3> QED
      BY <1>1, <2>1, <3>1 DEF CastVote, IInv, RowsInv, VotesAreForPublished, TypeOK
  <2>2. CASE Unvote(r)
    BY <1>1, <2>2 DEF Unvote, IInv, RowsInv, VotesAreForPublished, TypeOK
  <2> QED
    BY <2>1, <2>2
<1>3. TypeOK'
  BY <1>1, <1>2, AnswerEffect DEF TypeOK, Requests
<1>4. /\ Places' /\ OneAtATime' /\ Strays'
      /\ \A q \in Request : Active(q)' => q # r /\ requests'[q] = requests[q]
      /\ \A q \in Request :
           (Touches(q) \/ requests[q].at \in {"checked", "allowed"})' => Active(q)'
  BY <1>1, EndedPlaces
<1>5. LoadedRows' /\ LoadedVotes' /\ StillSo'
  BY <1>1, <1>4
     DEF IInv, RequestsInv, LoadedRows, LoadedVotes, StillSo, Touches, At, Active,
         Present, DraftsOf
<1>6. RowsInv'
  BY <1>1, <1>2 DEF IInv, RowsInv, SecondDraftHasCause, PublishedIsAnnounced,
     IncompleteNeedsRace, VotesAreForPublished, Present
<1>7. NullNeedsRace'
  BY <1>1, AnswerEffect DEF IInv, NullNeedsRace
<1> QED
  BY <1>3, <1>4, <1>5, <1>6, <1>7 DEF IInv, RequestsInv

-----------------------------------------------------------------------------
\* The invariant is preserved by every step.
LEMMA NextIInv == IInv /\ [Next]_vars => IInv'
<1> SUFFICES ASSUME IInv, [Next]_vars PROVE IInv'
  OBVIOUS
<1>1. CASE UNCHANGED vars
  BY <1>1 DEF vars, IInv, TypeOK, RequestsInv, Places, OneAtATime, Strays, LoadedRows,
     LoadedVotes, StillSo, RowsInv, SecondDraftHasCause, PublishedIsAnnounced,
     IncompleteNeedsRace, VotesAreForPublished, NullNeedsRace, Active, Touches,
     At, Present, DraftsOf
<1>2. CASE Next
  <2>1. PICK r \in Request : (\E i \in Input : Begin(r, i)) \/ Step(r)
    BY <1>2 DEF Next
  <2>2. CASE Step(r)
    BY <2>2, StepSplit, ReadsIInv, CreateIInv, UpdateIInv, PublishIInv, DestroyIInv,
       VotesIInv DEF Writes
  <2> QED
    BY <2>1, <2>2, BeginIInv
<1> QED
  BY <1>1, <1>2 DEF Next

LEMMA Invariance == Spec => []IInv
  BY InitIInv, NextIInv, PTL DEF Spec

\* Rows, votes and operations stay what they are.
THEOREM DraftTypes == Spec => []TypeOK
<1>1. IInv => TypeOK
  BY DEF IInv
<1> QED
  BY <1>1, Invariance, PTL

\* A second draft of a user comes of two operations at once, or of another
\* space's filter.
THEOREM SecondDraftExplained == Spec => []SecondDraftHasCause
<1>1. IInv => SecondDraftHasCause
  BY DEF IInv, RowsInv
<1> QED
  BY <1>1, Invariance, PTL

\* A publication was announced, once unless its author raced.
THEOREM PublicationsAnnounced == Spec => []PublishedIsAnnounced
<1>1. IInv => PublishedIsAnnounced
  BY DEF IInv, RowsInv
<1> QED
  BY <1>1, Invariance, PTL

\* A published proposal is complete, unless its author raced.
THEOREM IncompleteExplained == Spec => []IncompleteNeedsRace
<1>1. IInv => IncompleteNeedsRace
  BY DEF IInv, RowsInv
<1> QED
  BY <1>1, Invariance, PTL

\* A publication answers null to a user that raced only.
THEOREM NullsExplained == Spec => []NullNeedsRace
<1>1. IInv => NullNeedsRace
  BY DEF IInv
<1> QED
  BY <1>1, Invariance, PTL

\* No vote outlives its proposal, and no draft has one.
THEOREM VotesSound == Spec => []VotesAreForPublished
<1>1. IInv => VotesAreForPublished
  BY DEF IInv, RowsInv
<1> QED
  BY <1>1, Invariance, PTL

\* What is published stays, unless its author raced.
THEOREM PublicationsStay == Spec => PublishedStays
<1>1. ASSUME IInv, [Next]_vars, NEW p \in Proposal,
             rows[p].state = "published", rows[p].author \notin raced
      PROVE  rows'[p].state = "published"
  <2>1. CASE rows' = rows
    BY <1>1, <2>1
  <2>2. ASSUME NEW r \in Request, Writes(r)
        PROVE  rows'[p].state = "published"
    <3>1. TypeOK
      BY <1>1 DEF IInv
    <3>2. CASE CreateDraft(r)
      BY <1>1, <3>1, <3>2 DEF CreateDraft, TypeOK
    <3>3. CASE Update(r)
      <4>1. requests[r].proposal \in Proposal
        BY <1>1, <3>3 DEF Update, At, IInv, RequestsInv, Places
      <4>2. rows'[p] = rows[p] \/ rows'[p].state = rows[p].state
        BY <3>1, <3>3, <4>1, UpdateEffect
      <4> QED
        BY <1>1, <4>2
    <3>4. CASE Publish(r)
      <4>1. requests[r].proposal \in Proposal
        BY <1>1, <3>4 DEF Publish, At, IInv, RequestsInv, Places
      <4>2. \/ rows' = rows
            \/ rows' = [rows EXCEPT ![requests[r].proposal].state = "published"]
        BY <3>4 DEF Publish
      <4> QED
        BY <1>1, <3>1, <4>1, <4>2 DEF TypeOK
    <3>5. CASE Destroy(r)
      <4>1. Touches(r) /\ requests[r].proposal \in Proposal
        BY <1>1, <3>5 DEF Destroy, At, Touches, IInv, RequestsInv, Places
      <4>2. requests[r].proposal # p
        BY <1>1, <4>1
           DEF IInv, RequestsInv, LoadedRows, StillSo, Present
      <4> QED
        BY <1>1, <3>1, <3>5, <4>1, <4>2 DEF Destroy, TypeOK
    <3>6. CASE CastVote(r) \/ Unvote(r)
      BY <1>1, <3>6 DEF CastVote, Unvote
    <3> QED
      BY <2>2, <3>2, <3>3, <3>4, <3>5, <3>6 DEF Writes
  <2>3. CASE \E r \in Request : Reads(r)
    BY <1>1, <2>1, <2>3, ReadsEffect DEF IInv
  <2>4. CASE UNCHANGED vars
    BY <2>1, <2>4 DEF vars
  <2>5. CASE \E r \in Request, i \in Input : Begin(r, i)
    BY <2>1, <2>5 DEF Begin
  <2> QED
    BY <1>1, <2>2, <2>3, <2>4, <2>5, StepSplit DEF Next
<1>2. IInv /\ [Next]_vars =>
        [\A p \in Proposal :
           rows[p].state = "published" /\ rows[p].author \notin raced =>
             rows'[p].state = "published"]_vars
  BY <1>1
<1> QED
  BY <1>2, Invariance, PTL DEF Spec, PublishedStays

\* What is filled stays filled, unless its author raced: an update of a draft
\* loaded its fields as they still are.
THEOREM FieldsStay == Spec => FilledStays
<1>1. ASSUME IInv, [Next]_vars, NEW p \in Proposal, NEW f \in Field,
             rows[p].text[f] = "filled", rows[p].author \notin raced
      PROVE  rows'[p].text[f] = "filled" \/ rows'[p].state = "destroyed"
  <2>1. CASE rows' = rows
    BY <1>1, <2>1
  <2>2. ASSUME NEW r \in Request, Writes(r)
        PROVE  rows'[p].text[f] = "filled" \/ rows'[p].state = "destroyed"
    <3> DEFINE o == requests[r].proposal
    <3>1. TypeOK
      BY <1>1 DEF IInv
    <3>2. CASE CreateDraft(r)
      <4>1. PICK q \in Proposal :
              /\ rows[q].state = "none"
              /\ rows' = [rows EXCEPT ![q] =
                            NewRow(requests[r].user, requests[r].client)]
        BY <3>2 DEF CreateDraft
      <4>2. rows[p].state # "none"
        BY <1>1 DEF IInv, RowsInv, NoText
      <4> QED
        BY <1>1, <4>1, <4>2, <3>1, TypedRows
    <3>3. CASE Update(r)
      <4>1. Touches(r) /\ o \in Proposal
        BY <1>1, <3>3 DEF Update, At, Touches, IInv, RequestsInv, Places
      <4>2. CASE rows'[p] = rows[p]
        BY <1>1, <4>2
      <4>3. CASE rows'[p] # rows[p]
        <5>1. /\ p = o /\ Present(p)
              /\ requests[r].seen[f] = "filled" =>
                   rows'[p].text[f] \in {"filled", rows[p].text[f]}
          BY <3>1, <3>3, <4>1, <4>3, UpdateEffect
        <5> QED
          BY <1>1, <4>1, <5>1 DEF IInv, RequestsInv, LoadedRows, StillSo
      <4> QED
        BY <4>2, <4>3
    <3>4. CASE Publish(r)
      <4>1. \/ rows' = rows
            \/ rows' = [rows EXCEPT ![o].state = "published"]
        BY <3>4 DEF Publish
      <4>2. rows'[p].text = rows[p].text
        BY <3>1, <4>1, TypedRows DEF Row
      <4> QED
        BY <1>1, <4>2
    <3>5. CASE Destroy(r)
      <4>1. \/ rows' = rows
            \/ rows' = [rows EXCEPT ![o] = [NoRow EXCEPT !.state = "destroyed"]]
        BY <3>5 DEF Destroy
      <4> QED
        BY <1>1, <3>1, <4>1, NoRowFacts, TypedRows
    <3>6. CASE CastVote(r) \/ Unvote(r)
      BY <1>1, <3>6 DEF CastVote, Unvote
    <3> QED
      BY <2>2, <3>2, <3>3, <3>4, <3>5, <3>6 DEF Writes
  <2>3. CASE \E r \in Request : Reads(r)
    BY <1>1, <2>1, <2>3, ReadsEffect DEF IInv
  <2>4. CASE UNCHANGED vars
    BY <2>1, <2>4 DEF vars
  <2>5. CASE \E r \in Request, i \in Input : Begin(r, i)
    BY <2>1, <2>5 DEF Begin
  <2> QED
    BY <1>1, <2>2, <2>3, <2>4, <2>5, StepSplit DEF Next
<1>2. IInv /\ [Next]_vars =>
        [\A p \in Proposal, f \in Field :
           rows[p].text[f] = "filled" /\ rows[p].author \notin raced =>
             rows'[p].text[f] = "filled" \/ rows'[p].state = "destroyed"]_vars
  BY <1>1
<1> QED
  BY <1>2, Invariance, PTL DEF Spec, FilledStays

-----------------------------------------------------------------------------
(***************************************************************************)
(* The limit: a user that neither raced nor strayed owns no more drafts and publications    *)
(* together than the limit has, and fewer when a draft was just allowed.   *)
(***************************************************************************)
OwnedOf(u) == {p \in Proposal : Present(p) /\ rows[p].author = u}

LimitInv ==
  Limit # 0 =>
    \A u \in User \ (raced \cup strayed) :
      /\ Cardinality(OwnedOf(u)) <= Limit
      /\ \A r \in Request :
           requests[r].at = "allowed" /\ requests[r].user = u =>
             Cardinality(OwnedOf(u)) < Limit

\* What a user owns is finite.
LEMMA OwnedFinite ==
  ASSUME NEW u
  PROVE  IsFiniteSet(OwnedOf(u)) /\ Cardinality(OwnedOf(u)) \in Nat
  BY DraftAssumption, FS_Subset, FS_CardinalityType DEF OwnedOf

\* Nobody comes to own more where no row appears and none changes hands.
LEMMA OwnedShrinks ==
  ASSUME NEW u, OwnedOf(u)' \subseteq OwnedOf(u)
  PROVE  /\ Cardinality(OwnedOf(u)') \in Nat
         /\ Cardinality(OwnedOf(u)') <= Cardinality(OwnedOf(u))
  BY OwnedFinite, FS_Subset, FS_CardinalityType

\* A step that gives nobody more and allows no new draft keeps the limit.
LEMMA ShrinkingKeepsLimit ==
  ASSUME LimitInv, raced \subseteq raced', strayed \subseteq strayed',
         \A u \in User : OwnedOf(u)' \subseteq OwnedOf(u),
         \A r \in Request :
           requests'[r].at = "allowed" =>
             requests[r].at = "allowed" /\ requests'[r].user = requests[r].user
  PROVE  LimitInv'
<1> SUFFICES ASSUME Limit # 0, NEW u \in User \ (raced' \cup strayed')
             PROVE  /\ Cardinality(OwnedOf(u)') <= Limit
                    /\ \A r \in Request :
                         requests'[r].at = "allowed" /\ requests'[r].user = u =>
                           Cardinality(OwnedOf(u)') < Limit
  BY DEF LimitInv
<1>1. /\ Cardinality(OwnedOf(u)) \in Nat /\ Cardinality(OwnedOf(u)') \in Nat
      /\ Cardinality(OwnedOf(u)') <= Cardinality(OwnedOf(u))
  BY OwnedFinite, OwnedShrinks
<1>2. /\ Cardinality(OwnedOf(u)) <= Limit
      /\ \A r \in Request :
           requests[r].at = "allowed" /\ requests[r].user = u =>
             Cardinality(OwnedOf(u)) < Limit
  BY DEF LimitInv
<1> QED
  BY <1>1, <1>2, DraftAssumption

LEMMA InitLimit == Init => LimitInv
<1> SUFFICES ASSUME Init PROVE LimitInv
  OBVIOUS
<1>1. \A u : OwnedOf(u) = {}
  BY DEF Init, OwnedOf, Present, NoRow
<1>2. \A r \in Request : requests[r].at # "allowed"
  BY DEF Init, Idle
<1> QED
  BY <1>1, <1>2, FS_EmptySet, DraftAssumption DEF LimitInv

\* The check of the limit counted what the user owns: without races there is
\* no draft.
LEMMA ReadsLimit ==
  ASSUME IInv, LimitInv, NEW r \in Request, Reads(r)
  PROVE  LimitInv'
<1>1. /\ UNCHANGED <<rows, votes, announced, nulls, raced, strayed, begun>>
      /\ \A q \in Request : q # r => requests'[q] = requests[q]
      /\ Found(r)
  BY ReadsEffect DEF IInv
<1>2. \A u : OwnedOf(u)' = OwnedOf(u)
  BY <1>1 DEF OwnedOf, Present
<1>3. CASE requests'[r].at # "allowed"
  BY <1>1, <1>2, <1>3, ShrinkingKeepsLimit
<1>4. CASE requests'[r].at = "allowed"
  <2> DEFINE v == requests[r].user
  <2>1. /\ requests[r].at = "checked" /\ requests'[r].user = v
        /\ ~LimitReached(v)
    BY <1>1, <1>4 DEF Found
  <2>2. v \notin raced \cup strayed /\ Limit # 0 => Cardinality(OwnedOf(v)) < Limit
    <3> SUFFICES ASSUME v \notin raced \cup strayed, Limit # 0
                 PROVE  Cardinality(OwnedOf(v)) < Limit
      OBVIOUS
    <3>1. DraftsOf(v) = {}
      BY <2>1 DEF IInv, RequestsInv, StillSo
    <3>2. OwnedOf(v) = PublishedOf(v)
      BY <3>1 DEF OwnedOf, PublishedOf, DraftsOf, Present
    <3>3. ~(Cardinality(OwnedOf(v)) >= Limit)
      BY <2>1, <3>2 DEF LimitReached
    <3> QED
      BY <3>3, OwnedFinite, DraftAssumption
  <2> QED
    BY <1>1, <1>2, <2>1, <2>2 DEF LimitInv
<1> QED
  BY <1>3, <1>4

\* The draft that is made fills the room that was found.
LEMMA CreateLimit ==
  ASSUME IInv, LimitInv, NEW r \in Request, CreateDraft(r)
  PROVE  LimitInv'
<1>0. PICK u \in User : u = requests[r].user
  BY DEF CreateDraft, At, Active, IInv, RequestsInv, Places
<1>1. PICK p \in Proposal :
        /\ rows[p].state = "none"
        /\ rows' = [rows EXCEPT ![p] = NewRow(u, requests[r].client)]
  BY <1>0 DEF CreateDraft
<1>2. /\ Answer(r, "ok") /\ UNCHANGED <<raced, strayed>>
      /\ requests[r].at = "allowed" /\ Active(r) /\ TypeOK
  BY DEF CreateDraft, IInv, At, Active, ghosts
<1>3. /\ requests'[r].at = "idle"
      /\ \A q \in Request : q # r => requests'[q] = requests[q]
  BY <1>2, AnswerEffect
<1>4. /\ rows'[p].state = "draft" /\ rows'[p].author = u
      /\ \A q \in Proposal : q # p => rows'[q] = rows[q]
  BY <1>1, <1>2 DEF TypeOK, NewRow
<1>5. /\ OwnedOf(u)' = OwnedOf(u) \cup {p} /\ p \notin OwnedOf(u)
      /\ \A v : v # u => OwnedOf(v)' = OwnedOf(v)
  <2>1. ~Present(p) /\ Present(p)'
    BY <1>1, <1>4 DEF Present
  <2>2. \A q \in Proposal : q # p => (Present(q)' <=> Present(q))
    BY <1>4 DEF Present
  <2> QED
    BY <1>4, <2>1, <2>2 DEF OwnedOf
<1>6. Cardinality(OwnedOf(u)') = Cardinality(OwnedOf(u)) + 1
  BY <1>5, OwnedFinite, FS_AddElement
<1> SUFFICES ASSUME Limit # 0, NEW v \in User \ (raced \cup strayed)
             PROVE  /\ Cardinality(OwnedOf(v)') <= Limit
                    /\ \A q \in Request :
                         requests'[q].at = "allowed" /\ requests'[q].user = v =>
                           Cardinality(OwnedOf(v)') < Limit
  BY <1>2 DEF LimitInv
<1>7. CASE v # u
  BY <1>3, <1>5, <1>7 DEF LimitInv
<1>8. CASE v = u
  <2>1. Cardinality(OwnedOf(u)) < Limit
    BY <1>0, <1>2, <1>8 DEF LimitInv
  <2>0. Cardinality(OwnedOf(u)) \in Nat
    BY OwnedFinite
  <2>2. Cardinality(OwnedOf(u)') <= Limit
    BY <1>6, <2>0, <2>1, DraftAssumption
  <2>3. \A q \in Request : requests'[q].at = "allowed" => requests'[q].user # u
    BY <1>0, <1>2, <1>3, <1>8, OthersAreAlone DEF Active
  <2> QED
    BY <1>8, <2>2, <2>3
<1> QED
  BY <1>7, <1>8

\* The writes of a loaded row change neither its author nor bring one back.
LEMMA WritesLimit ==
  ASSUME IInv, LimitInv, NEW r \in Request,
         Update(r) \/ Publish(r) \/ Destroy(r) \/ CastVote(r) \/ Unvote(r)
  PROVE  LimitInv'
<1> DEFINE p == requests[r].proposal
<1>1. /\ UNCHANGED <<raced, strayed>> /\ TypeOK
      /\ \E answer : Answer(r, answer)
  BY DEF Update, Publish, Destroy, CastVote, Unvote, IInv, ghosts
<1>2. \A q \in Request :
        requests'[q].at = "allowed" =>
          requests[q].at = "allowed" /\ requests'[q].user = requests[q].user
  BY <1>1, AnswerEffect
<1>3. p \in Proposal
  BY DEF Update, Publish, Destroy, CastVote, Unvote, At, IInv, RequestsInv, Places
<1>5. \A q \in Proposal :
        Present(q)' => Present(q) /\ rows'[q].author = rows[q].author
  <2>1. CASE rows' = rows
    BY <2>1 DEF Present
  <2>2. CASE Update(r)
    <3>1. \A q \in Proposal :
            \/ rows'[q] = rows[q]
            \/ rows'[q].state = rows[q].state /\ rows'[q].author = rows[q].author
      BY <1>1, <1>3, <2>2, UpdateEffect
    <3> QED
      BY <3>1 DEF Present
  <2>3. CASE Present(p) /\ rows' = [rows EXCEPT ![p].state = "published"]
    BY <1>1, <1>3, <2>3 DEF TypeOK, Present
  <2>4. CASE rows' = [rows EXCEPT ![p] = [NoRow EXCEPT !.state = "destroyed"]]
    BY <1>1, <1>3, <2>4 DEF TypeOK, Present, NoRow
  <2> QED
    BY <2>1, <2>2, <2>3, <2>4 DEF Publish, Destroy, CastVote, Unvote
<1>6. \A u \in User : OwnedOf(u)' \subseteq OwnedOf(u)
  BY <1>5 DEF OwnedOf
<1> QED
  BY <1>1, <1>2, <1>6, ShrinkingKeepsLimit

LEMMA NextLimit == IInv /\ LimitInv /\ [Next]_vars => LimitInv'
<1> SUFFICES ASSUME IInv, LimitInv, [Next]_vars PROVE LimitInv'
  OBVIOUS
<1>1. CASE UNCHANGED vars
  BY <1>1, ShrinkingKeepsLimit DEF vars, OwnedOf, Present
<1>2. ASSUME NEW r \in Request, NEW i \in Input, Begin(r, i)
      PROVE  LimitInv'
  <2>1. /\ rows' = rows /\ raced \subseteq raced' /\ strayed \subseteq strayed'
        /\ \E new : new.at = "begun" /\ requests' = [requests EXCEPT ![r] = new]
    BY <1>2 DEF Begin
  <2>3. \A q \in Request :
          requests'[q].at = "allowed" => q # r /\ requests'[q] = requests[q]
    BY <2>1 DEF IInv, TypeOK
  <2>4. \A v \in User : OwnedOf(v)' \subseteq OwnedOf(v)
    BY <2>1 DEF OwnedOf, Present
  <2> QED
    BY <2>1, <2>3, <2>4, ShrinkingKeepsLimit
<1>3. ASSUME NEW r \in Request, Step(r) PROVE LimitInv'
  BY <1>3, StepSplit, ReadsLimit, CreateLimit, WritesLimit DEF Writes
<1> QED
  BY <1>1, <1>2, <1>3 DEF Next

\* Beyond the limit of proposals goes only a user that raced, or that asked for
\* a draft with another space's filter.
THEOREM LimitExplained == Spec => []LimitHasCause
<1>1. IInv /\ LimitInv => LimitHasCause
  <2> SUFFICES ASSUME LimitInv, Limit # 0, NEW u \in User \ (raced \cup strayed)
               PROVE  Cardinality(PublishedOf(u)) <= Limit
    BY DEF LimitHasCause
  <2>1. PublishedOf(u) \subseteq OwnedOf(u)
    BY DEF PublishedOf, OwnedOf, Present
  <2>2. /\ Cardinality(PublishedOf(u)) <= Cardinality(OwnedOf(u))
        /\ Cardinality(PublishedOf(u)) \in Nat
    BY <2>1, OwnedFinite, FS_Subset, FS_CardinalityType
  <2>3. Cardinality(OwnedOf(u)) <= Limit
    BY DEF LimitInv
  <2> QED
    BY <2>2, <2>3, OwnedFinite, DraftAssumption
<1>2. Spec => []LimitInv
  BY InitLimit, NextLimit, Invariance, PTL DEF Spec
<1> QED
  BY <1>1, <1>2, Invariance, PTL
=============================================================================

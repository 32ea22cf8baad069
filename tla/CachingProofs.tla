---------------------------- MODULE CachingProofs ----------------------------
(***************************************************************************)
(* What Caching promises for any number of proposals, writers and updates. *)
(***************************************************************************)
EXTENDS Caching, ExtendedDataProofs, FiniteSetTheorems, WellFoundedInduction

-----------------------------------------------------------------------------
(* Types *)

Writes ==
  [at : Place, op : Operation \cup {"none"}, item : Item \cup {"none"},
   user : {Me, Other, "none"}, path : ObjectPath,
   datum : Datum \cup {EmptyHash}, hash : Hash \cup {NoHash},
   stamp : Stamps, overtaken : BOOLEAN]

Seen == [there : BOOLEAN, stamp : Stamps, hash : Found \cup {NoHash},
         voted : BOOLEAN]

Requests ==
  [url : Url, at : {"idle", "ensure", "insert", "details"},
   page : Page, tag : Stamps, left : SUBSET Item, overlap : BOOLEAN]

Cause == {"overlap", "late", "removal", "vote", "neighbour"}

Caches == [held : BOOLEAN, page : Page, tag : Stamps, why : SUBSET Cause]

Rows == [state : {"absent", "there", "gone"}, stamp : Stamps]

Vote == [item : Item, user : {Me, Other}, stamp : Stamps]

LEMMA TypeParts ==
  TypeOK <=> /\ clock \in Nat
             /\ rows \in [Item -> Rows]
             /\ hashes \in [Item -> Hash \cup {NoHash}]
             /\ votes \subseteq Vote
             /\ writers \in [Writer -> Writes]
             /\ reader \in Requests
             /\ cache \in Caches
             /\ begun \in 0..MaxWrites
  BY DEF TypeOK, Writes, Requests, Caches, Rows, Vote, Cause, Stamps

LEMMA TypePartsNext ==
  TypeOK' <=> /\ clock' \in Nat
              /\ rows' \in [Item -> Rows]
              /\ hashes' \in [Item -> Hash \cup {NoHash}]
              /\ votes' \subseteq Vote
              /\ writers' \in [Writer -> Writes]
              /\ reader' \in Requests
              /\ cache' \in Caches
              /\ begun' \in 0..MaxWrites
  BY DEF TypeOK, Writes, Requests, Caches, Rows, Vote, Cause, Stamps

LEMMA EmptyFacts ==
  /\ EmptyHash \in Hash /\ EmptyHash # NoHash /\ DOMAIN EmptyHash = {}
  /\ <<>> \in ObjectPath
  /\ Hash \subseteq Found
<1>1. EmptyHash \in [{} -> Value]
  BY DEF EmptyHash
<1>2. EmptyHash \in Hash
  BY <1>1, IsHashFacts
<1>3. <<>> \in ObjectPath
  <2>1. <<>> \in Seq(Key) /\ Len(<<>>) = 0
    BY EmptySeq
  <2>2. 0 <= MaxDepth
    BY DataAssumption
  <2> QED BY <2>1, <2>2, PathIsSeq
<1>4. DOMAIN EmptyHash = {}
  BY DEF EmptyHash
<1>5. Hash \subseteq Found
  BY DEF Found
<1> QED BY <1>2, <1>3, <1>4, <1>5, CachingAssumption

LEMMA NoWriteTyped == NoWrite \in Writes
  BY EmptyFacts DEF NoWrite, Writes, Place, Operation, Stamps

LEMMA NothingTyped == Nothing \in Seen /\ NoPage \in Page /\ Page = [Item -> Seen]
<1>1. Nothing \in Seen
  BY DEF Nothing, Seen, Stamps
<1>2. Page = [Item -> Seen]
  BY DEF Page, Seen
<1> QED BY <1>1, <1>2 DEF NoPage

LEMMA ShownTyped ==
  ASSUME TypeOK, NEW url \in Url, NEW i \in Item
  PROVE  Shown(url, i) \in Seen
<1>1. url.path \in ObjectPath
  BY CachingAssumption
<1>2. hashes[i] \in Hash \cup {NoHash} /\ rows[i].stamp \in Stamps
  BY TypeParts DEF Rows
<1>3. hashes[i] # NoHash => At(hashes[i], url.path) \in Found
  BY <1>1, <1>2, AtIsFound
<1> DEFINE listed == url.kind = "index" \/ (url.kind = "show" /\ url.item = i)
           hash == IF url.kind = "index" THEN hashes[i]
                   ELSE IF url.kind = "show" \/ hashes[i] = NoHash THEN NoHash
                   ELSE At(hashes[i], url.path)
<1>4. hash \in Found \cup {NoHash}
  BY <1>2, <1>3, EmptyFacts
<1>5. (listed /\ Voted(i)) \in BOOLEAN
  BY DEF Voted
<1>6. (IF listed THEN rows[i].stamp ELSE 0) \in Stamps
  BY <1>2 DEF Stamps
<1>7. Shown(url, i) = [there |-> TRUE, stamp |-> IF listed THEN rows[i].stamp ELSE 0,
                       hash |-> hash, voted |-> listed /\ Voted(i)]
  BY DEF Shown
<1> HIDE DEF listed, hash
<1> QED BY <1>4, <1>5, <1>6, <1>7 DEF Seen

LEMMA PageNowTyped ==
  ASSUME TypeOK, NEW url \in Url
  PROVE  PageNow(url) \in Page
<1>1. \A i \in Item :
        (IF OnPage(url, i) /\ There(i) THEN Shown(url, i) ELSE Nothing) \in Seen
  BY ShownTyped, NothingTyped
<1> QED BY <1>1, NothingTyped DEF PageNow

\* The stamps of a set have their latest: the one the clock is least ahead of.
LEMMA LatestFacts ==
  ASSUME NEW top \in Nat, NEW stamps, \A s \in stamps : s \in Nat /\ s <= top
  PROVE  /\ Latest(stamps) \in stamps \cup {0}
         /\ \A s \in stamps : s <= Latest(stamps)
<1> DEFINE ahead == {top - s : s \in stamps \cup {0}}
<1>1. ahead \subseteq Nat /\ ahead # {}
  OBVIOUS
<1> DEFINE less == OpToRel(<, Nat)
<1>6. \A d, e \in Nat : d < e => <<d, e>> \in less
  BY DEF OpToRel
<1>7. IsWellFoundedOn(less, Nat)
  BY NatLessThanWellFounded
<1> HIDE DEF less
<1>2. PICK least \in ahead : \A d \in ahead : ~(<<d, least>> \in less)
  BY <1>1, <1>7, WFMin
<1>3. ASSUME NEW d \in ahead PROVE least <= d
  <2> HIDE DEF ahead
  <2>1. d \in Nat /\ least \in Nat
    BY <1>1
  <2>2. ~(d < least)
    BY <2>1, <1>2, <1>6
  <2> QED BY <2>1, <2>2
<1>4. PICK t \in stamps \cup {0} : least = top - t
  OBVIOUS
<1>5. \A s \in stamps : s <= t
  <2> SUFFICES ASSUME NEW s \in stamps PROVE s <= t
    OBVIOUS
  <2>1. top - s \in ahead
    OBVIOUS
  <2>2. top - t <= top - s
    BY <2>1, <1>3, <1>4
  <2> QED BY <2>2
<1> QED BY <1>4, <1>5 DEF Latest

\* What a commit does to the request and to the page kept leaves them typed.
LEMMA DisturbTyped ==
  ASSUME TypeOK, NEW i, NEW causes \in SUBSET Cause, Disturb(i, causes)
  PROVE  reader' \in Requests /\ cache' \in Caches
<1>0. reader \in Requests /\ cache \in Caches
  BY TypeParts
<1>1. (reader.overlap \/ (reader.at # "idle" /\ OnPage(reader.url, i))) \in BOOLEAN
  BY <1>0 DEF Requests, OnPage
<1>2. reader' \in Requests
  BY <1>0, <1>1 DEF Disturb, Requests
<1>3. cache' \in Caches
  BY <1>0 DEF Disturb, Caches
<1> QED BY <1>2, <1>3

LEMMA CausesAreCauses ==
  \A stamp, i : /\ Late(stamp) \in SUBSET Cause
               /\ Beside(i) \in SUBSET Cause
  BY DEF Late, Beside, Cause

LEMMA WriterStepTyped ==
  ASSUME TypeOK, NEW w \in Writer
  PROVE  /\ Done(w) => writers' \in [Writer -> Writes]
         /\ Overtake(w) => writers' \in [Writer -> Writes]
         /\ \A write \in Writes : Begin(w, write) => TypeOK' \/ clock' \notin Nat
<1>0. writers \in [Writer -> Writes]
  BY TypeParts
<1>1. Done(w) => writers' \in [Writer -> Writes]
  BY <1>0, NoWriteTyped DEF Done
<1>2. ASSUME Overtake(w) PROVE writers' \in [Writer -> Writes]
  <2>1. ASSUME NEW x \in Writer, x # w
        PROVE  [writers[x] EXCEPT !.overtaken =
                 @ \/ (writers[x].op = "put" /\ writers[x].item = writers[w].item
                       /\ writers[x].at = "ready")] \in Writes
    <3>1. writers[x] \in Writes
      BY <1>0
    <3> QED BY <3>1 DEF Writes
  <2> QED BY <1>2, <2>1, NoWriteTyped DEF Overtake
<1>3. ASSUME NEW write \in Writes, Begin(w, write), clock' \in Nat
      PROVE  TypeOK'
  <2>1. writers' \in [Writer -> Writes]
    BY <1>0, <1>3 DEF Begin
  <2>2. begun' \in 0..MaxWrites
    BY <1>3, TypeParts, CachingAssumption DEF Begin
  <2> QED BY <1>3, <2>1, <2>2, TypeParts, TypePartsNext DEF Begin
<1> QED BY <1>1, <1>2, <1>3

LEMMA CreateRowTyped ==
  ASSUME TypeOK, NEW i \in Item, CreateRow(i)
  PROVE  /\ clock' \in Nat /\ rows' \in [Item -> Rows]
         /\ hashes' \in [Item -> Hash \cup {NoHash}]
<1>1. clock + 1 \in Nat
  BY TypeParts
<1>2. [rows[i] EXCEPT !.stamp = clock + 1] \in Rows
  BY <1>1, TypeParts DEF Rows, Stamps
<1> QED BY <1>1, <1>2, TypeParts, EmptyFacts DEF CreateRow

LEMMA TypeBegins ==
  ASSUME TypeOK, NEW w \in Writer, NEW i \in Item,
         \/ BeginPut(w, i) \/ BeginSave(w, i)
         \/ \E user \in {Me, Other} : BeginVote(w, i, user)
  PROVE  TypeOK'
<1>0. clock \in Nat /\ clock' \in Nat
  BY TypeParts DEF BeginPut, BeginSave, BeginVote
<1>1. ASSUME NEW place \in Place
      PROVE  [NoWrite EXCEPT !.op = "put", !.item = i, !.at = place] \in Writes
  BY NoWriteTyped DEF Writes, Operation
<1>2. ASSUME NEW op \in {"save", "vote"}, NEW user \in {Me, Other, "none"}
      PROVE  Stamped(op, i, user) \in Writes
  <2>1. op \in Operation \cup {"none"}
    BY DEF Operation
  <2>2. "stamped" \in Place /\ clock + 1 \in Stamps
    BY <1>0 DEF Place, Stamps
  <2> QED BY <2>1, <2>2, NoWriteTyped DEF Stamped, Writes
<1>3. CASE BeginPut(w, i)
  BY <1>0, <1>1, <1>3, WriterStepTyped DEF BeginPut, Place
<1>4. CASE BeginSave(w, i)
  BY <1>0, <1>2, <1>4, WriterStepTyped DEF BeginSave
<1>5. CASE \E user \in {Me, Other} : BeginVote(w, i, user)
  BY <1>0, <1>2, <1>5, WriterStepTyped DEF BeginVote
<1> QED BY <1>3, <1>4, <1>5

\* What an update under way knows: its proposal was there, and has its row of
\* extended data from then on, while it stays; what it merged is a hash.
PutKnows(w) ==
  /\ writers[w].at = "idle" => writers[w].op = "none"
  /\ writers[w].at # "idle" => writers[w].item \in Item
  /\ writers[w].at \in {"insert", "ensured", "ready"} => writers[w].op = "put"
  /\ writers[w].op = "put" => rows[writers[w].item].state # "absent"
  /\ /\ writers[w].op = "put" /\ writers[w].at # "insert"
     /\ There(writers[w].item)
     => hashes[writers[w].item] # NoHash
  /\ writers[w].op = "put" /\ writers[w].at \in {"ready", "stamped"} =>
       writers[w].hash \in Hash /\ writers[w].datum \in Datum
  /\ writers[w].op = "vote" => writers[w].user \in {Me, Other}

Puts ==
  /\ \A w \in Writer : PutKnows(w)
  /\ \A i \in Item : ~There(i) => hashes[i] = NoHash

Base == TypeOK /\ Puts

LEMMA BaseInit == Init => Base
<1> SUFFICES ASSUME Init PROVE Base
  OBVIOUS
<1>1. rows \in [Item -> Rows]
  BY DEF Init, Rows, Stamps
<1>2. /\ hashes \in [Item -> Hash \cup {NoHash}]
      /\ \A i \in Item : ~There(i) => hashes[i] = NoHash
  BY CachingAssumption DEF Init, There
<1>3. writers \in [Writer -> Writes]
  BY NoWriteTyped DEF Init
<1>4. reader \in Requests
  <2>1. PICK u \in Url : reader = [NoRequest EXCEPT !.url = u]
    BY DEF Init
  <2>2. reader = [url |-> u, at |-> "idle", page |-> NoPage, tag |-> 0,
                  left |-> {}, overlap |-> FALSE]
    BY <2>1 DEF NoRequest
  <2> QED BY <2>2, NothingTyped DEF Requests, Stamps
<1>5. cache \in Caches
  BY NothingTyped DEF Init, Caches, Stamps
<1>6. TypeOK
  BY <1>1, <1>2, <1>3, <1>4, <1>5, TypeParts, CachingAssumption DEF Init
<1>7. Puts
  BY <1>2 DEF Init, Puts, PutKnows, NoWrite
<1> QED BY <1>6, <1>7 DEF Base

LEMMA BaseBegins ==
  ASSUME Base, NEW w \in Writer, NEW i \in Item,
         \/ BeginPut(w, i) \/ BeginSave(w, i)
         \/ \E user \in {Me, Other} : BeginVote(w, i, user)
  PROVE  Base'
<1>0. TypeOK /\ TypeOK' /\ Puts
  BY TypeBegins DEF Base
<1>1. rows' = rows /\ hashes' = hashes
  BY DEF BeginPut, BeginSave, BeginVote, Begin
<1>2. \A j : There(j)' <=> There(j)
  BY <1>1 DEF There
<1>3. \A x \in Writer : x # w => writers'[x] = writers[x]
  BY <1>0, TypeParts DEF BeginPut, BeginSave, BeginVote, Begin
<1>4. writers \in [Writer -> Writes]
  BY <1>0, TypeParts
<1>5. CASE BeginPut(w, i)
  <2>1. writers'[w] = [NoWrite EXCEPT !.op = "put", !.item = i,
                         !.at = IF hashes[i] = NoHash THEN "insert" ELSE "ensured"]
    BY <1>4, <1>5 DEF BeginPut, Begin
  <2>2. /\ writers'[w].op = "put" /\ writers'[w].item = i
        /\ writers'[w].at = IF hashes[i] = NoHash THEN "insert" ELSE "ensured"
    BY <2>1 DEF NoWrite
  <2>3. rows[i].state = "there"
    BY <1>5 DEF BeginPut, There
  <2> QED BY <1>0, <1>1, <1>2, <1>3, <2>2, <2>3 DEF Puts, PutKnows, Base
<1>6. CASE BeginSave(w, i) \/ \E user \in {Me, Other} : BeginVote(w, i, user)
  <2>1. PICK op \in {"save", "vote"}, user \in {Me, Other, "none"} :
          /\ writers'[w] = Stamped(op, i, user)
          /\ op = "vote" => user \in {Me, Other}
    BY <1>4, <1>6 DEF BeginSave, BeginVote, Begin
  <2>2. /\ writers'[w].op = op /\ writers'[w].item = i /\ writers'[w].user = user
        /\ writers'[w].at = "stamped"
    BY <2>1 DEF Stamped, NoWrite
  <2> QED BY <1>0, <1>1, <1>2, <1>3, <2>1, <2>2 DEF Puts, PutKnows, Base
<1> QED BY <1>5, <1>6

\* The writers after one is done.
LEMMA DoneEffect ==
  ASSUME TypeOK, NEW w \in Writer, Done(w)
  PROVE  /\ writers' \in [Writer -> Writes]
         /\ writers'[w] = NoWrite /\ NoWrite.at = "idle" /\ NoWrite.op = "none"
         /\ \A x \in Writer : x # w => writers'[x] = writers[x]
  BY TypeParts, NoWriteTyped DEF Done, NoWrite

\* The same, for a put that commits: others only learn that they are overtaken.
LEMMA OvertakeEffect ==
  ASSUME TypeOK, NEW w \in Writer, Overtake(w)
  PROVE  /\ writers' \in [Writer -> Writes]
         /\ writers'[w] = NoWrite /\ NoWrite.at = "idle" /\ NoWrite.op = "none"
         /\ \A x \in Writer : x # w =>
              /\ writers'[x].at = writers[x].at
              /\ writers'[x].op = writers[x].op
              /\ writers'[x].item = writers[x].item
              /\ writers'[x].user = writers[x].user
              /\ writers'[x].path = writers[x].path
              /\ writers'[x].datum = writers[x].datum
              /\ writers'[x].hash = writers[x].hash
              /\ writers'[x].stamp = writers[x].stamp
              /\ writers'[x].overtaken =
                   (writers[x].overtaken \/
                      (writers[x].op = "put" /\ writers[x].item = writers[w].item
                       /\ writers[x].at = "ready"))
<1>0. writers \in [Writer -> Writes] /\ writers' \in [Writer -> Writes]
  BY TypeParts, WriterStepTyped
<1>1. writers'[w] = NoWrite
  BY DEF Overtake
<1>2. ASSUME NEW x \in Writer, x # w
      PROVE  writers'[x] = [writers[x] EXCEPT !.overtaken =
               @ \/ (writers[x].op = "put" /\ writers[x].item = writers[w].item
                     /\ writers[x].at = "ready")]
  BY <1>2 DEF Overtake
<1>3. \A x \in Writer : writers[x] \in Writes
  BY <1>0
<1> QED BY <1>0, <1>1, <1>2, <1>3 DEF NoWrite, Writes

\* A proposal that is there, or gone, does not come into being, and its row of
\* extended data goes with it only.
RowsGoOn ==
  \A i \in Item :
    /\ rows[i].state # "absent" =>
         /\ rows'[i].state # "absent"
         /\ There(i)' => There(i) /\ (hashes[i] # NoHash => hashes'[i] # NoHash)
    /\ ~There(i)' => hashes'[i] = NoHash

LEMMA PutKnowsOn ==
  ASSUME Puts, RowsGoOn, NEW x \in Writer,
         writers'[x].at = writers[x].at, writers'[x].op = writers[x].op,
         writers'[x].item = writers[x].item, writers'[x].hash = writers[x].hash,
         writers'[x].datum = writers[x].datum, writers'[x].user = writers[x].user
  PROVE  PutKnows(x)'
<1>1. PutKnows(x)
  BY DEF Puts
<1>2. CASE writers[x].op # "put"
  BY <1>1, <1>2 DEF PutKnows
<1>3. CASE writers[x].op = "put"
  <2>1. writers[x].item \in Item
    BY <1>1, <1>3 DEF PutKnows
  <2> QED BY <1>1, <1>3, <2>1 DEF PutKnows, RowsGoOn
<1> QED BY <1>2, <1>3

\* A step that ends the operation of one writer, if any.
LEMMA PutsEnd ==
  ASSUME Base, RowsGoOn, NEW w \in Writer,
         Done(w) \/ Overtake(w) \/ UNCHANGED writers
  PROVE  Puts'
<1>0. TypeOK /\ Puts
  BY DEF Base
<1>1. CASE Done(w)
  <2>1. PutKnows(w)'
    BY <1>0, <1>1, DoneEffect DEF PutKnows
  <2>2. \A x \in Writer : x # w => PutKnows(x)'
    BY <1>0, <1>1, DoneEffect, PutKnowsOn
  <2> QED BY <2>1, <2>2 DEF Puts, RowsGoOn
<1>2. CASE Overtake(w)
  <2>1. PutKnows(w)'
    BY <1>0, <1>2, OvertakeEffect DEF PutKnows
  <2>2. \A x \in Writer : x # w => PutKnows(x)'
    BY <1>0, <1>2, OvertakeEffect, PutKnowsOn
  <2> QED BY <2>1, <2>2 DEF Puts, RowsGoOn
<1>3. CASE UNCHANGED writers
  BY <1>0, <1>3, PutKnowsOn DEF Puts, RowsGoOn
<1> QED BY <1>1, <1>2, <1>3

LEMMA RowsStay ==
  ASSUME Puts, rows' = rows, hashes' = hashes
  PROVE  RowsGoOn
  BY DEF Puts, RowsGoOn, There

LEMMA BaseLoad ==
  ASSUME Base, NEW w \in Writer, NEW update \in Update, Load(w, update)
  PROVE  Base'
<1> DEFINE i == writers[w].item
<1>0. TypeOK /\ Puts /\ writers \in [Writer -> Writes] /\ writers[w] \in Writes
  BY TypeParts DEF Base
<1>1. rows' = rows /\ hashes' = hashes /\ RowsGoOn
  BY <1>0, RowsStay DEF Load
<1>2. PICK hash \in Merges(hashes[i], update.path, update.datum) :
        IF hash = hashes[i] THEN Done(w)
        ELSE writers' = [writers EXCEPT ![w].at = "ready", ![w].hash = hash,
                           ![w].path = update.path, ![w].datum = update.datum]
  BY DEF Load
<1>3. CASE Done(w)
  <2>1. TypeOK'
    BY <1>0, <1>3, DoneEffect, TypeParts, TypePartsNext DEF Load
  <2> QED BY <1>1, <1>3, <2>1, PutsEnd DEF Base
<1>4. CASE ~Done(w)
  <2>1. /\ i \in Item /\ There(i) /\ hashes[i] \in Hash
        /\ writers[w].op = "put"
    BY <1>0, TypeParts DEF Load, Puts, PutKnows
  <2>2. update.path \in ObjectPath /\ update.datum \in Datum
    BY CachingAssumption
  <2>3. hash \in Hash
    BY <1>2, <2>1, <2>2, MergesAreHashes, CachingAssumption
  <2> DEFINE write == [writers[w] EXCEPT !.at = "ready", !.hash = hash,
                         !.path = update.path, !.datum = update.datum]
  <2>4. writers' = [writers EXCEPT ![w] = write]
    BY <1>0, <1>2, <1>4
  <2>5. write \in Writes
    <3>1. "ready" \in Place
      BY DEF Place
    <3> QED BY <1>0, <2>2, <2>3, <3>1 DEF Writes
  <2>6. /\ write.at = "ready" /\ write.op = "put" /\ write.item = i
        /\ write.hash = hash /\ write.datum = update.datum
    BY <1>0, <2>1 DEF Writes
  <2> HIDE DEF write
  <2>7. /\ writers' \in [Writer -> Writes] /\ writers'[w] = write
        /\ \A x \in Writer : x # w => writers'[x] = writers[x]
    BY <1>0, <2>4, <2>5
  <2>8. TypeOK'
    BY <1>0, <2>7, TypeParts, TypePartsNext DEF Load
  <2>9. PutKnows(w)'
    BY <1>0, <1>1, <2>1, <2>2, <2>3, <2>6, <2>7, EmptyFacts, CachingAssumption
    DEF PutKnows, Puts, There
  <2>10. \A x \in Writer : x # w => PutKnows(x)'
    BY <1>0, <1>1, <2>7, PutKnowsOn
  <2> QED BY <1>1, <2>8, <2>9, <2>10 DEF Base, Puts, RowsGoOn
<1> QED BY <1>3, <1>4

LEMMA BaseInsert ==
  ASSUME Base, NEW w \in Writer, Insert(w)
  PROVE  Base'
<1> DEFINE i == writers[w].item
<1>0. /\ TypeOK /\ Puts /\ writers \in [Writer -> Writes] /\ writers[w] \in Writes
      /\ i \in Item /\ writers[w].op = "put" /\ writers[w].at = "insert"
  BY TypeParts DEF Base, Puts, PutKnows, Insert
<1>1. CASE ~(There(i) /\ hashes[i] = NoHash)
  <2>1. Done(w) /\ UNCHANGED <<clock, rows, hashes, votes, reader, cache, begun>>
    BY <1>1 DEF Insert
  <2>2. TypeOK'
    BY <1>0, <2>1, DoneEffect, TypeParts, TypePartsNext
  <2> QED BY <1>0, <2>1, <2>2, RowsStay, PutsEnd DEF Base
<1>2. CASE There(i) /\ hashes[i] = NoHash
  <2>1. /\ CreateRow(i) /\ Disturb(i, {}) /\ UNCHANGED <<votes, begun>>
        /\ writers' = [writers EXCEPT ![w].at = "ensured"]
    BY <1>2 DEF Insert
  <2>2. /\ writers' \in [Writer -> Writes]
        /\ writers'[w].at = "ensured" /\ writers'[w].op = "put"
        /\ writers'[w].item = i
        /\ \A x \in Writer : x # w => writers'[x] = writers[x]
    <3>1. [writers[w] EXCEPT !.at = "ensured"] \in Writes
      BY <1>0 DEF Writes, Place
    <3> QED BY <1>0, <2>1, <3>1 DEF Writes
  <2>3. reader' \in Requests /\ cache' \in Caches
    BY <1>0, <2>1, DisturbTyped
  <2>4. TypeOK'
    BY <1>0, <2>1, <2>2, <2>3, CreateRowTyped, TypeParts, TypePartsNext
  <2>5. /\ hashes' = [hashes EXCEPT ![i] = EmptyHash]
        /\ rows'[i].state = rows[i].state
        /\ \A j \in Item : j # i => rows'[j] = rows[j]
    <3>1. rows \in [Item -> Rows] /\ rows[i] \in Rows
      BY <1>0, TypeParts
    <3> QED BY <1>0, <2>1, <3>1 DEF CreateRow, Rows
  <2>6. /\ RowsGoOn
        /\ hashes'[i] # NoHash /\ rows'[i].state = "there"
    <3>1. \A j \in Item : rows'[j].state = rows[j].state
      BY <2>5
    <3>2. \A j \in Item : hashes'[j] = IF j = i THEN EmptyHash ELSE hashes[j]
      BY <1>0, <2>5, TypeParts
    <3>3. EmptyHash # NoHash
      BY EmptyFacts
    <3>4. \A j \in Item : ~There(j) => hashes[j] = NoHash
      BY <1>0 DEF Puts
    <3>5. RowsGoOn
      BY <1>2, <3>1, <3>2, <3>3, <3>4 DEF RowsGoOn, There
    <3> QED BY <1>0, <1>2, <3>1, <3>2, <3>3, <3>5 DEF There
  <2>7. PutKnows(w)'
    BY <1>0, <1>2, <2>2, <2>5, <2>6 DEF PutKnows, There
  <2>8. \A x \in Writer : x # w => PutKnows(x)'
    BY <1>0, <2>2, <2>6, PutKnowsOn
  <2> QED BY <2>4, <2>6, <2>7, <2>8 DEF Base, Puts, RowsGoOn
<1> QED BY <1>1, <1>2

LEMMA BaseRefuse ==
  ASSUME Base, NEW w \in Writer, Refuse(w)
  PROVE  Base'
<1>1. TypeOK'
  BY DoneEffect, TypeParts, TypePartsNext DEF Base, Refuse
<1>2. RowsGoOn
  BY RowsStay DEF Base, Refuse
<1> QED BY <1>1, <1>2, PutsEnd DEF Base, Refuse

LEMMA StampEffect ==
  ASSUME TypeOK, NEW w \in Writer, Stamp(w)
  PROVE  /\ writers' \in [Writer -> Writes]
         /\ writers'[w] = [writers[w] EXCEPT !.at = "stamped", !.stamp = clock + 1]
         /\ writers'[w].at = "stamped" /\ writers'[w].stamp = clock + 1
         /\ writers'[w].op = writers[w].op /\ writers'[w].item = writers[w].item
         /\ writers'[w].path = writers[w].path
         /\ writers'[w].datum = writers[w].datum
         /\ writers'[w].hash = writers[w].hash
         /\ writers'[w].overtaken = writers[w].overtaken
         /\ \A x \in Writer : x # w => writers'[x] = writers[x]
<1>0. writers \in [Writer -> Writes] /\ writers[w] \in Writes /\ clock + 1 \in Stamps
  BY TypeParts DEF Stamps
<1>1. [writers[w] EXCEPT !.at = "stamped", !.stamp = clock + 1] \in Writes
  BY <1>0 DEF Writes, Place
<1>2. writers' = [writers EXCEPT
        ![w] = [writers[w] EXCEPT !.at = "stamped", !.stamp = clock + 1]]
  BY <1>0 DEF Stamp
<1> QED BY <1>0, <1>1, <1>2 DEF Writes

LEMMA BaseStamp ==
  ASSUME Base, NEW w \in Writer, Stamp(w)
  PROVE  Base'
<1>0. TypeOK /\ Puts /\ PutKnows(w)
  BY DEF Base, Puts
<1>1. rows' = rows /\ hashes' = hashes /\ RowsGoOn
  BY <1>0, RowsStay DEF Stamp
<1>2. TypeOK'
  <2>1. writers' \in [Writer -> Writes]
    BY <1>0, StampEffect
  <2>2. clock' = clock + 1 /\ UNCHANGED <<rows, hashes, votes, reader, cache, begun>>
    BY DEF Stamp
  <2> QED BY <1>0, <2>1, <2>2, TypeParts, TypePartsNext
<1>3. PutKnows(w)'
  BY <1>0, <1>1, StampEffect DEF PutKnows, There, Stamp
<1>4. \A x \in Writer : x # w => PutKnows(x)'
  BY <1>0, <1>1, StampEffect, PutKnowsOn
<1> QED BY <1>1, <1>2, <1>3, <1>4 DEF Base, Puts, RowsGoOn

\* Every writing step leaves the request and the page kept typed.
LEMMA BaseCommitPut ==
  ASSUME Base, NEW w \in Writer, CommitPut(w)
  PROVE  Base'
<1>0. TypeOK /\ Puts /\ PutKnows(w) /\ writers[w] \in Writes
  BY TypeParts DEF Base, Puts
<1>1. PICK i \in Item : i = writers[w].item
  BY <1>0 DEF PutKnows, CommitPut
<1>2. CASE ~There(i)
  <2>1. Done(w) /\ UNCHANGED <<clock, rows, hashes, votes, reader, cache, begun>>
    BY <1>1, <1>2 DEF CommitPut
  <2>2. TypeOK'
    BY <1>0, <2>1, DoneEffect, TypeParts, TypePartsNext
  <2> QED BY <1>0, <2>1, <2>2, RowsStay, PutsEnd DEF Base
<1>3. CASE There(i)
  <2>1. /\ hashes' = [hashes EXCEPT ![i] = writers[w].hash]
        /\ rows' = [rows EXCEPT ![i].stamp = writers[w].stamp]
        /\ Overtake(w) /\ Disturb(i, Late(writers[w].stamp))
        /\ UNCHANGED <<clock, votes, begun>>
    BY <1>1, <1>3 DEF CommitPut
  <2>2. writers[w].hash \in Hash /\ writers[w].stamp \in Stamps
    BY <1>0 DEF PutKnows, CommitPut, Writes
  <2>3. hashes' \in [Item -> Hash \cup {NoHash}]
    BY <1>0, <2>1, <2>2, TypeParts
  <2>4. /\ rows' \in [Item -> Rows]
        /\ \A j \in Item : rows'[j].state = rows[j].state
    <3>1. rows \in [Item -> Rows] /\ rows[i] \in Rows
      BY <1>0, TypeParts
    <3>2. [rows[i] EXCEPT !.stamp = writers[w].stamp] \in Rows
      BY <2>2, <3>1 DEF Rows
    <3> QED BY <2>1, <3>1, <3>2 DEF Rows
  <2>5. reader' \in Requests /\ cache' \in Caches
    BY <1>0, <2>1, DisturbTyped, CausesAreCauses
  <2>6. writers' \in [Writer -> Writes]
    BY <1>0, <2>1, OvertakeEffect
  <2>7. TypeOK'
    BY <1>0, <2>1, <2>3, <2>4, <2>5, <2>6, TypeParts, TypePartsNext
  <2>8. RowsGoOn
    <3>1. writers[w].hash # NoHash
      BY <2>2, CachingAssumption
    <3>2. \A j \in Item : hashes'[j] = IF j = i THEN writers[w].hash ELSE hashes[j]
      BY <1>0, <2>1, TypeParts
    <3>3. \A j \in Item : rows[j].state # "there" => hashes[j] = NoHash
      BY <1>0 DEF Puts, There
    <3> QED BY <1>3, <2>4, <3>1, <3>2, <3>3 DEF RowsGoOn, There
  <2> QED BY <2>1, <2>7, <2>8, PutsEnd DEF Base
<1> QED BY <1>2, <1>3

LEMMA BaseCommitSave ==
  ASSUME Base, NEW w \in Writer, CommitSave(w)
  PROVE  Base'
<1>0. TypeOK /\ Puts /\ PutKnows(w) /\ writers[w] \in Writes
  BY TypeParts DEF Base, Puts
<1>1. PICK i \in Item : i = writers[w].item
  BY <1>0 DEF PutKnows, CommitSave
<1>2. Done(w) /\ writers' \in [Writer -> Writes]
  BY <1>0, DoneEffect DEF CommitSave
<1>3. CASE rows[i].state = "gone"
  <2>1. UNCHANGED <<clock, rows, hashes, votes, reader, cache, begun>>
    BY <1>1, <1>3 DEF CommitSave
  <2>2. TypeOK'
    BY <1>0, <1>2, <2>1, TypeParts, TypePartsNext
  <2> QED BY <1>0, <1>2, <2>1, <2>2, RowsStay, PutsEnd DEF Base
<1>4. CASE rows[i].state # "gone"
  <2>1. /\ rows' = [rows EXCEPT ![i] = [state |-> "there", stamp |-> writers[w].stamp]]
        /\ hashes' = [hashes EXCEPT ![i] = IF There(i) THEN @ ELSE EmptyHash]
        /\ Disturb(i, Late(writers[w].stamp) \cup Beside(i))
        /\ UNCHANGED <<clock, votes, begun>>
    BY <1>1, <1>4 DEF CommitSave
  <2>2. hashes' \in [Item -> Hash \cup {NoHash}]
    BY <1>0, <2>1, EmptyFacts, TypeParts
  <2>3. rows' \in [Item -> Rows]
    <3>1. [state |-> "there", stamp |-> writers[w].stamp] \in Rows
      BY <1>0 DEF Rows, Writes
    <3> QED BY <1>0, <2>1, <3>1, TypeParts
  <2>4. reader' \in Requests /\ cache' \in Caches
    <3>1. (Late(writers[w].stamp) \cup Beside(i)) \in SUBSET Cause
      BY CausesAreCauses
    <3> QED BY <1>0, <2>1, <3>1, DisturbTyped
  <2>5. TypeOK'
    BY <1>0, <1>2, <2>1, <2>2, <2>3, <2>4, TypeParts, TypePartsNext
  <2>6. RowsGoOn
    <3>1. /\ rows'[i].state = "there"
          /\ \A j \in Item : j # i => rows'[j] = rows[j] /\ hashes'[j] = hashes[j]
          /\ rows[i].state = "there" => hashes'[i] = hashes[i]
          /\ rows[i].state \in {"absent", "there"}
      BY <1>0, <1>4, <2>1, TypeParts DEF There, Rows
    <3>2. \A j \in Item : rows[j].state # "there" => hashes[j] = NoHash
      BY <1>0 DEF Puts, There
    <3> QED BY <3>1, <3>2 DEF RowsGoOn, There
  <2> QED BY <1>2, <2>5, <2>6, PutsEnd DEF Base
<1> QED BY <1>3, <1>4

LEMMA BaseCommitVote ==
  ASSUME Base, NEW w \in Writer, CommitVote(w)
  PROVE  Base'
<1>0. TypeOK /\ Puts /\ PutKnows(w) /\ writers[w] \in Writes
  BY TypeParts DEF Base, Puts
<1>1. PICK i \in Item : i = writers[w].item
  BY <1>0 DEF PutKnows, CommitVote
<1>2. Done(w) /\ writers' \in [Writer -> Writes] /\ UNCHANGED <<clock, rows, hashes, begun>>
  BY <1>0, DoneEffect DEF CommitVote
<1> DEFINE new == [item |-> i, user |-> writers[w].user, stamp |-> writers[w].stamp]
<1>3. votes' \subseteq Vote /\ reader' \in Requests /\ cache' \in Caches
  <2>1. CASE UNCHANGED <<votes, reader, cache>>
    BY <1>0, <2>1, TypeParts
  <2>2. CASE ~UNCHANGED <<votes, reader, cache>>
    <3> DEFINE causes == Late(writers[w].stamp)
                           \cup {c \in {"vote"} : reader.url.kind = "index"}
    <3>1. votes' = votes \cup {new} /\ Disturb(i, causes)
      BY <1>1, <2>2 DEF CommitVote
    <3>2. causes \in SUBSET Cause
      BY CausesAreCauses DEF Cause
    <3>3. new \in Vote
      BY <1>0, <1>1 DEF CommitVote, PutKnows, Writes, Vote
    <3> QED BY <1>0, <3>1, <3>2, <3>3, TypeParts, DisturbTyped
  <2> QED BY <2>1, <2>2
<1>4. TypeOK'
  BY <1>0, <1>2, <1>3, TypeParts, TypePartsNext
<1> QED BY <1>0, <1>2, <1>4, RowsStay, PutsEnd DEF Base

LEMMA BaseRemovals ==
  ASSUME Base, (\E v \in votes : Unvote(v)) \/ (\E i \in Item : Destroy(i))
  PROVE  Base'
<1>0. TypeOK /\ Puts /\ {"removal"} \in SUBSET Cause
  BY DEF Base, Cause
<1>1. begun' \in 0..MaxWrites
  BY <1>0, TypeParts, CachingAssumption DEF Unvote, Destroy
<1>2. ASSUME NEW v \in votes, Unvote(v) PROVE Base'
  <2>1. reader' \in Requests /\ cache' \in Caches
    BY <1>0, <1>2, DisturbTyped DEF Unvote
  <2>2. TypeOK'
    BY <1>0, <1>1, <1>2, <2>1, TypeParts, TypePartsNext DEF Unvote
  <2>3. RowsGoOn
    BY <1>0, <1>2, RowsStay DEF Unvote
  <2>4. Puts'
    BY <1>0, <1>2, <2>3, PutKnowsOn DEF Unvote, Puts, RowsGoOn
  <2> QED BY <2>2, <2>4 DEF Base
<1>3. ASSUME NEW i \in Item, Destroy(i) PROVE Base'
  <2>1. reader' \in Requests /\ cache' \in Caches
    BY <1>0, <1>3, DisturbTyped DEF Destroy
  <2>2. [state |-> "gone", stamp |-> 0] \in Rows
    BY DEF Rows, Stamps
  <2>3. /\ rows' = [rows EXCEPT ![i] = [state |-> "gone", stamp |-> 0]]
        /\ hashes' = [hashes EXCEPT ![i] = NoHash]
        /\ votes' \subseteq votes /\ UNCHANGED <<clock, writers>>
    BY <1>3 DEF Destroy
  <2>4. TypeOK'
    BY <1>0, <1>1, <2>1, <2>2, <2>3, TypeParts, TypePartsNext
  <2>5. RowsGoOn
    <3>1. /\ rows'[i].state = "gone" /\ hashes'[i] = NoHash
          /\ \A j \in Item : j # i => rows'[j] = rows[j] /\ hashes'[j] = hashes[j]
      BY <1>0, <2>3, TypeParts
    <3>2. \A j \in Item : rows[j].state # "there" => hashes[j] = NoHash
      BY <1>0 DEF Puts, There
    <3> QED BY <3>1, <3>2 DEF RowsGoOn, There
  <2>6. Puts'
    BY <1>0, <2>3, <2>5, PutKnowsOn DEF Puts, RowsGoOn
  <2> QED BY <2>4, <2>6 DEF Base
<1> QED BY <1>2, <1>3

\* A step of the reader leaves the writers and what they know alone.
LEMMA BaseReader ==
  ASSUME Base, UNCHANGED <<votes, writers, begun>>, reader' \in Requests,
         cache' \in Caches,
         \/ UNCHANGED <<clock, rows, hashes>>
         \/ \E i \in Item : There(i) /\ CreateRow(i)
  PROVE  Base'
<1>0. TypeOK /\ Puts
  BY DEF Base
<1>1. CASE UNCHANGED <<clock, rows, hashes>>
  <2>1. TypeOK'
    BY <1>0, <1>1, TypeParts, TypePartsNext
  <2>2. RowsGoOn
    BY <1>0, <1>1, RowsStay
  <2>3. Puts'
    BY <1>0, <2>2, PutKnowsOn DEF Puts, RowsGoOn
  <2> QED BY <2>1, <2>3 DEF Base
<1>2. ASSUME NEW i \in Item, There(i), CreateRow(i) PROVE Base'
  <2>1. TypeOK'
    BY <1>0, <1>2, CreateRowTyped, TypeParts, TypePartsNext
  <2>2. /\ \A j \in Item : rows'[j].state = rows[j].state
        /\ \A j \in Item : hashes'[j] = IF j = i THEN EmptyHash ELSE hashes[j]
    BY <1>0, <1>2, TypeParts DEF CreateRow, Rows
  <2>3. EmptyHash # NoHash
    BY EmptyFacts
  <2>4. \A j \in Item : ~There(j) => hashes[j] = NoHash
    BY <1>0 DEF Puts
  <2>5. RowsGoOn
    BY <1>2, <2>2, <2>3, <2>4 DEF RowsGoOn, There
  <2>6. Puts'
    BY <1>0, <2>5, PutKnowsOn DEF Puts, RowsGoOn
  <2> QED BY <2>1, <2>6 DEF Base
<1> QED BY <1>1, <1>2

LEMMA AskTyped == ASSUME Base, Ask PROVE reader' \in Requests
<1> DEFINE url == reader.url
           found == {i \in Item : There(i) /\ (url.kind = "index" \/ url.item = i)}
           seen == [i \in Item |->
                      IF i \in found
                      THEN [Nothing EXCEPT !.there = TRUE,
                                           !.stamp = IF url.kind = "data" THEN 0
                                                     ELSE rows[i].stamp]
                      ELSE Nothing]
           tag == IF url.kind = "data" THEN rows[url.item].stamp ELSE 0
<1>0. reader \in Requests /\ rows \in [Item -> Rows] /\ url.item \in Item
  BY TypeParts, CachingAssumption DEF Base, Requests
<1>1. seen \in Page
  <2>1. \A n \in Stamps : [Nothing EXCEPT !.there = TRUE, !.stamp = n] \in Seen
    BY NothingTyped DEF Seen
  <2>2. \A i \in Item : (IF url.kind = "data" THEN 0 ELSE rows[i].stamp) \in Stamps
    BY <1>0 DEF Rows, Stamps
  <2> QED BY <2>1, <2>2, NothingTyped
<1>2. tag \in Stamps
  BY <1>0 DEF Rows, Stamps
<1>3. reader' = [reader EXCEPT
        !.at = IF url.kind = "data" THEN "ensure" ELSE "details",
        !.page = seen, !.tag = tag,
        !.left = IF url.kind = "show" THEN Item ELSE found, !.overlap = FALSE]
  BY DEF Ask
<1>4. (IF url.kind = "show" THEN Item ELSE found) \in SUBSET Item
  OBVIOUS
<1> HIDE DEF seen, tag, found
<1> QED BY <1>0, <1>1, <1>2, <1>3, <1>4 DEF Requests

LEMMA DetailsTyped ==
  ASSUME Base, NEW i \in Item, ReadDetails(i) PROVE reader' \in Requests
<1> DEFINE url == reader.url
           hash == IF url.kind = "index" THEN hashes[i] ELSE reader.page[i].hash
           seen == IF url.kind = "show" /\ url.item # i THEN PageNow(url)[i]
                   ELSE [reader.page[i] EXCEPT !.hash = hash, !.voted = Voted(i)]
<1>0. /\ TypeOK /\ reader \in Requests /\ hashes[i] \in Found \cup {NoHash}
      /\ reader.page \in [Item -> Seen]
  BY TypeParts, EmptyFacts, NothingTyped DEF Base, Requests
<1>1. Voted(i) \in BOOLEAN
  BY DEF Voted
<1>2. seen \in Seen
  <2>1. PageNow(url)[i] \in Seen
    BY <1>0, PageNowTyped, NothingTyped DEF Requests
  <2>2. reader.page[i] \in Seen
    BY <1>0
  <2>3. [reader.page[i] EXCEPT !.hash = hash, !.voted = Voted(i)] \in Seen
    BY <1>0, <1>1, <2>2 DEF Seen
  <2> QED BY <2>1, <2>3
<1>3. reader' = [reader EXCEPT !.left = @ \ {i}, !.page = [reader.page EXCEPT ![i] = seen]]
  <2>1. reader' = [reader EXCEPT !.left = @ \ {i}, !.page[i] = seen]
    BY DEF ReadDetails
  <2> HIDE DEF seen
  <2> QED BY <1>0, <2>1 DEF Requests
<1>4. [reader.page EXCEPT ![i] = seen] \in Page
  BY <1>0, <1>2, NothingTyped
<1> HIDE DEF seen
<1> QED BY <1>0, <1>3, <1>4 DEF Requests

\* The page with what is read of the extended data.
LEMMA HashReadTyped ==
  ASSUME Base, NEW i \in Item, NEW hash \in Found, NEW tag \in Stamps
  PROVE  [reader EXCEPT !.at = "details", !.left = {}, !.page[i].hash = hash,
                        !.tag = tag] \in Requests
<1>0. reader \in Requests /\ reader.page \in [Item -> Seen]
  BY TypeParts, NothingTyped DEF Base, Requests
<1>1. [reader.page[i] EXCEPT !.hash = hash] \in Seen
  BY <1>0 DEF Seen
<1>2. [reader.page EXCEPT ![i] = [reader.page[i] EXCEPT !.hash = hash]] \in Page
  BY <1>0, <1>1, NothingTyped
<1> QED BY <1>0, <1>2 DEF Requests

\* No stamp is ahead of the clock.
Clocked ==
  /\ \A i \in Item : rows[i].stamp <= clock
  /\ \A v \in votes : v.stamp <= clock
  /\ \A w \in Writer : writers[w].stamp <= clock
  /\ reader.tag <= clock /\ cache.tag <= clock

LEMMA TagFacts ==
  ASSUME Base, Clocked, NEW url \in Url
  PROVE  /\ TagNow(url) \in Stamps /\ TagNow(url) <= clock
         /\ url.kind = "index" => \A i \in Item : There(i) => rows[i].stamp <= TagNow(url)
         /\ url.kind = "show" /\ There(url.item) =>
              /\ rows[url.item].stamp <= TagNow(url)
              /\ \A v \in votes : v.item = url.item => v.stamp <= TagNow(url)
         /\ url.kind = "data" => TagNow(url) = rows[url.item].stamp
<1> DEFINE listed == {rows[i].stamp : i \in {j \in Item : There(j)}}
           shown == {rows[url.item].stamp} \cup
                      {v.stamp : v \in {x \in votes : x.item = url.item}}
<1>0. /\ url.item \in Item /\ clock \in Nat
      /\ rows \in [Item -> Rows] /\ votes \subseteq Vote
  BY TypeParts, CachingAssumption DEF Base
<1>1. \A s \in listed : s \in Nat /\ s <= clock
  BY <1>0 DEF Rows, Stamps, Clocked
<1>2. \A s \in shown : s \in Nat /\ s <= clock
  BY <1>0 DEF Rows, Stamps, Clocked, Vote
<1> HIDE DEF listed, shown
<1>3. /\ Latest(listed) \in Nat /\ Latest(listed) <= clock
      /\ \A s \in listed : s <= Latest(listed)
  BY <1>0, <1>1, LatestFacts
<1>4. /\ Latest(shown) \in Nat /\ Latest(shown) <= clock
      /\ \A s \in shown : s <= Latest(shown)
  BY <1>0, <1>2, LatestFacts
<1>5. CASE url.kind = "index"
  <2>1. TagNow(url) = Latest(listed)
    BY <1>5 DEF TagNow, CollectionTag, listed
  <2>2. \A i \in Item : There(i) => rows[i].stamp \in listed
    BY DEF listed
  <2> QED BY <1>3, <1>5, <2>1, <2>2 DEF Stamps
<1>6. CASE url.kind = "show"
  <2>1. TagNow(url) = IF There(url.item) THEN Latest(shown) ELSE 0
    BY <1>6 DEF TagNow, ShowTag, shown
  <2>2. /\ rows[url.item].stamp \in shown
        /\ \A v \in votes : v.item = url.item => v.stamp \in shown
    BY DEF shown
  <2> QED BY <1>0, <1>4, <1>6, <2>1, <2>2 DEF Stamps
<1>7. CASE url.kind = "data"
  BY <1>0, <1>7 DEF TagNow, Rows, Clocked
<1>8. url.kind \in Kind
  BY CachingAssumption
<1> QED BY <1>5, <1>6, <1>7, <1>8 DEF Kind

LEMMA BaseReads == ASSUME Base, Clocked, Read PROVE Base'
<1>0. /\ TypeOK /\ reader \in Requests /\ cache \in Caches
      /\ rows \in [Item -> Rows] /\ hashes \in [Item -> Hash \cup {NoHash}]
      /\ clock + 1 \in Stamps /\ reader.tag \in Stamps
  BY TypeParts DEF Base, Requests, Stamps
<1>1. PICK i \in Item : i = reader.url.item /\ reader.url.path \in ObjectPath
  BY <1>0, CachingAssumption DEF Requests
<1>2. CASE Ask
  <2>1. reader' \in Requests
    BY <1>2, AskTyped
  <2> QED BY <1>0, <1>2, <2>1, BaseReader DEF Ask
<1>3. CASE ReadHash
  <2>1. CASE hashes[i] = NoHash
    <3>1. reader' \in Requests
      BY <1>0, <1>1, <1>3, <2>1 DEF ReadHash, Requests
    <3> QED BY <1>0, <1>3, <3>1, BaseReader DEF ReadHash
  <2>2. CASE hashes[i] # NoHash
    <3>1. At(hashes[i], reader.url.path) \in Found
      BY <1>0, <1>1, <2>2, AtIsFound
    <3>2. reader' = [reader EXCEPT !.at = "details", !.left = {},
                       !.page[i].hash = At(hashes[i], reader.url.path), !.tag = reader.tag]
      BY <1>0, <1>1, <1>3, <2>2 DEF ReadHash, Requests
    <3>3. reader' \in Requests
      BY <1>0, <3>1, <3>2, HashReadTyped
    <3> QED BY <1>0, <1>3, <3>3, BaseReader DEF ReadHash
  <2> QED BY <2>1, <2>2
<1>4. CASE ReadMissingHash
  <2>1. CASE ~(There(i) /\ hashes[i] = NoHash)
    <3>1. reader' \in Requests /\ UNCHANGED <<clock, rows, hashes>>
      BY <1>0, <1>1, <1>4, <2>1 DEF ReadMissingHash, Requests
    <3> QED BY <1>0, <1>4, <3>1, BaseReader DEF ReadMissingHash
  <2>2. CASE There(i) /\ hashes[i] = NoHash
    <3>1. /\ CreateRow(i)
          /\ reader' = [reader EXCEPT !.at = "details", !.left = {},
                           !.page[i].hash = EmptyHash, !.tag = clock + 1]
      BY <1>1, <1>4, <2>2 DEF ReadMissingHash
    <3>2. reader' \in Requests
      BY <1>0, <3>1, EmptyFacts, HashReadTyped
    <3> QED BY <1>0, <1>4, <2>2, <3>1, <3>2, BaseReader DEF ReadMissingHash
  <2> QED BY <2>1, <2>2
<1>5. CASE Respond
  <2>1. reader' \in Requests
    BY <1>0, <1>5, NothingTyped DEF Respond, Requests, Stamps
  <2>2. cache' \in Caches
    <3>1. Validator \in Stamps
      BY <1>0, TagFacts DEF Validator, Requests
    <3> QED BY <1>0, <1>5, <3>1 DEF Respond, Caches, Cause, Requests
  <2> QED BY <1>0, <1>5, <2>1, <2>2, BaseReader DEF Respond
<1>6. ASSUME NEW j \in Item, ReadDetails(j) PROVE Base'
  <2>1. reader' \in Requests
    BY <1>6, DetailsTyped
  <2> QED BY <1>0, <1>6, <2>1, BaseReader DEF ReadDetails
<1> QED BY <1>2, <1>3, <1>4, <1>5, <1>6 DEF Read

\* A commit changes of the request and of the page kept what is known of them.
LEMMA DisturbEffect ==
  ASSUME TypeOK, NEW i, NEW causes, Disturb(i, causes)
  PROVE  /\ reader'.url = reader.url /\ reader'.at = reader.at
         /\ reader'.page = reader.page /\ reader'.tag = reader.tag
         /\ reader'.left = reader.left
         /\ reader'.overlap =
              (reader.overlap \/ (reader.at # "idle" /\ OnPage(reader.url, i)))
         /\ cache'.held = cache.held /\ cache'.page = cache.page
         /\ cache'.tag = cache.tag
         /\ cache'.why = IF cache.held /\ OnPage(reader.url, i)
                         THEN cache.why \cup causes ELSE cache.why
<1>0. reader \in Requests /\ cache \in Caches
  BY TypeParts
<1>1. /\ reader' = [reader EXCEPT !.overlap =
                      @ \/ (reader.at # "idle" /\ OnPage(reader.url, i))]
      /\ cache' = [cache EXCEPT !.why =
                     IF cache.held /\ OnPage(reader.url, i) THEN @ \cup causes ELSE @]
  BY DEF Disturb
<1> QED BY <1>0, <1>1 DEF Requests, Caches

-----------------------------------------------------------------------------
(* What a step of a writer does *)

OthersGoOn(w) ==
  /\ writers' \in [Writer -> Writes]
  /\ \A x \in Writer : x # w => /\ writers'[x].at = writers[x].at
                               /\ writers'[x].stamp = writers[x].stamp

\* It shows nothing to readers; a stamp it takes is the time.
Quiet(w) ==
  /\ UNCHANGED <<rows, hashes, votes, reader, cache>>
  /\ OthersGoOn(w)
  /\ \/ clock' = clock /\ writers'[w].at # "stamped"
        /\ writers'[w].stamp \in {0, writers[w].stamp}
     \/ /\ clock' = clock + 1
        /\ writers'[w].at = "stamped" /\ writers'[w].stamp = clock + 1

\* It inserts the row of extended data of an item.
Creates(w, i) ==
  /\ There(i) /\ hashes[i] = NoHash
  /\ CreateRow(i) /\ votes' = votes
  /\ Disturb(i, {})
  /\ OthersGoOn(w)
  /\ writers'[w].at = "ensured" /\ writers'[w].stamp = writers[w].stamp

Commits(w) ==
  /\ writers[w].at = "stamped"
  /\ clock' = clock
  /\ OthersGoOn(w)
  /\ writers'[w].at = "idle" /\ writers'[w].stamp = 0

Stores(w, i) ==
  /\ CommitPut(w) /\ i = writers[w].item
  /\ Commits(w) /\ There(i) /\ Overtake(w)
  /\ hashes' = [hashes EXCEPT ![i] = writers[w].hash]
  /\ rows' = [rows EXCEPT ![i].stamp = writers[w].stamp]
  /\ votes' = votes
  /\ Disturb(i, Late(writers[w].stamp))

Saves(w, i) ==
  /\ Commits(w) /\ rows[i].state # "gone"
  /\ rows' = [rows EXCEPT ![i] = [state |-> "there", stamp |-> writers[w].stamp]]
  /\ hashes' = [hashes EXCEPT ![i] = IF There(i) THEN @ ELSE EmptyHash]
  /\ votes' = votes
  /\ Disturb(i, Late(writers[w].stamp) \cup Beside(i))

Casts(w, i) ==
  /\ Commits(w) /\ There(i)
  /\ UNCHANGED <<rows, hashes>>
  /\ votes' = votes \cup
       {[item |-> i, user |-> writers[w].user, stamp |-> writers[w].stamp]}
  /\ Disturb(i, Late(writers[w].stamp)
                  \cup {c \in {"vote"} : reader.url.kind = "index"})

LEMMA DoneIsQuiet ==
  ASSUME TypeOK, NEW w \in Writer, Done(w),
         UNCHANGED <<clock, rows, hashes, votes, reader, cache>>
  PROVE  Quiet(w)
<1>1. NoWrite.stamp = 0
  BY DEF NoWrite
<1> QED BY <1>1, DoneEffect DEF Quiet, OthersGoOn

LEMMA CommitFacts ==
  ASSUME TypeOK, NEW w \in Writer, Done(w) \/ Overtake(w)
  PROVE  OthersGoOn(w) /\ writers'[w].at = "idle" /\ writers'[w].stamp = 0
<1>1. NoWrite.stamp = 0 /\ NoWrite.at = "idle"
  BY DEF NoWrite
<1> QED BY <1>1, DoneEffect, OvertakeEffect DEF OthersGoOn

LEMMA WriteSplit ==
  ASSUME Base, NEW w \in Writer, Write(w)
  PROVE  \/ Quiet(w)
         \/ \E i \in Item : Creates(w, i) \/ Stores(w, i) \/ Saves(w, i) \/ Casts(w, i)
<1>0. /\ TypeOK /\ PutKnows(w)
      /\ writers \in [Writer -> Writes] /\ writers[w] \in Writes
  BY TypeParts DEF Base, Puts
<1>1. ASSUME NEW i \in Item,
             \/ BeginPut(w, i) \/ BeginSave(w, i)
             \/ \E user \in {Me, Other} : BeginVote(w, i, user)
      PROVE  Quiet(w)
  <2>1. TypeOK'
    BY <1>0, <1>1, TypeBegins
  <2>2. /\ UNCHANGED <<rows, hashes, votes, reader, cache>>
        /\ \A x \in Writer : x # w => writers'[x] = writers[x]
    BY <1>0, <1>1 DEF BeginPut, BeginSave, BeginVote, Begin
  <2>3. CASE BeginPut(w, i)
    <3>1. /\ clock' = clock
          /\ writers'[w] = [NoWrite EXCEPT !.op = "put", !.item = i,
                              !.at = IF hashes[i] = NoHash THEN "insert" ELSE "ensured"]
      BY <1>0, <2>3 DEF BeginPut, Begin
    <3>2. writers'[w].at # "stamped" /\ writers'[w].stamp = 0
      BY <3>1 DEF NoWrite
    <3> QED BY <2>1, <2>2, <3>1, <3>2, TypePartsNext DEF Quiet, OthersGoOn
  <2>4. CASE BeginSave(w, i) \/ \E user \in {Me, Other} : BeginVote(w, i, user)
    <3>1. PICK op, user : clock' = clock + 1 /\ writers'[w] = Stamped(op, i, user)
      BY <1>0, <2>4 DEF BeginSave, BeginVote, Begin
    <3>2. writers'[w].at = "stamped" /\ writers'[w].stamp = clock + 1
      BY <3>1 DEF Stamped, NoWrite
    <3> QED BY <2>1, <2>2, <3>1, <3>2, TypePartsNext DEF Quiet, OthersGoOn
  <2> QED BY <1>1, <2>3, <2>4
<1>2. ASSUME NEW update \in Update, Load(w, update) PROVE Quiet(w)
  <2>1. UNCHANGED <<clock, rows, hashes, votes, reader, cache>> /\ TypeOK'
    BY <1>2, BaseLoad DEF Load, Base
  <2>2. CASE Done(w)
    BY <1>0, <2>1, <2>2, DoneIsQuiet
  <2>3. CASE ~Done(w)
    <3>1. PICK hash :
            writers' = [writers EXCEPT ![w].at = "ready", ![w].hash = hash,
                          ![w].path = update.path, ![w].datum = update.datum]
      BY <1>2, <2>3 DEF Load
    <3>2. /\ writers'[w].at = "ready" /\ writers'[w].stamp = writers[w].stamp
          /\ \A x \in Writer : x # w => writers'[x] = writers[x]
      BY <1>0, <3>1 DEF Writes
    <3> QED BY <2>1, <3>2, TypePartsNext DEF Quiet, OthersGoOn
  <2> QED BY <2>2, <2>3
<1>3. CASE Refuse(w)
  BY <1>0, <1>3, DoneIsQuiet DEF Refuse
<1>4. CASE Stamp(w)
  <2>1. UNCHANGED <<rows, hashes, votes, reader, cache>> /\ clock' = clock + 1
    BY <1>4 DEF Stamp
  <2> QED BY <1>0, <1>4, <2>1, StampEffect DEF Quiet, OthersGoOn
<1>5. CASE Insert(w)
  <2>1. PICK i \in Item : i = writers[w].item
    BY <1>0, <1>5 DEF PutKnows, Insert
  <2>2. CASE There(i) /\ hashes[i] = NoHash
    <3>1. /\ CreateRow(i) /\ Disturb(i, {}) /\ votes' = votes
          /\ writers' = [writers EXCEPT ![w].at = "ensured"]
      BY <1>5, <2>1, <2>2 DEF Insert
    <3>2. /\ writers'[w].at = "ensured" /\ writers'[w].stamp = writers[w].stamp
          /\ \A x \in Writer : x # w => writers'[x] = writers[x]
      BY <1>0, <3>1 DEF Writes
    <3>3. writers' \in [Writer -> Writes]
      BY <1>5, BaseInsert, TypePartsNext DEF Base
    <3>4. Creates(w, i)
      BY <2>2, <3>1, <3>2, <3>3 DEF Creates, OthersGoOn
    <3> QED BY <3>4
  <2>3. CASE ~(There(i) /\ hashes[i] = NoHash)
    <3>1. Done(w) /\ UNCHANGED <<clock, rows, hashes, votes, reader, cache>>
      BY <1>5, <2>1, <2>3 DEF Insert
    <3> QED BY <1>0, <3>1, DoneIsQuiet
  <2> QED BY <2>2, <2>3
<1>6. CASE CommitPut(w)
  <2>1. PICK i \in Item : i = writers[w].item
    BY <1>0, <1>6 DEF PutKnows, CommitPut
  <2>2. CASE There(i)
    <3>1. Overtake(w)
      BY <1>6, <2>1, <2>2 DEF CommitPut
    <3>2. OthersGoOn(w) /\ writers'[w].at = "idle" /\ writers'[w].stamp = 0
      BY <1>0, <3>1, CommitFacts
    <3>3. Stores(w, i)
      BY <1>6, <2>1, <2>2, <3>1, <3>2 DEF CommitPut, Stores, Commits
    <3> QED BY <3>3
  <2>3. CASE ~There(i)
    <3>1. Done(w) /\ UNCHANGED <<clock, rows, hashes, votes, reader, cache>>
      BY <1>6, <2>1, <2>3 DEF CommitPut
    <3> QED BY <1>0, <3>1, DoneIsQuiet
  <2> QED BY <2>2, <2>3
<1>7. CASE CommitSave(w)
  <2>0. Done(w) /\ OthersGoOn(w) /\ writers'[w].at = "idle" /\ writers'[w].stamp = 0
    BY <1>0, <1>7, CommitFacts DEF CommitSave
  <2>1. PICK i \in Item : i = writers[w].item
    BY <1>0, <1>7 DEF PutKnows, CommitSave
  <2>2. CASE rows[i].state # "gone"
    <3>1. Saves(w, i)
      BY <1>7, <2>0, <2>1, <2>2 DEF CommitSave, Saves, Commits
    <3> QED BY <3>1
  <2>3. CASE rows[i].state = "gone"
    <3>1. UNCHANGED <<clock, rows, hashes, votes, reader, cache>>
      BY <1>7, <2>1, <2>3 DEF CommitSave
    <3> QED BY <1>0, <2>0, <3>1, DoneIsQuiet
  <2> QED BY <2>2, <2>3
<1>8. CASE CommitVote(w)
  <2>0. /\ Done(w) /\ OthersGoOn(w) /\ writers'[w].at = "idle" /\ writers'[w].stamp = 0
        /\ UNCHANGED <<clock, rows, hashes>>
    BY <1>0, <1>8, CommitFacts DEF CommitVote
  <2>1. PICK i \in Item : i = writers[w].item
    BY <1>0, <1>8 DEF PutKnows, CommitVote
  <2>2. CASE UNCHANGED <<votes, reader, cache>>
    BY <1>0, <2>0, <2>2, DoneIsQuiet
  <2>3. CASE ~UNCHANGED <<votes, reader, cache>>
    <3>1. Casts(w, i)
      BY <1>8, <2>0, <2>1, <2>3 DEF CommitVote, Casts, Commits
    <3> QED BY <3>1
  <2> QED BY <2>2, <2>3
<1> QED BY <1>1, <1>2, <1>3, <1>4, <1>5, <1>6, <1>7, <1>8 DEF Write

-----------------------------------------------------------------------------
(* The stamps *)

\* A stamp that waits for its commit is on nothing that is stored, on no other
\* write and in no validator of extended data.
Unused ==
  \A w \in Writer : writers[w].at = "stamped" =>
    /\ writers[w].stamp > 0
    /\ \A x \in Writer : x # w /\ writers[x].at = "stamped" =>
         writers[x].stamp # writers[w].stamp
    /\ \A i \in Item : rows[i].stamp # writers[w].stamp
    /\ \A v \in votes : v.stamp # writers[w].stamp
    /\ reader.url.kind = "data" =>
         reader.tag # writers[w].stamp /\ cache.tag # writers[w].stamp

\* The requests for extended data and for pages go through different places.
Places ==
  /\ reader.at \in {"ensure", "insert"} => reader.url.kind = "data"
  /\ reader.url.kind = "data" /\ reader.at = "details" => reader.left = {}

Order == Base /\ Clocked /\ Unused /\ Places

LEMMA NumberFacts ==
  ASSUME Base
  PROVE  /\ clock \in Nat /\ reader.tag \in Nat /\ cache.tag \in Nat
         /\ rows \in [Item -> Rows] /\ \A i \in Item : rows[i].stamp \in Nat
         /\ \A x \in Writer : writers[x].stamp \in Nat
         /\ votes \subseteq Vote /\ \A v \in votes : v.stamp \in Nat
  BY TypeParts DEF Base, Rows, Writes, Vote, Requests, Caches, Stamps

\* What the stored stamps are after a step: those before, 0, or a new one.
LEMMA OrderKept ==
  ASSUME Order, Places', Base', NEW w \in Writer, NEW new,
         reader'.url = reader.url,
         \/ /\ clock' = clock /\ writers[w].at = "stamped"
            /\ new = writers[w].stamp /\ writers'[w].at = "idle"
            /\ writers'[w].stamp = 0
         \/ /\ clock' = clock + 1 /\ new = clock + 1
            /\ writers'[w].at # "stamped" /\ writers'[w].stamp = writers[w].stamp,
         OthersGoOn(w),
         \A i \in Item : rows'[i].stamp \in {0, new, rows[i].stamp},
         \A v \in votes' : v.stamp = new \/ v \in votes,
         reader'.tag = reader.tag, cache'.tag = cache.tag
  PROVE  Order'
<1>0. /\ clock \in Nat /\ new \in Nat /\ reader.tag \in Nat /\ cache.tag \in Nat
      /\ \A i \in Item : rows[i].stamp \in Nat
      /\ \A x \in Writer : writers[x].stamp \in Nat
      /\ \A v \in votes : v.stamp \in Nat
  BY NumberFacts DEF Order
<1>1. clock <= clock' /\ clock' \in Nat /\ new <= clock'
  BY <1>0 DEF Order, Clocked
<1>2. Clocked'
  <2>1. \A i \in Item : rows'[i].stamp <= clock'
    BY <1>0, <1>1 DEF Order, Clocked
  <2>2. \A v \in votes' : v.stamp <= clock'
    BY <1>0, <1>1 DEF Order, Clocked
  <2>3. \A x \in Writer : writers'[x].stamp <= clock'
    BY <1>0, <1>1 DEF Order, Clocked, OthersGoOn
  <2>4. reader'.tag <= clock' /\ cache'.tag <= clock'
    BY <1>0, <1>1 DEF Order, Clocked
  <2> QED BY <2>1, <2>2, <2>3, <2>4 DEF Clocked
<1>3. ASSUME NEW x \in Writer, writers'[x].at = "stamped"
      PROVE  /\ x # w /\ writers[x].at = "stamped"
             /\ writers'[x].stamp = writers[x].stamp
             /\ writers[x].stamp # new /\ writers[x].stamp > 0
  BY <1>0, <1>3 DEF Order, Clocked, Unused, OthersGoOn
<1>4. Unused'
  <2> SUFFICES ASSUME NEW x \in Writer, writers'[x].at = "stamped"
               PROVE  /\ writers'[x].stamp > 0
                      /\ \A y \in Writer : y # x /\ writers'[y].at = "stamped" =>
                           writers'[y].stamp # writers'[x].stamp
                      /\ \A i \in Item : rows'[i].stamp # writers'[x].stamp
                      /\ \A v \in votes' : v.stamp # writers'[x].stamp
                      /\ reader'.url.kind = "data" =>
                           /\ reader'.tag # writers'[x].stamp
                           /\ cache'.tag # writers'[x].stamp
    BY DEF Unused
  <2>1. \A y \in Writer : y # x /\ writers'[y].at = "stamped" =>
          writers'[y].stamp # writers'[x].stamp
    BY <1>3 DEF Order, Unused
  <2>2. \A i \in Item : rows'[i].stamp # writers'[x].stamp
    BY <1>0, <1>3 DEF Order, Unused
  <2>3. \A v \in votes' : v.stamp # writers'[x].stamp
    BY <1>0, <1>3 DEF Order, Unused
  <2>4. reader'.url.kind = "data" =>
          reader'.tag # writers'[x].stamp /\ cache'.tag # writers'[x].stamp
    BY <1>3 DEF Order, Unused
  <2> QED BY <1>0, <1>3, <2>1, <2>2, <2>3, <2>4
<1> QED BY <1>2, <1>4 DEF Order

LEMMA BaseWriter ==
  ASSUME Base, NEW w \in Writer, Write(w)
  PROVE  Base'
<1>1. CASE \E i \in Item : \/ BeginPut(w, i) \/ BeginSave(w, i)
                          \/ \E user \in {Me, Other} : BeginVote(w, i, user)
  BY <1>1, BaseBegins
<1>2. CASE \E update \in Update : Load(w, update)
  BY <1>2, BaseLoad
<1>3. CASE Insert(w) \/ Refuse(w) \/ Stamp(w)
  BY <1>3, BaseInsert, BaseRefuse, BaseStamp
<1>4. CASE CommitPut(w) \/ CommitSave(w) \/ CommitVote(w)
  BY <1>4, BaseCommitPut, BaseCommitSave, BaseCommitVote
<1> QED BY <1>1, <1>2, <1>3, <1>4 DEF Write

\* The rows after a step that writes one.
RowBecomes(i, state, stamp, hash) ==
  \A j \in Item :
    /\ rows'[j].state = IF j = i THEN state ELSE rows[j].state
    /\ rows'[j].stamp = IF j = i THEN stamp ELSE rows[j].stamp
    /\ hashes'[j] = IF j = i THEN hash ELSE hashes[j]

LEMMA CommitEffect ==
  ASSUME Base, NEW w \in Writer, NEW i \in Item
  PROVE  /\ Creates(w, i) => RowBecomes(i, "there", clock + 1, EmptyHash)
         /\ Stores(w, i) => RowBecomes(i, "there", writers[w].stamp, writers[w].hash)
         /\ Saves(w, i) => RowBecomes(i, "there", writers[w].stamp,
                                      IF There(i) THEN hashes[i] ELSE EmptyHash)
         /\ Destroy(i) => RowBecomes(i, "gone", 0, NoHash)
<1>0. rows \in [Item -> Rows] /\ rows[i] \in Rows /\ hashes \in [Item -> Hash \cup {NoHash}]
  BY TypeParts DEF Base
<1>1. ASSUME Creates(w, i) PROVE RowBecomes(i, "there", clock + 1, EmptyHash)
  BY <1>0, <1>1 DEF Creates, CreateRow, RowBecomes, There, Rows
<1>2. ASSUME Stores(w, i)
      PROVE  RowBecomes(i, "there", writers[w].stamp, writers[w].hash)
  BY <1>0, <1>2 DEF Stores, RowBecomes, There, Rows
<1>3. ASSUME Saves(w, i)
      PROVE  RowBecomes(i, "there", writers[w].stamp,
                        IF There(i) THEN hashes[i] ELSE EmptyHash)
  BY <1>0, <1>3 DEF Saves, RowBecomes
<1>4. ASSUME Destroy(i) PROVE RowBecomes(i, "gone", 0, NoHash)
  BY <1>0, <1>4 DEF Destroy, RowBecomes
<1> QED BY <1>1, <1>2, <1>3, <1>4

LEMMA OrderWriter ==
  ASSUME Order, NEW w \in Writer, Write(w)
  PROVE  Order'
<1>0. Base /\ TypeOK /\ Base'
  BY BaseWriter DEF Order, Base
<1>1. CASE Quiet(w)
  <2>1. Places'
    BY <1>1 DEF Order, Places, Quiet
  <2>2. Clocked' /\ Unused'
    <3>1. /\ clock \in Nat /\ reader.tag \in Nat /\ cache.tag \in Nat
          /\ \A i \in Item : rows[i].stamp \in Nat
          /\ \A x \in Writer : writers[x].stamp \in Nat
          /\ \A v \in votes : v.stamp \in Nat
      BY <1>0, NumberFacts
    <3>2. /\ \A x \in Writer : x # w => /\ writers'[x].at = writers[x].at
                                       /\ writers'[x].stamp = writers[x].stamp
          /\ UNCHANGED <<rows, hashes, votes, reader, cache>>
      BY <1>1 DEF Quiet, OthersGoOn
    <3>3. CASE /\ clock' = clock /\ writers'[w].at # "stamped"
               /\ writers'[w].stamp \in {0, writers[w].stamp}
      BY <3>1, <3>2, <3>3 DEF Order, Clocked, Unused
    <3>4. CASE /\ clock' = clock + 1
               /\ writers'[w].at = "stamped" /\ writers'[w].stamp = clock + 1
      <4>1. Clocked'
        BY <3>1, <3>2, <3>4 DEF Order, Clocked
      <4>2. Unused'
        BY <3>1, <3>2, <3>4 DEF Order, Clocked, Unused
      <4> QED BY <4>1, <4>2
    <3> QED BY <1>1, <3>3, <3>4 DEF Quiet
  <2> QED BY <1>0, <2>1, <2>2 DEF Order
<1>2. ASSUME NEW i \in Item, Creates(w, i) \/ Stores(w, i) \/ Saves(w, i) \/ Casts(w, i)
      PROVE  Order'
  <2>1. \E causes : Disturb(i, causes)
    BY <1>2 DEF Creates, Stores, Saves, Casts
  <2>2. /\ reader'.url = reader.url /\ reader'.at = reader.at
        /\ reader'.tag = reader.tag /\ reader'.left = reader.left
        /\ cache'.tag = cache.tag
    BY <1>0, <2>1, DisturbEffect
  <2>3. Places'
    BY <2>2 DEF Order, Places
  <2>4. CASE Creates(w, i)
    <3>1. \A j \in Item : rows'[j].stamp \in {0, clock + 1, rows[j].stamp}
      BY <1>0, <2>4, CommitEffect DEF RowBecomes
    <3>2. /\ clock' = clock + 1 /\ votes' = votes /\ OthersGoOn(w)
          /\ writers'[w].at # "stamped" /\ writers'[w].stamp = writers[w].stamp
      BY <2>4 DEF Creates, CreateRow
    <3> QED BY <1>0, <2>2, <2>3, <3>1, <3>2, OrderKept
  <2>5. CASE Stores(w, i) \/ Saves(w, i) \/ Casts(w, i)
    <3>1. \A j \in Item : rows'[j].stamp \in {0, writers[w].stamp, rows[j].stamp}
      <4>1. CASE Stores(w, i)
        BY <1>0, <4>1, CommitEffect DEF RowBecomes
      <4>2. CASE Saves(w, i)
        BY <1>0, <4>2, CommitEffect DEF RowBecomes
      <4>3. CASE Casts(w, i)
        BY <4>3 DEF Casts
      <4> QED BY <2>5, <4>1, <4>2, <4>3
    <3>2. \A v \in votes' : v.stamp = writers[w].stamp \/ v \in votes
      BY <2>5 DEF Stores, Saves, Casts
    <3>3. Commits(w)
      BY <2>5 DEF Stores, Saves, Casts
    <3> QED BY <1>0, <2>2, <2>3, <3>1, <3>2, <3>3, OrderKept DEF Commits
  <2> QED BY <1>2, <2>4, <2>5
<1> QED BY <1>0, <1>1, <1>2, WriteSplit

LEMMA OrderRemovals ==
  ASSUME Order, (\E v \in votes : Unvote(v)) \/ (\E i \in Item : Destroy(i))
  PROVE  Order'
<1>0. /\ Base /\ TypeOK /\ Base' /\ clock \in Nat
      /\ \A i \in Item : rows[i].stamp \in Nat
  BY BaseRemovals, NumberFacts DEF Order, Base
<1> DEFINE taken ==
             /\ clock' = clock /\ writers' = writers /\ votes' \subseteq votes
             /\ \A i \in Item : rows'[i].stamp \in {0, rows[i].stamp}
<1>1. taken
  <2>1. ASSUME NEW v \in votes, Unvote(v) PROVE taken
    BY <2>1 DEF Unvote
  <2>2. ASSUME NEW i \in Item, Destroy(i) PROVE taken
    <3>1. rows' = [rows EXCEPT ![i] = [state |-> "gone", stamp |-> 0]]
      BY <2>2 DEF Destroy
    <3>2. \A j \in Item : rows'[j].stamp \in {0, rows[j].stamp}
      BY <1>0, <3>1, NumberFacts
    <3> QED BY <2>2, <3>2 DEF Destroy
  <2> QED BY <2>1, <2>2
<1>2. /\ reader'.url = reader.url /\ reader'.at = reader.at
      /\ reader'.tag = reader.tag /\ reader'.left = reader.left
      /\ cache'.tag = cache.tag
  <2>1. \E i, causes : Disturb(i, causes)
    BY DEF Unvote, Destroy
  <2> QED BY <1>0, <2>1, DisturbEffect
<1>3. Places'
  BY <1>2 DEF Order, Places
<1>4. Clocked'
  BY <1>0, <1>1, <1>2 DEF Order, Clocked
<1>5. Unused'
  <2>1. \A x \in Writer : writers[x].at = "stamped" => writers[x].stamp # 0
    <3>1. \A x \in Writer : writers[x].stamp \in Nat
      BY <1>0, NumberFacts
    <3> QED BY <3>1 DEF Order, Unused
  <2> QED BY <1>1, <1>2, <2>1 DEF Order, Unused
<1> QED BY <1>0, <1>3, <1>4, <1>5 DEF Order

\* The steps of the reader but the one that inserts a row store nothing.
LEMMA ReadSplit ==
  ASSUME Base, Read
  PROVE  /\ UNCHANGED <<votes, writers, begun>>
         /\ reader'.url = reader.url
         /\ \/ UNCHANGED <<clock, rows, hashes>>
            \/ /\ ReadMissingHash
               /\ There(reader.url.item) /\ hashes[reader.url.item] = NoHash
               /\ CreateRow(reader.url.item)
<1>0. reader \in Requests
  BY TypeParts DEF Base
<1>1. CASE Ask \/ ReadHash \/ Respond \/ \E i \in Item : ReadDetails(i)
  <2>1. UNCHANGED <<clock, rows, hashes, votes, writers, begun>>
    BY <1>1 DEF Ask, ReadHash, Respond, ReadDetails
  <2>2. reader'.url = reader.url
    BY <1>0, <1>1 DEF Ask, ReadHash, Respond, ReadDetails, Requests
  <2> QED BY <2>1, <2>2
<1>2. CASE ReadMissingHash
  BY <1>0, <1>2 DEF ReadMissingHash, Requests
<1> QED BY <1>1, <1>2 DEF Read

LEMMA OrderReader ==
  ASSUME Order, Read
  PROVE  Order'
<1>0. /\ Base /\ TypeOK /\ Base' /\ reader \in Requests /\ reader' \in Requests
      /\ cache \in Caches /\ reader.url \in Url /\ reader.url.item \in Item
      /\ clock \in Nat /\ reader.tag \in Nat /\ cache.tag \in Nat
      /\ rows \in [Item -> Rows]
      /\ \A i \in Item : rows[i].stamp \in Nat
      /\ \A x \in Writer : writers[x].stamp \in Nat
      /\ \A v \in votes : v.stamp \in Nat
  BY BaseReads, NumberFacts, TypeParts, TypePartsNext, CachingAssumption
  DEF Order, Base, Requests
<1>1. UNCHANGED <<votes, writers, begun>> /\ reader'.url = reader.url
  BY <1>0, ReadSplit
<1>2. CASE UNCHANGED <<clock, rows, hashes>>
  <2>1. reader'.tag \in {0, reader.tag, rows[reader.url.item].stamp}
    <3>1. CASE Ask
      BY <1>0, <3>1 DEF Ask, Requests
    <3>2. CASE ReadHash \/ Respond \/ \E i \in Item : ReadDetails(i)
      BY <1>0, <3>2 DEF ReadHash, Respond, ReadDetails, Requests
    <3>3. CASE ReadMissingHash
      <4>1. clock' # clock + 1
        BY <1>0, <1>2
      <4>2. reader' = [reader EXCEPT !.at = "idle"]
        BY <3>3, <4>1 DEF ReadMissingHash, CreateRow
      <4> QED BY <1>0, <4>2 DEF Requests
    <3> QED BY <3>1, <3>2, <3>3 DEF Read
  <2>2. /\ cache'.tag = cache.tag \/ cache'.tag = Validator
        /\ Validator \in Nat /\ Validator <= clock
    <3>1. cache'.tag = cache.tag \/ cache'.tag = Validator
      <4>1. CASE Respond
        BY <4>1 DEF Respond
      <4>2. CASE ~Respond
        BY <4>2 DEF Read, Ask, ReadHash, ReadMissingHash, ReadDetails
      <4> QED BY <4>1, <4>2
    <3>2. TagNow(reader.url) \in Nat /\ TagNow(reader.url) <= clock
      BY <1>0, TagFacts DEF Order, Stamps
    <3> QED BY <1>0, <3>1, <3>2 DEF Validator, Order, Clocked
  <2>3. Clocked'
    BY <1>0, <1>1, <1>2, <2>1, <2>2 DEF Order, Clocked
  <2>4. Unused'
    <3>1. reader.url.kind = "data" => Validator = reader.tag
      BY DEF Validator
    <3> QED BY <1>0, <1>1, <1>2, <2>1, <2>2, <3>1 DEF Order, Unused
  <2>5. Places'
    BY <1>0, <1>1 DEF Order, Places, Read, Ask, ReadHash, ReadMissingHash, Respond,
      ReadDetails, Requests
  <2> QED BY <1>0, <2>3, <2>4, <2>5 DEF Order
<1>3. CASE /\ ReadMissingHash /\ There(reader.url.item)
           /\ hashes[reader.url.item] = NoHash
           /\ CreateRow(reader.url.item)
  <2> DEFINE i == reader.url.item
  <2>1. /\ reader'.tag = clock + 1 /\ reader'.at = "details" /\ reader'.left = {}
        /\ cache' = cache /\ clock' = clock + 1
    BY <1>0, <1>3 DEF ReadMissingHash, Requests, CreateRow
  <2>2. \A j \in Item : rows'[j].stamp \in {clock + 1, rows[j].stamp}
    BY <1>0, <1>3 DEF CreateRow, Rows
  <2>3. Clocked'
    BY <1>0, <1>1, <2>1, <2>2 DEF Order, Clocked
  <2>4. Unused'
    BY <1>0, <1>1, <2>1, <2>2 DEF Order, Clocked, Unused
  <2>5. Places'
    BY <2>1 DEF Places
  <2> QED BY <1>0, <2>3, <2>4, <2>5 DEF Order
<1> QED BY <1>0, <1>2, <1>3, ReadSplit

LEMMA OrderInit == Init => Order
<1> SUFFICES ASSUME Init PROVE Order
  OBVIOUS
<1>1. Base
  BY BaseInit
<1>2. /\ clock = 0 /\ votes = {} /\ \A i \in Item : rows[i].stamp = 0
      /\ \A w \in Writer : writers[w].stamp = 0 /\ writers[w].at = "idle"
      /\ cache.tag = 0
  BY DEF Init, NoWrite
<1>3. reader.tag = 0 /\ reader.at = "idle"
  BY DEF Init, NoRequest
<1> QED BY <1>1, <1>2, <1>3 DEF Order, Clocked, Unused, Places

LEMMA OrderStep == Order /\ [Next]_vars => Order'
<1> SUFFICES ASSUME Order, [Next]_vars PROVE Order'
  OBVIOUS
<1>1. CASE UNCHANGED vars
  BY <1>1 DEF vars, Order, Base, TypeOK, Puts, PutKnows, There, Clocked, Unused, Places,
    Page, Stamps
<1>2. CASE \E w \in Writer : Write(w)
  BY <1>2, OrderWriter
<1>3. CASE (\E v \in votes : Unvote(v)) \/ (\E i \in Item : Destroy(i))
  BY <1>3, OrderRemovals
<1>4. CASE Read
  BY <1>4, OrderReader
<1> QED BY <1>1, <1>2, <1>3, <1>4 DEF Next

THEOREM CachingOrder == Spec => []Order
  BY OrderInit, OrderStep, PTL DEF Spec

\* Whatever is merged in whatever order, what is stored is a hash without blanks
\* and with no leaf below another, and what is answered is one or a scalar.
THEOREM CachingTypes == Spec => []TypeOK
<1>1. Order => TypeOK
  BY DEF Order, Base
<1> QED BY <1>1, CachingOrder, PTL

-----------------------------------------------------------------------------
(* The leaves that stay *)

\* An update that is not overtaken has merged what is stored now.
Rebased(w) ==
  /\ writers[w].op = "put" /\ writers[w].at \in {"ready", "stamped"}
  /\ There(writers[w].item) /\ ~writers[w].overtaken
  => writers[w].hash \in
       Merges(hashes[writers[w].item], writers[w].path, writers[w].datum)

\* One update at a time has the row.
OneHasRow ==
  \A w, x \in Writer :
    /\ writers[w].op = "put" /\ writers[w].at = "stamped"
    /\ writers[x].op = "put" /\ writers[x].at = "stamped"
    /\ writers[w].item = writers[x].item
    => w = x

Merged == (\A w \in Writer : Rebased(w)) /\ OneHasRow

Steady(i) == There(i)' => There(i) /\ hashes'[i] = hashes[i]

\* A hash that is stored stays as it is, or goes with its proposal.
LeavesStay ==
  \A i \in Item : Steady(i) \/ hashes[i] = NoHash

LEMMA RebasedOn ==
  ASSUME Base, LeavesStay, RowsGoOn, NEW x \in Writer, Rebased(x),
         writers'[x] = writers[x]
  PROVE  Rebased(x)'
<1>1. PutKnows(x)
  BY DEF Base, Puts
<1>2. CASE writers[x].op = "put" /\ writers[x].at \in {"ready", "stamped"}
  <2>1. /\ writers[x].item \in Item /\ rows[writers[x].item].state # "absent"
        /\ There(writers[x].item) => hashes[writers[x].item] # NoHash
    BY <1>1, <1>2 DEF PutKnows
  <2> QED BY <1>2, <2>1 DEF Rebased, LeavesStay, Steady, RowsGoOn, There
<1>3. CASE ~(writers[x].op = "put" /\ writers[x].at \in {"ready", "stamped"})
  BY <1>3 DEF Rebased
<1> QED BY <1>2, <1>3

LEMMA RowBecomesStays ==
  ASSUME Base, NEW i \in Item, NEW state, NEW stamp, NEW hash,
         RowBecomes(i, state, stamp, hash),
         \/ state = "gone" /\ hash = NoHash
         \/ /\ state = "there" /\ hash # NoHash
            /\ rows[i].state # "gone"
            /\ There(i) => hashes[i] \in {NoHash, hash}
  PROVE  LeavesStay /\ RowsGoOn
<1>1. \A j \in Item : rows[j].state # "there" => hashes[j] = NoHash
  BY DEF Base, Puts, There
<1>2. rows[i].state \in {"absent", "there", "gone"}
  BY TypeParts DEF Base, Rows
<1> QED BY <1>1, <1>2 DEF RowBecomes, LeavesStay, Steady, RowsGoOn, There

\* Only the commit of an update changes a hash that is there.
LEMMA LeavesStayMostly ==
  ASSUME Base, NEW w \in Writer, Write(w),
         \A i \in Item : ~Stores(w, i)
  PROVE  LeavesStay /\ RowsGoOn
<1>0. /\ EmptyHash # NoHash /\ TypeOK /\ Puts
      /\ hashes \in [Item -> Hash \cup {NoHash}]
  BY EmptyFacts, TypeParts DEF Base
<1>1. CASE UNCHANGED <<rows, hashes>>
  BY <1>0, <1>1, RowsStay DEF LeavesStay, Steady, There
<1>2. ASSUME NEW i \in Item, Creates(w, i) PROVE LeavesStay /\ RowsGoOn
  <2>1. There(i) /\ hashes[i] = NoHash
    BY <1>2 DEF Creates
  <2>2. RowBecomes(i, "there", clock + 1, EmptyHash)
    BY <1>2, CommitEffect
  <2> QED BY <1>0, <2>1, <2>2, RowBecomesStays DEF There
<1>3. ASSUME NEW i \in Item, Saves(w, i), hashes[i] # NoHash \/ ~There(i)
      PROVE  LeavesStay /\ RowsGoOn
  <2> DEFINE hash == IF There(i) THEN hashes[i] ELSE EmptyHash
  <2>1. RowBecomes(i, "there", writers[w].stamp, hash) /\ rows[i].state # "gone"
    BY <1>3, CommitEffect DEF Saves
  <2>2. hash # NoHash /\ (There(i) => hashes[i] \in {NoHash, hash})
    BY <1>0, <1>3
  <2> HIDE DEF hash
  <2> QED BY <2>1, <2>2, RowBecomesStays
<1>4. ASSUME NEW i \in Item, Saves(w, i), hashes[i] = NoHash, There(i)
      PROVE  LeavesStay /\ RowsGoOn
  <2>1. RowBecomes(i, "there", writers[w].stamp, hashes[i])
    BY <1>4, CommitEffect
  <2>2. \A j \in Item : ~There(j) => hashes[j] = NoHash
    BY <1>0 DEF Puts
  <2> QED BY <1>4, <2>1, <2>2 DEF RowBecomes, LeavesStay, Steady, RowsGoOn, There
<1> QED BY <1>1, <1>2, <1>3, <1>4, WriteSplit DEF Quiet, Casts

\* What the step of a writer makes of the writers, where no update commits.
LEMMA OneWriter ==
  ASSUME Base, NEW w \in Writer, Write(w), \A i \in Item : ~Stores(w, i)
  PROVE  /\ \A x \in Writer : x # w => writers'[x] = writers[x]
         /\ \/ writers'[w].op # "put" \/ writers'[w].at \notin {"ready", "stamped"}
            \/ Stamp(w)
            \/ \E update \in Update : Load(w, update) /\ ~Done(w)
<1>0. /\ TypeOK /\ PutKnows(w)
      /\ writers \in [Writer -> Writes] /\ writers[w] \in Writes
      /\ NoWrite.at = "idle"
  BY TypeParts DEF Base, Puts, NoWrite
<1>1. ASSUME NEW i \in Item, BeginPut(w, i)
      PROVE  /\ \A x \in Writer : x # w => writers'[x] = writers[x]
             /\ writers'[w].at \notin {"ready", "stamped"}
  <2>1. writers' = [writers EXCEPT ![w] =
          [NoWrite EXCEPT !.op = "put", !.item = i,
                          !.at = IF hashes[i] = NoHash THEN "insert" ELSE "ensured"]]
    BY <1>1 DEF BeginPut, Begin
  <2> QED BY <1>0, <2>1 DEF NoWrite
<1>2. ASSUME NEW i \in Item,
             BeginSave(w, i) \/ \E user \in {Me, Other} : BeginVote(w, i, user)
      PROVE  /\ \A x \in Writer : x # w => writers'[x] = writers[x]
             /\ writers'[w].op # "put"
  <2>1. PICK op \in {"save", "vote"}, user \in {Me, Other, "none"} :
          writers' = [writers EXCEPT ![w] = Stamped(op, i, user)]
    BY <1>2 DEF BeginSave, BeginVote, Begin
  <2> QED BY <1>0, <2>1 DEF Stamped, NoWrite
<1>3. ASSUME NEW update \in Update, Load(w, update)
      PROVE  \A x \in Writer : x # w => writers'[x] = writers[x]
  <2>1. Done(w) \/ \E hash :
          writers' = [writers EXCEPT ![w].at = "ready", ![w].hash = hash,
                        ![w].path = update.path, ![w].datum = update.datum]
    BY <1>3 DEF Load
  <2> QED BY <1>0, <2>1, DoneEffect
<1>4. CASE Done(w)
  BY <1>0, <1>4, DoneEffect
<1>5. CASE Insert(w) /\ ~Done(w)
  BY <1>0, <1>5 DEF Insert, Writes
<1>6. CASE Stamp(w)
  BY <1>0, <1>6, StampEffect
<1>7. CASE CommitPut(w) /\ ~Done(w)
  <2>1. PICK i \in Item : i = writers[w].item
    BY <1>0, <1>7 DEF PutKnows, CommitPut
  <2>2. There(i) /\ Overtake(w)
    BY <1>7, <2>1 DEF CommitPut
  <2>3. Stores(w, i)
    BY <1>0, <1>7, <2>1, <2>2, CommitFacts DEF CommitPut, Stores, Commits
  <2> QED BY <2>3
<1>8. CASE Refuse(w) \/ CommitSave(w) \/ CommitVote(w)
  BY <1>4, <1>8 DEF Refuse, CommitSave, CommitVote
<1> QED BY <1>1, <1>2, <1>3, <1>4, <1>5, <1>6, <1>7, <1>8 DEF Write

LEMMA MergedWriter ==
  ASSUME Base, Merged, NEW w \in Writer, Write(w)
  PROVE  Merged'
<1>0. /\ TypeOK /\ PutKnows(w) /\ Base'
      /\ writers \in [Writer -> Writes] /\ writers[w] \in Writes
  BY BaseWriter, TypeParts DEF Base, Puts
<1>1. ASSUME NEW i \in Item, Stores(w, i) PROVE Merged'
  <2>1. /\ writers[w].op = "put" /\ writers[w].at = "stamped"
        /\ i = writers[w].item
    BY <1>1 DEF Stores, CommitPut
  <2>2. RowBecomes(i, "there", writers[w].stamp, writers[w].hash) /\ Overtake(w)
    BY <1>0, <1>1, CommitEffect DEF Stores
  <2>3. Rebased(w)' /\ writers'[w].at # "stamped"
    BY <1>0, <2>2, OvertakeEffect DEF Rebased
  <2>4. ASSUME NEW x \in Writer, x # w PROVE Rebased(x)'
    <3>1. CASE writers[x].item = i
      <4>1. /\ writers'[x].at = writers[x].at /\ writers'[x].op = writers[x].op
            /\ writers'[x].overtaken =
                 (writers[x].overtaken \/
                    (writers[x].op = "put" /\ writers[x].item = writers[w].item
                     /\ writers[x].at = "ready"))
        BY <1>0, <2>2, <2>4, OvertakeEffect
      <4>2. ~(writers[x].op = "put" /\ writers[x].at = "stamped")
        BY <2>1, <2>4, <3>1 DEF Merged, OneHasRow
      <4> QED BY <2>1, <3>1, <4>1, <4>2 DEF Rebased
    <3>2. CASE writers[x].item # i
      <4>1. /\ rows'[writers[x].item].state = rows[writers[x].item].state
            /\ hashes'[writers[x].item] = hashes[writers[x].item]
            \/ writers[x].item \notin Item
        BY <2>2, <3>2 DEF RowBecomes
      <4>2. Rebased(x)
        BY DEF Merged
      <4> QED BY <1>0, <2>2, <2>4, <4>1, <4>2, OvertakeEffect DEF Rebased, There
    <3> QED BY <3>1, <3>2
  <2>5. OneHasRow'
    BY <1>0, <2>2, <2>3, OvertakeEffect DEF Merged, OneHasRow
  <2> QED BY <2>3, <2>4, <2>5 DEF Merged
<1>2. CASE \A i \in Item : ~Stores(w, i)
  <2>1. LeavesStay /\ RowsGoOn
    BY <1>2, LeavesStayMostly
  <2>2. \A x \in Writer : x # w => writers'[x] = writers[x]
    BY <1>2, OneWriter
  <2>3. \A x \in Writer : x # w => Rebased(x)'
    BY <2>1, <2>2, RebasedOn DEF Merged
  <2>4. CASE writers'[w].op # "put" \/ writers'[w].at \notin {"ready", "stamped"}
    BY <2>2, <2>3, <2>4 DEF Merged, Rebased, OneHasRow
  <2>5. CASE Stamp(w)
    <3>1. writers[w].at = "ready" /\ ~Locked(writers[w].item)
          /\ UNCHANGED <<rows, hashes>>
      BY <2>5 DEF Stamp
    <3>2. /\ writers'[w].at = "stamped" /\ writers'[w].op = writers[w].op
          /\ writers'[w].item = writers[w].item /\ writers'[w].hash = writers[w].hash
          /\ writers'[w].path = writers[w].path /\ writers'[w].datum = writers[w].datum
          /\ writers'[w].overtaken = writers[w].overtaken
      BY <1>0, <2>5, StampEffect
    <3>3. Rebased(w)'
      BY <3>1, <3>2 DEF Merged, Rebased, There
    <3>4. OneHasRow'
      BY <2>2, <3>1, <3>2 DEF Merged, OneHasRow, Locked
    <3> QED BY <2>3, <3>3, <3>4 DEF Merged
  <2>6. ASSUME NEW update \in Update, Load(w, update), ~Done(w) PROVE Merged'
    <3>1. PICK hash \in Merges(hashes[writers[w].item], update.path, update.datum) :
            writers' = [writers EXCEPT ![w].at = "ready", ![w].hash = hash,
                          ![w].path = update.path, ![w].datum = update.datum]
      BY <2>6 DEF Load
    <3>2. /\ writers'[w].at = "ready" /\ writers'[w].item = writers[w].item
          /\ writers'[w].hash = hash /\ writers'[w].path = update.path
          /\ writers'[w].datum = update.datum
      BY <1>0, <3>1 DEF Writes
    <3>3. UNCHANGED <<rows, hashes>>
      BY <2>6 DEF Load
    <3>4. Rebased(w)'
      BY <3>1, <3>2, <3>3 DEF Rebased
    <3>5. OneHasRow'
      BY <2>2, <3>2 DEF Merged, OneHasRow
    <3> QED BY <2>3, <3>4, <3>5 DEF Merged
  <2> QED BY <1>2, <2>4, <2>5, <2>6, OneWriter
<1> QED BY <1>1, <1>2

\* The other steps change no hash that is there but for its removal.
LEMMA OtherStepsStay ==
  ASSUME Base,
         \/ \E v \in votes : Unvote(v)
         \/ \E i \in Item : Destroy(i)
         \/ Read
         \/ vars' = vars
  PROVE  LeavesStay /\ RowsGoOn /\ writers' = writers
<1>0. TypeOK /\ Puts /\ EmptyHash # NoHash /\ rows \in [Item -> Rows]
      /\ hashes \in [Item -> Hash \cup {NoHash}] /\ reader.url.item \in Item
  BY EmptyFacts, TypeParts, CachingAssumption DEF Base, Requests
<1>1. ASSUME UNCHANGED <<rows, hashes>> PROVE LeavesStay /\ RowsGoOn
  BY <1>0, <1>1, RowsStay DEF LeavesStay, Steady, There
<1>2. CASE (\E v \in votes : Unvote(v)) \/ vars' = vars
  BY <1>1, <1>2 DEF Unvote, vars
<1>3. ASSUME NEW i \in Item, Destroy(i)
      PROVE  LeavesStay /\ RowsGoOn /\ writers' = writers
  <2>1. RowBecomes(i, "gone", 0, NoHash)
    <3>1. /\ rows' = [rows EXCEPT ![i] = [state |-> "gone", stamp |-> 0]]
          /\ hashes' = [hashes EXCEPT ![i] = NoHash]
      BY <1>3 DEF Destroy
    <3> QED BY <1>0, <3>1 DEF RowBecomes
  <2> QED BY <1>3, <2>1, RowBecomesStays DEF Destroy
<1>4. CASE Read
  <2>1. CASE UNCHANGED <<clock, rows, hashes>>
    BY <1>1, <1>4, <2>1, ReadSplit
  <2>2. CASE /\ There(reader.url.item) /\ hashes[reader.url.item] = NoHash
             /\ CreateRow(reader.url.item)
    <3>1. RowBecomes(reader.url.item, "there", clock + 1, EmptyHash)
      BY <1>0, <2>2 DEF CreateRow, RowBecomes, There, Rows
    <3>2. LeavesStay /\ RowsGoOn
      BY <1>0, <2>2, <3>1, RowBecomesStays DEF There
    <3> QED BY <1>4, <3>2, ReadSplit
  <2> QED BY <1>4, <2>1, <2>2, ReadSplit
<1> QED BY <1>2, <1>3, <1>4

LEMMA MergedStep == Order /\ Merged /\ [Next]_vars => Merged'
<1> SUFFICES ASSUME Order, Merged, [Next]_vars PROVE Merged'
  OBVIOUS
<1>1. CASE \E w \in Writer : Write(w)
  BY <1>1, MergedWriter DEF Order
<1>2. CASE \/ \E v \in votes : Unvote(v)
           \/ \E i \in Item : Destroy(i)
           \/ Read
           \/ vars' = vars
  <2>1. LeavesStay /\ RowsGoOn /\ writers' = writers
    BY <1>2, OtherStepsStay DEF Order
  <2>2. \A x \in Writer : Rebased(x)'
    BY <2>1, RebasedOn DEF Order, Merged
  <2> QED BY <2>1, <2>2 DEF Merged, OneHasRow
<1> QED BY <1>1, <1>2 DEF Next

\* A hash that stays has the leaves it had.
LEMMA LeavesStayUnchanged ==
  ASSUME Base, LeavesStay, NEW i \in Item, NEW q \in DOMAIN LeavesOf(i)
  PROVE  ~Changed(i, q)
<1>1. DOMAIN EmptyHash = {}
  BY EmptyFacts
<1>2. hashes[i] # NoHash
  BY <1>1 DEF LeavesOf
<1>3. Steady(i)
  BY <1>2 DEF LeavesStay
<1> QED BY <1>3 DEF Changed, Steady, LeavesOf

LEMMA LeavesKeptStep ==
  ASSUME Order, Merged, [Next]_vars, NEW i \in Item, NEW q \in DOMAIN LeavesOf(i),
         Changed(i, q)
  PROVE  \E w \in Writer :
           /\ PutCommits(w, i)
           /\ \/ Names(writers[w].path, writers[w].datum, q)
              \/ writers[w].overtaken
<1>0. Base
  BY DEF Order
<1>1. ~LeavesStay
  BY <1>0, LeavesStayUnchanged
<1>2. PICK w \in Writer, j \in Item : Write(w) /\ Stores(w, j)
  BY <1>0, <1>1, OtherStepsStay, LeavesStayMostly DEF Next
<1>3. /\ writers[w].op = "put" /\ writers[w].at = "stamped" /\ j = writers[w].item
      /\ There(j) /\ writers[w] \in Writes
  BY <1>0, <1>2, TypeParts DEF Stores, CommitPut, Base
<1>4. RowBecomes(j, "there", writers[w].stamp, writers[w].hash)
  BY <1>0, <1>2, CommitEffect
<1>5. i = j
  <2>1. SUFFICES ASSUME i # j PROVE FALSE
    OBVIOUS
  <2>2. rows'[i].state = rows[i].state /\ hashes'[i] = hashes[i]
    BY <1>4, <2>1 DEF RowBecomes
  <2> QED BY <2>2 DEF Changed, LeavesOf
<1>6. PutCommits(w, i)
  BY <1>3, <1>5 DEF PutCommits
<1>7. ASSUME ~writers[w].overtaken, ~Names(writers[w].path, writers[w].datum, q)
      PROVE  FALSE
  <2>1. writers[w].hash \in Merges(hashes[i], writers[w].path, writers[w].datum)
    BY <1>3, <1>5, <1>7 DEF Merged, Rebased
  <2>2. /\ hashes[i] # NoHash /\ LeavesOf(i) = hashes[i]
        /\ hashes[i] \in Hash
    <3>1. DOMAIN EmptyHash = {}
      BY EmptyFacts
    <3> QED BY <1>0, <3>1, TypeParts DEF LeavesOf, Base
  <2>3. writers[w].datum \in Datum /\ writers[w].path \in ObjectPath
    BY <1>0, <1>3 DEF Base, Puts, PutKnows, Writes
  <2>4. q \in DOMAIN writers[w].hash /\ writers[w].hash[q] = hashes[i][q]
    BY <1>7, <2>1, <2>2, <2>3, OtherLeavesStay
  <2>5. hashes'[i] = writers[w].hash /\ writers[w].hash # NoHash
    <3>1. writers[w].hash \in Hash
      BY <1>0, <1>3 DEF Base, Puts, PutKnows
    <3> QED BY <1>4, <1>5, <3>1, CachingAssumption DEF RowBecomes
  <2>6. LeavesOf(i)' = writers[w].hash
    BY <2>5 DEF LeavesOf
  <2> QED BY <2>2, <2>4, <2>6 DEF Changed
<1> QED BY <1>6, <1>7

\* Whatever writes are under way, a leaf of a proposal that stays is changed by an
\* update that names it only, or by one that was overtaken while it merged.
THEOREM LeavesKept == Spec => RestKept
<1>1. Init => Merged
  BY DEF Init, Merged, Rebased, OneHasRow, NoWrite
<1>2. Order /\ Merged /\ [Next]_vars =>
        [\A i \in Item : \A q \in DOMAIN LeavesOf(i) : Changed(i, q) =>
           \E w \in Writer :
             /\ PutCommits(w, i)
             /\ \/ Names(writers[w].path, writers[w].datum, q)
                \/ writers[w].overtaken]_vars
  BY LeavesKeptStep
<1> QED BY <1>1, <1>2, MergedStep, CachingOrder, PTL DEF Spec, RestKept

-----------------------------------------------------------------------------
(* Extended data are fresh *)

DataPage(url, hash) ==
  [i \in Item |-> IF i = url.item
                  THEN [there |-> TRUE, stamp |-> 0, hash |-> hash, voted |-> FALSE]
                  ELSE Nothing]

HashShown(url) ==
  IF hashes[url.item] = NoHash THEN NoHash ELSE At(hashes[url.item], url.path)

\* A page that carries the stamp of the proposal shows what is stored: every write
\* of the hash gives the proposal a stamp that no page carries.
Fresh ==
  reader.url.kind = "data" =>
    /\ reader.at \in {"ensure", "insert"} => reader.page = DataPage(reader.url, NoHash)
    /\ /\ reader.at = "details" /\ There(reader.url.item)
       /\ reader.tag = rows[reader.url.item].stamp
       => reader.page = DataPage(reader.url, HashShown(reader.url))
    /\ /\ cache.held /\ There(reader.url.item)
       /\ cache.tag = rows[reader.url.item].stamp
       => cache.page = DataPage(reader.url, HashShown(reader.url))

\* What is seen of an item is given by its fields.
LEMMA SeenFields ==
  ASSUME NEW x \in Seen
  PROVE  x = [there |-> x.there, stamp |-> x.stamp, hash |-> x.hash, voted |-> x.voted]
  BY DEF Seen

LEMMA SeenExcept ==
  ASSUME NEW x \in Seen
  PROVE  /\ \A hash \in Found \cup {NoHash} :
              [x EXCEPT !.hash = hash] =
                [there |-> x.there, stamp |-> x.stamp, hash |-> hash, voted |-> x.voted]
         /\ \A stamp \in Stamps :
              [x EXCEPT !.there = TRUE, !.stamp = stamp] =
                [there |-> TRUE, stamp |-> stamp, hash |-> x.hash, voted |-> x.voted]
         /\ \A hash \in Found \cup {NoHash}, voted \in BOOLEAN :
              [x EXCEPT !.hash = hash, !.voted = voted] =
                [there |-> x.there, stamp |-> x.stamp, hash |-> hash, voted |-> voted]
<1>1. ASSUME NEW hash \in Found \cup {NoHash}
      PROVE  [x EXCEPT !.hash = hash] =
               [there |-> x.there, stamp |-> x.stamp, hash |-> hash, voted |-> x.voted]
  <2> DEFINE y == [x EXCEPT !.hash = hash]
  <2>1. /\ y \in Seen /\ y.there = x.there /\ y.stamp = x.stamp
        /\ y.hash = hash /\ y.voted = x.voted
    BY DEF Seen
  <2> HIDE DEF y
  <2>2. y = [there |-> x.there, stamp |-> x.stamp, hash |-> hash, voted |-> x.voted]
    BY <2>1, SeenFields
  <2> QED BY <2>2 DEF y
<1>2. ASSUME NEW stamp \in Stamps
      PROVE  [x EXCEPT !.there = TRUE, !.stamp = stamp] =
               [there |-> TRUE, stamp |-> stamp, hash |-> x.hash, voted |-> x.voted]
  <2> DEFINE y == [x EXCEPT !.there = TRUE, !.stamp = stamp]
  <2>1. /\ y \in Seen /\ y.there = TRUE /\ y.stamp = stamp
        /\ y.hash = x.hash /\ y.voted = x.voted
    BY DEF Seen
  <2> HIDE DEF y
  <2>2. y = [there |-> TRUE, stamp |-> stamp, hash |-> x.hash, voted |-> x.voted]
    BY <2>1, SeenFields
  <2> QED BY <2>2 DEF y
<1>3. ASSUME NEW hash \in Found \cup {NoHash}, NEW voted \in BOOLEAN
      PROVE  [x EXCEPT !.hash = hash, !.voted = voted] =
               [there |-> x.there, stamp |-> x.stamp, hash |-> hash, voted |-> voted]
  <2> DEFINE y == [x EXCEPT !.hash = hash, !.voted = voted]
  <2>1. /\ y \in Seen /\ y.there = x.there /\ y.stamp = x.stamp
        /\ y.hash = hash /\ y.voted = voted
    BY DEF Seen
  <2> HIDE DEF y
  <2>2. y = [there |-> x.there, stamp |-> x.stamp, hash |-> hash, voted |-> voted]
    BY <2>1, SeenFields
  <2> QED BY <2>2 DEF y
<1> QED BY <1>1, <1>2, <1>3

LEMMA NothingFields ==
  Nothing.there = FALSE /\ Nothing.stamp = 0 /\ Nothing.hash = NoHash
    /\ Nothing.voted = FALSE
  BY DEF Nothing

\* An entry of the skeleton that Ask makes for extended data.
LEMMA NothingThere ==
  [Nothing EXCEPT !.there = TRUE, !.stamp = 0]
    = [there |-> TRUE, stamp |-> 0, hash |-> NoHash, voted |-> FALSE]
<1>1. 0 \in Stamps
  BY DEF Stamps
<1>2. Nothing \in Seen
  BY NothingTyped
<1>3. [Nothing EXCEPT !.there = TRUE, !.stamp = 0]
        = [there |-> TRUE, stamp |-> 0, hash |-> Nothing.hash, voted |-> Nothing.voted]
  BY <1>1, <1>2, SeenExcept
<1> QED BY <1>3, NothingFields

LEMMA DataPageNow ==
  ASSUME NEW url \in Url, url.kind = "data", There(url.item)
  PROVE  PageNow(url) = DataPage(url, HashShown(url))
<1>1. \A i \in Item : OnPage(url, i) <=> i = url.item
  BY DEF OnPage
<1>2. Shown(url, url.item) = [there |-> TRUE, stamp |-> 0, hash |-> HashShown(url),
                              voted |-> FALSE]
  BY DEF Shown, HashShown
<1>3. \A i \in Item :
        (IF OnPage(url, i) /\ There(i) THEN Shown(url, i) ELSE Nothing)
        = IF i = url.item
          THEN [there |-> TRUE, stamp |-> 0, hash |-> HashShown(url), voted |-> FALSE]
          ELSE Nothing
  BY <1>1, <1>2
<1> QED BY <1>3 DEF PageNow, DataPage

\* The hash that is read comes into the page.
LEMMA ReadInto ==
  ASSUME NEW url \in Url, NEW hash \in Found,
         NEW page \in [Item -> Seen], page = DataPage(url, NoHash)
  PROVE  [page EXCEPT ![url.item] = [page[url.item] EXCEPT !.hash = hash]]
           = DataPage(url, hash)
<1>1. url.item \in Item
  BY CachingAssumption
<1>2. /\ page[url.item] \in Seen /\ page[url.item].there = TRUE
      /\ page[url.item].stamp = 0 /\ page[url.item].voted = FALSE
  BY <1>1 DEF DataPage
<1>3. [page[url.item] EXCEPT !.hash = hash] =
        [there |-> TRUE, stamp |-> 0, hash |-> hash, voted |-> FALSE]
  BY <1>2, SeenExcept
<1>4. \A i \in Item : i # url.item => page[i] = Nothing
  BY DEF DataPage
<1> QED BY <1>1, <1>3, <1>4 DEF DataPage

\* A step that leaves what the reader has, and the proposal or its stamp not.
LEMMA FreshKept ==
  ASSUME Fresh,
         reader'.url = reader.url, reader'.at = reader.at,
         reader'.page = reader.page, reader'.tag = reader.tag,
         cache'.held = cache.held, cache'.page = cache.page, cache'.tag = cache.tag,
         LET i == reader.url.item
         IN  \/ /\ rows'[i].state = rows[i].state /\ rows'[i].stamp = rows[i].stamp
                /\ hashes'[i] = hashes[i]
             \/ rows'[i].state # "there"
             \/ reader.url.kind = "data" =>
                  rows'[i].stamp # reader.tag /\ rows'[i].stamp # cache.tag
  PROVE  Fresh'
<1>1. CASE ~(reader.url.kind = "data" /\ rows'[reader.url.item].state = "there")
  BY <1>1 DEF Fresh, There
<1>2. CASE /\ reader.url.kind = "data"
           /\ rows'[reader.url.item].stamp # reader.tag
           /\ rows'[reader.url.item].stamp # cache.tag
  BY <1>2 DEF Fresh
<1>3. CASE /\ rows'[reader.url.item].state = rows[reader.url.item].state
           /\ rows'[reader.url.item].stamp = rows[reader.url.item].stamp
           /\ hashes'[reader.url.item] = hashes[reader.url.item]
  <2>1. HashShown(reader.url)' = HashShown(reader.url)
    BY <1>3 DEF HashShown
  <2> QED BY <1>3, <2>1 DEF Fresh, There
<1> QED BY <1>1, <1>2, <1>3

LEMMA FreshWriter ==
  ASSUME Order, Fresh, NEW w \in Writer, Write(w)
  PROVE  Fresh'
<1>0. /\ Base /\ TypeOK /\ clock \in Nat /\ reader.tag \in Nat /\ cache.tag \in Nat
      /\ reader.tag <= clock /\ cache.tag <= clock
  BY NumberFacts DEF Order, Base, Clocked
<1> DEFINE j == reader.url.item
<1>1. CASE Quiet(w)
  BY <1>1, FreshKept DEF Quiet
<1>2. ASSUME NEW i \in Item, Creates(w, i) \/ Stores(w, i) \/ Saves(w, i) \/ Casts(w, i)
      PROVE  Fresh'
  <2>1. /\ reader'.url = reader.url /\ reader'.at = reader.at
        /\ reader'.page = reader.page /\ reader'.tag = reader.tag
        /\ cache'.held = cache.held /\ cache'.page = cache.page
        /\ cache'.tag = cache.tag
    <3>1. \E causes : Disturb(i, causes)
      BY <1>2 DEF Creates, Stores, Saves, Casts
    <3> QED BY <1>0, <3>1, DisturbEffect
  <2>2. CASE Casts(w, i)
    BY <2>1, <2>2, FreshKept DEF Casts
  <2>3. ASSUME NEW new, NEW hash, RowBecomes(i, "there", new, hash),
               reader.url.kind = "data" => new # reader.tag /\ new # cache.tag
        PROVE  Fresh'
    <3>0. j \in Item
      BY <1>0, TypeParts, CachingAssumption DEF Requests
    <3>1. \/ /\ rows'[j].state = rows[j].state /\ rows'[j].stamp = rows[j].stamp
             /\ hashes'[j] = hashes[j]
          \/ reader.url.kind = "data" =>
               rows'[j].stamp # reader.tag /\ rows'[j].stamp # cache.tag
      BY <2>3, <3>0 DEF RowBecomes
    <3> QED BY <2>1, <3>1, FreshKept
  <2>4. CASE Creates(w, i)
    <3>1. RowBecomes(i, "there", clock + 1, EmptyHash)
      BY <1>0, <2>4, CommitEffect
    <3> QED BY <1>0, <2>3, <3>1
  <2>5. CASE Stores(w, i)
    <3>1. RowBecomes(i, "there", writers[w].stamp, writers[w].hash)
      BY <1>0, <2>5, CommitEffect
    <3>2. writers[w].at = "stamped"
      BY <2>5 DEF Stores, Commits
    <3> QED BY <2>3, <3>1, <3>2 DEF Order, Unused
  <2>6. CASE Saves(w, i)
    <3>1. RowBecomes(i, "there", writers[w].stamp,
                     IF There(i) THEN hashes[i] ELSE EmptyHash)
      BY <1>0, <2>6, CommitEffect
    <3>2. writers[w].at = "stamped"
      BY <2>6 DEF Saves, Commits
    <3> QED BY <2>3, <3>1, <3>2 DEF Order, Unused
  <2> QED BY <1>2, <2>2, <2>4, <2>5, <2>6
<1> QED BY <1>0, <1>1, <1>2, WriteSplit

LEMMA FreshRemovals ==
  ASSUME Order, Fresh, (\E v \in votes : Unvote(v)) \/ (\E i \in Item : Destroy(i))
  PROVE  Fresh'
<1>0. TypeOK /\ rows \in [Item -> Rows] /\ reader.url.item \in Item
  BY TypeParts, CachingAssumption DEF Order, Base, Requests
<1>1. /\ reader'.url = reader.url /\ reader'.at = reader.at
      /\ reader'.page = reader.page /\ reader'.tag = reader.tag
      /\ cache'.held = cache.held /\ cache'.page = cache.page
      /\ cache'.tag = cache.tag
  <2>1. \E i, causes : Disturb(i, causes)
    BY DEF Unvote, Destroy
  <2> QED BY <1>0, <2>1, DisturbEffect
<1>2. CASE \E v \in votes : Unvote(v)
  BY <1>1, <1>2, FreshKept DEF Unvote
<1>3. ASSUME NEW i \in Item, Destroy(i) PROVE Fresh'
  <2> DEFINE j == reader.url.item
  <2>1. /\ rows' = [rows EXCEPT ![i] = [state |-> "gone", stamp |-> 0]]
        /\ hashes' = [hashes EXCEPT ![i] = NoHash]
    BY <1>3 DEF Destroy
  <2>2. rows'[j].state # "there" \/ (rows'[j] = rows[j] /\ hashes'[j] = hashes[j])
    BY <1>0, <2>1, TypeParts
  <2> QED BY <1>1, <2>2, FreshKept
<1> QED BY <1>2, <1>3

LEMMA FreshReader ==
  ASSUME Order, Fresh, Read
  PROVE  Fresh'
<1>0. /\ Base /\ TypeOK /\ reader \in Requests /\ reader.url \in Url
      /\ reader.url.item \in Item /\ rows \in [Item -> Rows]
      /\ hashes \in [Item -> Hash \cup {NoHash}]
      /\ reader.page \in [Item -> Seen]
      /\ clock \in Nat /\ cache.tag <= clock /\ cache.tag \in Nat
      /\ reader'.url = reader.url
  BY TypeParts, CachingAssumption, NothingTyped, NumberFacts, ReadSplit
  DEF Order, Base, Requests, Clocked
<1> SUFFICES ASSUME reader.url.kind = "data" PROVE Fresh'
  BY <1>0 DEF Fresh
<1> DEFINE url == reader.url
<1>1. CASE UNCHANGED <<rows, hashes>>
  <2>0. HashShown(reader.url)' = HashShown(reader.url)
    BY <1>0, <1>1 DEF HashShown
  <2>1. CASE Ask
    <3>1. reader'.at = "ensure" /\ cache' = cache
      BY <1>0, <2>1 DEF Ask, Requests
    <3>2. reader'.page = DataPage(url, NoHash)
      <4> DEFINE found == {i \in Item : There(i) /\ (url.kind = "index" \/ url.item = i)}
      <4>1. reader'.page = [i \in Item |->
              IF i \in found
              THEN [Nothing EXCEPT !.there = TRUE,
                                   !.stamp = IF url.kind = "data" THEN 0
                                             ELSE rows[i].stamp]
              ELSE Nothing]
        BY <1>0, <2>1 DEF Ask, Requests
      <4>2. found = {url.item}
        BY <2>1 DEF Ask
      <4>3. [Nothing EXCEPT !.there = TRUE, !.stamp = 0]
            = [there |-> TRUE, stamp |-> 0, hash |-> NoHash, voted |-> FALSE]
        BY NothingThere
      <4> QED BY <4>1, <4>2, <4>3 DEF DataPage
    <3> QED BY <1>0, <1>1, <2>0, <3>1, <3>2 DEF Fresh, There
  <2>2. CASE ReadHash /\ hashes[url.item] = NoHash
    <3>1. reader'.at = "insert" /\ reader'.page = reader.page /\ cache' = cache
          /\ reader.at = "ensure"
      BY <1>0, <2>2 DEF ReadHash, Requests
    <3> QED BY <1>0, <1>1, <2>0, <3>1 DEF Fresh, There
  <2>3. CASE ReadHash /\ hashes[url.item] # NoHash
    <3>1. /\ reader'.at = "details" /\ cache' = cache /\ reader.at = "ensure"
          /\ reader'.page = [reader.page EXCEPT ![url.item] =
                               [reader.page[url.item] EXCEPT
                                  !.hash = At(hashes[url.item], url.path)]]
      BY <1>0, <2>3 DEF ReadHash, Requests
    <3>2. reader.page = DataPage(url, NoHash)
      BY <3>1 DEF Fresh
    <3>3. reader'.page = DataPage(url, At(hashes[url.item], url.path))
      <4>1. At(hashes[url.item], url.path) \in Found
        BY <1>0, <2>3, AtIsFound, CachingAssumption
      <4> QED BY <1>0, <3>1, <3>2, <4>1, ReadInto
    <3>4. HashShown(url) = At(hashes[url.item], url.path)
      BY <2>3 DEF HashShown
    <3> QED BY <1>0, <1>1, <2>0, <3>1, <3>3, <3>4 DEF Fresh, There
  <2>4. CASE ReadMissingHash
    <3>1. ~(There(url.item) /\ hashes[url.item] = NoHash)
      <4>1. EmptyHash # NoHash
        BY EmptyFacts
      <4> QED BY <1>0, <1>1, <2>4, <4>1 DEF ReadMissingHash, CreateRow
    <3>2. reader' = [reader EXCEPT !.at = "idle"] /\ cache' = cache
      BY <2>4, <3>1 DEF ReadMissingHash
    <3>3. reader'.at = "idle" /\ reader'.page = reader.page
      BY <1>0, <3>2 DEF Requests
    <3> QED BY <1>0, <1>1, <2>0, <3>2, <3>3 DEF Fresh, There
  <2>5. CASE Respond
    <3>1. reader'.at = "idle" /\ reader.at = "details"
      BY <1>0, <2>5 DEF Respond, Requests
    <3>2. cache' = cache \/ (cache'.page = reader.page /\ cache'.tag = reader.tag)
      BY <2>5 DEF Respond, Validator
    <3> QED BY <1>0, <1>1, <2>0, <3>1, <3>2 DEF Fresh, There
  <2>6. CASE \E i \in Item : ReadDetails(i)
    BY <2>6 DEF ReadDetails, Order, Places
  <2> QED BY <2>1, <2>2, <2>3, <2>4, <2>5, <2>6 DEF Read
<1>2. CASE /\ ReadMissingHash /\ There(url.item) /\ hashes[url.item] = NoHash
           /\ CreateRow(url.item)
  <2>1. /\ reader'.at = "details" /\ cache' = cache /\ reader.at = "insert"
        /\ reader'.page = [reader.page EXCEPT ![url.item] =
                             [reader.page[url.item] EXCEPT !.hash = EmptyHash]]
    BY <1>0, <1>2 DEF ReadMissingHash, Requests
  <2>2. reader.page = DataPage(url, NoHash)
    BY <2>1 DEF Fresh
  <2>3. reader'.page = DataPage(url, EmptyHash)
    BY <1>0, <2>1, <2>2, EmptyFacts, ReadInto
  <2>4. rows'[url.item].stamp = clock + 1 /\ hashes'[url.item] = EmptyHash
    BY <1>0, <1>2 DEF CreateRow, Rows
  <2>5. At(EmptyHash, url.path) = EmptyHash
    BY EmptyFacts DEF At, EmptyHash
  <2>6. HashShown(reader.url)' = EmptyHash
    BY <1>0, <2>4, <2>5, EmptyFacts DEF HashShown
  <2>7. cache.tag # clock + 1
    BY <1>0
  <2> QED BY <1>0, <2>1, <2>3, <2>4, <2>6, <2>7 DEF Fresh
<1> QED BY <1>0, <1>1, <1>2, ReadSplit

\* Extended data are never answered 304 when they are not what the client holds:
\* the stamp of the proposal is read before its hash and every write of the hash
\* touches the proposal, with a stamp that was in no answer.
THEOREM DataFresh == Spec => []DataNeverStale
<1>1. Init => Fresh
  <2> SUFFICES ASSUME Init PROVE Fresh
    OBVIOUS
  <2>1. reader.at = "idle" /\ cache.held = FALSE
    BY DEF Init, NoRequest
  <2> QED BY <2>1 DEF Fresh
<1>2. Order /\ Fresh /\ [Next]_vars => Fresh'
  <2> SUFFICES ASSUME Order, Fresh, [Next]_vars PROVE Fresh'
    OBVIOUS
  <2>1. CASE vars' = vars
    BY <2>1, FreshKept DEF vars
  <2> QED BY <2>1, FreshWriter, FreshRemovals, FreshReader DEF Next
<1>3. Order /\ Fresh => DataNeverStale
  <2> SUFFICES ASSUME Order, Fresh, reader.url.kind = "data", Stale PROVE FALSE
    BY DEF DataNeverStale
  <2>1. reader.url \in Url /\ There(reader.url.item)
    BY TypeParts DEF Order, Base, Requests, Stale
  <2>2. cache.held /\ cache.tag = rows[reader.url.item].stamp
    BY DEF Stale, TagNow
  <2> QED BY <2>1, <2>2, DataPageNow DEF Fresh, Stale
<1> QED BY <1>1, <1>2, <1>3, CachingOrder, PTL DEF Spec
=============================================================================

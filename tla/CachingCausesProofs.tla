------------------------- MODULE CachingCausesProofs -------------------------
(***************************************************************************)
(* Why a list or a proposal that is answered 304 may be another one now:   *)
(* the causes that Caching names are all there are.                        *)
(***************************************************************************)
EXTENDS CachingProofs

\* What the validator of the client's URL is at least.
TagBound ==
  /\ TagNow(reader.url) \in Nat /\ TagNow(reader.url) <= clock
  /\ reader.url.kind = "index" =>
       \A i \in Item : There(i) => rows[i].stamp <= TagNow(reader.url)
  /\ reader.url.kind = "show" /\ There(reader.url.item) =>
       /\ rows[reader.url.item].stamp <= TagNow(reader.url)
       /\ \A v \in votes : v.item = reader.url.item => v.stamp <= TagNow(reader.url)

\* Who asked for a proposal found it.
WasThere ==
  reader.url.kind = "show" /\ (cache.held \/ reader.at # "idle") =>
    rows[reader.url.item].state # "absent"

Asked == reader.url.kind = "index" \/ There(reader.url.item)

Current ==
  cache.page = PageNow(reader.url) /\ cache.tag = TagNow(reader.url)

\* A page kept with no cause to doubt it is the current one, or its validator is
\* below the current one, and no commit without a cause brings that down.
Told ==
  reader.url.kind # "data" /\ cache.held /\ Asked /\ cache.why = {} =>
    Current \/ cache.tag < TagNow(reader.url)

\* What the first query left of a proposal that misses its details.
Skeleton(i) ==
  reader.url.kind = "index" \/ i = reader.url.item =>
    /\ There(i)
    /\ reader.page[i] =
         [there |-> TRUE, stamp |-> rows[i].stamp, hash |-> NoHash, voted |-> FALSE]

\* A page that is made while nobody writes is the current one as far as it is made.
Made ==
  reader.url.kind # "data" /\ reader.at = "details" /\ ~reader.overlap =>
    /\ Asked
    /\ \A i \in Item \ reader.left : reader.page[i] = PageNow(reader.url)[i]
    /\ \A i \in reader.left : Skeleton(i)

Causes == WasThere /\ Told /\ Made

LEMMA TagBounded == Base /\ Clocked => TagBound
<1> SUFFICES ASSUME Base, Clocked PROVE TagBound
  OBVIOUS
<1>1. reader.url \in Url
  BY TypeParts DEF Base, Requests
<1> QED BY <1>1, TagFacts DEF TagBound, Stamps

LEMMA TagBoundedNext == Base' /\ Clocked' => TagBound'
  BY TagBounded, PTL

\* The validator is a stamp that is stored, or none is.
LEMMA TagIsStored ==
  ASSUME Base, Clocked, NEW url \in Url
  PROVE  \/ TagNow(url) = 0
         \/ \E i \in Item : rows[i].stamp = TagNow(url)
         \/ \E v \in votes : v.stamp = TagNow(url)
<1> DEFINE listed == {rows[i].stamp : i \in {j \in Item : There(j)}}
           shown == {rows[url.item].stamp} \cup
                      {v.stamp : v \in {x \in votes : x.item = url.item}}
<1>0. url.item \in Item /\ url.kind \in Kind /\ clock \in Nat
  BY TypeParts, CachingAssumption DEF Base
<1>1. \A s \in listed : s \in Nat /\ s <= clock
  BY NumberFacts DEF Clocked
<1>2. \A s \in shown : s \in Nat /\ s <= clock
  BY <1>0, NumberFacts DEF Clocked
<1> HIDE DEF listed, shown
<1>3. Latest(listed) \in listed \cup {0} /\ Latest(shown) \in shown \cup {0}
  BY <1>0, <1>1, <1>2, LatestFacts
<1>4. CASE url.kind = "index"
  BY <1>3, <1>4 DEF TagNow, CollectionTag, listed
<1>5. CASE url.kind = "show"
  BY <1>0, <1>3, <1>5 DEF TagNow, ShowTag, shown
<1>6. CASE url.kind = "data"
  BY <1>0, <1>6 DEF TagNow
<1> QED BY <1>0, <1>4, <1>5, <1>6 DEF Kind

\* The stamp of a commit that is not late is above all that are stored.
LEMMA NotLate ==
  ASSUME Order, NEW w \in Writer, writers[w].at = "stamped",
         Late(writers[w].stamp) = {}
  PROVE  TagNow(reader.url) < writers[w].stamp
<1>1. /\ reader.url \in Url /\ Base /\ Clocked
      /\ writers[w].stamp \in Nat /\ TagNow(reader.url) \in Nat
  BY TypeParts, NumberFacts, TagBounded DEF Order, Base, Requests, TagBound
<1>2. TagNow(reader.url) # writers[w].stamp
  BY <1>1, TagIsStored DEF Order, Unused
<1>3. ~(writers[w].stamp < TagNow(reader.url))
  BY DEF Late
<1> QED BY <1>1, <1>2, <1>3

\* The step of a writer that leaves the page of the client's URL as it is.
Untouched ==
  /\ PageNow(reader.url)' = PageNow(reader.url)
  /\ TagNow(reader.url)' = TagNow(reader.url)
  /\ Asked' = Asked

\* A page is of what is there, its stamps, hashes and votes.
LEMMA UntouchedBeside ==
  ASSUME Base, reader.url.kind = "show", reader'.url = reader.url,
         NEW i \in Item, i # reader.url.item,
         \A j \in Item : j # i => rows'[j] = rows[j],
         There(i)' = There(i),
         {v \in votes' : v.item = reader.url.item} =
           {v \in votes : v.item = reader.url.item}
  PROVE  Untouched
<1> DEFINE url == reader.url
<1>1. url.item \in Item
  BY TypeParts, CachingAssumption DEF Base, Requests
<1>2. \A j \in Item : There(j)' = There(j)
  BY DEF There
<1>3. rows'[reader.url.item] = rows[reader.url.item]
  BY <1>1
<1>4. Voted(reader.url.item)' = Voted(reader.url.item)
  BY DEF Voted
<1>5. \A j \in Item : Shown(reader.url, j)' = Shown(reader.url, j)
  <2> SUFFICES ASSUME NEW j \in Item
               PROVE  Shown(reader.url, j)' = Shown(reader.url, j)
    OBVIOUS
  <2>1. CASE j = reader.url.item
    BY <1>3, <1>4, <2>1 DEF Shown
  <2>2. CASE j # reader.url.item
    BY <2>2 DEF Shown
  <2> QED BY <2>1, <2>2
<1>6. PageNow(reader.url)' = PageNow(reader.url)
  BY <1>2, <1>5 DEF PageNow, OnPage
<1>7. TagNow(reader.url)' = TagNow(reader.url)
  <2>1. ShowTag(reader.url.item)' = ShowTag(reader.url.item)
    BY <1>1, <1>2, <1>3 DEF ShowTag
  <2> QED BY <2>1 DEF TagNow
<1> QED BY <1>1, <1>2, <1>6, <1>7 DEF Untouched, Asked

\* A commit either leaves the page and its validator, or moves the validator up,
\* or there is a cause.
LEMMA ToldCommit ==
  ASSUME Order, Causes, reader'.url = reader.url, TypeOK', reader.url.kind # "data",
         cache'.held = cache.held, cache'.page = cache.page, cache'.tag = cache.tag,
         cache'.why = {} => cache.why = {},
         cache.held /\ Asked' /\ cache'.why = {} =>
           \/ Untouched
           \/ /\ Asked
              /\ TagNow(reader.url)' \in Nat
              /\ TagNow(reader.url) < TagNow(reader.url)'
  PROVE  Told'
<1>1. /\ cache.tag \in Nat /\ TagNow(reader.url) \in Nat
  BY NumberFacts, TagBounded DEF Order, TagBound
<1> SUFFICES ASSUME cache.held, Asked', cache'.why = {}
             PROVE  Current' \/ cache'.tag < TagNow(reader.url)'
  BY DEF Told
<1>2. CASE Untouched
  BY <1>2 DEF Untouched, Causes, Told, Current
<1>3. CASE /\ Asked
           /\ TagNow(reader.url)' \in Nat
           /\ TagNow(reader.url) < TagNow(reader.url)'
  BY <1>1, <1>3 DEF Causes, Told, Current
<1> QED BY <1>2, <1>3

\* The row of the client's proposal after a write that shows a row there.
LEMMA RowMovesTag ==
  ASSUME Order, Base', Clocked', reader'.url = reader.url, reader.url.kind # "data",
         NEW i \in Item, NEW new, NEW hash, RowBecomes(i, "there", new, hash),
         reader.url.kind = "show" => i = reader.url.item,
         TagNow(reader.url) < new
  PROVE  /\ TagNow(reader.url)' \in Nat
         /\ TagNow(reader.url) < TagNow(reader.url)'
<1>1. /\ TagBound /\ TagBound'
  BY TagBounded, TagBoundedNext DEF Order
<1>2. rows'[i].state = "there" /\ rows'[i].stamp = new
  BY DEF RowBecomes
<1>3. There(i)'
  BY <1>2 DEF There
<1>4. reader.url.kind \in {"index", "show"}
  BY TypeParts, CachingAssumption DEF Order, Base, Requests, Kind
<1>5. new \in Nat
  BY <1>2, NumberFacts, TypePartsNext DEF Base, Rows, Stamps
<1>6. new <= TagNow(reader.url)'
  BY <1>1, <1>2, <1>3, <1>4 DEF TagBound
<1> QED BY <1>1, <1>5, <1>6 DEF TagBound

\* A write of a row that is shown beside the client's proposal, and stays there.
LEMMA RowBeside ==
  ASSUME Base, reader.url.kind = "show", reader'.url = reader.url, TypeOK',
         NEW i \in Item, i # reader.url.item, There(i), votes' = votes,
         NEW new, NEW hash, RowBecomes(i, "there", new, hash)
  PROVE  Untouched
<1>1. rows \in [Item -> Rows] /\ rows' \in [Item -> Rows]
  BY TypeParts, TypePartsNext DEF Base
<1>2. \A j \in Item : j # i => rows'[j] = rows[j]
  BY <1>1 DEF RowBecomes, Rows
<1>3. There(i)' = There(i)
  BY DEF RowBecomes, There
<1> QED BY <1>2, <1>3, UntouchedBeside

LEMMA ToldWriter ==
  ASSUME Order, Causes, NEW w \in Writer, Write(w)
  PROVE  Told'
<1>0. /\ Base /\ TypeOK /\ Base' /\ TypeOK' /\ Clocked'
      /\ clock \in Nat /\ TagNow(reader.url) \in Nat /\ TagNow(reader.url) <= clock
      /\ reader.url \in Url /\ reader.url.item \in Item
      /\ reader \in Requests /\ cache \in Caches
  BY BaseWriter, OrderWriter, NumberFacts, TagBounded, TypeParts, CachingAssumption
  DEF Order, Base, TagBound, Requests
<1>1. CASE Quiet(w)
  BY <1>1 DEF Quiet, Causes, Told, Asked, Current, PageNow, TagNow, Shown, There, Voted,
    CollectionTag, ShowTag
<1>2. ASSUME NEW i \in Item, Creates(w, i) \/ Stores(w, i) \/ Saves(w, i) \/ Casts(w, i),
             reader.url.kind # "data"
      PROVE  Told'
  <2> DEFINE causes ==
        IF Creates(w, i) THEN {}
        ELSE IF Stores(w, i) THEN Late(writers[w].stamp)
        ELSE IF Saves(w, i) THEN Late(writers[w].stamp) \cup Beside(i)
        ELSE Late(writers[w].stamp) \cup {c \in {"vote"} : reader.url.kind = "index"}
  <2>1. Disturb(i, causes)
    BY <1>2 DEF Creates, Stores, Saves, Casts
  <2> HIDE DEF causes
  <2>2. /\ reader'.url = reader.url
        /\ cache'.held = cache.held /\ cache'.page = cache.page
        /\ cache'.tag = cache.tag
        /\ cache'.why = IF cache.held THEN cache.why \cup causes ELSE cache.why
    BY <1>0, <1>2, <2>1, DisturbEffect DEF OnPage
  <2> SUFFICES ASSUME cache.held, Asked', cache'.why = {}
               PROVE  \/ Untouched
                      \/ /\ Asked
                         /\ TagNow(reader.url)' \in Nat
                         /\ TagNow(reader.url) < TagNow(reader.url)'
    BY <1>0, <1>2, <2>2, ToldCommit
  <2>3. causes = {}
    BY <2>2
  <2>4. Asked
    <3> SUFFICES ASSUME reader.url.kind = "show" PROVE There(reader.url.item)
      BY <1>0, <1>2, CachingAssumption DEF Asked, Kind
    <3>1. rows[reader.url.item].state # "absent"
      BY DEF Causes, WasThere
    <3>2. rows[reader.url.item].state # "gone"
      <4>1. rows'[reader.url.item].state = "there"
        BY <2>2 DEF Asked, There
      <4>2. \A j \in Item : rows[j].state = "gone" => rows'[j].state = "gone"
        <5>1. CASE Casts(w, i)
          BY <5>1 DEF Casts
        <5>2. CASE Creates(w, i)
          BY <1>0, <5>2, CommitEffect DEF RowBecomes, Creates, There
        <5>3. CASE Stores(w, i)
          BY <1>0, <5>3, CommitEffect DEF RowBecomes, Stores, There
        <5>4. CASE Saves(w, i)
          BY <1>0, <5>4, CommitEffect DEF RowBecomes, Saves
        <5> QED BY <1>2, <5>1, <5>2, <5>3, <5>4
      <4> QED BY <1>0, <4>1, <4>2
    <3>3. rows[reader.url.item].state \in {"absent", "there", "gone"}
      BY <1>0, TypeParts DEF Rows
    <3> QED BY <1>0, <3>1, <3>2, <3>3 DEF There
  <2>5. CASE Creates(w, i)
    <3>1. There(i) /\ votes' = votes /\ RowBecomes(i, "there", clock + 1, EmptyHash)
      BY <1>0, <2>5, CommitEffect DEF Creates
    <3>2. CASE reader.url.kind = "show" => i = reader.url.item
      BY <1>0, <1>2, <2>2, <2>4, <3>1, <3>2, RowMovesTag
    <3>3. CASE reader.url.kind = "show" /\ i # reader.url.item
      BY <1>0, <2>2, <3>1, <3>3, RowBeside
    <3> QED BY <3>2, <3>3
  <2>6. CASE Stores(w, i) /\ ~Creates(w, i)
    <3>1. /\ There(i) /\ votes' = votes /\ writers[w].at = "stamped"
          /\ RowBecomes(i, "there", writers[w].stamp, writers[w].hash)
      BY <1>0, <2>6, CommitEffect DEF Stores, Commits
    <3>2. TagNow(reader.url) < writers[w].stamp
      BY <2>3, <2>6, <3>1, NotLate DEF causes
    <3>3. CASE reader.url.kind = "show" => i = reader.url.item
      BY <1>0, <1>2, <2>2, <2>4, <3>1, <3>2, <3>3, RowMovesTag
    <3>4. CASE reader.url.kind = "show" /\ i # reader.url.item
      BY <1>0, <2>2, <3>1, <3>4, RowBeside
    <3> QED BY <3>3, <3>4
  <2>7. CASE Saves(w, i) /\ ~Creates(w, i) /\ ~Stores(w, i)
    <3>1. Late(writers[w].stamp) = {} /\ Beside(i) = {}
      BY <2>3, <2>7 DEF causes
    <3>2. reader.url.kind = "show" => i = reader.url.item
      BY <3>1 DEF Beside
    <3>3. /\ writers[w].at = "stamped"
          /\ RowBecomes(i, "there", writers[w].stamp,
                        IF There(i) THEN hashes[i] ELSE EmptyHash)
      BY <1>0, <2>7, CommitEffect DEF Saves, Commits
    <3>4. TagNow(reader.url) < writers[w].stamp
      BY <3>1, <3>3, NotLate
    <3> QED BY <1>0, <1>2, <2>2, <2>4, <3>2, <3>3, <3>4, RowMovesTag
  <2>8. CASE Casts(w, i) /\ ~Creates(w, i) /\ ~Stores(w, i) /\ ~Saves(w, i)
    <3>1. Late(writers[w].stamp) = {} /\ reader.url.kind # "index"
      BY <2>3, <2>8 DEF causes
    <3>2. reader.url.kind = "show"
      BY <1>0, <1>2, <3>1, CachingAssumption DEF Kind
    <3> DEFINE vote == [item |-> i, user |-> writers[w].user, stamp |-> writers[w].stamp]
    <3>3. /\ writers[w].at = "stamped" /\ There(i) /\ rows' = rows /\ hashes' = hashes
          /\ votes' = votes \cup {vote}
      BY <2>8 DEF Casts, Commits
    <3>4. TagNow(reader.url) < writers[w].stamp /\ writers[w].stamp \in Nat
      BY <1>0, <3>1, <3>3, NotLate, NumberFacts
    <3>5. CASE i = reader.url.item
      <4>1. TagBound'
        BY <1>0, TagBoundedNext
      <4>2. vote \in votes' /\ vote.item = reader'.url.item /\ There(reader.url.item)'
        BY <2>2, <3>3, <3>5 DEF There
      <4>3. vote.stamp <= TagNow(reader.url)' /\ TagNow(reader.url)' \in Nat
        BY <2>2, <3>2, <4>1, <4>2 DEF TagBound
      <4> QED BY <1>0, <2>4, <3>4, <4>3
    <3>6. CASE i # reader.url.item
      <4>1. {v \in votes' : v.item = reader.url.item} =
              {v \in votes : v.item = reader.url.item}
        BY <3>3, <3>6
      <4>2. There(i)' = There(i)
        BY <3>3 DEF There
      <4> QED BY <1>0, <2>2, <3>2, <3>3, <3>6, <4>1, <4>2, UntouchedBeside
    <3> QED BY <3>5, <3>6
  <2> QED BY <1>2, <2>5, <2>6, <2>7, <2>8
<1>3. CASE reader.url.kind = "data"
  <2>1. reader'.url = reader.url
    <3>1. \A i \in Item : Creates(w, i) \/ Stores(w, i) \/ Saves(w, i) \/ Casts(w, i)
            => \E causes : Disturb(i, causes)
      BY DEF Creates, Stores, Saves, Casts
    <3> QED BY <1>0, <3>1, WriteSplit, DisturbEffect DEF Quiet
  <2> QED BY <1>3, <2>1 DEF Told
<1> QED BY <1>0, <1>1, <1>2, <1>3, WriteSplit

\* What is taken away is a cause.
LEMMA ToldRemovals ==
  ASSUME Order, Causes, (\E v \in votes : Unvote(v)) \/ (\E i \in Item : Destroy(i))
  PROVE  Told'
<1>0. TypeOK
  BY DEF Order, Base
<1>1. PICK i : Disturb(i, {"removal"})
  BY DEF Unvote, Destroy
<1>2. /\ reader'.url = reader.url /\ cache'.held = cache.held
      /\ cache.held /\ OnPage(reader.url, i) =>
           cache'.why = cache.why \cup {"removal"}
  BY <1>0, <1>1, DisturbEffect
<1>3. reader.url.kind # "data" => OnPage(reader.url, i)
  BY DEF OnPage
<1> QED BY <1>2, <1>3 DEF Told

\* A proposal that was asked for is there or gone, whatever others do.
LEMMA WasThereWrites ==
  ASSUME Order, WasThere, reader'.url = reader.url, reader'.at = reader.at,
         cache'.held = cache.held,
         \A j \in Item : rows'[j].state = "absent" => rows[j].state = "absent"
  PROVE  WasThere'
<1>1. reader.url.item \in Item
  BY TypeParts, CachingAssumption DEF Order, Base, Requests
<1> QED BY <1>1 DEF WasThere

\* A write overlaps the request that is under way.
LEMMA MadeDisturbed ==
  ASSUME TypeOK, NEW i, NEW causes, Disturb(i, causes)
  PROVE  Made'
<1>1. /\ reader'.url = reader.url /\ reader'.at = reader.at
      /\ reader'.overlap =
           (reader.overlap \/ (reader.at # "idle" /\ OnPage(reader.url, i)))
  BY DisturbEffect
<1> QED BY <1>1 DEF Made, OnPage

LEMMA WritesLeave ==
  ASSUME Order, Causes,
         \/ \E w \in Writer : Write(w)
         \/ (\E v \in votes : Unvote(v)) \/ (\E i \in Item : Destroy(i))
  PROVE  WasThere' /\ Made'
<1>0. /\ Base /\ TypeOK /\ rows \in [Item -> Rows]
  BY TypeParts DEF Order, Base
<1>1. ASSUME NEW i, NEW causes, Disturb(i, causes),
             \A j \in Item : rows'[j].state = "absent" => rows[j].state = "absent"
      PROVE  WasThere' /\ Made'
  BY <1>0, <1>1, DisturbEffect, MadeDisturbed, WasThereWrites DEF Causes
<1>2. ASSUME NEW w \in Writer, Quiet(w) PROVE WasThere' /\ Made'
  BY <1>2 DEF Quiet, Causes, WasThere, Made, Asked, Skeleton, PageNow, Shown, There, Voted
<1>3. ASSUME NEW w \in Writer, NEW i \in Item,
             Creates(w, i) \/ Stores(w, i) \/ Saves(w, i) \/ Casts(w, i)
      PROVE  WasThere' /\ Made'
  <2>1. \E causes : Disturb(i, causes)
    BY <1>3 DEF Creates, Stores, Saves, Casts
  <2>2. CASE Casts(w, i)
    <3>1. rows' = rows
      BY <2>2 DEF Casts
    <3> QED BY <1>1, <2>1, <3>1
  <2>3. CASE Creates(w, i) \/ Stores(w, i) \/ Saves(w, i)
    <3>1. \A j \in Item : rows'[j].state = "absent" => rows[j].state = "absent"
      BY <1>0, <2>3, CommitEffect DEF RowBecomes
    <3> QED BY <1>1, <2>1, <3>1
  <2> QED BY <1>3, <2>2, <2>3
<1>4. ASSUME NEW v \in votes, Unvote(v) PROVE WasThere' /\ Made'
  <2>1. rows' = rows /\ Disturb(v.item, {"removal"})
    BY <1>4 DEF Unvote
  <2> QED BY <1>1, <2>1
<1>5. ASSUME NEW i \in Item, Destroy(i) PROVE WasThere' /\ Made'
  <2>1. rows' = [rows EXCEPT ![i] = [state |-> "gone", stamp |-> 0]]
        /\ Disturb(i, {"removal"})
    BY <1>5 DEF Destroy
  <2>2. \A j \in Item : rows'[j].state = "absent" => rows[j].state = "absent"
    BY <1>0, <2>1
  <2> QED BY <1>1, <2>1, <2>2
<1> QED BY <1>0, <1>2, <1>3, <1>4, <1>5, WriteSplit

-----------------------------------------------------------------------------
(* The reader *)

\* An entry of the page that Ask makes for a list or a proposal.
LEMMA AskedEntry ==
  ASSUME NEW stamp \in Stamps
  PROVE  [Nothing EXCEPT !.there = TRUE, !.stamp = stamp]
           = [there |-> TRUE, stamp |-> stamp, hash |-> NoHash, voted |-> FALSE]
<1>1. [Nothing EXCEPT !.there = TRUE, !.stamp = stamp]
        = [there |-> TRUE, stamp |-> stamp, hash |-> Nothing.hash, voted |-> Nothing.voted]
  BY NothingTyped, SeenExcept
<1> QED BY <1>1, NothingFields

LEMMA MadeAsk ==
  ASSUME Order, Ask, reader.url.kind # "data"
  PROVE  Made'
<1>0. /\ reader \in Requests /\ reader.url \in Url /\ reader.url.item \in Item
      /\ reader.url.kind \in {"index", "show"}
      /\ rows \in [Item -> Rows] /\ \A i \in Item : rows[i].stamp \in Stamps
  BY TypeParts, CachingAssumption DEF Order, Base, Requests, Kind, Rows
<1> DEFINE found == {i \in Item :
             There(i) /\ (reader.url.kind = "index" \/ reader.url.item = i)}
<1>1. /\ reader'.url = reader.url
      /\ reader.url.kind = "index" \/ found # {}
      /\ reader'.left = IF reader.url.kind = "show" THEN Item ELSE found
      /\ UNCHANGED <<rows, hashes, votes>>
      /\ reader'.page = [i \in Item |->
             IF i \in found
             THEN [Nothing EXCEPT !.there = TRUE,
                                  !.stamp = IF reader.url.kind = "data" THEN 0
                                            ELSE rows[i].stamp]
             ELSE Nothing]
  BY <1>0 DEF Ask, Requests
<1>2. \A i \in Item : reader'.page[i] =
         IF i \in found
         THEN [there |-> TRUE, stamp |-> rows[i].stamp, hash |-> NoHash, voted |-> FALSE]
         ELSE Nothing
  BY <1>0, <1>1, AskedEntry
<1> HIDE DEF found
<1>3. Asked'
  BY <1>0, <1>1 DEF Asked, There, found
<1>4. \A i \in Item \ reader'.left : reader'.page[i] = PageNow(reader.url)'[i]
  <2> SUFFICES ASSUME NEW i \in Item, i \notin reader'.left
               PROVE  reader'.page[i] = PageNow(reader.url)'[i]
    OBVIOUS
  <2>1. reader.url.kind = "index" /\ i \notin found
    BY <1>0, <1>1
  <2>2. ~There(i)'
    BY <1>1, <2>1 DEF found, There
  <2>3. PageNow(reader.url)'[i] = Nothing
    BY <2>2 DEF PageNow
  <2> QED BY <1>2, <2>1, <2>3
<1>5. \A i \in reader'.left : Skeleton(i)'
  <2> SUFFICES ASSUME NEW i \in reader'.left,
                      reader.url.kind = "index" \/ i = reader.url.item
               PROVE  /\ There(i)'
                      /\ reader'.page[i] = [there |-> TRUE, stamp |-> rows'[i].stamp,
                                            hash |-> NoHash, voted |-> FALSE]
    BY <1>1 DEF Skeleton
  <2>1. i \in found
    BY <1>0, <1>1 DEF found
  <2> QED BY <1>1, <1>2, <2>1 DEF found, There
<1> QED BY <1>1, <1>3, <1>4, <1>5 DEF Made

LEMMA MadeDetails ==
  ASSUME Order, Made, NEW i \in Item, ReadDetails(i), reader.url.kind # "data"
  PROVE  Made'
<1>0. /\ TypeOK /\ reader \in Requests /\ reader.url \in Url /\ reader.url.item \in Item
      /\ reader.url.kind \in {"index", "show"}
      /\ rows \in [Item -> Rows] /\ hashes \in [Item -> Hash \cup {NoHash}]
      /\ \A j \in Item : rows[j].stamp \in Stamps
      /\ reader.page \in [Item -> Seen]
  BY TypeParts, NothingTyped, CachingAssumption DEF Order, Base, Requests, Kind, Rows
<1> DEFINE hash == IF reader.url.kind = "index" THEN hashes[i] ELSE reader.page[i].hash
           entry == IF reader.url.kind = "show" /\ reader.url.item # i
                    THEN PageNow(reader.url)[i]
                    ELSE [reader.page[i] EXCEPT !.hash = hash, !.voted = Voted(i)]
<1>1. /\ reader.at = "details" /\ i \in reader.left
      /\ reader'.url = reader.url /\ reader'.at = reader.at
      /\ reader'.overlap = reader.overlap
      /\ reader'.left = reader.left \ {i}
      /\ reader'.page = [reader.page EXCEPT ![i] = entry]
      /\ UNCHANGED <<rows, hashes, votes>>
  BY <1>0 DEF ReadDetails, Requests
<1> SUFFICES ASSUME ~reader.overlap PROVE Made'
  BY <1>1 DEF Made
<1>2. Asked /\ Skeleton(i)
  BY <1>1 DEF Made
<1>3. entry = PageNow(reader.url)[i]
  <2>1. CASE reader.url.kind = "show" /\ reader.url.item # i
    BY <2>1
  <2>2. CASE reader.url.kind = "index" \/ reader.url.item = i
    <3>1. /\ There(i)
          /\ reader.page[i] = [there |-> TRUE, stamp |-> rows[i].stamp,
                               hash |-> NoHash, voted |-> FALSE]
      BY <1>2, <2>2 DEF Skeleton
    <3>2. reader.page[i] \in Seen /\ reader.page[i].there = TRUE
          /\ reader.page[i].stamp = rows[i].stamp /\ reader.page[i].hash = NoHash
      BY <1>0, <3>1
    <3> DEFINE voted == Voted(i)
               listed == \/ reader.url.kind = "index"
                         \/ reader.url.kind = "show" /\ reader.url.item = i
               shown == IF reader.url.kind = "index" THEN hashes[i]
                        ELSE IF reader.url.kind = "show" \/ hashes[i] = NoHash THEN NoHash
                        ELSE At(hashes[i], reader.url.path)
    <3>3. /\ hash \in Found \cup {NoHash} /\ voted \in BOOLEAN
          /\ entry = [reader.page[i] EXCEPT !.hash = hash, !.voted = voted]
      BY <1>0, <2>2, <3>2, EmptyFacts DEF Voted
    <3>4. Shown(reader.url, i) = [there |-> TRUE,
                                  stamp |-> IF listed THEN rows[i].stamp ELSE 0,
                                  hash |-> shown, voted |-> listed /\ voted]
      BY DEF Shown
    <3>5. listed /\ shown = hash
      BY <1>0, <2>2, <3>2
    <3> HIDE DEF hash, voted, listed, shown, entry
    <3>6. entry = [there |-> TRUE, stamp |-> rows[i].stamp, hash |-> hash,
                   voted |-> voted]
      <4>1. ASSUME NEW h \in Found \cup {NoHash}, NEW v \in BOOLEAN
            PROVE  [reader.page[i] EXCEPT !.hash = h, !.voted = v] =
                     [there |-> TRUE, stamp |-> rows[i].stamp, hash |-> h, voted |-> v]
        <5> DEFINE x == reader.page[i]
        <5>1. [x EXCEPT !.hash = h, !.voted = v] =
                [there |-> x.there, stamp |-> x.stamp, hash |-> h, voted |-> v]
          BY <3>2, SeenExcept, Zenon
        <5> QED BY <3>2, <5>1
      <4> QED BY <3>3, <4>1, Zenon
    <3>7. PageNow(reader.url)[i] = Shown(reader.url, i)
      BY <1>0, <3>1 DEF PageNow, OnPage
    <3>8. (listed /\ voted) = voted
      BY <3>3, <3>5
    <3> QED BY <3>4, <3>5, <3>6, <3>7, <3>8
  <2> QED BY <1>0, <2>1, <2>2
<1> HIDE DEF entry
<1>4. PageNow(reader.url)' = PageNow(reader.url)
  BY <1>1 DEF PageNow, Shown, There, Voted, OnPage
<1>5. Asked' = Asked /\ \A j \in Item : There(j)' = There(j)
  BY <1>1 DEF Asked, There
<1>6. \A j \in Item \ reader'.left : reader'.page[j] = PageNow(reader.url)'[j]
  BY <1>0, <1>1, <1>3, <1>4 DEF Made
<1>7. \A j \in reader'.left : Skeleton(j)'
  <2> SUFFICES ASSUME NEW j \in reader'.left PROVE Skeleton(j)'
    OBVIOUS
  <2>1. j \in reader.left /\ j \in Item /\ j # i
    BY <1>0, <1>1 DEF Requests
  <2>2. Skeleton(j) /\ reader'.page[j] = reader.page[j]
    BY <1>0, <1>1, <2>1 DEF Made
  <2> QED BY <1>1, <1>5, <2>1, <2>2 DEF Skeleton
<1> QED BY <1>1, <1>2, <1>5, <1>6, <1>7 DEF Made

LEMMA CausesRead ==
  ASSUME Order, Causes, Read
  PROVE  Causes'
<1>0. /\ Base /\ TypeOK /\ reader \in Requests /\ cache \in Caches
      /\ reader'.url = reader.url /\ reader.url \in Url /\ reader.url.item \in Item
      /\ reader.page \in [Item -> Seen] /\ TagNow(reader.url) \in Nat
  BY TypeParts, CachingAssumption, NothingTyped, ReadSplit, TagBounded
  DEF Order, Base, Requests, TagBound
<1>1. CASE reader.url.kind = "data"
  BY <1>0, <1>1 DEF Causes, WasThere, Told, Made
<1>2. CASE reader.url.kind # "data"
  <2>1. UNCHANGED <<clock, rows, hashes, votes>> /\ ~ReadHash /\ ~ReadMissingHash
    <3>1. ~ReadHash /\ ~ReadMissingHash
      BY <1>2 DEF ReadHash, ReadMissingHash, Order, Places
    <3> QED BY <1>0, <3>1, ReadSplit
  <2>2. /\ PageNow(reader.url)' = PageNow(reader.url)
        /\ TagNow(reader.url)' = TagNow(reader.url)
        /\ Asked' = Asked
    BY <1>0, <2>1 DEF PageNow, Shown, There, Voted, OnPage, TagNow, CollectionTag,
      ShowTag, Asked
  <2>3. CASE Ask
    <3>1. cache' = cache
      BY <2>3 DEF Ask
    <3>2. Told'
      BY <2>2, <3>1, <1>0 DEF Causes, Told, Current
    <3>3. WasThere'
      <4>1. reader.url.kind = "show" => There(reader.url.item)
        BY <2>3 DEF Ask
      <4> QED BY <1>0, <2>1, <4>1 DEF WasThere, There
    <3> QED BY <1>2, <2>3, <3>2, <3>3, MadeAsk DEF Causes
  <2>4. ASSUME NEW i \in Item, ReadDetails(i) PROVE Causes'
    <3>1. cache' = cache /\ reader'.at = reader.at
      BY <1>0, <2>4 DEF ReadDetails, Requests
    <3>2. Told' /\ WasThere'
      BY <1>0, <2>1, <2>2, <3>1 DEF Causes, Told, Current, WasThere
    <3> QED BY <1>2, <2>4, <3>2, MadeDetails DEF Causes
  <2>5. CASE Respond
    <3>1. /\ reader.at = "details" /\ reader.left = {} /\ reader'.at = "idle"
          /\ Validator = TagNow(reader.url)
      BY <1>0, <1>2, <2>5 DEF Respond, Requests, Validator
    <3>2. Made' /\ WasThere'
      BY <1>0, <2>1, <3>1 DEF Made, WasThere, Causes
    <3>3. CASE cache' = cache
      BY <1>0, <2>2, <3>2, <3>3 DEF Causes, Told, Current
    <3>4. CASE cache' = [held |-> TRUE, page |-> reader.page, tag |-> Validator,
                         why |-> {c \in {"overlap"} : reader.overlap}]
      <4>1. /\ cache'.page = reader.page /\ cache'.tag = TagNow(reader.url)
            /\ cache'.why = {c \in {"overlap"} : reader.overlap}
        BY <3>1, <3>4
      <4>2. ASSUME cache'.why = {} PROVE reader.page = PageNow(reader.url)
        <5>1. \A i \in Item : reader.page[i] = PageNow(reader.url)[i]
          BY <1>2, <3>1, <4>1, <4>2 DEF Causes, Made
        <5>2. PageNow(reader.url) \in [Item -> Seen]
          BY <1>0, PageNowTyped, NothingTyped
        <5> QED BY <1>0, <5>1, <5>2
      <4>3. Told'
        BY <1>0, <2>2, <4>1, <4>2 DEF Told, Current
      <4> QED BY <3>2, <4>3 DEF Causes
    <3> QED BY <2>5, <3>3, <3>4 DEF Respond
  <2> QED BY <2>1, <2>3, <2>4, <2>5 DEF Read
<1> QED BY <1>1, <1>2

\* A list or a proposal that is answered 304 and is another one now has one of the
\* named causes: the queries of one answer saw different states, or since then a
\* commit came below a stamp that was out, something was taken away, a proposal of
\* the list was voted for, or one beside the proposal was written.
THEOREM StaleExplained == Spec => []StaleHasCause
<1>1. Init => Causes
  <2> SUFFICES ASSUME Init PROVE Causes
    OBVIOUS
  <2>1. reader.at = "idle" /\ cache.held = FALSE
    BY DEF Init, NoRequest
  <2> QED BY <2>1 DEF Causes, WasThere, Told, Made
<1>2. Order /\ Causes /\ [Next]_vars => Causes'
  <2> SUFFICES ASSUME Order, Causes, [Next]_vars PROVE Causes'
    OBVIOUS
  <2>1. CASE vars' = vars
    BY <2>1 DEF vars, Causes, WasThere, Told, Made, Asked, Skeleton, Current, PageNow,
      TagNow, Shown, There, Voted, CollectionTag, ShowTag
  <2>2. CASE \E w \in Writer : Write(w)
    BY <2>2, ToldWriter, WritesLeave DEF Causes
  <2>3. CASE (\E v \in votes : Unvote(v)) \/ (\E i \in Item : Destroy(i))
    BY <2>3, ToldRemovals, WritesLeave DEF Causes
  <2>4. CASE Read
    BY <2>4, CausesRead
  <2> QED BY <2>1, <2>2, <2>3, <2>4 DEF Next
<1>3. Order /\ Causes => (reader.url.kind # "data" => StaleHasCause)
  <2> SUFFICES ASSUME Order, Causes, reader.url.kind # "data", Stale, cache.why = {}
               PROVE  FALSE
    BY DEF StaleHasCause
  <2>1. TagNow(reader.url) \in Nat
    BY TagBounded DEF Order, TagBound
  <2>2. Asked
    BY DEF Stale, Asked
  <2> QED BY <2>1, <2>2 DEF Causes, Told, Current, Stale
<1>4. DataNeverStale => (reader.url.kind = "data" => StaleHasCause)
  BY DEF DataNeverStale, StaleHasCause
<1>5. Order /\ Causes /\ DataNeverStale => StaleHasCause
  BY <1>3, <1>4
<1> QED BY <1>1, <1>2, <1>5, CachingOrder, DataFresh, PTL DEF Spec
=============================================================================

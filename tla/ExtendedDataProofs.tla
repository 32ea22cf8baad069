------------------------- MODULE ExtendedDataProofs -------------------------
(***************************************************************************)
(* The merge of extended data and its reading leave hashes without blanks, *)
(* whatever the keys, the values and the depth.                            *)
(***************************************************************************)
EXTENDS ExtendedData, TLAPS, SequenceTheorems

\* The object paths are the sequences of keys up to the depth.
LEMMA PathIsSeq ==
  \A p : p \in ObjectPath <=> p \in Seq(Key) /\ Len(p) <= MaxDepth
<1> SUFFICES ASSUME NEW p PROVE p \in ObjectPath <=> p \in Seq(Key) /\ Len(p) <= MaxDepth
  OBVIOUS
<1>1. ASSUME p \in ObjectPath PROVE p \in Seq(Key) /\ Len(p) <= MaxDepth
  <2>1. PICK n \in 0..MaxDepth : p \in [1..n -> Key]
    BY <1>1 DEF ObjectPath
  <2>2. n \in Nat /\ n <= MaxDepth
    BY DataAssumption
  <2> QED BY <2>1, <2>2
<1>2. ASSUME p \in Seq(Key), Len(p) <= MaxDepth PROVE p \in ObjectPath
  <2>1. Len(p) \in 0..MaxDepth /\ p \in [1..Len(p) -> Key]
    BY <1>2, LenProperties, DataAssumption
  <2> QED BY <2>1 DEF ObjectPath
<1> QED BY <1>1, <1>2

\* A prefix, key by key.
LEMMA PrefixByKey ==
  ASSUME NEW s \in Seq(Key), NEW t \in Seq(Key)
  PROVE  IsPrefix(s, t) <=>
           Len(s) <= Len(t) /\ \A n \in 1..Len(s) : s[n] = t[n]
<1>0. Len(s) \in Nat /\ Len(t) \in Nat
  BY LenProperties
<1>1. CASE ~(Len(s) <= Len(t))
  BY <1>1 DEF IsPrefix
<1>2. CASE Len(s) <= Len(t)
  <2>1. SubSeq(s, 1, Len(s)) = s
    BY SubSeqFull
  <2> DEFINE u == SubSeq(t, 1, Len(s))
  <2>2. \A n \in 1..Len(s) : t[n] \in Key
    BY <1>0, <1>2, ElementOfSeq
  <2>3. /\ u \in Seq(Key) /\ Len(u) = Len(s)
        /\ \A n \in 1..Len(s) : u[n] = t[n]
    BY <1>0, <2>2, SubSeqProperties, SMTT(30)
  <2>4. s = u <=> \A n \in 1..Len(s) : s[n] = u[n]
    BY <2>3, <1>0, SeqEqual
  <2> QED BY <2>1, <2>3, <2>4, <1>2 DEF IsPrefix
<1> QED BY <1>1, <1>2

LEMMA PrefixOrder ==
  ASSUME NEW s \in Seq(Key), NEW t \in Seq(Key), NEW u \in Seq(Key)
  PROVE  /\ IsPrefix(s, s)
         /\ IsPrefix(s, t) /\ IsPrefix(t, u) => IsPrefix(s, u)
         /\ IsPrefix(s, t) /\ IsPrefix(t, s) => s = t
         /\ IsPrefix(s, u) /\ IsPrefix(t, u) => IsPrefix(s, t) \/ IsPrefix(t, s)
<1>0. Len(s) \in Nat /\ Len(t) \in Nat /\ Len(u) \in Nat
  BY LenProperties
<1>1. IsPrefix(s, s)
  BY <1>0, PrefixByKey
<1>2. IsPrefix(s, t) /\ IsPrefix(t, u) => IsPrefix(s, u)
  BY <1>0, PrefixByKey
<1>3. IsPrefix(s, t) /\ IsPrefix(t, s) => s = t
  BY <1>0, PrefixByKey, SeqEqual
<1>4. IsPrefix(s, u) /\ IsPrefix(t, u) => IsPrefix(s, t) \/ IsPrefix(t, s)
  BY <1>0, PrefixByKey
<1> QED BY <1>1, <1>2, <1>3, <1>4

\* A path and what is below it.
LEMMA Below ==
  ASSUME NEW p \in Seq(Key), NEW r \in Seq(Key)
  PROVE  /\ p \o r \in Seq(Key)
         /\ Len(p \o r) = Len(p) + Len(r)
         /\ IsPrefix(p, p \o r)
         /\ SubSeq(p \o r, Len(p) + 1, Len(p \o r)) = r
         /\ p \o r = p <=> r = <<>>
         /\ \A s \in Seq(Key) : IsPrefix(p \o r, p \o s) <=> IsPrefix(r, s)
<1>0. Len(p) \in Nat /\ Len(r) \in Nat
  BY LenProperties
<1>1. /\ p \o r \in Seq(Key) /\ Len(p \o r) = Len(p) + Len(r)
      /\ \A n \in 1..Len(p) + Len(r) :
           (p \o r)[n] = IF n <= Len(p) THEN p[n] ELSE r[n - Len(p)]
  BY ConcatProperties
<1>2. IsPrefix(p, p \o r)
  <2>1. IsPrefix(p, p \o r) <=>
          Len(p) <= Len(p \o r) /\ \A n \in 1..Len(p) : p[n] = (p \o r)[n]
    BY <1>1, PrefixByKey, Zenon
  <2> QED BY <2>1, <1>0, <1>1
<1> DEFINE rest == SubSeq(p \o r, Len(p) + 1, Len(p \o r))
<1>3. rest = r
  <2>1. \A n \in Len(p) + 1..Len(p \o r) : (p \o r)[n] \in Key
    BY <1>0, <1>1, ElementOfSeq
  <2>2. /\ rest \in Seq(Key)
        /\ Len(rest) = Len(r)
        /\ \A n \in 1..Len(r) : rest[n] = (p \o r)[Len(p) + n]
    BY <1>0, <1>1, <2>1, SubSeqProperties, SMTT(30)
  <2>3. \A n \in 1..Len(r) : rest[n] = r[n]
    BY <1>0, <1>1, <2>2
  <2> QED BY <2>2, <2>3, SeqEqual
<1>4. p \o r = p <=> r = <<>>
  BY ConcatEqualIffEmpty
<1>5. ASSUME NEW s \in Seq(Key)
      PROVE  IsPrefix(p \o r, p \o s) <=> IsPrefix(r, s)
  <2>0. Len(s) \in Nat
    BY LenProperties
  <2>1. /\ p \o s \in Seq(Key) /\ Len(p \o s) = Len(p) + Len(s)
        /\ \A n \in 1..Len(p) + Len(s) :
             (p \o s)[n] = IF n <= Len(p) THEN p[n] ELSE s[n - Len(p)]
    BY ConcatProperties
  <2> DEFINE agree == \A n \in 1..Len(p \o r) : (p \o r)[n] = (p \o s)[n]
  <2>4. IsPrefix(p \o r, p \o s) <=> Len(p \o r) <= Len(p \o s) /\ agree
    BY <1>1, <2>1, PrefixByKey, Zenon
  <2>2. ASSUME IsPrefix(p \o r, p \o s)
        PROVE  IsPrefix(r, s)
    <3>1. Len(r) <= Len(s)
      BY <2>2, <2>4, <1>0, <2>0, <1>1, <2>1
    <3>2. \A n \in 1..Len(r) : (p \o r)[Len(p) + n] = (p \o s)[Len(p) + n]
      BY <2>2, <2>4, <1>0, <2>0, <1>1, <2>1
    <3>3. \A n \in 1..Len(r) : r[n] = s[n]
      BY <3>1, <3>2, <1>0, <2>0, <1>1, <2>1
    <3> QED BY <3>1, <3>3, PrefixByKey
  <2>3. ASSUME IsPrefix(r, s)
        PROVE  IsPrefix(p \o r, p \o s)
    <3>1. Len(r) <= Len(s) /\ \A n \in 1..Len(r) : r[n] = s[n]
      BY <2>3, PrefixByKey
    <3>2. \A n \in 1..Len(p) + Len(r) : (p \o r)[n] = (p \o s)[n]
      BY <3>1, <1>0, <2>0, <1>1, <2>1
    <3> QED BY <2>4, <3>1, <3>2, <1>0, <2>0, <1>1, <2>1
  <2> QED BY <2>2, <2>3
<1> QED BY <1>1, <1>2, <1>3, <1>4, <1>5

LEMMA RestOfPrefix ==
  ASSUME NEW p \in Seq(Key), NEW q \in Seq(Key), IsPrefix(p, q)
  PROVE  /\ SubSeq(q, Len(p) + 1, Len(q)) \in Seq(Key)
         /\ Len(SubSeq(q, Len(p) + 1, Len(q))) <= Len(q)
         /\ p \o SubSeq(q, Len(p) + 1, Len(q)) = q
<1>0. Len(p) \in Nat /\ Len(q) \in Nat /\ Len(p) <= Len(q)
  BY LenProperties, PrefixByKey
<1>1. SubSeq(q, 1, Len(p)) = p
  BY SubSeqFull DEF IsPrefix
<1>2. /\ 1 \in 1..Len(q) + 1 /\ Len(p) \in 1 - 1..Len(q)
      /\ Len(q) \in Len(p)..Len(q)
  BY <1>0
<1>3. SubSeq(q, 1, Len(p)) \o SubSeq(q, Len(p) + 1, Len(q)) = SubSeq(q, 1, Len(q))
  BY <1>2, ConcatAdjacentSubSeq
<1>4. \A n \in Len(p) + 1..Len(q) : q[n] \in Key
  BY <1>0, ElementOfSeq
<1>5. /\ SubSeq(q, Len(p) + 1, Len(q)) \in Seq(Key)
      /\ Len(SubSeq(q, Len(p) + 1, Len(q))) <= Len(q)
  BY <1>0, <1>4, SubSeqProperties, SMTT(30)
<1> QED BY <1>1, <1>3, <1>5, SubSeqFull

\* The topmost key of a path.
LEMMA TopmostKey ==
  ASSUME NEW r \in Seq(Key), r # <<>>
  PROVE  /\ SubSeq(r, 1, 1) \in Seq(Key)
         /\ IsPrefix(SubSeq(r, 1, 1), r)
         /\ \A s \in Seq(Key) :
              IsPrefix(s, r) /\ s # <<>> => IsPrefix(SubSeq(r, 1, 1), s)
<1>0. Len(r) \in Nat \ {0}
  BY EmptySeq
<1>1. \A n \in 1..1 : r[n] \in Key
  BY <1>0, ElementOfSeq
<1>2. /\ SubSeq(r, 1, 1) \in Seq(Key) /\ Len(SubSeq(r, 1, 1)) = 1
      /\ SubSeq(r, 1, 1)[1] = r[1]
  BY <1>1, SubSeqProperties, SMTT(30)
<1> DEFINE top == SubSeq(r, 1, 1)
<1>5. \A s \in Seq(Key) : IsPrefix(top, s) <=>
        Len(top) <= Len(s) /\ \A n \in 1..Len(top) : top[n] = s[n]
  BY <1>2, PrefixByKey, Zenon
<1>3. IsPrefix(top, r)
  BY <1>0, <1>2, <1>5
<1>4. ASSUME NEW s \in Seq(Key), IsPrefix(s, r), s # <<>>
      PROVE  IsPrefix(SubSeq(r, 1, 1), s)
  <2>1. Len(s) \in Nat \ {0}
    BY <1>4, EmptySeq
  <2>2. s[1] = r[1]
    BY <2>1, <1>4, PrefixByKey
  <2> QED BY <2>1, <2>2, <1>2, <1>5
<1> QED BY <1>2, <1>3, <1>4

-----------------------------------------------------------------------------
LEMMA HashFacts ==
  ASSUME NEW hash \in Hash
  PROVE  /\ DOMAIN hash \subseteq Path
         /\ hash \in [DOMAIN hash -> Value]
         /\ \A p, q \in DOMAIN hash : IsPrefix(p, q) => p = q
         /\ \A p \in DOMAIN hash : p \in Seq(Key) /\ p # <<>>
<1>1. PICK d \in SUBSET Path : hash \in [d -> Value]
  BY DEF Hash
<1>2. \A p, q \in DOMAIN hash : IsPrefix(p, q) => p = q
  BY DEF Hash, Flat, IsStrictPrefix
<1> QED BY <1>1, <1>2, PathIsSeq DEF Path

LEMMA IsHashFacts ==
  ASSUME NEW d \in SUBSET Path, NEW hash \in [d -> Value],
         \A p, q \in d : IsPrefix(p, q) => p = q
  PROVE  hash \in Hash
<1>1. DOMAIN hash = d
  OBVIOUS
<1>2. Flat(DOMAIN hash)
  BY <1>1 DEF Flat, IsStrictPrefix
<1> QED BY <1>2 DEF Hash

LEMMA DatumFacts ==
  ASSUME NEW datum \in Datum
  PROVE  /\ DOMAIN datum \subseteq ObjectPath
         /\ datum \in [DOMAIN datum -> Value \cup {Blank}]
         /\ \A p, q \in DOMAIN datum : IsPrefix(p, q) => p = q
         /\ \A p \in DOMAIN datum : p \in Seq(Key)
         /\ <<>> \in DOMAIN datum => IsScalar(datum)
<1>1. PICK d \in SUBSET ObjectPath : datum \in [d -> Value \cup {Blank}]
  BY DEF Datum
<1>2. \A p, q \in DOMAIN datum : IsPrefix(p, q) => p = q
  BY DEF Datum, Flat, IsStrictPrefix
<1>3. \A p \in DOMAIN datum : p \in Seq(Key)
  BY <1>1, PathIsSeq
<1>4. ASSUME <<>> \in DOMAIN datum
      PROVE  IsScalar(datum)
  <2>1. \A q \in DOMAIN datum : IsPrefix(<<>>, q)
    <3> SUFFICES ASSUME NEW q \in DOMAIN datum PROVE IsPrefix(<<>>, q)
      OBVIOUS
    <3>1. q \in Seq(Key) /\ <<>> \in Seq(Key) /\ <<>> \o q = q
      BY <1>3, EmptySeq, ConcatEmptySeq
    <3>2. IsPrefix(<<>>, <<>> \o q)
      BY <3>1, Below
    <3> QED BY <3>1, <3>2
  <2> QED BY <1>2, <1>4, <2>1 DEF IsScalar
<1> QED BY <1>1, <1>2, <1>3, <1>4

\* A leaf that the merge keeps, and one that it stores, are not below each other.
LEMMA KeptApart ==
  ASSUME NEW hash \in Hash, NEW path \in ObjectPath, NEW datum \in Datum,
         ~MayRaise(hash, path, datum),
         NEW q \in Kept(hash, path, datum), NEW r \in DOMAIN datum
  PROVE  ~IsPrefix(path \o r, q) /\ ~IsPrefix(q, path \o r)
<1>0. /\ path \in Seq(Key) /\ r \in Seq(Key)
      /\ q \in DOMAIN hash /\ q \in Seq(Key) /\ q # <<>>
  BY PathIsSeq, HashFacts, DatumFacts DEF Kept
<1>1. \A p \in Overwritten(hash, path, datum) : ~IsPrefix(p, q)
  BY DEF Kept
<1>2. /\ path \o r \in Seq(Key) /\ IsPrefix(path, path \o r)
  BY <1>0, Below
\* The path written over that leads to the new leaf.
<1>3. \E p \in Overwritten(hash, path, datum) :
        /\ p \in Seq(Key)
        /\ IsPrefix(p, path \o r)
        /\ \A s \in Seq(Key) : /\ IsPrefix(path, s) /\ s # path
                               /\ IsPrefix(s, path \o r)
                               => IsPrefix(p, s)
        /\ p = path \/ (IsHash(hash, path) /\ r # <<>>)
  <2>1. CASE ~IsHash(hash, path)
    <3>1. path \in Overwritten(hash, path, datum)
      BY <2>1 DEF Overwritten
    <3> QED BY <3>1, <1>0, <1>2
  <2>2. CASE IsHash(hash, path)
    <3>1. r # <<>>
      BY <2>2, DatumFacts DEF MayRaise
    <3> DEFINE top == SubSeq(r, 1, 1)
    <3>2. path \o top \in Overwritten(hash, path, datum)
      BY <2>2 DEF Overwritten
    <3>3. /\ top \in Seq(Key) /\ IsPrefix(top, r)
          /\ \A s \in Seq(Key) : IsPrefix(s, r) /\ s # <<>> => IsPrefix(top, s)
      BY <1>0, <3>1, TopmostKey
    <3> HIDE DEF top
    <3>4. path \o top \in Seq(Key) /\ IsPrefix(path \o top, path \o r)
      BY <1>0, <3>3, Below
    <3>5. ASSUME NEW s \in Seq(Key), IsPrefix(path, s), s # path,
                 IsPrefix(s, path \o r)
          PROVE  IsPrefix(path \o top, s)
      <4> DEFINE t == SubSeq(s, Len(path) + 1, Len(s))
      <4>1. t \in Seq(Key) /\ path \o t = s
        BY <1>0, <3>5, RestOfPrefix
      <4> HIDE DEF t
      <4>2. t # <<>>
        BY <4>1, <3>5, <1>0, ConcatEmptySeq
      <4>3. IsPrefix(t, r)
        BY <4>1, <3>5, <1>0, Below
      <4>4. IsPrefix(top, t)
        BY <4>1, <4>2, <4>3, <3>3
      <4> QED BY <4>1, <4>4, <3>3, <1>0, Below
    <3> QED BY <2>2, <3>1, <3>2, <3>4, <3>5
  <2> QED BY <2>1, <2>2
<1>4. PICK p \in Overwritten(hash, path, datum) :
        /\ p \in Seq(Key)
        /\ IsPrefix(p, path \o r)
        /\ \A s \in Seq(Key) : /\ IsPrefix(path, s) /\ s # path
                               /\ IsPrefix(s, path \o r)
                               => IsPrefix(p, s)
        /\ p = path \/ (IsHash(hash, path) /\ r # <<>>)
  BY <1>3
<1>5. ~IsPrefix(path \o r, q)
  BY <1>0, <1>1, <1>2, <1>4, PrefixOrder
<1>6. ASSUME IsPrefix(q, path \o r) PROVE FALSE
  <2>1. IsPrefix(path, q) \/ IsPrefix(q, path)
    BY <1>0, <1>2, <1>6, PrefixOrder
  <2>2. CASE IsPrefix(path, q) /\ q # path
    BY <2>2, <1>0, <1>1, <1>4, <1>6
  <2>3. CASE q = path
    <3>1. IsHash(hash, path)
      BY <2>3, <1>0, <1>1, <1>4, PrefixOrder
    <3>2. \E s \in DOMAIN hash : IsPrefix(path, s) /\ path # s
      BY <2>3, <3>1, <1>0 DEF IsHash, IsStrictPrefix
    <3> QED BY <2>3, <3>2, <1>0, HashFacts
  <2>4. CASE IsPrefix(q, path) /\ q # path
    <3>1. /\ Len(q) \in Nat \ {0} /\ Len(path) \in Nat
          /\ Len(q) <= Len(path) /\ SubSeq(path, 1, Len(q)) = SubSeq(q, 1, Len(q))
      BY <2>4, <1>0, EmptySeq, LenProperties DEF IsPrefix
    <3>2. SubSeq(q, 1, Len(q)) = q /\ SubSeq(path, 1, Len(path)) = path
      BY <1>0, SubSeqFull
    <3>3. Len(q) # Len(path)
      BY <2>4, <3>1, <3>2
    <3>4. Len(q) \in 1..(Len(path) - 1)
      BY <3>1, <3>3
    <3> QED BY <3>1, <3>2, <3>4, <1>0 DEF MayRaise
  <2> QED BY <2>1, <2>2, <2>3, <2>4
<1> QED BY <1>5, <1>6

\* The paths of the data whose values are not blank.
Sent(datum) == {r \in DOMAIN datum : datum[r] # Blank}

\* The domain of the merge and its values there.
LEMMA MergeFacts ==
  ASSUME NEW hash \in Hash, NEW path \in ObjectPath, NEW datum \in Datum,
         ~MayRaise(hash, path, datum)
  PROVE  /\ DOMAIN Merge(hash, path, datum) =
              Kept(hash, path, datum) \cup {path \o r : r \in Sent(datum)}
         /\ \A q \in Kept(hash, path, datum) :
              /\ q \in DOMAIN hash /\ q \in DOMAIN Merge(hash, path, datum)
              /\ Merge(hash, path, datum)[q] = hash[q]
         /\ \A r \in Sent(datum) :
              Merge(hash, path, datum)[path \o r] = datum[r]
<1> DEFINE new == Merge(hash, path, datum)
           kept == Kept(hash, path, datum)
           sent == Sent(datum)
           Rest(q) == SubSeq(q, Len(path) + 1, Len(q))
<1>1. new = [q \in kept \cup {path \o r : r \in sent} |->
               IF q \in kept THEN hash[q] ELSE datum[Rest(q)]]
  BY DEF Merge, Sent
<1>2. \A q \in kept : q \in DOMAIN hash
  BY DEF Kept
<1>3. ASSUME NEW r \in sent PROVE path \o r \notin kept /\ Rest(path \o r) = r
  <2>1. path \in Seq(Key) /\ r \in Seq(Key) /\ path \o r \in Seq(Key)
    BY PathIsSeq, DatumFacts, Below DEF Sent
  <2>2. Rest(path \o r) = r
    BY <2>1, Below
  <2>3. IsPrefix(path \o r, path \o r)
    BY <2>1, PrefixOrder
  <2> QED BY <2>2, <2>3, KeptApart DEF Sent
<1> HIDE DEF new, kept, sent, Rest
<1>4. \A r \in sent : new[path \o r] = datum[r]
  BY <1>1, <1>3
<1>5. DOMAIN new = kept \cup {path \o r : r \in sent}
  BY <1>1
<1>6. \A q \in kept : new[q] = hash[q]
  BY <1>1
<1> QED BY <1>2, <1>4, <1>5, <1>6 DEF new, kept, sent

\* A merge that is stored is a hash without blanks: no leaf is below another, no
\* value is blank (merge_extended_data_hash, compact_blank_recursively).
THEOREM MergesAreHashes ==
  ASSUME NEW hash \in Hash, NEW path \in ObjectPath, NEW datum \in Datum,
         \A r \in DOMAIN datum : path \o r \in ObjectPath
  PROVE  Merges(hash, path, datum) \subseteq Hash
<1> SUFFICES ASSUME NEW new \in Merges(hash, path, datum) PROVE new \in Hash
  OBVIOUS
<1>1. CASE ~MayRaise(hash, path, datum)
  <2> DEFINE kept == Kept(hash, path, datum)
             sent == Sent(datum)
             d == kept \cup {path \o r : r \in sent}
  <2>0. new = Merge(hash, path, datum) /\ ~(IsHash(hash, path) /\ IsScalar(datum))
    BY <1>1 DEF Merges, MayRaise
  <2>1. /\ DOMAIN new = d
        /\ \A q \in kept : q \in DOMAIN hash /\ new[q] = hash[q]
        /\ \A r \in sent : new[path \o r] = datum[r]
    BY <1>1, <2>0, MergeFacts
  <2>2. \A r \in sent : /\ r \in DOMAIN datum /\ datum[r] \in Value
                        /\ path \in Seq(Key) /\ r \in Seq(Key)
                        /\ path \o r \in ObjectPath
    BY PathIsSeq, DatumFacts DEF Sent
  <2>3. \A q \in kept : q \in Path /\ hash[q] \in Value
    BY <2>1, HashFacts
  <2>4. \A q \in kept, r \in sent :
          ~IsPrefix(path \o r, q) /\ ~IsPrefix(q, path \o r)
    BY <1>1, KeptApart DEF Sent
  <2>5. ASSUME NEW r \in sent PROVE path \o r # <<>>
    <3>1. SUFFICES ASSUME path \o r = <<>> PROVE FALSE
      OBVIOUS
    <3>2. path = <<>> /\ r = <<>>
      BY <3>1, <2>2, ConcatSimplifications
    <3> QED BY <3>2, <2>0, <2>2, DatumFacts DEF IsHash
  <2>6. \A q, r \in DOMAIN hash : IsPrefix(q, r) => q = r
    BY HashFacts
  <2>7. ASSUME NEW q \in sent, NEW r \in sent, IsPrefix(path \o q, path \o r)
        PROVE  q = r
    <3>1. IsPrefix(q, r)
      BY <2>2, <2>7, Below
    <3> QED BY <3>1, DatumFacts DEF Sent
  <2> HIDE DEF kept, sent
  <2>8. d \in SUBSET Path
    BY <2>2, <2>3, <2>5 DEF Path
  <2>9. ASSUME NEW p \in d, NEW q \in d, IsPrefix(p, q)
        PROVE  p = q
    <3>1. CASE p \in kept /\ q \in kept
      BY <3>1, <2>1, <2>6, <2>9
    <3>2. CASE p \in kept /\ \E r \in sent : q = path \o r
      BY <3>2, <2>4, <2>9
    <3>3. CASE q \in kept /\ \E r \in sent : p = path \o r
      BY <3>3, <2>4, <2>9
    <3>4. CASE \E r, s \in sent : p = path \o r /\ q = path \o s
      BY <3>4, <2>7, <2>9
    <3> QED BY <3>1, <3>2, <3>3, <3>4
  <2>10. \A q \in d : new[q] \in Value
    BY <2>1, <2>2, <2>3
  <2>11. new = [q \in d |-> new[q]]
    BY <2>0, <2>1 DEF Merge
  <2>12. new \in [d -> Value]
    BY <2>10, <2>11
  <2> QED BY <2>8, <2>9, <2>12, IsHashFacts
<1>2. CASE MayRaise(hash, path, datum)
  <2>1. PICK v \in Value : new = [hash EXCEPT ![Front(path)] = v]
    BY <1>2 DEF Merges
  <2>2. new \in [DOMAIN hash -> Value]
    BY <2>1, HashFacts
  <2> QED BY <2>2, HashFacts, IsHashFacts
<1> QED BY <1>1, <1>2

\* A leaf that the update does not name stays, with its value.
THEOREM OtherLeavesStay ==
  ASSUME NEW hash \in Hash, NEW path \in ObjectPath, NEW datum \in Datum,
         NEW new \in Merges(hash, path, datum),
         NEW q \in DOMAIN hash, ~Names(path, datum, q)
  PROVE  q \in DOMAIN new /\ new[q] = hash[q]
<1>1. CASE ~MayRaise(hash, path, datum)
  <2>0. new = Merge(hash, path, datum) /\ ~(IsHash(hash, path) /\ IsScalar(datum))
    BY <1>1 DEF Merges, MayRaise
  <2>1. ASSUME NEW p \in Overwritten(hash, path, datum) PROVE ~IsPrefix(p, q)
    <3>1. CASE IsHash(hash, path)
      <4>1. PICK r \in DOMAIN datum : p = path \o SubSeq(r, 1, 1)
        BY <3>1 DEF Overwritten
      <4>2. r # <<>>
        BY <2>0, <3>1, DatumFacts
      <4> QED BY <4>1, <4>2 DEF Names
    <3>2. CASE ~IsHash(hash, path)
      <4>1. p = path
        BY <3>2 DEF Overwritten
      <4> QED BY <4>1, <3>2 DEF IsHash, IsStrictPrefix, Names
    <3> QED BY <3>1, <3>2
  <2>2. q \in Kept(hash, path, datum)
    BY <2>1 DEF Kept
  <2> QED BY <1>1, <2>0, <2>2, MergeFacts
<1>2. CASE MayRaise(hash, path, datum)
  <2>1. /\ Len(path) > 1
        /\ \E v \in Value : new = [hash EXCEPT ![Front(path)] = v]
    BY <1>2 DEF Merges, ScalarParent
  <2>2. q # Front(path)
    BY <2>1 DEF Names
  <2>3. hash \in [DOMAIN hash -> Value]
    BY HashFacts
  <2> QED BY <2>1, <2>2, <2>3
<1> QED BY <1>1, <1>2

\* What is read at a path is a scalar or a hash without blanks
\* (ExtendedDataAtPath.fetch).
THEOREM AtIsFound ==
  ASSUME NEW hash \in Hash, NEW path \in ObjectPath
  PROVE  At(hash, path) \in Found
<1> DEFINE below == {q \in DOMAIN hash : IsPrefix(path, q)}
           Rest(q) == SubSeq(q, Len(path) + 1, Len(q))
           d == {Rest(q) : q \in below}
<1>0. At(hash, path) = [r \in d |-> hash[path \o r]]
  BY DEF At
<1>1. ASSUME NEW q \in below
      PROVE  /\ Rest(q) \in ObjectPath /\ path \o Rest(q) = q
             /\ Rest(q) = <<>> <=> q = path
  <2>1. path \in Seq(Key) /\ q \in Seq(Key) /\ q \in ObjectPath
    BY PathIsSeq, HashFacts DEF Path
  <2>2. /\ Rest(q) \in Seq(Key) /\ Len(Rest(q)) <= Len(q)
        /\ path \o Rest(q) = q
    BY <2>1, RestOfPrefix
  <2>3. Len(Rest(q)) <= MaxDepth
    BY <2>1, <2>2, PathIsSeq, LenProperties, DataAssumption
  <2> HIDE DEF Rest
  <2>4. path \o Rest(q) = path <=> Rest(q) = <<>>
    BY <2>1, <2>2, Below
  <2> QED BY <2>2, <2>3, <2>4, PathIsSeq
<1>2. \A q \in below : hash[q] \in Value
  BY HashFacts
<1> HIDE DEF Rest
<1>3. \A r \in d : hash[path \o r] \in Value
  BY <1>1, <1>2
<1>4. CASE path \in DOMAIN hash
  <2>1. path \in below
    BY <1>4, PathIsSeq, PrefixOrder
  <2>2. \A q \in below : q = path
    BY <1>4, HashFacts
  <2>3. d = {<<>>}
    BY <1>1, <2>1, <2>2
  <2>4. At(hash, path) = [r \in {<<>>} |-> hash[path]]
    <3>1. path \o <<>> = path
      BY PathIsSeq, ConcatEmptySeq
    <3> QED BY <1>0, <2>3, <3>1
  <2> QED BY <1>2, <2>1, <2>4 DEF Found
<1>5. CASE path \notin DOMAIN hash
  <2>1. d \in SUBSET Path
    BY <1>1, <1>5 DEF Path
  <2>2. ASSUME NEW p \in d, NEW q \in d, IsPrefix(p, q) PROVE p = q
    <3>1. /\ path \in Seq(Key) /\ p \in Seq(Key) /\ q \in Seq(Key)
          /\ path \o p \in DOMAIN hash /\ path \o q \in DOMAIN hash
      BY <1>1, PathIsSeq
    <3>2. path \o p = path \o q
      BY <2>2, <3>1, Below, HashFacts
    <3> QED BY <3>1, <3>2, ConcatSimplifications
  <2>3. At(hash, path) \in [d -> Value]
    BY <1>0, <1>3
  <2> QED BY <2>1, <2>2, <2>3, IsHashFacts DEF Found
<1> QED BY <1>4, <1>5
=============================================================================

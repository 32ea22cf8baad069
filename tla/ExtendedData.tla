---------------------------- MODULE ExtendedData ----------------------------
(***************************************************************************)
(* The hash of extended data of a resource, its merge at a path and its    *)
(* reading at a path.  A hash without blanks is the function of the paths  *)
(* of its leaves to their values: what compact_blank_recursively removes,  *)
(* blank values and hashes left empty, has no leaf.                        *)
(***************************************************************************)
EXTENDS Naturals, SequencesExt

CONSTANTS
  Key,       \* the keys of hashes
  Value,     \* the scalars that are not blank
  Blank,     \* nil, false, "", [] and {}
  MaxDepth   \* a bound: no path is longer

ASSUME DataAssumption == MaxDepth \in Nat \ {0} /\ Blank \notin Value

\* An object_path, <<>> is ".".
ObjectPath == UNION {[1..n -> Key] : n \in 0..MaxDepth}

Path == ObjectPath \ {<<>>}

\* No leaf is below another one.
Flat(domain) == \A p, q \in domain : ~IsStrictPrefix(p, q)

Hash == {hash \in UNION {[d -> Value] : d \in SUBSET Path} : Flat(DOMAIN hash)}

EmptyHash == [p \in {} |-> Blank]

\* What a request sends as data: a scalar is a leaf at <<>>.
Datum == {datum \in UNION {[d -> Value \cup {Blank}] :
                             d \in SUBSET ObjectPath \ {{}}} :
            Flat(DOMAIN datum)}

IsScalar(datum) == DOMAIN datum = {<<>>}

\* Whether a hash is found at the path.
IsHash(hash, path) ==
  path = <<>> \/ \E q \in DOMAIN hash : IsStrictPrefix(path, q)

\* Whether a scalar stands where the key before the last leads.
ScalarParent(hash, path) == Len(path) > 1 /\ Front(path) \in DOMAIN hash

\* The ways merge_extended_data_hash raises: a scalar further up (NotFound), a
\* scalar that is indexed with the last key, a scalar merged into a hash.
MayRaise(hash, path, datum) ==
  \/ \E n \in 1..(Len(path) - 1) : SubSeq(path, 1, n) \in DOMAIN hash
  \/ IsHash(hash, path) /\ IsScalar(datum)

\* The paths the merge writes over: Hash#merge! takes the topmost keys of the
\* data with all that is below them, an assignment takes the path.
Overwritten(hash, path, datum) ==
  IF IsHash(hash, path)
  THEN {path \o SubSeq(r, 1, 1) : r \in DOMAIN datum}
  ELSE {path}

\* Mutant of Kept: whatever is at the path is replaced.
KeptOutside(hash, path, datum) ==
  {q \in DOMAIN hash : ~IsPrefix(path, q)}

Kept(hash, path, datum) ==
  {q \in DOMAIN hash :
     \A p \in Overwritten(hash, path, datum) : ~IsPrefix(p, q)}

\* Mutant of Merge: blank values are stored.
MergeUncompacted(hash, path, datum) ==
  [q \in Kept(hash, path, datum) \cup {path \o r : r \in DOMAIN datum} |->
     IF q \in Kept(hash, path, datum) THEN hash[q]
     ELSE datum[SubSeq(q, Len(path) + 1, Len(q))]]

\* The merge, where no scalar is in the way, compacted.
Merge(hash, path, datum) ==
  LET sent == {r \in DOMAIN datum : datum[r] # Blank}
  IN  [q \in Kept(hash, path, datum) \cup {path \o r : r \in sent} |->
         IF q \in Kept(hash, path, datum) THEN hash[q]
         ELSE datum[SubSeq(q, Len(path) + 1, Len(q))]]

\* What the merge may leave.  A string that is indexed with a string it contains
\* gets that part replaced when a string is sent, and raises otherwise.
Merges(hash, path, datum) ==
  IF IsHash(hash, path) /\ IsScalar(datum) THEN {}
  ELSE IF ~MayRaise(hash, path, datum) THEN {Merge(hash, path, datum)}
  ELSE IF ScalarParent(hash, path) /\ IsScalar(datum)
  THEN {[hash EXCEPT ![Front(path)] = v] : v \in Value}
  ELSE {}

\* ExtendedDataAtPath.fetch: a leaf, the hash below, or {} where nothing is.
At(hash, path) ==
  LET below == {q \in DOMAIN hash : IsPrefix(path, q)}
      rest(q) == SubSeq(q, Len(path) + 1, Len(q))
  IN  [r \in {rest(q) : q \in below} |-> hash[path \o r]]

\* What At finds: a hash or a scalar.
Found == Hash \cup {[r \in {<<>>} |-> v] : v \in Value}

\* The leaves an update may write over, its path and its topmost keys taken as
\* they come.
Names(path, datum, q) ==
  \/ q = path
  \/ Len(path) > 1 /\ q = Front(path)
  \/ \E r \in DOMAIN datum :
       r # <<>> /\ IsPrefix(path \o SubSeq(r, 1, 1), q)
\* The leaves an update sends or writes above or below of.
Reaches(path, datum, q) ==
  \E r \in DOMAIN datum : IsPrefix(path \o r, q) \/ IsPrefix(q, path \o r)
=============================================================================

---------------------------- MODULE ScanCommand -----------------------------
(***************************************************************************)
(* SCAN, HSCAN, SSCAN and ZSCAN (db.c): the loop that collects elements    *)
(* bucket by bucket until there are enough, the loop that filters what was *)
(* collected, and the iteration of a client that calls it until the cursor *)
(* is back at zero while others change the elements.  The cursor is the    *)
(* number of the next bucket: module Dict has the one that survives a      *)
(* change of the table's size.                                             *)
(***************************************************************************)
EXTENDS Integers, Sequences, FiniteSets, SequencesExt, FiniteSetsExt

CONSTANTS
  Elem,        \* keys of a database, or fields or members of an object
  BucketOf,    \* the bucket of every element
  Matching,    \* elements that match the pattern
  Counts,      \* values of COUNT
  IterationsPerCount,  \* 10
  MaxChanges   \* bound on what other clients change

ScanAssumption ==
  /\ Elem \subseteq Nat /\ BucketOf \in [Elem -> Nat] /\ Matching \subseteq Elem
  /\ Counts \subseteq Nat \ {0} /\ IterationsPerCount \in Nat \ {0} /\ MaxChanges \in Nat

VARIABLES
  kind,      \* what is scanned
  table,     \* its elements
  expired,   \* keys whose time has come
  cursor,    \* of the client's iteration, -1 when it is over
  always,    \* elements that have been there since it began
  replied,   \* what it has been given so far
  changes

vars == <<kind, table, expired, cursor, always, replied, changes>>

LastBucket == Max({BucketOf[e] : e \in Elem} \cup {0})
Pairs == kind \in {"hash", "zset", "ziplist"}
Entry(e) == IF Pairs THEN << <<"key", e>>, <<"value", e>> >> ELSE << <<"key", e>> >>

Init ==
  /\ kind \in {"keys", "set", "hash", "zset", "intset", "ziplist"}
  /\ table \in SUBSET Elem /\ expired = {} /\ cursor = 0 /\ always = table
  /\ replied = <<>> /\ changes = 0

-----------------------------------------------------------------------------
(* scanCallback on every element *)
Entries(es) == FoldLeft(LAMBDA s, e : s \o Entry(e), <<>>, SetToSortSeq(es, <))
Between(a, b) == {e \in table : BucketOf[e] \in a..b}

(* The bucket after which the loop over dictScan stops: the last one, or   *)
(* one that has used up the iterations or has filled the reply.  A pair    *)
(* counts as two, in the reply and in the count.                           *)
Stop(count) ==
  Min({b \in cursor..LastBucket :
         \/ b = LastBucket \/ b - cursor = count * IterationsPerCount
         \/ Len(Entries(Between(cursor, b))) >= count})

(* What a call collects, and the cursor it will reply *)
Collect(count) ==
  IF kind \in {"intset", "ziplist"} THEN [keys |-> Entries(table), next |-> 0]
  ELSE LET b == Stop(IF Pairs THEN 2 * count ELSE count)
       IN  [keys |-> Entries(Between(cursor, b)), next |-> IF b = LastBucket THEN 0 ELSE b + 1]

(* A key of the reply that the filter drops *)
Dropped(k) == k[2] \notin Matching \/ (kind = "keys" /\ k[2] \in expired)

(* The loop that filters: a field and its value stay or go together *)
Filter(keys) ==
  LET step == IF Pairs THEN 2 ELSE 1
      F[i \in 1..(Len(keys) + 2)] ==
        IF i > Len(keys) THEN <<>>
        ELSE (IF Dropped(keys[i]) THEN <<>> ELSE SubSeq(keys, i, i + step - 1)) \o F[i + step]
  IN  F[1]

(* scanGenericCommand: expireIfNeeded deletes the matching keys it finds expired *)
Scan(count) ==
  /\ cursor # -1
  /\ LET c == Collect(count)
         gone == {e \in table : kind = "keys" /\ e \in expired \cap Matching /\ Contains(c.keys, <<"key", e>>)}
     IN  /\ replied' = replied \o Filter(c.keys)
         /\ cursor' = IF c.next = 0 THEN -1 ELSE c.next
         /\ table' = table \ gone /\ always' = always \ gone
  /\ UNCHANGED <<kind, expired, changes>>

(* Another client adds or deletes an element, or the time of a key comes *)
Change(e) ==
  /\ changes < MaxChanges /\ changes' = changes + 1 /\ cursor # -1
  /\ \/ e \notin table /\ table' = table \cup {e} /\ expired' = expired \ {e} /\ UNCHANGED always
     \/ e \in table /\ table' = table \ {e} /\ always' = always \ {e} /\ UNCHANGED expired
     \/ kind = "keys" /\ e \in table \ expired /\ expired' = expired \cup {e} /\ always' = always \ {e} /\ UNCHANGED table
  /\ UNCHANGED <<kind, cursor, replied>>

Next == (\E count \in Counts : Scan(count)) \/ \E e \in Elem : Change(e)
Spec == Init /\ [][Next]_vars

-----------------------------------------------------------------------------
(* A full iteration, with any counts, replies every element that matches   *)
(* and was there all the time, with its value where it has one; perhaps    *)
(* more than once (dict.c:669), which a table of fixed size does not show. *)
ScanComplete ==
  cursor = -1 => \A e \in always \cap Matching : \E i \in DOMAIN replied :
                   SubSeq(replied, i, i + Len(Entry(e)) - 1) = Entry(e)

(* What is replied is made of whole entries of elements that match.        *)
EntriesWhole ==
  LET n == Len(Entry(1)) IN
    /\ Len(replied) % n = 0
    /\ \A i \in DOMAIN replied : i % n = 1 % n =>
         replied[i][2] \in Matching /\ SubSeq(replied, i, i + n - 1) = Entry(replied[i][2])
=============================================================================

-------------------------------- MODULE Dict --------------------------------
(***************************************************************************)
(* The hash table (dict.c): two tables, incremental rehashing, safe        *)
(* iterators that hold it back, and the stateless cursor of SCAN.          *)
(*                                                                         *)
(* A bucket is a sequence of entries <<key, value>>, the head of the chain *)
(* first.  The sizes are powers of two.                                    *)
(***************************************************************************)
EXTENDS Integers, Sequences, FiniteSets, SequencesExt

CONSTANTS
  Key, Val, Absent,
  Hash,         \* dictHashKey
  InitialSize,  \* DICT_HT_INITIAL_SIZE, scaled down
  ForceRatio,   \* dict_force_resize_ratio, scaled down
  MaxBits,      \* the width of a cursor
  Shrinks,      \* whether dictResize is called
  Walks         \* the traversals of the model: "scan", "iterate"

DictAssumption ==
  /\ Hash \in [Key -> Nat] /\ InitialSize \in Nat \ {0} /\ ForceRatio \in Nat \ {0}
  /\ MaxBits \in Nat /\ Shrinks \in BOOLEAN /\ Walks \subseteq {"scan", "iterate"}

VARIABLES
  d,       \* ht0, ht1, rehashidx, iterators
  resize,  \* dict_can_resize
  scan,    \* a client's SCAN: active, cursor, got, must
  iter,    \* a safe iterator: active, table, index, entry, next, got, must
  op       \* the operation of the last step

vars == <<d, resize, scan, iter, op>>

Quiet == <<"quiet">>

-----------------------------------------------------------------------------
(* A table is a function from 0..size-1 to buckets. *)
Size(t) == Cardinality(DOMAIN t)
NoTable == [i \in {} |-> <<>>]
NewTable(n) == [i \in 0..(n - 1) |-> <<>>]
Entries(t) == UNION {ToSet(t[i]) : i \in DOMAIN t}
UsedOf(t) == Cardinality(Entries(t))
Rehashing(e) == e.rehashidx # -1
Keys(e) == {x[1] : x \in Entries(e.ht0) \cup Entries(e.ht1)}

NoScan == [active |-> FALSE, cursor |-> 0, got |-> {}, must |-> {}]
NoIter == [active |-> FALSE, table |-> 0, index |-> 0, cur |-> <<>>, next |-> <<>>,
           got |-> <<>>, must |-> {}]

(* _dictInit *)
Init ==
  /\ d = [ht0 |-> NoTable, ht1 |-> NoTable, rehashidx |-> -1, iterators |-> 0]
  /\ resize = TRUE /\ scan = NoScan /\ iter = NoIter /\ op = Quiet

(* _dictNextPower *)
NextPower(n) ==
  LET ps == {InitialSize * 2 ^ i : i \in 0..MaxBits}
      ok == {p \in ps : p >= n}
  IN  CHOOSE p \in ok : \A q \in ok : p <= q

(* dictExpand *)
Expand(e, n) ==
  IF Rehashing(e) \/ UsedOf(e.ht0) > n THEN e
  ELSE IF Size(e.ht0) = 0 THEN [e EXCEPT !.ht0 = NewTable(NextPower(n))]
  ELSE [e EXCEPT !.ht1 = NewTable(NextPower(n)), !.rehashidx = 0]

(* _dictExpandIfNeeded *)
ExpandIfNeeded(e) ==
  LET used == UsedOf(e.ht0)
  IN  IF Rehashing(e) THEN e
      ELSE IF Size(e.ht0) = 0 THEN Expand(e, InitialSize)
      ELSE IF used >= Size(e.ht0) /\ (resize \/ used \div Size(e.ht0) > ForceRatio)
      THEN Expand(e, used * 2) ELSE e

\* Faulty variant: the bucket is moved and stays in the old table.
RehashCopying(e) ==
  IF UsedOf(e.ht0) = 0 \/ e.rehashidx >= Size(e.ht0)
  THEN [e EXCEPT !.ht0 = e.ht1, !.ht1 = NoTable, !.rehashidx = -1]
  ELSE LET i == CHOOSE j \in e.rehashidx..(Size(e.ht0) - 1) :
                  \/ e.ht0[j] # <<>> /\ \A h \in e.rehashidx..(j - 1) : e.ht0[h] = <<>>
                  \/ j = Size(e.ht0) - 1 /\ \A h \in e.rehashidx..j : e.ht0[h] = <<>>
           put(t, x) == [t EXCEPT ![Hash[x[1]] % Size(t)] = <<x>> \o @]
       IN  [e EXCEPT !.ht1 = FoldLeft(put, @, e.ht0[i]), !.rehashidx = i + 1]

(* dictRehash of one bucket: the first that is not empty moves; when the   *)
(* old table is empty the new one takes its place.                         *)
Rehash(e) ==
  IF UsedOf(e.ht0) = 0
  THEN [e EXCEPT !.ht0 = e.ht1, !.ht1 = NoTable, !.rehashidx = -1]
  ELSE LET i == CHOOSE j \in e.rehashidx..(Size(e.ht0) - 1) :
                  e.ht0[j] # <<>> /\ \A h \in e.rehashidx..(j - 1) : e.ht0[h] = <<>>
           put(t, x) == [t EXCEPT ![Hash[x[1]] % Size(t)] = <<x>> \o @]
       IN  [e EXCEPT !.ht1 = FoldLeft(put, @, e.ht0[i]), !.ht0[i] = <<>>,
                     !.rehashidx = i + 1]

(* _dictRehashStep, as every operation calls it *)
RehashStep(e) == IF Rehashing(e) /\ e.iterators = 0 THEN Rehash(e) ELSE e

(* dictFind: the entry in table 0, and in table 1 while rehashing *)
Bucket(t, k) == t[Hash[k] % Size(t)]
InBucket(b, k) == \E i \in DOMAIN b : b[i][1] = k
ValueIn(b, k) == b[CHOOSE i \in DOMAIN b : b[i][1] = k /\ \A j \in 1..(i - 1) : b[j][1] # k][2]

Find(e, k) ==
  IF Size(e.ht0) = 0 THEN Absent
  ELSE IF InBucket(Bucket(e.ht0, k), k) THEN ValueIn(Bucket(e.ht0, k), k)
  ELSE IF Rehashing(e) /\ InBucket(Bucket(e.ht1, k), k) THEN ValueIn(Bucket(e.ht1, k), k)
  ELSE Absent

(* dictAdd with dictAddRaw and _dictKeyIndex *)
AddRaw(e, k, v) ==
  LET x == ExpandIfNeeded(RehashStep(e))
  IN  IF Find(x, k) # Absent THEN x
      ELSE IF Rehashing(x) THEN [x EXCEPT !.ht1[Hash[k] % Size(x.ht1)] = <<<<k, v>>>> \o @]
      ELSE [x EXCEPT !.ht0[Hash[k] % Size(x.ht0)] = <<<<k, v>>>> \o @]

(* dictReplace: the value of the entry that is there *)
SetVal(t, k, v) ==
  [i \in DOMAIN t |-> [j \in DOMAIN t[i] |-> IF t[i][j][1] = k THEN <<k, v>> ELSE t[i][j]]]

ReplaceIn(e, k, v) ==
  LET a == AddRaw(e, k, v)
      f == RehashStep(a)                \* dictFind
  IN  IF Find(ExpandIfNeeded(RehashStep(e)), k) = Absent THEN a
      ELSE [f EXCEPT !.ht0 = SetVal(@, k, v), !.ht1 = SetVal(@, k, v)]

(* dictGenericDelete *)
Without(t, k) == [i \in DOMAIN t |-> SelectSeq(t[i], LAMBDA x : x[1] # k)]

DeleteFrom(e, k) ==
  LET s == RehashStep(e)
  IN  IF Size(e.ht0) = 0 THEN e
      ELSE IF InBucket(Bucket(s.ht0, k), k) THEN [s EXCEPT !.ht0 = Without(@, k)]
      ELSE [s EXCEPT !.ht1 = Without(@, k)]

-----------------------------------------------------------------------------
(* What a traversal must return: keys that are there all the time. *)
Commit(e) ==
  /\ d' = e
  /\ scan' = [scan EXCEPT !.must = @ \cap Keys(e)]
  /\ iter' = [iter EXCEPT !.must = @ \cap Keys(e)]
  /\ UNCHANGED resize

(* While an iterator runs, its user may look up keys and delete the key it *)
(* was given last.                                                         *)
Add(k, v) == ~iter.active /\ Commit(AddRaw(d, k, v)) /\ op' = <<"add", k, v>>
Replace(k, v) == ~iter.active /\ Commit(ReplaceIn(d, k, v)) /\ op' = <<"replace", k, v>>
Delete(k) ==
  /\ iter.active => iter.cur # <<>> /\ iter.cur[1] = k
  /\ Commit(DeleteFrom(d, k)) /\ op' = <<"delete", k>>
LookUp(k) == op' = Quiet /\ Commit(IF Size(d.ht0) = 0 THEN d ELSE RehashStep(d))

(* dictRehashMilliseconds, from the cron: never inside an iteration *)
CronRehash == Rehashing(d) /\ ~iter.active /\ Commit(Rehash(d)) /\ op' = Quiet

(* dictEmpty with _dictClear *)
EmptyAll ==
  /\ ~iter.active /\ op' = <<"empty">>
  /\ Commit([ht0 |-> NoTable, ht1 |-> NoTable, rehashidx |-> -1, iterators |-> 0])

(* htNeedsResize; REDIS_HT_MINFILL stands at 100 per cent here *)
Sparse(t) == Size(t) > InitialSize /\ UsedOf(t) > 0 /\ UsedOf(t) < Size(t)

(* dictResize *)
ResizeTable(e) ==
  IF ~resize \/ Rehashing(e) THEN e
  ELSE Expand(e, IF UsedOf(e.ht0) < InitialSize THEN InitialSize ELSE UsedOf(e.ht0))

(* tryResizeHashTables *)
Resize ==
  /\ Shrinks /\ ~Rehashing(d) /\ ~iter.active /\ Sparse(d.ht0)
  /\ Commit(ResizeTable(d)) /\ op' = Quiet

(* dictEnableResize, dictDisableResize: around the life of a child *)
ToggleResize == resize' = ~resize /\ op' = Quiet /\ UNCHANGED <<d, scan, iter>>

-----------------------------------------------------------------------------
Bits(n) == CHOOSE b \in 0..MaxBits : 2 ^ b = n
Bit(v, i) == (v \div 2 ^ i) % 2
Rev(v, b) == FoldLeft(LAMBDA s, i : s + Bit(v, i - 1) * 2 ^ (b - i), 0, [i \in 1..b |-> i])

(* The cursor after bucket v of a table of 2^b: the reversed bits are      *)
(* incremented, so that a larger table only splits what is still to come.  *)
NextCursor(v, b) == Rev((Rev(v % 2 ^ b, b) + 1) % 2 ^ b, b)

\* Faulty variant: only the bucket of the cursor itself.
NoExpansions(v, b0, b1) == {v % 2 ^ b1}

(* The buckets of the larger table that the loop of dictScan visits: from  *)
(* v upwards in the bits the smaller mask lacks, until they are all zero.  *)
Expansions(v, b0, b1) ==
  LET high == (v \div 2 ^ b0) % 2 ^ (b1 - b0)
  IN  {(v % 2 ^ b0) + h * 2 ^ b0 : h \in high..(2 ^ (b1 - b0) - 1)}

KeysAt(t, i) == {x[1] : x \in ToSet(t[i])}

(* dictScan *)
ScanStep(v) ==
  LET small == IF Size(d.ht0) > Size(d.ht1) THEN d.ht1 ELSE d.ht0
      large == IF Size(d.ht0) > Size(d.ht1) THEN d.ht0 ELSE d.ht1
      b0 == Bits(Size(small))
  IN  IF Keys(d) = {} THEN [keys |-> {}, cursor |-> 0]
      ELSE IF ~Rehashing(d)
      THEN [keys |-> KeysAt(d.ht0, v % Size(d.ht0)), cursor |-> NextCursor(v, Bits(Size(d.ht0)))]
      ELSE [keys |-> KeysAt(small, v % Size(small)) \cup
                     UNION {KeysAt(large, i) : i \in Expansions(v, b0, Bits(Size(large)))},
            cursor |-> NextCursor(v, b0)]

StartScan ==
  /\ "scan" \in Walks /\ ~scan.active
  /\ scan' = [active |-> TRUE, cursor |-> 0, got |-> {}, must |-> Keys(d)]
  /\ op' = Quiet /\ UNCHANGED <<d, resize, iter>>

(* One call of SCAN; done when the cursor is 0 again. *)
Scan ==
  /\ scan.active
  /\ LET s == ScanStep(scan.cursor)
     IN  scan' = [scan EXCEPT !.got = @ \cup s.keys, !.cursor = s.cursor,
                              !.active = s.cursor # 0]
  /\ op' = Quiet /\ UNCHANGED <<d, resize, iter>>

(* dictGetSafeIterator with the first dictNext *)
StartIterator ==
  /\ "iterate" \in Walks /\ ~iter.active
  /\ d' = [d EXCEPT !.iterators = @ + 1]
  /\ iter' = [NoIter EXCEPT !.active = TRUE, !.must = Keys(d)]
  /\ op' = Quiet /\ UNCHANGED <<resize, scan>>

(* The rest of the chain after the entry, as nextEntry holds it *)
After(b, x) == IF x = <<>> THEN b ELSE SubSeq(b, (CHOOSE i \in DOMAIN b : b[i] = x) + 1, Len(b))

(* dictNext and, at the end, dictReleaseIterator; next is nextEntry with   *)
(* what follows it.                                                        *)
IterNext ==
  LET tab == IF iter.table = 0 THEN d.ht0 ELSE d.ht1
      flat(t, from) == FoldLeft(LAMBDA s, i : IF i <= from THEN s ELSE s \o t[i - 1], <<>>,
                                [i \in 1..Size(t) |-> i])
      rest == iter.next \o flat(tab, iter.index)
                \o (IF iter.table = 0 /\ Rehashing(d) THEN flat(d.ht1, 0) ELSE <<>>)
      x == Head(rest)
      inOld == \E i \in DOMAIN d.ht0 : Contains(d.ht0[i], x)
      t == IF inOld /\ iter.table = 0 THEN d.ht0 ELSE d.ht1
      at == CHOOSE i \in DOMAIN t : Contains(t[i], x)
  IN  /\ iter.active
      /\ IF rest = <<>>
         THEN /\ iter' = NoIter
              /\ d' = [d EXCEPT !.iterators = @ - 1]
         ELSE /\ iter' = [iter EXCEPT !.cur = x, !.got = Append(@, x[1]),
                            !.table = IF inOld /\ iter.table = 0 THEN 0 ELSE 1,
                            !.index = at + 1, !.next = After(t[at], x)]
              /\ UNCHANGED d
      /\ op' = Quiet /\ UNCHANGED <<resize, scan>>

Next ==
  \/ \E k \in Key : (\E v \in Val : Add(k, v) \/ Replace(k, v)) \/ Delete(k) \/ LookUp(k)
  \/ CronRehash \/ EmptyAll \/ Resize \/ ToggleResize
  \/ StartScan \/ Scan \/ StartIterator \/ IterNext

Spec == Init /\ [][Next]_vars

-----------------------------------------------------------------------------
Map == INSTANCE AbstractMap WITH map <- [k \in Key |-> Find(d, k)]

(* As dictFind sees it the table is a map: rehashing, at any point and by  *)
(* any operation, neither loses, revives nor alters an entry.              *)
MapStep == Map!Next \/ UNCHANGED Map!vars

(* No key is in two buckets, so that deleting it once is enough, and no    *)
(* bucket before rehashidx still holds something (dictRehash).             *)
OneEntryPerKey ==
  /\ \A x, y \in Entries(d.ht0) \cup Entries(d.ht1) : x[1] = y[1] => x = y
  /\ Entries(d.ht0) \cap Entries(d.ht1) = {}
  /\ \A i \in DOMAIN d.ht0 : i < d.rehashidx => d.ht0[i] = <<>>

(* "we are sure we don't miss keys moving during rehashing": a SCAN that   *)
(* has come back to cursor 0 returned every key that was there all along.  *)
ScanReturnsAll == ~scan.active => scan.must \subseteq scan.got

(* A safe iterator returns no key twice and, though keys are deleted as it *)
(* goes, every key that stays (dictNext, the iterators counter): it holds  *)
(* at most the rest of one chain, and what is ahead of it is still there.  *)
IterateOnce ==
  iter.active =>
    /\ IsInjective(iter.got)
    /\ LET ahead == (IF iter.table = 0
                     THEN {x \in Entries(d.ht0) : \E i \in DOMAIN d.ht0 : i >= iter.index /\ Contains(d.ht0[i], x)}
                            \cup Entries(d.ht1)
                     ELSE {x \in Entries(d.ht1) : \E i \in DOMAIN d.ht1 : i >= iter.index /\ Contains(d.ht1[i], x)})
                    \cup ToSet(iter.next)
       IN  iter.must \subseteq ToSet(iter.got) \cup {x[1] : x \in ahead}
=============================================================================

---------------------------- MODULE ListCommands ----------------------------
(***************************************************************************)
(* List objects and their commands (t_list.c): the two encodings, the      *)
(* conversions between them, iterators that delete while they run, ranges. *)
(*                                                                         *)
(* An object is its encoding and its elements.  An iterator is a position, *)
(* 0 when it has run out.                                                  *)
(***************************************************************************)
EXTENDS Integers, Sequences, FiniteSets, SequencesExt

CONSTANTS
  Key, Value,
  Long,        \* values longer than list_max_ziplist_value
  MaxZiplist,  \* list_max_ziplist_entries
  MaxLen,      \* bound on the length of a list
  MaxIndex     \* bound on the indexes and counts in commands

ListAssumption ==
  Long \subseteq Value /\ MaxZiplist \in Nat /\ MaxLen \in Nat /\ MaxIndex \in Nat

VARIABLES
  obj,  \* the objects of the keys
  cmd   \* the command that has arrived

vars == <<obj, cmd>>

NoObj == [enc |-> "none", seq |-> <<>>]

None == <<"none">>

Init == obj = [k \in Key |-> NoObj] /\ cmd = None

-----------------------------------------------------------------------------
(* listTypeConvert: only to a linked list *)
Convert(o) == [o EXCEPT !.enc = "linkedlist"]

(* listTypeTryConversion *)
TryConversion(o, v) == IF o.enc = "ziplist" /\ v \in Long THEN Convert(o) ELSE o

(* listTypePush, listTypePop *)
TypePush(o, v, head) ==
  LET t == TryConversion(o, v)
      u == IF t.enc = "ziplist" /\ Len(t.seq) >= MaxZiplist THEN Convert(t) ELSE t
  IN  [u EXCEPT !.seq = IF head THEN <<v>> \o @ ELSE Append(@, v)]

PopValue(o, head) == IF head THEN Head(o.seq) ELSE Last(o.seq)
TypePop(o, head) == [o EXCEPT !.seq = IF head THEN Tail(@) ELSE Front(@)]

(* ziplistIndex and listIndex: 0 for no such element *)
IndexOf(o, i) ==
  LET p == IF i < 0 THEN Len(o.seq) + i + 1 ELSE i + 1
  IN  IF p \in DOMAIN o.seq THEN p ELSE 0

(* listTypeNext: the entry is at it.pos, the iterator goes on *)
Advance(o, pos, forward) ==
  LET p == IF forward THEN pos + 1 ELSE pos - 1
  IN  IF p \in DOMAIN o.seq THEN p ELSE 0

\* Faulty variant: a deletion does not move the iterator back.
DeleteSkipping(o, pos, forward) ==
  [o |-> [o EXCEPT !.seq = RemoveAt(@, pos)],
   pos |-> Advance([o EXCEPT !.seq = RemoveAt(@, pos)], pos, forward)]

(* listTypeDelete of the entry at pos: in a ziplist the pointer then names *)
(* the element that follows, ziplistPrev of it the one before.             *)
TypeDelete(o, pos, forward) ==
  LET d == [o EXCEPT !.seq = RemoveAt(@, pos)]
      p == IF forward THEN pos ELSE pos - 1
  IN  [o |-> d, pos |-> IF p \in DOMAIN d.seq THEN p ELSE 0]

(* listTypeInsert next to the entry at pos *)
TypeInsert(o, pos, v, after) ==
  [o EXCEPT !.seq = InsertAt(@, IF after THEN pos + 1 ELSE pos, v)]

(* dbDelete of an empty list *)
Store(k, o) == obj' = [obj EXCEPT ![k] = IF o.seq = <<>> THEN NoObj ELSE o]

Exists(k) == obj[k] # NoObj

-----------------------------------------------------------------------------
(* pushGenericCommand with one value *)
Push(k, v, head) ==
  /\ Len(obj[k].seq) < MaxLen
  /\ Store(k, TypePush(IF Exists(k) THEN obj[k] ELSE [NoObj EXCEPT !.enc = "ziplist"], v, head))

(* pushxGenericCommand without a pivot: LPUSHX, RPUSHX *)
Pushx(k, v, head) == Exists(k) /\ Len(obj[k].seq) < MaxLen /\ Store(k, TypePush(obj[k], v, head))

(* pushxGenericCommand with a pivot: the conversion comes before the       *)
(* iterator is made, also when the pivot is not found.                     *)
Inserted(o, pivot, v, after) ==
  LET t == TryConversion(o, v)
      at == {p \in DOMAIN t.seq : t.seq[p] = pivot}
      i == TypeInsert(t, CHOOSE p \in at : \A q \in at : p <= q, v, after)
  IN  IF at = {} THEN t
      ELSE IF i.enc = "ziplist" /\ Len(i.seq) > MaxZiplist THEN Convert(i) ELSE i

Linsert(k, pivot, v, after) ==
  Exists(k) /\ Len(obj[k].seq) < MaxLen /\ Store(k, Inserted(obj[k], pivot, v, after))

(* lsetCommand: deletes and inserts in a ziplist *)
Lset(k, i, v) ==
  LET o == TryConversion(obj[k], v)
      p == IndexOf(o, i)
  IN  /\ Exists(k)
      /\ Store(k, IF p = 0 THEN o
                  ELSE IF o.enc = "ziplist"
                  THEN [o EXCEPT !.seq = InsertAt(RemoveAt(@, p), p, v)]
                  ELSE [o EXCEPT !.seq[p] = v])

(* popGenericCommand *)
Pop(k, head) == Exists(k) /\ Store(k, TypePop(obj[k], head))

-----------------------------------------------------------------------------
(* The arithmetic of ltrimCommand and lrangeCommand on start and end *)
Clip(llen, start, end) ==
  LET s == IF start < 0 THEN llen + start ELSE start
      e == IF end < 0 THEN llen + end ELSE end
      s0 == IF s < 0 THEN 0 ELSE s
  IN  [empty |-> s0 > e \/ s0 >= llen, start |-> s0, end |-> IF e >= llen THEN llen - 1 ELSE e]

(* ltrimCommand: ltrim elements go at the head, then rtrim at the tail *)
Trimmed(o, start, end) ==
  LET llen == Len(o.seq)
      c == Clip(llen, start, end)
      ltrim == IF c.empty THEN llen ELSE c.start
      rtrim == IF c.empty THEN 0 ELSE llen - c.end - 1
  IN  [o EXCEPT !.seq = SubSeq(@, ltrim + 1, llen - rtrim)]

Ltrim(k, start, end) == Exists(k) /\ Store(k, Trimmed(obj[k], start, end))

(* lrangeCommand: what it replies; a linked list is walked to the first    *)
(* element from the nearer end.                                            *)
Lrange(o, start, end) ==
  LET llen == Len(o.seq)
      c == Clip(llen, start, end)
      i == IF o.enc = "linkedlist" /\ c.start > llen \div 2 THEN c.start - llen ELSE c.start
      p == IndexOf(o, i)
  IN  IF c.empty THEN <<>> ELSE SubSeq(o.seq, p, p + (c.end - c.start))

(* lremCommand: the loop over the entries *)
Removed(o, v, toremove) ==
  LET forward == toremove >= 0
      limit == IF forward THEN toremove ELSE -toremove
      step(r, i) ==
        IF r.pos = 0 \/ (limit > 0 /\ r.removed = limit) THEN r
        ELSE IF r.o.seq[r.pos] # v THEN [r EXCEPT !.pos = Advance(r.o, r.pos, forward)]
        ELSE LET d == TypeDelete(r.o, r.pos, forward)
             IN  [o |-> d.o, pos |-> d.pos, removed |-> r.removed + 1]
      start == [o |-> o, pos |-> IF forward THEN 1 ELSE Len(o.seq), removed |-> 0]
  IN  FoldLeft(step, start, o.seq).o

Lrem(k, v, n) == Exists(k) /\ Store(k, Removed(obj[k], v, n))

(* rpoplpushCommand with rpoplpushHandlePush: the source may be the target *)
Rpoplpush(k, d) ==
  LET v == PopValue(obj[k], FALSE)
      popped == [obj EXCEPT ![k] = TypePop(@, FALSE)]
      dst == IF popped[d] = NoObj THEN [NoObj EXCEPT !.enc = "ziplist"] ELSE popped[d]
      both == [popped EXCEPT ![d] = TypePush(dst, v, TRUE)]
  IN  /\ Exists(k) /\ (k # d => Len(obj[d].seq) < MaxLen)
      /\ obj' = [both EXCEPT ![k] = IF @.seq = <<>> THEN NoObj ELSE @]

Index == (-MaxIndex)..MaxIndex

Abstract == INSTANCE AbstractLists WITH lists <- [k \in Key |-> obj[k].seq]

(* A command arrives, and is executed: a key without a list is left alone  *)
(* by all but pushes.                                                      *)
Send == cmd = None /\ cmd' \in Abstract!Commands /\ UNCHANGED obj

Execute ==
  /\ cmd # None /\ cmd' = None
  /\ LET k == cmd[2]
     IN  CASE cmd[1] = "push" -> Push(k, cmd[3], cmd[4])
           [] ~Exists(k) /\ cmd[1] # "push" -> UNCHANGED obj
           [] OTHER ->
                \/ cmd[1] = "pushx" /\ Pushx(k, cmd[3], cmd[4])
                \/ cmd[1] = "linsert" /\ Linsert(k, cmd[3], cmd[4], cmd[5])
                \/ cmd[1] = "lset" /\ Lset(k, cmd[3], cmd[4])
                \/ cmd[1] = "pop" /\ Pop(k, cmd[3])
                \/ cmd[1] = "ltrim" /\ Ltrim(k, cmd[3], cmd[4])
                \/ cmd[1] = "lrem" /\ Lrem(k, cmd[4], cmd[3])
                \/ cmd[1] = "rpoplpush" /\ Rpoplpush(k, cmd[3])

(* Only a bound of the model: no list grows past MaxLen. *)
TakeBack ==
  /\ cmd # None /\ \E k \in Key : Len(obj[k].seq) = MaxLen
  /\ cmd' = None /\ UNCHANGED obj

Next == Send \/ Execute \/ TakeBack

Spec == Init /\ [][Next]_vars

-----------------------------------------------------------------------------
(* The commands implement the operations on plain sequences: conversions   *)
(* never show, the iterator of LREM removes exactly the occurrences asked  *)
(* for in both directions, LTRIM keeps exactly the range.                  *)
AbstractStep == Abstract!Next \/ UNCHANGED Abstract!vars

(* The encoding is the one the limits allow, whichever command made the    *)
(* list longer (listTypeTryConversion, listTypePush, LINSERT, LSET), and   *)
(* no empty list is left in the database.                                  *)
EncodingFits ==
  \A k \in Key :
    /\ obj[k].enc = "ziplist" => Len(obj[k].seq) <= MaxZiplist /\ ToSet(obj[k].seq) \cap Long = {}
    /\ obj[k].enc # "none" <=> obj[k].seq # <<>>

(* LRANGE replies exactly the elements of the range, for every pair of     *)
(* indexes, in both encodings.                                             *)
LrangeReplies ==
  \A k \in Key : \A i, j \in Index :
    cmd = None /\ Exists(k) =>
      Lrange(obj[k], i, j) = Abstract!At(obj[k].seq, Abstract!Between(obj[k].seq, i, j))
=============================================================================

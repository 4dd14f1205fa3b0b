------------------------------- MODULE Hashes -------------------------------
(***************************************************************************)
(* Hash objects and their commands (t_hash.c): the ziplist encoding, a     *)
(* flat sequence of fields and values, the hash table encoding and the     *)
(* conversion, with a replica that executes what is propagated.  Fields    *)
(* and values are taken from the same items: integers, of which some stand *)
(* for numbers and the others for texts.                                   *)
(***************************************************************************)
EXTENDS Integers, Sequences, FiniteSets, SequencesExt, FiniteSetsExt, TLC

CONSTANTS
  Item,
  Field,        \* items used as fields
  Numbers,      \* items that are numbers
  LMin, LMax,   \* the limits of long long
  Long,         \* items longer than hash_max_ziplist_value
  MaxZiplist,   \* hash_max_ziplist_entries
  LongIncrby    \* HINCRBY and HINCRBYFLOAT are also given fields of Long

HashesAssumption ==
  /\ LMin \in Int /\ LMax \in Int /\ LMin <= 0 /\ 0 <= LMax
  /\ LMin..LMax \subseteq Numbers /\ Numbers \subseteq Item /\ Item \subseteq Int
  /\ Long \subseteq Item \ Numbers /\ MaxZiplist \in Nat /\ Field \subseteq Item
  /\ LongIncrby \in BOOLEAN

VARIABLES
  obj,        \* the object of the key
  replica,    \* and of the same key of a replica
  op,         \* the command executed last
  signalled   \* it has signalled the key as modified

vars == <<obj, replica, op, signalled>>

NoObj == [enc |-> "none", zl |-> <<>>, ht |-> <<>>]
HashObj == [NoObj EXCEPT !.enc = "ziplist"]   \* createHashObject

Init == obj = NoObj /\ replica = NoObj /\ op = <<"none">> /\ signalled = FALSE

-----------------------------------------------------------------------------
(* ziplistFind with one entry skipped: the place of a field, 0 for none *)
ZiplistFind(zl, f) ==
  LET at == {i \in DOMAIN zl : i % 2 = 1 /\ zl[i] = f} IN IF at = {} THEN 0 ELSE Min(at)

(* hashTypeLength *)
Length(o) == IF o.enc = "ziplist" THEN Len(o.zl) \div 2 ELSE Cardinality(DOMAIN o.ht)

(* hashTypeExists *)
Exists(o, f) == IF o.enc = "ziplist" THEN ZiplistFind(o.zl, f) # 0 ELSE f \in DOMAIN o.ht

(* hashTypeGetObject, hashTypeGetFromZiplist, hashTypeGetFromHashTable *)
Get(o, f) == IF o.enc = "ziplist" THEN o.zl[ZiplistFind(o.zl, f) + 1] ELSE o.ht[f]

(* hashTypeInitIterator, hashTypeNext, hashTypeCurrentObject: the pairs in the order of the iterator *)
Pairs(o) ==
  IF o.enc = "ziplist" THEN [i \in 1..(Len(o.zl) \div 2) |-> <<o.zl[2 * i - 1], o.zl[2 * i]>>]
  ELSE [i \in 1..Cardinality(DOMAIN o.ht) |->
          LET f == SetToSortSeq(DOMAIN o.ht, <)[i] IN <<f, o.ht[f]>>]

(* hashTypeConvert, hashTypeConvertZiplist *)
Convert(o) ==
  IF o.enc # "ziplist" THEN o
  ELSE [NoObj EXCEPT !.enc = "ht", !.ht = FoldLeft(LAMBDA h, p : (p[1] :> p[2]) @@ h, <<>>, Pairs(o))]

(* hashTypeTryConversion: a look at the arguments *)
TryConversion(o, args) == IF o.enc = "ziplist" /\ ToSet(args) \cap Long # {} THEN Convert(o) ELSE o

\* Faulty variant: the number of entries is looked at before the pair is added.
TypeSetBefore(o, f, v) ==
  LET at == ZiplistFind(o.zl, f)
      zl == IF at # 0 THEN [o.zl EXCEPT ![at + 1] = v] ELSE o.zl \o <<f, v>>
  IN  IF o.enc = "ht" THEN [o EXCEPT !.ht = (f :> v) @@ @]
      ELSE IF Length(o) > MaxZiplist THEN Convert([o EXCEPT !.zl = zl]) ELSE [o EXCEPT !.zl = zl]

(* hashTypeSet: the value is replaced where it is, or the pair goes to the tail *)
TypeSet(o, f, v) ==
  LET at == ZiplistFind(o.zl, f)
      o1 == [o EXCEPT !.zl = IF at # 0 THEN [@ EXCEPT ![at + 1] = v] ELSE @ \o <<f, v>>]
  IN  IF o.enc = "ht" THEN [o EXCEPT !.ht = (f :> v) @@ @]
      ELSE IF Length(o1) > MaxZiplist THEN Convert(o1) ELSE o1

(* hashTypeDelete: the field, and what is then at its place, the value *)
TypeDelete(o, f) ==
  IF ~Exists(o, f) THEN o
  ELSE IF o.enc = "ht" THEN [o EXCEPT !.ht = [g \in DOMAIN @ \ {f} |-> @[g]]]
  ELSE LET at == ZiplistFind(o.zl, f) IN [o EXCEPT !.zl = RemoveAt(RemoveAt(@, at), at)]

(* hashTypeLookupWriteOrCreate *)
LookupOrCreate(o) == IF o = NoObj THEN HashObj ELSE o

Null == -99   \* the empty bulk reply, no item

(* addHashFieldToReply, of HGET and HMGET *)
Hget(o, f) == IF o # NoObj /\ Exists(o, f) THEN Get(o, f) ELSE Null

(* genericHgetallCommand: the number of items announced, and the items sent; keys, vals: what is asked for *)
Hgetall(o, keys, vals) ==
  [announced |-> Length(o) * ((IF keys THEN 1 ELSE 0) + (IF vals THEN 1 ELSE 0)),
   sent |-> FlattenSeq([i \in DOMAIN Pairs(o) |-> (IF keys THEN <<Pairs(o)[i][1]>> ELSE <<>>)
                                                \o (IF vals THEN <<Pairs(o)[i][2]>> ELSE <<>>)])]

-----------------------------------------------------------------------------
(* A command: what becomes of the object, and whether it is signalled and propagated *)
Done(o) == [o |-> o, changed |-> TRUE]
Quiet(o) == [o |-> o, changed |-> FALSE]

(* hsetCommand *)
Hset(o, f, v) == Done(TypeSet(TryConversion(LookupOrCreate(o), <<f, v>>), f, v))

(* hsetnxCommand; the object may be converted for nothing *)
Hsetnx(o, f, v) ==
  LET o1 == TryConversion(LookupOrCreate(o), <<f, v>>)
  IN  IF Exists(o1, f) THEN Quiet(o1) ELSE Done(TypeSet(o1, f, v))

(* hmsetCommand *)
Hmset(o, f, v, g, w) ==
  Done(TypeSet(TypeSet(TryConversion(LookupOrCreate(o), <<f, v, g, w>>), f, v), g, w))

(* hincrbyCommand.  An increment that is no number is refused first; with no field the old value is 0, so *)
(* that an object just created always gets one. *)
Hincrby(o, f, n) ==
  LET o1 == LookupOrCreate(o)
      old == IF Exists(o1, f) THEN Get(o1, f) ELSE 0
      overflow == \/ n < 0 /\ old < 0 /\ n < LMin - old
                  \/ n > 0 /\ old > 0 /\ n > LMax - old
  IN  IF n \notin Numbers THEN Quiet(o)
      ELSE IF old \notin Numbers \/ overflow THEN Quiet(o1)
      ELSE Done(TypeSet(o1, f, old + n))

(* hincrbyfloatCommand: the same with no limits *)
Hincrbyfloat(o, f, n) ==
  LET o1 == LookupOrCreate(o)
      old == IF Exists(o1, f) THEN Get(o1, f) ELSE 0
  IN  IF n \notin Numbers THEN Quiet(o)
      ELSE IF old \notin Numbers THEN Quiet(o1)
      ELSE Done(TypeSet(o1, f, old + n))

(* hdelCommand of two fields; the key goes with its last field *)
Hdel(o, f, g) ==
  LET step(p, h) == IF p = NoObj THEN p ELSE
                    LET q == TypeDelete(p, h) IN IF Exists(p, h) /\ Length(q) = 0 THEN NoObj ELSE q
      d == step(step(o, f), g)
  IN  IF d = o THEN Quiet(o) ELSE Done(d)

Perform(o, c) ==
  CASE c[1] = "hset"   -> Hset(o, c[2], c[3])
    [] c[1] = "hsetnx" -> Hsetnx(o, c[2], c[3])
    [] c[1] = "hmset"  -> Hmset(o, c[2], c[3], c[4], c[5])
    [] c[1] = "hincrby" -> Hincrby(o, c[2], c[3])
    [] c[1] = "hincrbyfloat" -> Hincrbyfloat(o, c[2], c[3])
    [] c[1] = "hdel"   -> Hdel(o, c[2], c[3])

(* hincrbyfloatCommand is propagated as HSET of the result *)
Propagated(c, o) == IF c[1] = "hincrbyfloat" THEN <<"hset", c[2], Get(o, c[2])>> ELSE c

Execute(c) ==
  LET r == Perform(obj, c)
  IN  /\ obj' = r.o /\ op' = c /\ signalled' = r.changed
      /\ replica' = IF r.changed THEN Perform(replica, Propagated(c, r.o)).o ELSE replica

(* Two bounds: sums of floats are items too, and the second value of HMSET is its first field *)
InBound(f, n) == Hget(obj, f) \in Numbers /\ n \in Numbers => Hget(obj, f) + n \in LMin..LMax

Next ==
  \E f \in Field, v \in Item :
    \/ \E name \in {"hset", "hsetnx"} : Execute(<<name, f, v>>)
    \/ (f \in Long => LongIncrby) /\ Execute(<<"hincrby", f, v>>)
    \/ (f \in Long => LongIncrby) /\ InBound(f, v) /\ Execute(<<"hincrbyfloat", f, v>>)
    \/ \E g \in Field : Execute(<<"hdel", f, g>>) \/ Execute(<<"hmset", f, v, g, f>>)

Spec == Init /\ [][Next]_vars

-----------------------------------------------------------------------------
MapOf(o) == FoldLeft(LAMBDA h, p : (p[1] :> p[2]) @@ h, <<>>, Pairs(o))

(* HGETALL, HKEYS and HVALS send as many items as they have announced     *)
(* (t_hash.c:743), every field once and with the value that HGET gives, so *)
(* that the conversion finds no duplicate (t_hash.c:438); and a key whose  *)
(* hash is empty does not exist.                                           *)
ReadersAgree ==
  /\ \A keys, vals \in BOOLEAN :
       LET r == Hgetall(obj, keys, vals) IN keys \/ vals => Len(r.sent) = r.announced
  /\ LET ks == Hgetall(obj, TRUE, FALSE).sent
         vs == Hgetall(obj, FALSE, TRUE).sent
     IN  IsInjective(ks) /\ \A i \in DOMAIN ks : Hget(obj, ks[i]) = vs[i]
  /\ obj # NoObj => Length(obj) > 0

(* A ziplist has few pairs and no long item (redis.conf:710).              *)
EncodingFits ==
  obj.enc = "ziplist" => Length(obj) <= MaxZiplist /\ ToSet(obj.zl) \cap Long = {}

(* The replica has the same fields and values (t_hash.c:579 "will not      *)
(* create differences in replicas or after an AOF restart").               *)
ReplicaSame == MapOf(replica) = MapOf(obj)

(* What changes is signalled to WATCH and to the AOF, and only that.       *)
ChangesAreSignalled ==
  /\ MapOf(obj') # MapOf(obj) => signalled'
  /\ signalled' /\ op'[1] \in {"hsetnx", "hdel"} => MapOf(obj') # MapOf(obj)
=============================================================================

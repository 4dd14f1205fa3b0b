------------------------------ MODULE Strings -------------------------------
(***************************************************************************)
(* The string commands (t_string.c) on objects that keys, the table of     *)
(* shared integers and the output lists of clients refer to, with a        *)
(* replica that executes what the master propagates.  Numbers have a few   *)
(* bits; a string is a sequence of characters, and the decimal form of a   *)
(* number is one of them.                                                  *)
(***************************************************************************)
EXTENDS Integers, Sequences, FiniteSets, SequencesExt, FiniteSetsExt, TLC

CONSTANTS
  Key,
  Bits,          \* width of long long
  MaxLen,        \* 512 megabytes
  Text,          \* values given to SET, APPEND, SETRANGE ...
  Increment,     \* numbers given to INCRBY
  Decrement,     \* numbers given to DECRBY
  Offset,        \* offsets given to SETRANGE
  FloatAmount,   \* numbers given to INCRBYFLOAT
  FloatVolatile  \* INCRBYFLOAT also of keys with a time to live

LMin == -(2 ^ (Bits - 1))
LMax == 2 ^ (Bits - 1) - 1

Digit == <<"0", "1", "2", "3", "4", "5", "6", "7", "8", "9">>
Decimal(n) == IF n < 0 THEN <<"-", Digit[1 - n]>> ELSE <<Digit[n + 1]>>   \* ll2string
SharedInt == 1                                                            \* shared.integers

StringsAssumption ==
  /\ Bits \in 2..4 /\ MaxLen \in Nat /\ Text \subseteq Seq(STRING)
  /\ Increment \cup Decrement \subseteq LMin..LMax /\ Offset \subseteq 0..LMax
  /\ SharedInt \in LMin..LMax /\ FloatVolatile \in BOOLEAN

VARIABLES
  master,   \* a database: db, the object of every key; ttl, the keys with a time to live; shared, the text of
            \* the shared integer; held, the keys whose object is in an output list too; spoiled, the object
            \* in an output list was changed
  replica,  \* the same of a replica, which has no clients
  last      \* the last command: details of INCRBY, DECRBY and MSETNX, and whether it was refused

vars == <<master, replica, last>>

None == [enc |-> "none", chars |-> <<>>]
NoOp == [op |-> "none", keys |-> {}, n |-> 0, err |-> FALSE]

Start == [db |-> [k \in Key |-> None], ttl |-> {}, shared |-> Decimal(SharedInt), held |-> {}, spoiled |-> FALSE]

Init == master = Start /\ replica = Start /\ last = NoOp

-----------------------------------------------------------------------------
(* Objects *)
IsNumber(chars) == \E n \in LMin..LMax : Decimal(n) = chars   \* string2ll, strict
NumberOf(chars) == CHOOSE n \in LMin..LMax : Decimal(n) = chars

Exists(S, k) == S.db[k] # None
IsString(S, k) == S.db[k].enc # "list"
Chars(S, k) == IF S.db[k].enc = "shared" THEN S.shared ELSE S.db[k].chars

\* dbAdd, dbOverwrite: the key has another object, the output list keeps the old one
Point(S, k, enc, chars) == [S EXCEPT !.db[k] = [enc |-> enc, chars |-> chars], !.held = @ \ {k}]

\* Writing into the object of the key changes it for all that refer to it.
Write(S, k, chars) ==
  IF S.db[k].enc = "shared" THEN [S EXCEPT !.shared = chars]
  ELSE [S EXCEPT !.db[k].chars = chars, !.spoiled = @ \/ k \in S.held]

(* tryObjectEncoding, and dbAdd or dbOverwrite of the result *)
PutEncoded(S, k, chars) ==
  IF chars = Decimal(SharedInt) THEN Point(S, k, "shared", <<>>)
  ELSE Point(S, k, IF IsNumber(chars) THEN "int" ELSE "raw", chars)

(* setKey *)
SetKey(S, k, chars) == [PutEncoded(S, k, chars) EXCEPT !.ttl = @ \ {k}]

(* dbUnshareStringValue: an object of one's own, not encoded *)
Unshare(S, k) ==
  IF S.db[k].enc = "raw" /\ k \notin S.held THEN S ELSE Point(S, k, "raw", Chars(S, k))

Wrap(n) == ((n - LMin) % (2 ^ Bits)) + LMin

(* checkStringLength: the sum was computed as an unsigned number and is looked at as a signed one *)
TooLong(size) == Wrap(size) > MaxLen

-----------------------------------------------------------------------------
(* Results: the state, what is propagated ("none", or the command), an error *)
Ok(S, prop) == [state |-> S, prop |-> <<prop>>, err |-> FALSE]
Same(S) == [state |-> S, prop |-> <<>>, err |-> FALSE]
Refuse(S) == [state |-> S, prop |-> <<>>, err |-> TRUE]

(* setGenericCommand *)
SetGeneric(S, c) ==
  IF c.ex = "bad" THEN Refuse(S)
  ELSE IF (c.flag = "nx" /\ Exists(S, c.key)) \/ (c.flag = "xx" /\ ~Exists(S, c.key)) THEN Same(S)
  ELSE LET s1 == SetKey(S, c.key, c.v)
       IN  Ok(IF c.ex = "ok" THEN [s1 EXCEPT !.ttl = @ \cup {c.key}] ELSE s1, c)

(* getsetCommand *)
GetSet(S, c) == IF Exists(S, c.key) /\ ~IsString(S, c.key) THEN Refuse(S) ELSE Ok(SetKey(S, c.key, c.v), c)

\* sdsgrowzero and memcpy
Patched(chars, off, v) ==
  [i \in 1..Max({Len(chars), off + Len(v)}) |->
     IF i > off /\ i <= off + Len(v) THEN v[i - off] ELSE IF i <= Len(chars) THEN chars[i] ELSE "zero"]

(* setrangeCommand *)
SetRange(S, c) ==
  LET old == IF Exists(S, c.key) THEN Chars(S, c.key) ELSE <<>>
      s1 == IF Exists(S, c.key) THEN Unshare(S, c.key) ELSE Point(S, c.key, "raw", <<>>)
  IN  IF Exists(S, c.key) /\ ~IsString(S, c.key) THEN Refuse(S)
      ELSE IF c.v = <<>> THEN Same(S)
      ELSE IF TooLong(c.n + Len(c.v)) THEN Refuse(S)
      ELSE Ok(Write(s1, c.key, Patched(old, c.n, c.v)), c)

(* getrangeCommand *)
GetRange(chars, start, end) ==
  LET len == Len(chars)
      s == Max({IF start < 0 THEN len + start ELSE start, 0})
      e1 == Max({IF end < 0 THEN len + end ELSE end, 0})
      e == IF e1 >= len THEN len - 1 ELSE e1
  IN  IF s > e \/ len = 0 THEN <<>> ELSE [i \in 1..(e - s + 1) |-> chars[s + i]]

(* msetGenericCommand: all the keys or none *)
MsetGeneric(S, c) ==
  IF c.flag = "nx" /\ \E i \in DOMAIN c.v : Exists(S, c.v[i][1]) THEN Same(S)
  ELSE Ok(FoldLeft(LAMBDA T, p : SetKey(T, p[1], p[2]), S, c.v), c)

\* Faulty variant: no look at the limits.
OverflowsNever(old, incr) == FALSE

(* incrDecrCommand: would the sum overflow? *)
Overflows(old, incr) ==
  \/ incr < 0 /\ old < 0 /\ incr < LMin - old
  \/ incr > 0 /\ old > 0 /\ incr > LMax - old

(* incrDecrCommand *)
IncrDecr(S, c, incr) ==
  LET old == IF Exists(S, c.key) THEN NumberOf(Chars(S, c.key)) ELSE 0
  IN  IF Exists(S, c.key) /\ (~IsString(S, c.key) \/ ~IsNumber(Chars(S, c.key))) THEN Refuse(S)
      ELSE IF Overflows(old, incr) THEN Refuse(S)
      ELSE Ok(PutEncoded(S, c.key, Decimal(Wrap(old + incr))), c)

\* incrbyfloatCommand; a result of so few digits is the same as a number.  SET of the result is propagated.
IncrByFloat(S, c) ==
  LET old == IF Exists(S, c.key) THEN NumberOf(Chars(S, c.key)) ELSE 0
      new == Decimal(old + c.n)
  IN  IF Exists(S, c.key) /\ (~IsString(S, c.key) \/ ~IsNumber(Chars(S, c.key))) THEN Refuse(S)
      ELSE IF old + c.n \notin LMin..LMax THEN Refuse(S)   \* stands for NaN and infinity
      ELSE Ok(Point(S, c.key, "raw", new), [op |-> "set", key |-> c.key, v |-> new, flag |-> "none", ex |-> "none", n |-> 0])

(* appendCommand *)
AppendTo(S, c) ==
  LET s1 == Unshare(S, c.key)
  IN  IF ~Exists(S, c.key) THEN Ok(PutEncoded(S, c.key, c.v), c)
      ELSE IF ~IsString(S, c.key) \/ TooLong(Len(Chars(S, c.key)) + Len(c.v)) THEN Refuse(S)
      ELSE Ok(Write(s1, c.key, Chars(s1, c.key) \o c.v), c)

\* Other commands: a list is pushed to a new key; a key is deleted or has expired (DEL is propagated).
Push(S, c) == IF Exists(S, c.key) THEN Refuse(S) ELSE Ok(Point(S, c.key, "list", <<>>), c)
Del(S, c) == IF Exists(S, c.key) THEN Ok([S EXCEPT !.db[c.key] = None, !.ttl = @ \ {c.key}, !.held = @ \ {c.key}], c) ELSE Same(S)

Run(S, c) ==
  CASE c.op = "set"         -> SetGeneric(S, c)
    [] c.op = "getset"      -> GetSet(S, c)
    [] c.op = "setrange"    -> SetRange(S, c)
    [] c.op = "mset"        -> MsetGeneric(S, c)
    [] c.op = "incrby"      -> IncrDecr(S, c, c.n)
    [] c.op = "decrby"      -> IncrDecr(S, c, Wrap(-c.n))
    [] c.op = "incrbyfloat" -> IncrByFloat(S, c)
    [] c.op = "append"      -> AppendTo(S, c)
    [] c.op = "push"        -> Push(S, c)
    [] c.op = "del"         -> Del(S, c)

-----------------------------------------------------------------------------
(* One command: the replica runs what is propagated *)
Execute(c) ==
  LET r == Run(master, c)
  IN  /\ master' = r.state
      /\ replica' = FoldLeft(LAMBDA S, p : Run(S, p).state, replica, r.prop)
      /\ last' = IF c.op \in {"incrby", "decrby"} THEN [op |-> c.op, keys |-> {c.key}, n |-> c.n, err |-> r.err]
                 ELSE IF c.op = "mset" /\ c.flag = "nx"
                      THEN [op |-> "msetnx", keys |-> {c.v[i][1] : i \in DOMAIN c.v}, n |-> 0, err |-> r.err]
                 ELSE [NoOp EXCEPT !.err = r.err]

Cmd(op, k, v, flag, ex, n) == [op |-> op, key |-> k, v |-> v, flag |-> flag, ex |-> ex, n |-> n]

(* setCommand, setnxCommand, setexCommand, psetexCommand *)
Set == \E k \in Key, v \in Text, flag \in {"none", "nx", "xx"}, ex \in {"none", "ok", "bad"} :
         Execute(Cmd("set", k, v, flag, ex, 0))
GetSetCommand == \E k \in Key, v \in Text : Execute(Cmd("getset", k, v, "none", "none", 0))
SetRangeCommand == \E k \in Key, v \in Text \cup {<<>>}, n \in Offset : Execute(Cmd("setrange", k, v, "none", "none", n))
(* msetCommand, msetnxCommand *)
Mset == \E k1, k2 \in Key, v1, v2 \in Text, flag \in {"none", "nx"} :
          Execute(Cmd("mset", k1, <<<<k1, v1>>, <<k2, v2>>>>, flag, "none", 0))
(* incrCommand, decrCommand, incrbyCommand, decrbyCommand *)
Incr == \E k \in Key : \/ \E n \in Increment : Execute(Cmd("incrby", k, <<>>, "none", "none", n))
                      \/ \E n \in Decrement : Execute(Cmd("decrby", k, <<>>, "none", "none", n))
IncrByFloatCommand == \E k \in Key, n \in FloatAmount :
          (k \in master.ttl => FloatVolatile) /\ Execute(Cmd("incrbyfloat", k, <<>>, "none", "none", n))
AppendCommand == \E k \in Key, v \in Text : Execute(Cmd("append", k, v, "none", "none", 0))
Others == \E k \in Key, op \in {"push", "del"} : Execute(Cmd(op, k, <<>>, "none", "none", 0))

(* getCommand, getGenericCommand: the object itself is in the output list until it is written *)
Get == \E k \in Key :
  /\ master.held = {} /\ Exists(master, k) /\ IsString(master, k)
  /\ master' = [master EXCEPT !.held = {k}] /\ last' = NoOp /\ UNCHANGED replica

Written ==
  /\ master.held # {} /\ master' = [master EXCEPT !.held = {}]
  /\ last' = NoOp /\ UNCHANGED replica

Next ==
  \/ Set \/ GetSetCommand \/ SetRangeCommand \/ Mset \/ Incr \/ IncrByFloatCommand \/ AppendCommand \/ Others
  \/ Get \/ Written

Spec == Init /\ [][Next]_vars

-----------------------------------------------------------------------------
Value(S, k) == IF Exists(S, k) THEN <<IsString(S, k), Chars(S, k), k \in S.ttl>> ELSE <<>>

(* The replica has the values of the master and the same keys expire       *)
(* (t_string.c:399 "will not create differences in replicas or after an    *)
(* AOF restart").                                                          *)
ReplicaAgrees == \A k \in Key : Value(master, k) = Value(replica, k)

(* What a client is to be sent does not change any more, nor do the shared *)
(* integers: an object that others refer to is copied first (db.c:215).    *)
SharedUntouched ==
  /\ ~master.spoiled
  /\ master.shared = Decimal(SharedInt) /\ replica.shared = Decimal(SharedInt)

(* A command that is refused changes nothing, on either side.              *)
RefusedChangesNothing ==
  last'.err => \A k \in Key : Value(master', k) = Value(master, k) /\ Value(replica', k) = Value(replica, k)

(* INCRBY and DECRBY add and subtract, or refuse (t_string.c:334).         *)
Exact ==
  last'.op \in {"incrby", "decrby"} /\ ~last'.err =>
    \A k \in last'.keys :
    LET old == IF Exists(master, k) THEN NumberOf(Chars(master, k)) ELSE 0
    IN  NumberOf(Chars(master', k)) = IF last'.op = "incrby" THEN old + last'.n ELSE old - last'.n

(* GETRANGE gives the characters whose place, counted from the start or    *)
(* from the end, is in the range (t_string.c:253).                         *)
RangeIsSlice ==
  \A k \in {j \in Key : Exists(master, j)} : \A start, end \in LMin..LMax :
    LET chars == Chars(master, k)
        place(i) == IF i < 0 THEN Max({Len(chars) + i, 0}) ELSE i
    IN  GetRange(chars, start, end) = SubSeq(chars, place(start) + 1, Min({place(end) + 1, Len(chars)}))

(* No string is longer than the limit (t_string.c:193 "Return when the     *)
(* resulting string exceeds allowed size").                                *)
LengthLimited == \A k \in Key : Exists(master, k) => Len(Chars(master, k)) <= MaxLen

(* MSETNX sets all the keys or none of them (t_string.c:294).              *)
AllOrNone ==
  last'.op = "msetnx" =>
    IF \E k \in last'.keys : Exists(master, k)
    THEN \A k \in Key : Value(master', k) = Value(master, k)
    ELSE \A k \in last'.keys : Exists(master', k)
=============================================================================

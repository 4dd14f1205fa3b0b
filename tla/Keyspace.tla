------------------------------ MODULE Keyspace ------------------------------
(***************************************************************************)
(* The key space and the times at which keys expire (db.c), on a master    *)
(* and on a slave that executes what the master propagates.  The master    *)
(* deletes an expired key when it meets it and propagates a DEL; the slave *)
(* only reports it expired and waits for that DEL.  A place is a key of a  *)
(* database; a value is the number of the command that wrote it.           *)
(***************************************************************************)
EXTENDS Integers, Sequences, FiniteSets, SequencesExt

CONSTANTS
  Db, Key,
  MaxTime,      \* bound on the clock
  MaxOps,       \* bound on the commands of the clients
  Kinds,        \* commands the clients send
  RandomOn      \* the server that is asked for RANDOMKEY

KeyspaceAssumption ==
  /\ Db # {} /\ Key # {} /\ MaxTime \in Nat /\ MaxOps \in Nat
  /\ RandomOn \in {"master", "slave"}

Place == Db \X Key
None == -1

VARIABLES
  dict,      \* of every server: the value of every place, None where there is no key
  expires,   \* and the time it expires, None where it does not
  link,      \* commands on their way to the slave
  now, ops,
  op,        \* the command the master has executed last
  signalled, \* the places it has signalled as modified
  random     \* a RANDOMKEY: idle, searching, or done

vars == <<dict, expires, link, now, ops, op, signalled, random>>

Server == {"master", "slave"}

Init ==
  /\ dict = [n \in Server |-> [p \in Place |-> None]]
  /\ expires = dict
  /\ link = <<>> /\ now = 0 /\ ops = 0
  /\ op = <<"none">> /\ signalled = {} /\ random = "idle"

-----------------------------------------------------------------------------
(* What a command threads through the functions it calls: the two tables,  *)
(* the server, what is propagated on the way, whether the command itself   *)
(* is propagated and as what, and the places signalled.                    *)
State(n, c) == [d |-> dict[n], x |-> expires[n], on |-> n, out |-> <<>>, cmd |-> c, dirty |-> 0, sig |-> {}]

(* lookupKey, dbExists *)
Exists(st, p) == st.d[p] # None

(* dbDelete *)
DbDelete(st, p) == [st EXCEPT !.d[p] = None, !.x[p] = None]

(* dbAdd, dbOverwrite *)
DbPut(st, p, v) == [st EXCEPT !.d[p] = v]

SetExpire(st, p, when) == [st EXCEPT !.x[p] = when]
RemoveExpire(st, p) == [st EXCEPT !.x[p] = None]
Signal(st, ps) == [st EXCEPT !.sig = @ \cup ps]
Dirty(st) == [st EXCEPT !.dirty = 1]

(* propagateExpire *)
PropagateExpire(st, p) == [st EXCEPT !.out = Append(@, <<"del", p>>)]

(* expireIfNeeded: what it answers, and what it does *)
Expired(st, p) == st.x[p] # None /\ now > st.x[p]

ExpireIfNeeded(st, p) ==
  IF st.on = "master" /\ Expired(st, p) THEN DbDelete(PropagateExpire(st, p), p) ELSE st

-----------------------------------------------------------------------------
(* setKey, as SET calls it *)
Set(st, p, v) == Dirty(Signal(RemoveExpire(DbPut(ExpireIfNeeded(st, p), p, v), p), {p}))

(* delCommand, of one key *)
Del(st, p) ==
  LET s1 == ExpireIfNeeded(st, p)
  IN  IF Exists(s1, p) THEN Dirty(Signal(DbDelete(s1, p), {p})) ELSE s1

(* expireGenericCommand: a time that is past is a DEL on a master *)
Expire(st, p, when) ==
  LET s1 == ExpireIfNeeded(st, p)
  IN  IF ~Exists(s1, p) THEN s1
      ELSE IF when <= now /\ s1.on = "master"
           THEN [Dirty(Signal(DbDelete(s1, p), {p})) EXCEPT !.cmd = <<"del", p>>]
           ELSE Dirty(Signal(SetExpire(s1, p, when), {p}))

(* persistCommand: it neither looks whether the key has expired nor signals *)
Persist(st, p) == IF Exists(st, p) /\ st.x[p] # None THEN Dirty(RemoveExpire(st, p)) ELSE st

(* renameGenericCommand *)
Rename(st, p, q, nx) ==
  LET s1 == ExpireIfNeeded(st, p)
      s2 == ExpireIfNeeded(s1, q)
      s3 == DbPut(DbDelete(s2, q), q, s2.d[p])
      s4 == IF s1.x[p] # None THEN SetExpire(s3, q, s1.x[p]) ELSE s3
  IN  IF p = q THEN st
      ELSE IF ~Exists(s1, p) THEN s1
      ELSE IF nx /\ Exists(s2, q) THEN s2
      ELSE Dirty(Signal(DbDelete(s4, p), {p, q}))

(* moveCommand: the time stays behind, and nothing is signalled *)
Move(st, p, dst) ==
  LET q == <<dst, p[2]>>
      s1 == ExpireIfNeeded(st, p)
      s2 == ExpireIfNeeded(s1, q)
  IN  IF p = q THEN st
      ELSE IF ~Exists(s1, p) THEN s1
      ELSE IF Exists(s2, q) THEN s2
      ELSE Dirty(DbDelete(DbPut(s2, q, s2.d[p]), p))

(* flushdbCommand, flushallCommand: touchWatchedKeysOnFlush is before the  *)
(* tables are emptied.  FLUSHDB of an empty database changes nothing.      *)
Flush(st, dbs) ==
  LET ps == {p \in Place : p[1] \in dbs}
      held == {p \in ps : Exists(st, p)}
      s1 == Signal([st EXCEPT !.d = [p \in Place |-> IF p \in ps THEN None ELSE @[p]],
                              !.x = [p \in Place |-> IF p \in ps THEN None ELSE @[p]]], held)
  IN  IF held # {} \/ dbs = Db THEN Dirty(s1) ELSE s1

(* lookupKeyRead, as GET, EXISTS, TYPE and TTL call it *)
Read(st, p) == ExpireIfNeeded(st, p)

(* keysCommand: the iterator meets every key of the database *)
Keys(st, db) ==
  LET ps == {p \in Place : p[1] = db /\ Exists(st, p)}
  IN  FoldLeft(ExpireIfNeeded, st, SetToSeq(ps))

Run(st, c) ==
  CASE c[1] = "set"      -> Set(st, c[2], c[3])
    [] c[1] = "del"      -> Del(st, c[2])
    [] c[1] = "expire"   -> Expire(st, c[2], now + c[3])
    [] c[1] = "expireat" -> Expire(st, c[2], c[3])
    [] c[1] = "persist"  -> Persist(st, c[2])
    [] c[1] = "rename"   -> Rename(st, c[2], c[3], FALSE)
    [] c[1] = "renamenx" -> Rename(st, c[2], c[3], TRUE)
    [] c[1] = "move"     -> Move(st, c[2], c[3])
    [] c[1] = "flush"    -> Flush(st, c[2])
    [] c[1] = "get"      -> Read(st, c[2])
    [] c[1] = "keys"     -> Keys(st, c[2])

-----------------------------------------------------------------------------
Command == LET Same(p) == {q \in Place : q[1] = p[1]} IN
  {c \in UNION {
     {<<"set", p, ops + 1>> : p \in Place},
     {<<k, p>> : k \in {"del", "persist", "get"}, p \in Place},
     {<<"expire", p, t>> : p \in Place, t \in {0, 1, 2}},
     {<<"expireat", p, t>> : p \in Place, t \in 0..MaxTime},
     UNION {{<<k, p, q>> : k \in {"rename", "renamenx"}, q \in Same(p)} : p \in Place},
     {<<"move", p, db>> : p \in Place, db \in Db},
     {<<"flush", dbs>> : dbs \in {{db} : db \in Db} \cup {Db}},
     {<<"keys", db>> : db \in Db}} : c[1] \in Kinds}

(* call() of a client's command on the master, with its propagation *)
Execute(c) ==
  LET st == Run(State("master", c), c)
  IN  /\ ops < MaxOps
      /\ RandomOn = "master" => random # "searching"
      /\ dict' = [dict EXCEPT !["master"] = st.d]
      /\ expires' = [expires EXCEPT !["master"] = st.x]
      /\ link' = link \o st.out \o (IF st.dirty > 0 THEN <<st.cmd>> ELSE <<>>)
      /\ op' = c /\ signalled' = st.sig
      /\ ops' = ops + 1
      /\ UNCHANGED <<now, random>>

(* activeExpireCycleTryExpire, on a key the cycle has picked *)
ActiveExpire(p) ==
  LET st == ExpireIfNeeded(State("master", <<"none">>), p)
  IN  /\ Expired(State("master", <<"none">>), p)
      /\ RandomOn = "master" => random # "searching"
      /\ dict' = [dict EXCEPT !["master"] = st.d]
      /\ expires' = [expires EXCEPT !["master"] = st.x]
      /\ link' = link \o st.out
      /\ op' = <<"cron">> /\ signalled' = {}
      /\ UNCHANGED <<now, ops, random>>

(* The slave executes the next command of its master *)
Apply ==
  /\ link # <<>>
  /\ RandomOn = "slave" => random # "searching"
  /\ LET st == Run(State("slave", Head(link)), Head(link))
     IN  /\ dict' = [dict EXCEPT !["slave"] = st.d]
         /\ expires' = [expires EXCEPT !["slave"] = st.x]
  /\ link' = Tail(link)
  /\ UNCHANGED <<now, ops, op, signalled, random>>

Tick == now < MaxTime /\ now' = now + 1 /\ UNCHANGED <<dict, expires, link, ops, op, signalled, random>>

(* randomkeyCommand *)
RandomAsk ==
  /\ random = "idle" /\ random' = "searching"
  /\ UNCHANGED <<dict, expires, link, now, ops, op, signalled>>

(* dbRandomKey: one turn of its loop, with the key it has picked in database 0 *)
RandomStep ==
  /\ random = "searching"
  /\ LET st == State(RandomOn, <<"none">>)
         ps == {p \in Place : p[1] = 0 /\ Exists(st, p)}
     IN  \/ ps = {} /\ random' = "done" /\ UNCHANGED <<dict, expires, link>>
         \/ \E p \in ps :
              LET s1 == ExpireIfNeeded(st, p)
              IN  /\ random' = IF Expired(st, p) THEN "searching" ELSE "done"
                  /\ dict' = [dict EXCEPT ![RandomOn] = s1.d]
                  /\ expires' = [expires EXCEPT ![RandomOn] = s1.x]
                  /\ link' = link \o s1.out
  /\ op' = <<"cron">> /\ signalled' = {}
  /\ UNCHANGED <<now, ops>>

Next ==
  \/ \E c \in Command : Execute(c)
  \/ \E p \in Place : ActiveExpire(p)
  \/ Apply \/ Tick \/ RandomAsk \/ RandomStep

Spec == Init /\ [][Next]_vars

-----------------------------------------------------------------------------
(* A place with a time has a key: getExpire asserts it (db.c:779) on every *)
(* server, whatever commands and expirations have run before.              *)
ExpiresHaveKeys == \A n \in Server, p \in Place : expires[n][p] # None => dict[n][p] # None

(* Once the slave has executed all it was sent, it has exactly the keys    *)
(* and values of its master, although it never expires a key itself; a     *)
(* relative time makes it expire no key earlier than its master does.      *)
SlaveConverges ==
  link = <<>> =>
    /\ dict["slave"] = dict["master"]
    /\ \A p \in Place :
         /\ (expires["slave"][p] = None) = (expires["master"][p] = None)
         /\ expires["slave"][p] >= expires["master"][p]

(* A command signals every key that it changes, for the clients that watch *)
(* it; a key whose time had come is no longer there to be changed.         *)
ChangesSignalled(exempt) ==
  \A p \in Place :
    /\ op'[1] \notin exempt \cup {"cron"} /\ ops' # ops
    /\ ~Expired(State("master", op), p)
    /\ <<dict'["master"][p], expires'["master"][p]>> # <<dict["master"][p], expires["master"][p]>>
    => p \in signalled'

(* Every command but MOVE and PERSIST signals the keys it modifies.        *)
ModifiedIsSignalled == ChangesSignalled({"move", "persist"})
=============================================================================

-------------------------------- MODULE Sets --------------------------------
(***************************************************************************)
(* Set objects and their commands (t_set.c), with a replica that executes  *)
(* what the commands propagate.  An intset is kept as the set of its       *)
(* elements; how its memory is laid out is left out.                       *)
(***************************************************************************)
EXTENDS Integers, Sequences, FiniteSets, SequencesExt, FiniteSetsExt

CONSTANTS
  Key, Elem,
  Numbers,    \* elements that are integers
  MaxIntset,  \* set_max_intset_entries
  Sources     \* sequences of keys the store commands are given

SetsAssumption ==
  /\ Numbers \subseteq Elem /\ MaxIntset \in Nat
  /\ \A s \in Sources : s \in Seq(Key) /\ s # <<>>

VARIABLES
  db,        \* the objects of the master
  replica,   \* and those of a replica
  op,        \* the command executed last
  signalled  \* the keys it has signalled as modified

vars == <<db, replica, op, signalled>>

NoObj == [enc |-> "none", set |-> {}]
Intset == [enc |-> "intset", set |-> {}]

Init ==
  /\ db = [k \in Key |-> NoObj] /\ replica = db
  /\ op = <<"none">> /\ signalled = {}

-----------------------------------------------------------------------------
(* setTypeCreate *)
TypeCreate(e) == [enc |-> IF e \in Numbers THEN "intset" ELSE "hashtable", set |-> {}]

(* setTypeConvert *)
Convert(o) == [o EXCEPT !.enc = "hashtable"]

(* setTypeAdd *)
TypeAdd(o, e) ==
  LET added == [o EXCEPT !.set = @ \cup {e}]
  IN  IF o.enc = "hashtable" \/ e \in o.set THEN added
      ELSE IF e \notin Numbers \/ Cardinality(added.set) > MaxIntset THEN Convert(added) ELSE added

(* setTypeRemove, setTypeIsMember: a value that is no number is not in an intset *)
IsMember(o, e) == (o.enc = "intset" => e \in Numbers) /\ e \in o.set
TypeRemove(o, e) == IF IsMember(o, e) THEN [o EXCEPT !.set = @ \ {e}] ELSE o

Size(o) == Cardinality(o.set)

(* dbDelete of an empty set *)
Kept(o) == IF o.set = {} THEN NoObj ELSE o

(* The order of an iterator over a set *)
Elements(o) == SetToSortSeq(o.set, <)

-----------------------------------------------------------------------------
(* A command is what becomes of the objects d: the objects, what it adds   *)
(* to server.dirty and the keys it signals.                                *)
Done(d, dirty, keys) == [d |-> d, dirty |-> dirty, keys |-> keys]

(* saddCommand *)
Sadd(d, k, e) ==
  LET o == TypeAdd(IF d[k] = NoObj THEN TypeCreate(e) ELSE d[k], e)
  IN  IF e \in d[k].set THEN Done(d, 0, {}) ELSE Done([d EXCEPT ![k] = o], 1, {k})

(* sremCommand *)
Srem(d, k, e) ==
  IF IsMember(d[k], e) THEN Done([d EXCEPT ![k] = Kept(TypeRemove(@, e))], 1, {k}) ELSE Done(d, 0, {})

(* smoveCommand: nothing within one key *)
Smove(d, k, k2, e) ==
  IF k = k2 \/ ~IsMember(d[k], e) THEN Done(d, 0, {})
  ELSE LET dst == IF d[k2] = NoObj THEN TypeCreate(e) ELSE d[k2]
           gone == [d EXCEPT ![k] = Kept(TypeRemove(@, e))]
       IN  Done([gone EXCEPT ![k2] = TypeAdd(dst, e)], 1, {k, k2})

(* The intersection of sinterGenericCommand: over the smallest set, in the *)
(* others by encoding                                                      *)
Inter(d, s) ==
  LET least == CHOOSE k \in ToSet(s) : \A j \in ToSet(s) : Size(d[k]) <= Size(d[j])
      in(e) == \A k \in ToSet(s) \ {least} : IsMember(d[k], e)
  IN  FoldLeft(LAMBDA o, e : IF in(e) THEN TypeAdd(o, e) ELSE o, Intset, Elements(d[least]))

(* sunionDiffGenericCommand: which of the two algorithms of a difference *)
DiffAlgo(d, s) ==
  LET there == SelectSeq(s, LAMBDA k : d[k] # NoObj)
      one == (Len(there) * Size(d[s[1]])) \div 2
      two == FoldLeft(LAMBDA n, k : n + Size(d[k]), 0, there)
  IN  IF one <= two THEN 1 ELSE 2

(* The difference: the elements of the first set that are in no other one, *)
(* or the first set with the elements of the others removed.               *)
Diff(d, s) ==
  LET others == Tail(s)
      out(e) == \A i \in DOMAIN others : others[i] # s[1] /\ ~IsMember(d[others[i]], e)
      first == FoldLeft(TypeAdd, Intset, Elements(d[s[1]]))
  IN  IF DiffAlgo(d, s) = 1
      THEN FoldLeft(LAMBDA o, e : IF out(e) THEN TypeAdd(o, e) ELSE o, Intset, Elements(d[s[1]]))
      ELSE FoldLeft(LAMBDA o, k : FoldLeft(TypeRemove, o, Elements(d[k])), first, others)

Union(d, s) == FoldLeft(LAMBDA o, k : FoldLeft(TypeAdd, o, Elements(d[k])), Intset, s)

(* sinterGenericCommand with a source that does not exist: the destination *)
(* goes.                                                                   *)
Sinterstore(d, k, s) ==
  IF \E i \in DOMAIN s : d[s[i]] = NoObj
  THEN IF d[k] = NoObj THEN Done(d, 0, {}) ELSE Done([d EXCEPT ![k] = NoObj], 1, {k})
  ELSE Done([d EXCEPT ![k] = Kept(Inter(d, s))], 1, {k})

SunionDiffstore(d, k, s, o) == Done([d EXCEPT ![k] = Kept(o)], 1, {k})

Perform(d, c) ==
  CASE c[1] = "sadd" -> Sadd(d, c[2], c[3])
    [] c[1] = "srem" -> Srem(d, c[2], c[3])
    [] c[1] = "smove" -> Smove(d, c[2], c[3], c[4])
    [] c[1] = "sinterstore" -> Sinterstore(d, c[2], c[3])
    [] c[1] = "sunionstore" -> SunionDiffstore(d, c[2], c[3], Union(d, c[3]))
    [] c[1] = "sdiffstore" -> SunionDiffstore(d, c[2], c[3], Diff(d, c[3]))

(* call: the effect, and the command the replica executes when there is one *)
Apply(c, r, propagated) ==
  /\ db' = r.d /\ signalled' = r.keys /\ op' = c
  /\ replica' = IF r.dirty > 0 THEN Perform(replica, propagated).d ELSE replica

Commands ==
  ({"sadd", "srem"} \X Key \X Elem) \cup ({"smove"} \X Key \X Key \X Elem)
    \cup ({"sinterstore", "sunionstore", "sdiffstore"} \X Key \X Sources)

Execute(c) == Apply(c, Perform(db, c), c)

\* Faulty variant: SPOP is propagated as the removal of any element.
SpopAny(k) ==
  \E e \in db[k].set, f \in db[k].set :
    Apply(<<"spop", k, e>>, [Srem(db, k, e) EXCEPT !.dirty = 1], <<"srem", k, f>>)

(* spopCommand: propagated as the SREM of the element it has chosen *)
Spop(k) == \E e \in db[k].set : Apply(<<"spop", k, e>>, Srem(db, k, e), <<"srem", k, e>>)

Next == (\E c \in Commands : Execute(c)) \/ (\E k \in Key : Spop(k))

Spec == Init /\ [][Next]_vars

-----------------------------------------------------------------------------
(* The commands are the operations of set theory, whatever encodings and   *)
(* algorithms they use, also with the destination among the sources and    *)
(* with keys given twice (sinterGenericCommand, sunionDiffGenericCommand,  *)
(* smoveCommand).                                                          *)
SetAlgebra ==
  LET old(k) == db[k].set
      new(k) == db'[k].set
      k == op'[2]
      s == op'[3]
      only(v) == new(k) = v /\ \A j \in Key \ {k} : db'[j] = db[j]
  IN  CASE op'[1] = "sadd" -> only(old(k) \cup {s})
        [] op'[1] \in {"srem", "spop"} -> only(old(k) \ {s})
        [] op'[1] = "sunionstore" -> only(UNION {old(s[i]) : i \in DOMAIN s})
        [] op'[1] = "sinterstore" -> only({e \in Elem : \A i \in DOMAIN s : e \in old(s[i])})
        [] op'[1] = "sdiffstore" -> only(old(s[1]) \ UNION {old(s[i]) : i \in 2..Len(s)})
        [] op'[1] = "smove" ->
             IF k = s \/ op'[4] \notin old(k) THEN db' = db
             ELSE new(k) = old(k) \ {op'[4]} /\ new(s) = old(s) \cup {op'[4]}

(* An intset has only numbers and no more than the limit; no empty set     *)
(* stays in the database (setTypeAdd, dbDelete).                           *)
EncodingFits ==
  \A k \in Key :
    /\ db[k].enc = "intset" => db[k].set \subseteq Numbers /\ Size(db[k]) <= MaxIntset
    /\ db[k].enc # "none" <=> db[k].set # {}

(* The replica has the same sets, also after commands with a random choice *)
(* (spopCommand, server.dirty).                                            *)
ReplicaSame == \A k \in Key : replica[k].set = db[k].set

(* A key whose set has changed has been signalled as modified. *)
ChangesAreSignalled == \A k \in Key : db'[k].set # db[k].set => k \in signalled'
=============================================================================

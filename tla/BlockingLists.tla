--------------------------- MODULE BlockingLists ---------------------------
(***************************************************************************)
(* Clients blocked on lists (t_list.c): BLPOP, BRPOP and BRPOPLPUSH, the   *)
(* keys that become ready, and handleClientsBlockedOnLists, which runs     *)
(* after every command or EXEC.  Elements are numbered as they are pushed. *)
(***************************************************************************)
EXTENDS Integers, Sequences, FiniteSets, SequencesExt

CONSTANTS
  Client, Key, None,
  Pops,     \* blocking commands: [keys, target, head]
  Cmds,     \* other commands, in the sequences a client sends at once (EXEC)
  MaxPush,  \* bound on the elements pushed
  MaxSteps  \* bound on the commands other than pushes

BlockingAssumption ==
  /\ None \notin Key /\ MaxPush \in Nat /\ MaxSteps \in Nat
  /\ Pops \subseteq [keys : Seq(Key), target : Key \cup {None}, head : BOOLEAN]

VARIABLES
  w,     \* the server: dict, blocking_keys, ready_keys, the blocked clients
  rep,   \* the data of a slave that applies what is propagated
  steps  \* commands so far

vars == <<w, rep, steps>>

NoVal  == [type |-> "none", seq |-> <<>>]
String == [type |-> "string", seq |-> <<>>]
List(s) == [type |-> "list", seq |-> s]
NotBlocked == [keys |-> <<>>, target |-> None, head |-> TRUE]

(* pushed: elements so far; got: the elements replied to clients; gone:    *)
(* those deleted with their key; served: clients and keys of this step.    *)
Init ==
  /\ w = [dict |-> [k \in Key |-> NoVal], blocking |-> [k \in Key |-> <<>>], ready |-> <<>>,
          cl |-> [c \in Client |-> NotBlocked], out |-> <<>>,
          pushed |-> 0, got |-> {}, gone |-> {}, served |-> {}]
  /\ rep = [k \in Key |-> NoVal]
  /\ steps = 0

Blocked(u, c) == u.cl[c] # NotBlocked

-----------------------------------------------------------------------------
\* Faulty variant: a key is announced only when nothing is announced yet.
SignalOnlyFirst(u, k) ==
  IF u.blocking[k] = <<>> \/ u.ready # <<>> THEN u ELSE [u EXCEPT !.ready = Append(@, k)]

(* signalListAsReady: a key with clients waiting, once *)
SignalListAsReady(u, k) ==
  IF u.blocking[k] = <<>> \/ Contains(u.ready, k) THEN u
  ELSE [u EXCEPT !.ready = Append(@, k)]

(* dbAdd: the only place that signals a list *)
DbAdd(u, k, val) ==
  LET a == [u EXCEPT !.dict[k] = val]
  IN  IF val.type = "list" THEN SignalListAsReady(a, k) ELSE a

(* setKey: dbAdd or dbOverwrite *)
SetKey(u, k, val) ==
  IF u.dict[k] = NoVal THEN DbAdd(u, k, val) ELSE [u EXCEPT !.dict[k] = val]

(* listTypePop at the head or the tail, listTypePush *)
PopOf(s, head) == IF head THEN Head(s) ELSE Last(s)
Rest(s, head) == IF head THEN Tail(s) ELSE Front(s)
PushTo(s, e, head) == IF head THEN <<e>> \o s ELSE Append(s, e)

(* dbDelete of a list that has become empty *)
Prune(u, k) == IF u.dict[k] = List(<<>>) THEN [u EXCEPT !.dict[k] = NoVal] ELSE u

(* propagate *)
Propagate(u, op, k, e) == [u EXCEPT !.out = Append(@, [op |-> op, key |-> k, e |-> e])]

(* rpoplpushHandlePush; pushGenericCommand of one element *)
HandlePush(u, k, e, head) ==
  LET a == IF u.dict[k] = NoVal THEN DbAdd(u, k, List(<<>>)) ELSE u
  IN  [a EXCEPT !.dict[k].seq = PushTo(@, e, head)]

(* blockForKeys: at the end of the queue of every key, once *)
BlockForKeys(u, c, p) ==
  [u EXCEPT !.cl[c] = p,
            !.blocking = [k \in Key |-> IF Contains(p.keys, k) THEN Append(@[k], c) ELSE @[k]]]

(* unblockClientWaitingData *)
Unblock(u, c) ==
  [u EXCEPT !.blocking = [k \in Key |-> Remove(@[k], c)], !.cl[c] = NotBlocked]

-----------------------------------------------------------------------------
(* serveClientBlockedOnList for element e of key k, the client being       *)
(* unblocked already; the element goes back when the target of BRPOPLPUSH  *)
(* is not a list.                                                          *)
Serve(u, c, p, k, e) ==
  IF p.target = None
  THEN [Propagate(u, IF p.head THEN "lpop" ELSE "rpop", k, e) EXCEPT
          !.got = @ \cup {e}, !.served = @ \cup {<<c, k>>}]
  ELSE IF u.dict[p.target].type = "string"
  THEN [u EXCEPT !.dict[k].seq = PushTo(@, e, p.head)]
  ELSE [Propagate(HandlePush(Propagate(u, "rpop", k, e), p.target, e, TRUE),
                  "lpush", p.target, e) EXCEPT !.served = @ \cup {<<c, k>>}]

\* Faulty variant: the client that blocked last is served first.
NextReceiverLast(q) == Last(q)

NextReceiver(q) == Head(q)

(* handleClientsBlockedOnLists for one ready key: as many clients as are   *)
(* waiting now, first come first served, while there are elements.         *)
ServeKey(u, k) ==
  LET step(v, i) ==
        IF v.blocking[k] = <<>> \/ v.dict[k].seq = <<>> THEN v
        ELSE LET c == NextReceiver(v.blocking[k])
                 p == v.cl[c]
                 e == PopOf(v.dict[k].seq, p.head)
             IN  Serve(Unblock([v EXCEPT !.dict[k].seq = Rest(@, p.head)], c), c, p, k, e)
  IN  IF u.dict[k].type # "list" THEN u
      ELSE Prune(FoldLeft(step, u, u.blocking[k]), k)

(* The whole of handleClientsBlockedOnLists: again while serving makes     *)
(* keys ready.  Every round but the last unblocks a client.                *)
HandleClients(u) ==
  LET round(v, i) == FoldLeft(ServeKey, [v EXCEPT !.ready = <<>>], v.ready)
  IN  FoldLeft(round, u, [i \in 1..(Cardinality(Client) + 1) |-> i])

-----------------------------------------------------------------------------
(* The other commands: RPUSH, LPUSH, SET, DEL, RENAME and SORT ... STORE.  *)
Elems(u, k) == ToSet(u.dict[k].seq)

Execute(u, cmd) ==
  LET k == cmd.key
      e == u.pushed + 1
  IN  CASE cmd.op \in {"rpush", "lpush"} ->
             IF u.dict[k].type = "string" \/ u.pushed = MaxPush THEN u
             ELSE Propagate([HandlePush(u, k, e, cmd.op = "lpush") EXCEPT !.pushed = e],
                            cmd.op, k, e)
        [] cmd.op = "set" ->
             Propagate([SetKey(u, k, String) EXCEPT !.gone = @ \cup Elems(u, k)], "set", k, 0)
        [] cmd.op = "del" ->
             IF u.dict[k] = NoVal THEN u
             ELSE Propagate([u EXCEPT !.dict[k] = NoVal, !.gone = @ \cup Elems(u, k)], "del", k, 0)
        [] cmd.op = "rename" ->      \* to cmd.to, another key
             IF u.dict[k] = NoVal THEN u
             ELSE LET a == DbAdd([u EXCEPT !.gone = @ \cup Elems(u, cmd.to)], cmd.to, u.dict[k])
                  IN  Propagate([a EXCEPT !.dict[k] = NoVal], "rename", k, cmd.to)
        [] cmd.op = "sortstore" ->   \* one new element
             IF u.pushed = MaxPush THEN u
             ELSE Propagate([SetKey(u, k, List(<<e>>)) EXCEPT !.pushed = e,
                               !.gone = @ \cup Elems(u, k)], "sortstore", k, e)

(* A slave applies a command *)
Apply(d, x) ==
  CASE x.op \in {"rpush", "lpush"} ->
         [d EXCEPT ![x.key] = List(PushTo(@.seq, x.e, x.op = "lpush"))]
    [] x.op \in {"rpop", "lpop"} ->
         IF d[x.key].seq = <<>> THEN d
         ELSE [d EXCEPT ![x.key] = IF Len(@.seq) = 1 THEN NoVal
                                   ELSE List(Rest(@.seq, x.op = "lpop"))]
    [] x.op = "set" -> [d EXCEPT ![x.key] = String]
    [] x.op = "del" -> [d EXCEPT ![x.key] = NoVal]
    [] x.op = "rename" -> [d EXCEPT ![x.e] = d[x.key], ![x.key] = NoVal]
    [] x.op = "sortstore" -> [d EXCEPT ![x.key] = List(<<x.e>>)]

Commit(u) ==
  /\ w' = [u EXCEPT !.out = <<>>]
  /\ rep' = FoldLeft(Apply, rep, u.out)

Fresh == [w EXCEPT !.served = {}]

(* processCommand of a command or of EXEC *)
Command(cmds) ==
  /\ steps < MaxSteps /\ steps' = steps + 1
  /\ Commit(HandleClients(FoldLeft(Execute, Fresh, cmds)))

(* blockingPopGenericCommand and brpoplpushCommand, not in a transaction:  *)
(* the first key that holds something decides.  BRPOPLPUSH is propagated   *)
(* as it is; its pop and its push are two entries here.                    *)
BlockingPop(c, p) ==
  LET held == {i \in DOMAIN p.keys : w.dict[p.keys[i]] # NoVal}
      i == CHOOSE j \in held : \A h \in held : j <= h
      k == p.keys[i]
      e == PopOf(w.dict[k].seq, p.head)
      popped == [Fresh EXCEPT !.dict[k].seq = Rest(@, p.head)]
  IN  /\ ~Blocked(w, c)
      /\ UNCHANGED steps
      /\ IF held = {} THEN Commit(BlockForKeys(Fresh, c, p))
         ELSE /\ w.dict[k].type = "list"
              /\ p.target # None => w.dict[p.target].type # "string"
              /\ Commit(HandleClients(
                   IF p.target = None
                   THEN Propagate(Prune([popped EXCEPT !.got = @ \cup {e}], k),
                                  IF p.head THEN "lpop" ELSE "rpop", k, e)
                   ELSE Propagate(Propagate(Prune(HandlePush(popped, p.target, e, TRUE), k),
                                            "rpop", k, e), "lpush", p.target, e)))

(* clientsCronHandleTimeout, or freeClient of a blocked client *)
TimeoutOrClose(c) ==
  /\ Blocked(w, c)
  /\ Commit(Unblock(Fresh, c)) /\ UNCHANGED steps

Next ==
  \/ \E cmds \in Cmds : Command(cmds)
  \/ \E c \in Client : (\E p \in Pops : BlockingPop(c, p)) \/ TimeoutOrClose(c)

Spec == Init /\ [][Next]_vars

-----------------------------------------------------------------------------
(* No wake-up is lost: between commands no client is blocked on a key that *)
(* holds a list (signalListAsReady, handleClientsBlockedOnLists), also     *)
(* when serving one client feeds the key of another.                       *)
NoLostWakeup ==
  \A c \in Client : Blocked(w, c) => \A i \in DOMAIN w.cl[c].keys : w.dict[w.cl[c].keys[i]].type # "list"

(* The queues of the keys and the keys of the clients are the same         *)
(* relation, every client is in a queue once, and no key stays announced   *)
(* (blockForKeys, unblockClientWaitingData).                               *)
QueuesAgree ==
  /\ w.ready = <<>>
  /\ \A k \in Key :
       /\ IsInjective(w.blocking[k])
       /\ ToSet(w.blocking[k]) = {c \in Client : Contains(w.cl[c].keys, k)}

(* Every element pushed is in one list, or was given to one client, or     *)
(* went with its key: serving neither loses nor repeats one.               *)
ElementsKept ==
  LET all == FoldLeft(LAMBDA s, k : s \o w.dict[k].seq, <<>>, SetToSeq(Key))
  IN  /\ IsInjective(all)
      /\ ToSet(all) \cap (w.got \cup w.gone) = {} /\ w.got \cap w.gone = {}
      /\ ToSet(all) \cup w.got \cup w.gone = 1..w.pushed

(* The pops and pushes made on behalf of blocked clients are propagated so *)
(* that a slave, or the AOF, has the same lists in the same order.         *)
SlaveFollows == rep = w.dict

(* "we serve all the clients waiting for this list, from the one that      *)
(* blocked first, to the last": nobody overtakes a client that goes on     *)
(* waiting for the same key.                                               *)
FirstComeFirstServed ==
  \A k \in Key : \A i, j \in DOMAIN w.blocking[k] :
    i < j /\ <<w.blocking[k][j], k>> \in w'.served
      => ~Contains(w'.blocking[k], w.blocking[k][i])
=============================================================================

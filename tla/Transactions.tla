---------------------------- MODULE Transactions ----------------------------
(***************************************************************************)
(* MULTI, EXEC, DISCARD and WATCH (multi.c) under processCommand and call  *)
(* (redis.c), with what they propagate to the slaves and the AOF.          *)
(*                                                                         *)
(* Commands run one at a time; clients interleave between commands.  A     *)
(* value is the number of the command that wrote it.                       *)
(***************************************************************************)
EXTENDS Integers, Sequences, FiniteSets

CONSTANTS
  Client, Key,
  Reason,     \* why processCommand may refuse a command
  Cmd,        \* commands of the clients: [op, key]
  MaxWrites,  \* bound on the commands executed that change something
  MaxQueue,   \* bound on the commands queued in one transaction
  MaxRefused  \* bound on the commands refused

Reasons == {"unknown", "noauth", "oom", "misconf", "minslaves", "readonly",
            "masterdown", "loading", "slowscript"}

Commands == [op : {"set", "get", "del", "flushdb"}, key : Key]

ASSUME TransactionsAssumption ==
  /\ Reason \subseteq Reasons
  /\ Cmd \subseteq Commands
  /\ MaxWrites \in Nat /\ MaxQueue \in Nat /\ MaxRefused \in Nat

VARIABLES
  srv,     \* the data, the clients that watch each key
  cl,      \* the clients
  rep,     \* a slave that applies what is propagated
  ghost    \* lastw: the last change of a key; seen: that at the time of WATCH;
           \* refused: the clients that lost a command while they were queueing

vars == <<srv, cl, rep, ghost>>

Absent == 0

(* Flags of a client: MULTI, DIRTY_CAS and DIRTY_EXEC *)
NewClient == [flags |-> {}, queue |-> <<>>, watched |-> {}]

InMulti(c) == "MULTI" \in cl[c].flags

Init ==
  /\ srv = [dict |-> [k \in Key |-> Absent], watched |-> [k \in Key |-> {}],
            writes |-> 0, refusals |-> 0]
  /\ cl = [c \in Client |-> NewClient]
  /\ rep = [dict |-> [k \in Key |-> Absent], multi |-> FALSE, queue |-> <<>>]
  /\ ghost = [lastw |-> [k \in Key |-> 0], seen |-> [c \in Client |-> [k \in Key |-> 0]],
              refused |-> {}]

-----------------------------------------------------------------------------
(* What a command does to data d: the keys that it changes, and the data   *)
(* after it when its number is v.                                          *)
Changes(d, cmd) ==
  {k \in Key : \/ cmd.op = "set" /\ k = cmd.key
               \/ cmd.op = "del" /\ k = cmd.key /\ d[k] # Absent
               \/ cmd.op = "flushdb" /\ d[k] # Absent}

Effect(d, cmd, v) ==
  [k \in Key |-> IF k \notin Changes(d, cmd) THEN d[k]
                 ELSE IF cmd.op = "set" THEN v ELSE Absent]

ReadOnly(cmd) == cmd.op = "get"

(* propagate: the slave r queues between MULTI and EXEC, and executes *)
PropagateMulti(r) == [r EXCEPT !.multi = TRUE]

Replay(d, q) ==
  LET data[n \in 0..Len(q)] ==
        IF n = 0 THEN d ELSE Effect(data[n-1], q[n].cmd, q[n].v)
  IN  data[Len(q)]

PropagateExec(r) == [dict |-> Replay(r.dict, r.queue), multi |-> FALSE, queue |-> <<>>]

Propagate(r, cmd, v) ==
  IF r.multi THEN [r EXCEPT !.queue = Append(@, [cmd |-> cmd, v |-> v])]
             ELSE [r EXCEPT !.dict = Effect(@, cmd, v)]

-----------------------------------------------------------------------------
(* The functions one command calls.  w: the whole state, threaded through. *)
World == [srv |-> srv, cl |-> cl, ghost |-> ghost, rep |-> rep]

Commit(w) == srv' = w.srv /\ cl' = w.cl /\ ghost' = w.ghost /\ rep' = w.rep

Dirty(client) == [client EXCEPT !.flags = @ \cup {"DIRTY_CAS"}]

\* Faulty variant: a key that is created is not signalled.
TouchExisting(w, ks) ==
  [c \in Client |-> IF \E k \in ks : c \in w.srv.watched[k] /\ w.srv.dict[k] # Absent
                    THEN Dirty(w.cl[c]) ELSE w.cl[c]]

(* touchWatchedKey, for the keys ks: the clients after it *)
TouchWatchedKeys(w, ks) ==
  [c \in Client |-> IF \E k \in ks : c \in w.srv.watched[k] THEN Dirty(w.cl[c]) ELSE w.cl[c]]

(* touchWatchedKeysOnFlush: only clients watching a key that exists *)
TouchWatchedKeysOnFlush(w) ==
  [c \in Client |-> IF \E k \in w.cl[c].watched : w.srv.dict[k] # Absent
                    THEN Dirty(w.cl[c]) ELSE w.cl[c]]

(* call: the command runs (setKey, delCommand or flushdbCommand, with the  *)
(* keys they signal) and is propagated when server.dirty has grown.        *)
Call(w, cmd) ==
  LET ks == Changes(w.srv.dict, cmd)
      v == w.srv.writes + 1
  IN  IF ks = {} THEN w
      ELSE [srv |-> [w.srv EXCEPT !.dict = Effect(@, cmd, v), !.writes = v],
            cl |-> IF cmd.op = "flushdb" THEN TouchWatchedKeysOnFlush(w)
                                         ELSE TouchWatchedKeys(w, ks),
            ghost |-> [w.ghost EXCEPT !.lastw = [k \in Key |-> IF k \in ks THEN v ELSE @[k]]],
            rep |-> Propagate(w.rep, cmd, v)]

(* unwatchAllKeys: client c leaves the list of every key it watches *)
UnwatchAllKeys(w, c) ==
  [w EXCEPT !.srv.watched = [k \in Key |-> IF k \in w.cl[c].watched THEN @[k] \ {c} ELSE @[k]],
            !.cl[c].watched = {}]

(* discardTransaction, with freeClientMultiState and initClientMultiState: *)
(* queue, flags and watched keys are all reset.                            *)
DiscardTransaction(w, c) ==
  LET u == UnwatchAllKeys(w, c)
  IN  [u EXCEPT !.cl[c] = NewClient, !.ghost.refused = @ \ {c}]

(* The command of a transaction before which MULTI is propagated *)
FirstWrite(q, n) == ~ReadOnly(q[n]) /\ \A j \in 1..(n-1) : ReadOnly(q[j])

(* The loop of execCommand over the queue q *)
Executed(w, q) ==
  LET run[n \in 0..Len(q)] ==
        IF n = 0 THEN w
        ELSE LET u == run[n-1]
             IN  Call(IF FirstWrite(q, n) THEN [u EXCEPT !.rep = PropagateMulti(@)] ELSE u, q[n])
  IN  run[Len(q)]

(* execCommand: refused when the transaction is dirty; EXEC is propagated  *)
(* when MULTI was (server.dirty++)                                         *)
ExecCommand(w, c) ==
  LET q == w.cl[c].queue
      done == DiscardTransaction(Executed(UnwatchAllKeys(w, c), q), c)
  IN  IF w.cl[c].flags \cap {"DIRTY_CAS", "DIRTY_EXEC"} # {} THEN DiscardTransaction(w, c)
      ELSE IF \A n \in 1..Len(q) : ReadOnly(q[n]) THEN done
      ELSE [done EXCEPT !.rep = PropagateExec(@)]

-----------------------------------------------------------------------------
(* processCommand, a command that passes every check: queueMultiCommand in *)
(* a transaction, else call.                                               *)
Command(c, cmd) ==
  IF InMulti(c)
  THEN /\ Len(cl[c].queue) < MaxQueue
       /\ cl' = [cl EXCEPT ![c].queue = Append(@, cmd)]
       /\ UNCHANGED <<srv, rep, ghost>>
  ELSE srv.writes < MaxWrites /\ Commit(Call(World, cmd))

(* The refusals of processCommand that call flagTransaction *)
Flags(reason) == reason \notin {"readonly", "loading"}

(* processCommand, a command that is refused *)
Refuse(c, reason) ==
  /\ srv.refusals < MaxRefused
  /\ srv' = [srv EXCEPT !.refusals = @ + 1]
  /\ cl' = IF InMulti(c) /\ Flags(reason)
           THEN [cl EXCEPT ![c].flags = @ \cup {"DIRTY_EXEC"}] ELSE cl
  /\ ghost' = IF InMulti(c) THEN [ghost EXCEPT !.refused = @ \cup {c}] ELSE ghost
  /\ UNCHANGED rep

(* multiCommand *)
Multi(c) ==
  /\ ~InMulti(c)
  /\ cl' = [cl EXCEPT ![c].flags = @ \cup {"MULTI"}]
  /\ UNCHANGED <<srv, rep, ghost>>

(* discardCommand *)
Discard(c) == InMulti(c) /\ Commit(DiscardTransaction(World, c))

(* execCommand from a client *)
Exec(c) ==
  /\ InMulti(c)
  /\ srv.writes + Len(cl[c].queue) <= MaxWrites
  /\ Commit(ExecCommand(World, c))

(* watchCommand and watchForKey: not in a transaction, and a key that is   *)
(* watched already is left alone.                                          *)
Watch(c, k) ==
  /\ ~InMulti(c) /\ k \notin cl[c].watched
  /\ cl' = [cl EXCEPT ![c].watched = @ \cup {k}]
  /\ srv' = [srv EXCEPT !.watched[k] = @ \cup {c}]
  /\ ghost' = [ghost EXCEPT !.seen[c][k] = ghost.lastw[k]]
  /\ UNCHANGED rep

(* unwatchCommand; in a transaction it would be queued *)
Unwatch(c) ==
  /\ ~InMulti(c) /\ cl[c].watched # {}
  /\ LET u == UnwatchAllKeys(World, c)
     IN  Commit([u EXCEPT !.cl[c].flags = @ \ {"DIRTY_CAS"}])

(* freeClient: the part about transactions; a new client takes its place *)
Close(c) ==
  /\ cl[c] # NewClient
  /\ LET u == UnwatchAllKeys(World, c)
     IN  Commit([u EXCEPT !.cl[c] = NewClient, !.ghost.refused = @ \ {c}])

(* expireIfNeeded or the active cycle deletes a key: DEL is propagated,    *)
(* clients that watch the key are not flagged.                             *)
Expire(k) ==
  /\ srv.dict[k] # Absent
  /\ srv' = [srv EXCEPT !.dict[k] = Absent]
  /\ rep' = Propagate(rep, [op |-> "del", key |-> k], 0)
  /\ UNCHANGED <<cl, ghost>>

Next ==
  \/ \E c \in Client : \/ \E cmd \in Cmd : Command(c, cmd)
                       \/ \E reason \in Reason : Refuse(c, reason)
                       \/ \E k \in Key : Watch(c, k)
                       \/ Multi(c) \/ Discard(c) \/ Exec(c) \/ Unwatch(c) \/ Close(c)
  \/ \E k \in Key : Expire(k)

Spec == Init /\ [][Next]_vars

-----------------------------------------------------------------------------
(* The types of the variables. *)
Server == [dict : [Key -> Nat], watched : [Key -> SUBSET Client], writes : Nat, refusals : Nat]
ClientState ==
  [flags : SUBSET {"MULTI", "DIRTY_CAS", "DIRTY_EXEC"}, queue : Seq(Commands), watched : SUBSET Key]
Slave == [dict : [Key -> Nat], multi : BOOLEAN, queue : Seq([cmd : Commands, v : Nat])]
History ==
  [lastw : [Key -> Nat], seen : [Client -> [Key -> Nat]], refused : SUBSET Client]

TypeOK ==
  /\ srv \in Server
  /\ cl \in [Client -> ClientState]
  /\ rep \in Slave
  /\ ghost \in History

(* WATCH is an optimistic lock: the next EXEC of a client is refused if    *)
(* and only if a command, its own or that of another client, has changed a *)
(* key since the client began to watch it (touchWatchedKey,                *)
(* touchWatchedKeysOnFlush, unwatchAllKeys).                               *)
OptimisticLock ==
  \A c \in Client :
    "DIRTY_CAS" \in cl[c].flags <=> \E k \in cl[c].watched : ghost.lastw[k] # ghost.seen[c][k]

(* The keys a client watches and the clients the database lists for a key  *)
(* are the same relation, however a transaction ends (unwatchAllKeys): an  *)
(* entry left behind would point to a client that is gone.                 *)
WatchesAgree == \A c \in Client, k \in Key : k \in cl[c].watched <=> c \in srv.watched[k]

(* Whatever a command was, after it a slave has the data of the master and *)
(* is not left inside a transaction (execCommand, call, propagate).        *)
SlaveFollows == ~rep.multi /\ rep.queue = <<>> /\ rep.dict = srv.dict

(* "Should be called every time there is an error while queueing a         *)
(* command" (flagTransaction): EXEC refuses a transaction that has lost a  *)
(* command, unless the refusal is one of the two that do not flag it.      *)
RefusedAborts ==
  (\A reason \in Reason : Flags(reason)) =>
    \A c \in ghost.refused : "DIRTY_EXEC" \in cl[c].flags

(* A client is marked dirty exactly when a key that it watches was         *)
(* changed; a transaction that lost a command is refused; the two sides of *)
(* WATCH agree; and a slave is never left in half a transaction            *)
(* (touchWatchedKey, flagTransaction, unwatchAllKeys, execCommand).        *)
TransactionsSafe ==
  TypeOK /\ OptimisticLock /\ WatchesAgree /\ SlaveFollows /\ RefusedAborts
=============================================================================

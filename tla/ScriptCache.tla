---------------------------- MODULE ScriptCache -----------------------------
(***************************************************************************)
(* The replication script cache (replication.c, scripting.c): EVALSHA is   *)
(* propagated as it is only when every slave and the append only file know *)
(* the script.  Of a slave, and of a file, the model keeps the scripts     *)
(* that are known after all that was sent to it or kept for it; snapshots  *)
(* hold no scripts.                                                        *)
(***************************************************************************)
EXTENDS Integers, Sequences, FiniteSets, SequencesExt

CONSTANTS
  Script, Slave, CacheSize,
  ForkFails   \* a fork may fail after the slaves were set to wait for its end

ScriptCacheAssumption ==
  IsFiniteSet(Script) /\ IsFiniteSet(Slave) /\ CacheSize \in Nat \ {0} /\ ForkFails \in BOOLEAN

VARIABLES
  scripts,  \* the scripts of the master
  fifo,     \* the cache, the newest script first
  repl,     \* of a slave: "off", waiting for a snapshot to "start" or to "end", "online", or "gone" with
            \* the backlog going on for it
  known,    \* of a slave: the scripts it knows
  child,    \* the snapshot under way: "none", "plain", "disk" or "socket"
  aof,      \* state: "off", "wait" for the first rewrite or "on"; what the file and the rewritten file know
  missing   \* an EVALSHA was sent to somebody who does not know the script

vars == <<scripts, fifo, repl, known, child, aof, missing>>

Init ==
  /\ scripts = {} /\ fifo = <<>> /\ repl = [s \in Slave |-> "off"] /\ known = [s \in Slave |-> {}]
  /\ child = "none" /\ aof = [state |-> "on", file |-> {}, new |-> {}, child |-> FALSE] /\ missing = FALSE

Exists(q, x) == x \in ToSet(q)   \* replicationScriptCacheExists

(* replicationScriptCacheAdd *)
Add(q, x) == <<x>> \o (IF Len(q) = CacheSize THEN Front(q) ELSE q)

-----------------------------------------------------------------------------
(* What a command makes of the scripts that are known *)
After(k, cmd) ==
  CASE cmd[1] \in {"eval", "load"} -> k \cup {cmd[2]}
    [] cmd[1] = "evalsha" -> k
    [] cmd[1] = "flush" -> {}

Fed == {s \in Slave : repl[s] \in {"end", "online", "gone"}}

Rewriting == aof.child /\ aof.state # "off"

(* Everybody who gets the commands knows the script *)
Knows(x) ==
  /\ \A s \in Fed : x \in known[s]
  /\ aof.state = "on" => x \in aof.file
  /\ Rewriting => x \in aof.new

(* propagate: feedAppendOnlyFile, replicationFeedSlaves *)
Propagate(cmd) ==
  /\ known' = [s \in Slave |-> IF s \in Fed THEN After(known[s], cmd) ELSE known[s]]
  /\ aof' = [aof EXCEPT !.file = IF aof.state = "on" THEN After(@, cmd) ELSE @,
                        !.new = IF Rewriting THEN After(@, cmd) ELSE @]
  /\ missing' = (missing \/ (cmd[1] = "evalsha" /\ ~Knows(cmd[2])))

NotPropagated == UNCHANGED <<known, aof, missing>>

(* evalCommand; dirty: the script has written *)
Eval(x, dirty) ==
  /\ scripts' = scripts \cup {x}
  /\ IF dirty THEN Propagate(<<"eval", x>>) ELSE NotPropagated
  /\ UNCHANGED <<fifo, repl, child>>

\* Faulty variant: the script is cached, and sent only when it has written.
EvalshaUnforced(x, dirty) ==
  /\ x \in scripts
  /\ IF Exists(fifo, x) THEN
       (IF dirty THEN Propagate(<<"evalsha", x>>) ELSE NotPropagated) /\ UNCHANGED fifo
     ELSE
       (IF dirty THEN Propagate(<<"eval", x>>) ELSE NotPropagated) /\ fifo' = Add(fifo, x)
  /\ UNCHANGED <<scripts, repl, child>>

(* evalShaCommand; a script that is cached for the first time is propagated whether it has written or not *)
Evalsha(x, dirty) ==
  /\ x \in scripts
  /\ IF Exists(fifo, x) THEN
       (IF dirty THEN Propagate(<<"evalsha", x>>) ELSE NotPropagated) /\ UNCHANGED fifo
     ELSE
       Propagate(<<"eval", x>>) /\ fifo' = Add(fifo, x)
  /\ UNCHANGED <<scripts, repl, child>>

(* scriptCommand: LOAD and FLUSH *)
Load(x) ==
  /\ scripts' = scripts \cup {x} /\ Propagate(<<"load", x>>)
  /\ UNCHANGED <<fifo, repl, child>>

Flush ==
  /\ scripts' = {} /\ fifo' = <<>> /\ Propagate(<<"flush">>)
  /\ UNCHANGED <<repl, child>>

-----------------------------------------------------------------------------
(* startBgsaveForReplication, with the slaves as its caller leaves them.   *)
(* The cache is flushed only if the fork succeeds.                         *)
StartBgsave(r, kind, forked) ==
  /\ child' = IF forked THEN kind ELSE "none"
  /\ fifo' = IF forked THEN <<>> ELSE fifo
  /\ repl' = r
  /\ known' = [s \in Slave |-> IF r[s] = "end" /\ repl[s] # "end" THEN {} ELSE known[s]]

AllWait(r) == [s \in Slave |-> IF r[s] = "start" THEN "end" ELSE r[s]]

Forks == IF ForkFails THEN BOOLEAN ELSE {TRUE}

(* syncCommand: a snapshot made for another slave is shared with what was kept for that one since, or the *)
(* slave waits for the next one, or for the one that starts at once; when it cannot, nothing changes *)
Sync(s) ==
  /\ repl[s] \in {"off", "gone"}
  /\ LET waits == [repl EXCEPT ![s] = "start"]
         others == {t \in Slave : repl[t] = "end"}
     IN  \/ /\ child = "disk" /\ others # {}
            /\ \E t \in others : known' = [known EXCEPT ![s] = known[t]]
            /\ repl' = [repl EXCEPT ![s] = "end"] /\ UNCHANGED <<fifo, child>>
         \/ /\ child # "none" /\ ~(child = "disk" /\ others # {})
            /\ repl' = waits /\ UNCHANGED <<fifo, known, child>>
         \/ child = "none" /\ StartBgsave([repl EXCEPT ![s] = "end"], "disk", TRUE)
         \/ child = "none" /\ repl' = waits /\ UNCHANGED <<fifo, known, child>>   \* diskless
  /\ UNCHANGED <<scripts, aof, missing>>

(* replicationCron.  A save to disk that cannot start leaves all as it is, *)
(* one to the sockets leaves the slaves waiting for its end                *)
(* (rdbSaveToSlavesSockets).                                               *)
CronStart ==
  /\ child = "none" /\ ~aof.child /\ \E s \in Slave : repl[s] = "start"
  /\ \E kind \in {"disk", "socket"}, forked \in Forks :
       (forked \/ kind = "socket") /\ StartBgsave(AllWait(repl), kind, forked)
  /\ UNCHANGED <<scripts, aof, missing>>

(* replicationCron: nobody needs the cache *)
CronFlush ==
  /\ \A s \in Slave : repl[s] \in {"off", "gone"}
  /\ aof.state = "off" /\ fifo # <<>>
  /\ fifo' = <<>> /\ UNCHANGED <<scripts, repl, known, child, aof, missing>>

(* BGSAVE, or a save point *)
PlainBgsave == child = "none" /\ child' = "plain" /\ UNCHANGED <<scripts, fifo, repl, known, aof, missing>>

(* backgroundSaveDoneHandler, updateSlavesWaitingBgsave *)
ChildDone ==
  /\ child # "none"
  /\ \E ok \in BOOLEAN :
       LET r == [s \in Slave |-> IF repl[s] # "end" THEN repl[s] ELSE IF ok THEN "online" ELSE "off"]
       IN  IF \E s \in Slave : r[s] = "start"
           THEN \E kind \in {"disk", "socket"}, forked \in Forks : StartBgsave(AllWait(r), kind, forked)
           ELSE child' = "none" /\ repl' = r /\ UNCHANGED <<fifo, known>>
  /\ UNCHANGED <<scripts, aof, missing>>

(* A slave disconnects, comes back with PSYNC, or is away too long for the backlog *)
Disconnect(s) ==
  /\ repl[s] \in {"start", "end", "online"}
  /\ repl' = [repl EXCEPT ![s] = IF @ = "online" THEN "gone" ELSE "off"]
  /\ UNCHANGED <<scripts, fifo, known, child, aof, missing>>

Psync(s) ==
  /\ repl[s] = "gone" /\ repl' = [repl EXCEPT ![s] = "online"]
  /\ UNCHANGED <<scripts, fifo, known, child, aof, missing>>

BacklogLost(s) ==
  /\ repl[s] = "gone" /\ repl' = [repl EXCEPT ![s] = "off"]
  /\ UNCHANGED <<scripts, fifo, known, child, aof, missing>>

-----------------------------------------------------------------------------
(* rewriteAppendOnlyFileBackground; also startAppendOnly, whose state is then "wait" *)
RewriteStart(state) ==
  /\ ~aof.child /\ aof' = [aof EXCEPT !.state = state, !.new = {}, !.child = TRUE]
  /\ fifo' = <<>> /\ UNCHANGED <<scripts, repl, known, child, missing>>

(* backgroundRewriteDoneHandler *)
RewriteDone(ok) ==
  /\ aof.child
  /\ aof' = IF ok /\ aof.state # "off" THEN [aof EXCEPT !.state = "on", !.file = aof.new, !.child = FALSE]
            ELSE [aof EXCEPT !.child = FALSE]
  /\ UNCHANGED <<scripts, fifo, repl, known, child, missing>>

(* stopAppendOnly *)
AofOff ==
  /\ aof.state # "off" /\ aof' = [aof EXCEPT !.state = "off", !.child = FALSE]
  /\ UNCHANGED <<scripts, fifo, repl, known, child, missing>>

Next ==
  \/ \E x \in Script : Load(x) \/ \E dirty \in BOOLEAN : Eval(x, dirty) \/ Evalsha(x, dirty)
  \/ Flush \/ CronStart \/ CronFlush \/ PlainBgsave \/ ChildDone
  \/ \E s \in Slave : Sync(s) \/ Disconnect(s) \/ Psync(s) \/ BacklogLost(s)
  \/ \E state \in IF aof.state = "off" THEN {"off", "wait"} ELSE {aof.state} : RewriteStart(state)
  \/ (\E ok \in BOOLEAN : RewriteDone(ok)) \/ AofOff

Spec == Init /\ [][Next]_vars

-----------------------------------------------------------------------------
(* No slave and no append only file is sent an EVALSHA of a script that it *)
(* does not know (scripting.c:1029).                                       *)
NothingMissing == ~missing

(* The cache has only scripts that everybody knows to whom commands are    *)
(* sent, or for whom they are kept (replication.c:1761), each of them once *)
(* (replication.c:1758), and not too many.  That no fork fails after the   *)
(* slaves were set to wait for its end (ForkFails) is needed: they would   *)
(* be fed from then on, with the cache as it was (replication.c:458, 751,  *)
(* rdb.c:1422).                                                            *)
CacheIsKnown ==
  /\ \A x \in ToSet(fifo) : x \in scripts /\ Knows(x)
  /\ Len(fifo) <= CacheSize /\ IsInjective(fifo)

-----------------------------------------------------------------------------
(* The invariant behind both.  An EVALSHA is only sent of a script that is *)
(* cached, so CacheIsKnown keeps anything from missing; and it is kept     *)
(* because whatever starts a copy that knows nothing empties the cache.    *)
TypeOK ==
  /\ scripts \subseteq Script /\ fifo \in Seq(Script)
  /\ repl \in [Slave -> {"off", "start", "end", "online", "gone"}]
  /\ known \in [Slave -> SUBSET Script] /\ child \in {"none", "plain", "disk", "socket"}
  /\ aof \in [state : {"off", "wait", "on"}, file : SUBSET Script, new : SUBSET Script, child : BOOLEAN]
  /\ missing \in BOOLEAN

CacheInvariant == TypeOK /\ CacheIsKnown /\ NothingMissing
=============================================================================

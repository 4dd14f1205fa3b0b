---------------------------- MODULE Replication ----------------------------
(***************************************************************************)
(* Replication (replication.c, and the parts of rdb.c and networking.c     *)
(* that serve it): a master feeds its slaves and its backlog, slaves lose  *)
(* the connection and come back with PSYNC, and are synchronised in full   *)
(* by a background save to disk or, diskless, to their sockets.            *)
(*                                                                         *)
(* The stream is made of items, each one byte long: a SELECT, a write or a *)
(* PING.  The data set is the sequence of the writes made, each with the   *)
(* database it was made in.  The handshake of a slave up to the answer to  *)
(* PSYNC is one step here.                                                 *)
(***************************************************************************)
EXTENDS Integers, Sequences, FiniteSets, SequencesExt

CONSTANTS
  Slave,          \* the slaves
  DB,             \* the databases, numbers from 0
  BacklogSize,    \* the sizes repl-backlog-size may be set to
  diskless_sync,  \* repl_diskless_sync
  SyncDuringSave, \* slaves may ask for a synchronisation while a child saves
  MaxItems,       \* bound on the commands the master propagates
  MaxForkFailures,\* bound on the forks that fail
  MaxDrops,       \* bound on lost connections and restarts
  MaxEvents       \* bound on administration and failing children

ReplicationAssumption ==
  /\ DB \subseteq Nat /\ BacklogSize \subseteq Nat \ {0} /\ BacklogSize # {}
  /\ diskless_sync \in BOOLEAN /\ SyncDuringSave \in BOOLEAN
  /\ MaxItems \in Nat /\ MaxForkFailures \in Nat
  /\ MaxDrops \in Nat /\ MaxEvents \in Nat

VARIABLES
  m,       \* the master
  c,       \* its client structure for every slave
  sl,      \* the slaves
  items,   \* commands propagated so far
  forks,   \* forks that failed
  drops,   \* connections lost
  events   \* other exceptional events so far

bounds == <<forks, drops, events>>
vars == <<m, c, sl, items, bounds>>

NoDB   == -1
Sel(d)   == [type |-> "select", arg |-> d]
Write(n) == [type |-> "write", arg |-> n]
PingItem == [type |-> "ping", arg |-> 0]

NoBacklog(size) ==
  [on |-> FALSE, size |-> size, buf |-> [i \in 0..(size - 1) |-> PingItem],
   idx |-> 0, histlen |-> 0, off |-> 0]

FreeClient == [state |-> "none", out |-> <<>>, put_online_on_ack |-> FALSE, rdb |-> <<>>]

(* The slave has a master client (state connected), a cached one (reploff  *)
(* is kept with cached) or none.                                           *)
Disconnected ==
  [state |-> "connect", cached |-> FALSE, runid |-> 0, reploff |-> 0, db |-> 0, data |-> <<>>]

Init ==
  /\ \E size \in BacklogSize :
       m = [runid |-> 1, data |-> <<>>, disk |-> <<>>, off |-> 0, slaveseldb |-> NoDB,
            backlog |-> NoBacklog(size), child |-> "none", rdb |-> <<>>,
            clientids |-> {}]
  /\ c = [s \in Slave |-> FreeClient]
  /\ sl = [s \in Slave |-> Disconnected]
  /\ items = 0 /\ forks = 0 /\ drops = 0 /\ events = 0

Attached == {s \in Slave : c[s].state # "none"}

Event == events < MaxEvents /\ events' = events + 1 /\ UNCHANGED drops
Loss  == drops < MaxDrops /\ drops' = drops + 1 /\ UNCHANGED <<forks, events>>

-----------------------------------------------------------------------------
(* The backlog, a circular buffer: createReplicationBacklog,               *)
(* resizeReplicationBacklog, feedReplicationBacklog and the reading of     *)
(* addReplyReplicationBacklog.                                             *)
CreateBacklog(ms) ==
  [ms EXCEPT !.off = @ + 1,
             !.backlog = [NoBacklog(@.size) EXCEPT !.on = TRUE, !.off = ms.off + 2]]

ResizeBacklog(size) ==
  /\ size # m.backlog.size /\ Event
  /\ m' = [m EXCEPT !.backlog =
             IF @.on THEN [NoBacklog(size) EXCEPT !.on = TRUE, !.off = m.off + 1]
             ELSE NoBacklog(size)]
  /\ UNCHANGED <<c, sl, items, forks>>

FeedBacklog(ms, item) ==
  LET b == ms.backlog
      h == IF b.histlen < b.size THEN b.histlen + 1 ELSE b.size
  IN  IF ~b.on THEN ms
      ELSE [ms EXCEPT !.off = @ + 1,
                      !.backlog = [b EXCEPT !.buf[b.idx] = item,
                                            !.idx = (b.idx + 1) % b.size,
                                            !.histlen = h,
                                            !.off = ms.off + 1 - h + 1]]

(* What a slave that has everything before offset still needs. *)
BacklogFrom(b, offset) ==
  LET skip  == offset - b.off
      first == (b.idx + (b.size - b.histlen)) % b.size
  IN  [i \in 1..(b.histlen - skip) |-> b.buf[(first + skip + i - 1) % b.size]]

-----------------------------------------------------------------------------
(* replicationFeedSlaves: a SELECT goes to all slaves, the command to all  *)
(* but those whose synchronisation has not started.                        *)
\* Faulty variant: the database is not selected for the slaves.
NeedsSelectNever(ms, d) == FALSE

NeedsSelect(ms, d) == ms.slaveseldb # d

Fed == {s \in Attached : c[s].state # "wait_bgsave_start"}

FeedSlaves(ms, d, item) ==
  LET sel    == NeedsSelect(ms, d)
      sent   == IF sel THEN FeedBacklog(ms, Sel(d)) ELSE ms
      new(s) == (IF sel THEN <<Sel(d)>> ELSE <<>>)
                \o (IF s \in Fed THEN <<item>> ELSE <<>>)
  IN  IF ~ms.backlog.on /\ Attached = {} THEN m' = ms /\ UNCHANGED c
      ELSE /\ m' = FeedBacklog([sent EXCEPT !.slaveseldb = d], item)
           /\ c' = [s \in Slave |->
                      IF s \in Attached THEN [c[s] EXCEPT !.out = @ \o new(s)] ELSE c[s]]

(* A client writes to the master, which propagates the command. *)
ClientWrites(d) ==
  /\ items < MaxItems /\ items' = items + 1
  /\ FeedSlaves([m EXCEPT !.data = Append(@, <<d, items + 1>>)], d, Write(items + 1))
  /\ UNCHANGED <<sl, bounds>>

(* replicationCron pings the slaves in the stream. *)
CronPings ==
  /\ items < MaxItems /\ items' = items + 1
  /\ FeedSlaves(m, m.slaveseldb, PingItem)
  /\ UNCHANGED <<sl, bounds>>

-----------------------------------------------------------------------------
(* startBgsaveForReplication: the fork, which may fail.                    *)
Forks(ok) == (ok \/ forks < MaxForkFailures) /\ forks' = IF ok THEN forks ELSE forks + 1

(* A child that writes to sockets serves the slaves that wait for a start  *)
(* (rdbSaveToSlavesSockets).                                               *)
StartChild(ms, waiting) ==
  [ms EXCEPT !.child = IF diskless_sync THEN "socket" ELSE "disk", !.rdb = ms.data,
             !.clientids = IF diskless_sync THEN waiting ELSE {}]

WaitingForStart == {s \in Slave : c[s].state = "wait_bgsave_start"}

CanContinue(s, offset) ==
  /\ sl[s].cached /\ sl[s].runid = m.runid
  /\ m.backlog.on
  /\ offset >= m.backlog.off /\ offset <= m.backlog.off + m.backlog.histlen

(* PSYNC is accepted: masterTryPartialResynchronization and, at the slave, *)
(* replicationResurrectCachedMaster.                                       *)
PartialResync(s) ==
  /\ sl[s].state = "connect" /\ CanContinue(s, sl[s].reploff + 1)
  /\ c' = [c EXCEPT ![s] = [FreeClient EXCEPT
             !.state = "online", !.out = BacklogFrom(m.backlog, sl[s].reploff + 1)]]
  /\ sl' = [sl EXCEPT ![s].state = "connected", ![s].cached = FALSE]
  /\ UNCHANGED <<m, items, bounds>>

(* The offset of the answer +FULLRESYNC *)
FullResyncOffset == IF m.backlog.on THEN m.off ELSE m.off + 1

(* A slave that already registers differences for the running save. *)
Sharing == {s \in Attached : m.child = "disk" /\ c[s].state = "wait_bgsave_end"}

SyncState ==
  CASE m.child = "none" /\ ~diskless_sync -> "wait_bgsave_end"
    [] m.child = "disk" /\ Sharing # {}   -> "wait_bgsave_end"
    [] OTHER                              -> "wait_bgsave_start"

SyncOutput == IF Sharing = {} THEN {<<>>} ELSE {c[t].out : t \in Sharing}

(* syncCommand without partial resynchronisation, and at the slave         *)
(* slaveTryPartialResynchronization and syncWithMaster.                    *)
FullResync(s) ==
  /\ sl[s].state = "connect" /\ ~CanContinue(s, sl[s].reploff + 1)
  /\ m.child = "none" \/ SyncDuringSave
  /\ LET forking == m.child = "none" /\ ~diskless_sync
         ms == [m EXCEPT !.slaveseldb = NoDB]
         mb == IF Attached = {} /\ ~m.backlog.on THEN CreateBacklog(ms) ELSE ms
     IN  \/ /\ Forks(TRUE)
            /\ \E out \in SyncOutput :
                 c' = [c EXCEPT ![s] = [FreeClient EXCEPT !.state = SyncState, !.out = out]]
            /\ m' = IF forking THEN StartChild(mb, {}) ELSE mb
            /\ sl' = [sl EXCEPT ![s] = [@ EXCEPT !.state = "transfer", !.cached = FALSE,
                                          !.runid = m.runid, !.reploff = FullResyncOffset]]
         \/ /\ forking /\ Forks(FALSE)   \* the slave reads the error and tries again
            /\ sl' = [sl EXCEPT ![s].cached = FALSE]
            /\ UNCHANGED <<m, c>>
  /\ UNCHANGED <<items, drops, events>>

(* replicationCron starts the save that diskless slaves wait for *)
CronStartsSave ==
  /\ m.child = "none" /\ WaitingForStart # {}
  /\ \E ok \in BOOLEAN :
       /\ Forks(ok)
       /\ m' = IF ok THEN StartChild(m, WaitingForStart) ELSE m
       /\ c' = [s \in Slave |-> IF s \in WaitingForStart /\ (ok \/ diskless_sync)
                  THEN [c[s] EXCEPT !.state = "wait_bgsave_end"] ELSE c[s]]
  /\ UNCHANGED <<sl, items, drops, events>>

(* bgsaveCommand, or a save point: a child that no slave waits for *)
AdminSaves ==
  /\ m.child = "none" /\ Event
  /\ m' = [m EXCEPT !.child = "disk", !.rdb = m.data]
  /\ UNCHANGED <<c, sl, items, forks>>

-----------------------------------------------------------------------------
(* backgroundSaveDoneHandler and updateSlavesWaitingBgsave: the slaves     *)
(* that waited for the end go on if the child has served them, those that  *)
(* waited for a start wait for the end of the save started now, although   *)
(* a child that writes to sockets does not serve them.                     *)
Reachable == IF m.child = "disk" THEN Slave ELSE m.clientids

(* A save to disk serves all or none, the child reports on every socket *)
Outcomes == IF m.child = "disk" THEN {Slave, {}} ELSE SUBSET m.clientids

AfterSave(s, served) ==
  CASE c[s].state = "wait_bgsave_start" -> [c[s] EXCEPT !.state = "wait_bgsave_end"]
    [] c[s].state = "wait_bgsave_end" /\ s \notin served -> FreeClient
    [] c[s].state = "wait_bgsave_end" /\ s \in served ->
         [c[s] EXCEPT !.state = IF m.child = "disk" THEN "send_bulk" ELSE "online",
                      !.put_online_on_ack = m.child = "socket", !.rdb = m.rdb]
    [] OTHER -> c[s]

SaveEnds ==
  /\ m.child # "none"
  /\ \E served \in Outcomes, forked \in BOOLEAN :
       LET again == WaitingForStart # {}
           ms == [m EXCEPT !.child = "none", !.rdb = <<>>, !.clientids = {},
                           !.disk = IF m.child = "disk" /\ served = Slave THEN m.rdb ELSE @]
       IN  /\ IF served = Reachable THEN UNCHANGED <<drops, events>> ELSE Event
           /\ ~again => forked
           /\ Forks(forked)
           /\ c' = [s \in Slave |-> AfterSave(s, served)]
           /\ m' = IF again /\ forked THEN StartChild(ms, {}) ELSE ms
           /\ sl' = [s \in Slave |->
                       IF c[s].state = "wait_bgsave_end" /\ s \notin served
                       THEN [sl[s] EXCEPT !.state = "connect"] ELSE sl[s]]
  /\ UNCHANGED items

(* sendBulkToSlave ends and readSyncBulkPayload loads the file; a streamed *)
(* file has been received when the child ends.                             *)
Load(s) ==
  /\ sl[s].state = "transfer"
  /\ c[s].state = "send_bulk" \/ (c[s].state = "online" /\ c[s].put_online_on_ack)
  /\ c' = [c EXCEPT ![s].state = "online", ![s].rdb = <<>>]
  /\ sl' = [sl EXCEPT ![s] = [@ EXCEPT !.state = "connected", !.db = 0, !.data = c[s].rdb]]
  /\ UNCHANGED <<m, items, bounds>>

(* REPLCONF ACK puts a slave online that has loaded a streamed file *)
Ack(s) ==
  /\ sl[s].state = "connected" /\ c[s].state = "online" /\ c[s].put_online_on_ack
  /\ c' = [c EXCEPT ![s].put_online_on_ack = FALSE]
  /\ UNCHANGED <<m, sl, items, bounds>>

(* The slave executes the next item of the stream. *)
Executed(v, item) ==
  CASE item.type = "select" -> [v EXCEPT !.db = item.arg]
    [] item.type = "write"  -> [v EXCEPT !.data = Append(@, <<v.db, item.arg>>)]
    [] item.type = "ping"   -> v

Deliver(s) ==
  /\ sl[s].state = "connected" /\ c[s].out # <<>> /\ ~c[s].put_online_on_ack
  /\ c' = [c EXCEPT ![s].out = Tail(@)]
  /\ sl' = [sl EXCEPT ![s] = [Executed(@, Head(c[s].out)) EXCEPT !.reploff = @ + 1]]
  /\ UNCHANGED <<m, items, bounds>>

(* The connection is lost, or times out: freeClient at the master, and at  *)
(* the slave replicationCacheMaster or replicationAbortSyncTransfer.       *)
KeepsMaster(s) == sl[s].state = "connected"

Drop(s) ==
  /\ c[s].state # "none" /\ Loss
  /\ c' = [c EXCEPT ![s] = FreeClient]
  /\ sl' = [sl EXCEPT ![s].state = "connect", ![s].cached = KeepsMaster(s)]
  /\ UNCHANGED <<m, items>>

(* replicationCron frees a backlog that had no slaves for long *)
FreeBacklog ==
  /\ m.backlog.on /\ Attached = {} /\ Event
  /\ m' = [m EXCEPT !.backlog = NoBacklog(@.size)]
  /\ UNCHANGED <<c, sl, items, forks>>

(* The master starts again from its last saved file. *)
MasterRestarts ==
  /\ Loss
  /\ m' = [m EXCEPT !.runid = @ + 1, !.data = m.disk, !.off = 0, !.slaveseldb = NoDB,
                    !.backlog = NoBacklog(@.size), !.child = "none", !.rdb = <<>>,
                    !.clientids = {}]
  /\ c' = [s \in Slave |-> FreeClient]
  /\ sl' = [s \in Slave |-> IF c[s].state = "none" THEN sl[s]
              ELSE [sl[s] EXCEPT !.state = "connect", !.cached = KeepsMaster(s)]]
  /\ UNCHANGED items

Next ==
  \/ \E d \in DB : ClientWrites(d)
  \/ CronPings \/ CronStartsSave \/ AdminSaves \/ SaveEnds \/ FreeBacklog \/ MasterRestarts
  \/ \E size \in BacklogSize : ResizeBacklog(size)
  \/ \E s \in Slave : PartialResync(s) \/ FullResync(s) \/ Load(s) \/ Ack(s)
                      \/ Deliver(s) \/ Drop(s)

(* Children end, slaves retry, connections carry what is sent. *)
Fairness ==
  /\ WF_vars(SaveEnds) /\ WF_vars(CronStartsSave)
  /\ \A s \in Slave : WF_vars(PartialResync(s)) /\ WF_vars(FullResync(s)) /\ WF_vars(Load(s))
                      /\ WF_vars(Ack(s)) /\ WF_vars(Deliver(s))

Spec == Init /\ [][Next]_vars /\ Fairness

-----------------------------------------------------------------------------
(* Types, the bounds of the backlog included. *)
TypeOK ==
  /\ m.child \in {"none", "disk", "socket"} /\ m.off \in Nat
  /\ m.slaveseldb \in DB \cup {NoDB}
  /\ LET b == m.backlog
     IN  /\ b.size \in BacklogSize /\ DOMAIN b.buf = 0..(b.size - 1)
         /\ b.idx \in 0..(b.size - 1) /\ b.histlen \in 0..b.size
         /\ b.on => b.off + b.histlen = m.off + 1
  /\ \A s \in Slave :
       /\ c[s].state \in {"none", "wait_bgsave_start", "wait_bgsave_end", "send_bulk", "online"}
       /\ sl[s].state \in {"connect", "transfer", "connected"}
       /\ (sl[s].state = "connect") <=> (c[s].state = "none")

(* What slave s has or is about to load, after all that is queued for it.  *)
Eventual(s) ==
  LET base == IF sl[s].state = "connected" THEN sl[s]
              ELSE [sl[s] EXCEPT !.db = 0,
                      !.data = IF c[s].state = "wait_bgsave_end" THEN m.rdb ELSE c[s].rdb]
  IN  FoldLeft(Executed, base, c[s].out).data

Registered == {s \in Slave : c[s].state \in {"wait_bgsave_end", "send_bulk", "online"}}

(* The file a slave is given, or the data it has, together with what is    *)
(* queued for it is exactly the data of the master: nothing is lost,       *)
(* applied twice or applied to another database, whatever connections,     *)
(* backlog and saves did before.                                           *)
SlavesConverge == \A s \in Registered : Eventual(s) = m.data

(* The offset a slave counts is the place in the stream it has reached.    *)
OffsetsAgree == \A s \in Registered : sl[s].reploff + Len(c[s].out) = m.off

(* A slave that waits for the end of a save waits for a child. *)
WaitingHasChild ==
  \A s \in Slave : c[s].state = "wait_bgsave_end" => m.child # "none"
=============================================================================

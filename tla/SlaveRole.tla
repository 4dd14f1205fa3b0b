----------------------------- MODULE SlaveRole -----------------------------
(***************************************************************************)
(* A server as a slave (replication.c): SLAVEOF, the handshake with the    *)
(* master, the transfer of the data set, the cached master for a partial   *)
(* resynchronisation, the timeouts, and the slaves the server has itself.  *)
(*                                                                         *)
(* A data set is a number, a new one for every full synchronisation.  A    *)
(* socket is a number too, a fresh one for every connection.  Masters may  *)
(* answer in every way the code tells apart.                               *)
(***************************************************************************)
EXTENDS Integers, FiniteSets

CONSTANTS
  Host,       \* masters to follow
  NoHost,     \* masterhost is NULL
  MaxSockets, \* bound on the connections made
  MaxSlaveof  \* bound on the SLAVEOF commands

SlaveRoleAssumption ==
  NoHost \notin Host /\ MaxSockets \in Nat \ {0} /\ MaxSlaveof \in Nat

VARIABLES
  s,        \* the server
  sockets,  \* connections made so far
  sets,     \* data sets loaded so far
  slaveofs  \* SLAVEOF commands so far

vars == <<s, sockets, sets, slaveofs>>

NoFd == 0

(* open: the sockets to masters that are open; master and transfer_s hold  *)
(* a socket or NoFd; a cached client has no socket, so cached is the host whose run *)
(* id it remembers.  slave: one slave of this server, with the data set it *)
(* has; backlog: the data set the history in the backlog belongs to.       *)
Init ==
  /\ s = [masterhost |-> NoHost, repl_state |-> "none", transfer_s |-> NoFd,
          tmpfile |-> FALSE, master |-> NoFd, asap |-> FALSE, cached |-> NoHost,
          data |-> 1, slave |-> FALSE, slavedata |-> 0, backlog |-> FALSE,
          open |-> {}]
  /\ sockets = 0 /\ sets = 1 /\ slaveofs = 0

-----------------------------------------------------------------------------
(* disconnectSlaves *)
DisconnectSlaves(r) == [r EXCEPT !.slave = FALSE]

(* replicationHandleMasterDisconnection *)
MasterGone(r) ==
  LET g == [r EXCEPT !.master = NoFd, !.asap = FALSE, !.repl_state = "connect"]
  IN  IF r.masterhost = NoHost THEN g ELSE DisconnectSlaves(g)

(* freeClient of the master: it is cached (replicationCacheMaster) unless  *)
(* it was going to be closed anyway.                                       *)
FreeMaster(r, host) ==
  LET closed == [r EXCEPT !.open = @ \ {r.master}]
  IN  IF r.master = NoFd THEN r
      ELSE MasterGone(IF r.asap THEN closed ELSE [closed EXCEPT !.cached = host])

(* replicationDiscardCachedMaster *)
DiscardCachedMaster(r) == [r EXCEPT !.cached = NoHost]

(* undoConnectWithMaster, replicationAbortSyncTransfer and                 *)
(* cancelReplicationHandshake                                              *)
UndoConnect(r) ==
  [r EXCEPT !.open = @ \ {r.transfer_s}, !.transfer_s = NoFd, !.repl_state = "connect"]

AbortSyncTransfer(r) ==
  [r EXCEPT !.open = @ \ {r.transfer_s}, !.tmpfile = FALSE, !.repl_state = "connect"]

\* Faulty variant: only a transfer is stopped.
CancelHandshakeInTransfer(r) ==
  IF r.repl_state = "transfer" THEN AbortSyncTransfer(r) ELSE r

CancelHandshake(r) ==
  IF r.repl_state = "transfer" THEN AbortSyncTransfer(r)
  ELSE IF r.repl_state \in {"connecting", "receive_pong"} THEN UndoConnect(r) ELSE r

-----------------------------------------------------------------------------
(* replicationSetMaster *)
SetMaster(h) ==
  LET f == FreeMaster([s EXCEPT !.masterhost = h], s.masterhost)
      d == [DiscardCachedMaster(DisconnectSlaves(f)) EXCEPT !.backlog = FALSE]
  IN  [CancelHandshake(d) EXCEPT !.repl_state = "connect"]

(* replicationUnsetMaster *)
UnsetMaster ==
  LET n == [s EXCEPT !.masterhost = NoHost]
      b == IF n.master # NoFd /\ ~n.slave THEN [n EXCEPT !.backlog = FALSE] ELSE n
  IN  [CancelHandshake(DiscardCachedMaster(FreeMaster(b, s.masterhost)))
         EXCEPT !.repl_state = "none"]

(* slaveofCommand *)
Slaveof(h) ==
  /\ h # s.masterhost
  /\ slaveofs < MaxSlaveof /\ slaveofs' = slaveofs + 1
  /\ s' = IF h = NoHost THEN UnsetMaster ELSE SetMaster(h)
  /\ UNCHANGED <<sockets, sets>>

(* connectWithMaster, from replicationCron *)
CronConnects ==
  /\ s.repl_state = "connect" /\ sockets < MaxSockets
  /\ sockets' = sockets + 1
  /\ s' = [s EXCEPT !.repl_state = "connecting", !.transfer_s = sockets + 1,
                    !.open = @ \cup {sockets + 1}]
  /\ UNCHANGED <<sets, slaveofs>>

(* replicationCron: nothing was heard for repl_timeout *)
CronTimesOut ==
  /\ s.masterhost # NoHost
  /\ \/ s.repl_state \in {"connecting", "receive_pong", "transfer"} /\ s' = CancelHandshake(s)
     \/ s.repl_state = "connected" /\ s' = FreeMaster(s, s.masterhost)
  /\ UNCHANGED <<sockets, sets, slaveofs>>

(* syncWithMaster, first call: connected, PING is sent.  Its error path    *)
(* serves the second call too.                                             *)
HandshakeFails(r) ==
  [r EXCEPT !.open = @ \ {r.transfer_s}, !.transfer_s = NoFd, !.repl_state = "connect"]

Connected ==
  /\ s.repl_state = "connecting"
  /\ \/ s' = [s EXCEPT !.repl_state = "receive_pong"]
     \/ s' = HandshakeFails(s)
  /\ UNCHANGED <<sockets, sets, slaveofs>>

(* slaveTryPartialResynchronization: the master continues only with the    *)
(* run id that is cached (replicationResurrectCachedMaster).               *)
Resurrect(r) ==
  [r EXCEPT !.master = r.transfer_s, !.cached = NoHost, !.repl_state = "connected"]

(* syncWithMaster, second call: PONG, AUTH, REPLCONF and PSYNC *)
Handshakes ==
  /\ s.repl_state = "receive_pong"
  /\ \/ s' = HandshakeFails(s)
     \/ s.cached = s.masterhost /\ s' = Resurrect(s)
     \/ s' = HandshakeFails(DiscardCachedMaster(s))   \* no temporary file
     \/ s' = [DiscardCachedMaster(s) EXCEPT !.repl_state = "transfer", !.tmpfile = TRUE]
  /\ UNCHANGED <<sockets, sets, slaveofs>>

(* readSyncBulkPayload: a failure, a file that cannot be loaded, or the    *)
(* new data set.                                                           *)
Receives ==
  /\ s.repl_state = "transfer"
  /\ \/ s' = AbortSyncTransfer(s) /\ UNCHANGED sets
     \/ s' = [AbortSyncTransfer(s) EXCEPT !.data = sets + 1] /\ sets' = sets + 1
     \/ /\ s' = [s EXCEPT !.repl_state = "connected", !.master = s.transfer_s,
                             !.tmpfile = FALSE, !.data = sets + 1]
        /\ sets' = sets + 1
  /\ UNCHANGED <<sockets, slaveofs>>

(* The link goes down; the client may have been marked before              *)
(* (freeClientAsync), and the mark is taken off when it is freed           *)
(* (freeClientsInAsyncFreeQueue).                                          *)
MasterLost ==
  /\ s.master # NoFd
  /\ \/ s' = FreeMaster([s EXCEPT !.asap = FALSE], s.masterhost)
     \/ ~s.asap /\ s' = [s EXCEPT !.asap = TRUE]
  /\ UNCHANGED <<sockets, sets, slaveofs>>

(* A slave of this server: syncCommand.  With history in the backlog it    *)
(* may be allowed to continue with the data it has.                        *)
SlaveComes ==
  /\ ~s.slave
  /\ s.masterhost = NoHost \/ s.repl_state = "connected"
  /\ \/ s.slavedata # 0 /\ s.backlog /\ s' = [s EXCEPT !.slave = TRUE]
     \/ s' = [s EXCEPT !.slave = TRUE, !.slavedata = s.data, !.backlog = TRUE]
  /\ UNCHANGED <<sockets, sets, slaveofs>>

SlaveGoes ==
  /\ s.slave /\ s' = [s EXCEPT !.slave = FALSE]
  /\ UNCHANGED <<sockets, sets, slaveofs>>

Next ==
  \/ \E h \in Host \cup {NoHost} : Slaveof(h)
  \/ CronConnects \/ CronTimesOut \/ Connected \/ Handshakes \/ Receives
  \/ MasterLost \/ SlaveComes \/ SlaveGoes

Spec == Init /\ [][Next]_vars

-----------------------------------------------------------------------------
Handshaking == s.repl_state \in {"connecting", "receive_pong", "transfer"}

(* The state of the link and the structures the assertions of the code     *)
(* rely on: a master client exists exactly when connected, and never       *)
(* together with a cached one; a master has no link; a temporary file is   *)
(* open only during a transfer.                                            *)
StateMatches ==
  /\ (s.repl_state = "connected") <=> (s.master # NoFd)
  /\ s.master # NoFd => s.cached = NoHost
  /\ (s.repl_state = "none") <=> (s.masterhost = NoHost)
  /\ s.tmpfile <=> (s.repl_state = "transfer")

(* No connection is forgotten: a socket is open only while the handshake   *)
(* or the master client uses it.                                           *)
NoSocketLeaks ==
  s.open = IF Handshaking THEN {s.transfer_s} ELSE {s.master} \ {NoFd}

(* While the link to the master is down the server has no slaves: they     *)
(* resynchronise after it did.                                             *)
NoSlavesWithoutMaster == (s.slave /\ s.masterhost # NoHost) => s.repl_state = "connected"

TypeOK ==
  /\ s \in [masterhost : Host \cup {NoHost},
            repl_state : {"none", "connect", "connecting", "receive_pong", "transfer", "connected"},
            transfer_s : Nat, tmpfile : BOOLEAN, master : Nat, asap : BOOLEAN, cached : Host \cup {NoHost},
            data : Nat, slave : BOOLEAN, slavedata : Nat, backlog : BOOLEAN, open : SUBSET Nat]
  /\ sockets \in Nat /\ sets \in Nat /\ slaveofs \in Nat

(* All of it is one invariant: the link that is freed must be the one that *)
(* is open, which takes a handshake to have a socket, and a transfer to    *)
(* have forgotten the cached master.                                       *)
RoleInvariant ==
  /\ TypeOK /\ StateMatches /\ NoSocketLeaks /\ NoSlavesWithoutMaster
  /\ Handshaking => s.transfer_s # NoFd
  /\ s.repl_state = "transfer" => s.cached = NoHost
=============================================================================

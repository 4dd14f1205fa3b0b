------------------------------ MODULE Clients -------------------------------
(***************************************************************************)
(* The life of clients (networking.c): the lists that refer to a client,   *)
(* what freeClient takes it out of, the asynchronous close, the master     *)
(* whose state is cached when its link is lost, the slaves that are        *)
(* disconnected with it, and the loop of CLIENT KILL over the clients.     *)
(***************************************************************************)
EXTENDS Integers, Sequences, FiniteSets, SequencesExt

CONSTANTS
  Client, None,
  MaxClients,    \* server.maxclients
  KillsMaster,   \* CLIENT KILL may name the master (by address or by id)
  BlocksAgain    \* a client just served may block again before beforeSleep has seen it

ClientsAssumption ==
  None \notin Client /\ MaxClients \in Nat /\ KillsMaster \in BOOLEAN /\ BlocksAgain \in BOOLEAN

VARIABLES
  flags,       \* REDIS_* flags of every client
  status,      \* none, open, cached (without a socket) or freed
  clients, slaves, monitors, toClose, unblocked,  \* the lists of the server
  waiting,     \* clients in the tables of blocking keys
  master, cached, masterhost,
  kill         \* a CLIENT KILL under way: who asks, the clients named, the iterator's next node

vars == <<flags, status, clients, slaves, monitors, toClose, unblocked, waiting, master, cached, masterhost, kill>>

NoKill == [by |-> None, named |-> {}, next |-> None]

Init ==
  /\ flags = [c \in Client |-> {}] /\ status = [c \in Client |-> "none"]
  /\ clients = <<>> /\ slaves = <<>> /\ monitors = <<>> /\ toClose = <<>> /\ unblocked = <<>>
  /\ waiting = {} /\ master = None /\ cached = None /\ masterhost \in BOOLEAN
  /\ kill = NoKill

-----------------------------------------------------------------------------
(* The server as a record that the functions thread *)
State == [f |-> flags, st |-> status, clients |-> clients, slaves |-> slaves, monitors |-> monitors,
          toClose |-> toClose, unblocked |-> unblocked, waiting |-> waiting,
          master |-> master, cached |-> cached, host |-> masterhost]

Store(S) ==
  /\ flags' = S.f /\ status' = S.st /\ clients' = S.clients /\ slaves' = S.slaves /\ monitors' = S.monitors
  /\ toClose' = S.toClose /\ unblocked' = S.unblocked /\ waiting' = S.waiting
  /\ master' = S.master /\ cached' = S.cached /\ masterhost' = S.host

(* listSearchKey and listDelNode: the first node of the client goes *)
Without(s, c) == RemoveFirst(s, c)

(* unblockClientWaitingData: the client is to be looked at by beforeSleep *)
Unblock(S, c) ==
  [S EXCEPT !.waiting = @ \ {c}, !.f[c] = (@ \ {"blocked"}) \cup {"unblocked"}, !.unblocked = Append(@, c)]

\* Faulty variant: the flags of the client on entry decide what it is taken out of.
ReleaseByEntryFlags(S, c) ==
  LET has(x) == x \in S.f[c]
      s1 == IF has("blocked") THEN Unblock(S, c) ELSE S
      s2 == IF S.st[c] = "open" THEN [s1 EXCEPT !.clients = Without(@, c)] ELSE s1
      s3 == IF has("unblocked") THEN [s2 EXCEPT !.unblocked = Without(@, c)] ELSE s2
      s4 == IF has("monitor") THEN [s3 EXCEPT !.monitors = Without(@, c)]
            ELSE IF has("slave") THEN [s3 EXCEPT !.slaves = Without(@, c)] ELSE s3
      s5 == IF has("close_asap") THEN [s4 EXCEPT !.toClose = Without(@, c)] ELSE s4
  IN  [s5 EXCEPT !.st[c] = "freed", !.f[c] = {}]

(* freeClient of a client whose state is not to be cached *)
Release(S, c) ==
  LET s1 == IF "blocked" \in S.f[c] THEN Unblock(S, c) ELSE S
      has(x) == x \in s1.f[c]
      s2 == IF S.st[c] = "open" THEN [s1 EXCEPT !.clients = Without(@, c)] ELSE s1
      s3 == IF has("unblocked") THEN [s2 EXCEPT !.unblocked = Without(@, c)] ELSE s2
      s4 == IF has("monitor") THEN [s3 EXCEPT !.monitors = Without(@, c)]
            ELSE IF has("slave") THEN [s3 EXCEPT !.slaves = Without(@, c)] ELSE s3
      s5 == IF has("close_asap") THEN [s4 EXCEPT !.toClose = Without(@, c)] ELSE s4
  IN  [s5 EXCEPT !.st[c] = "freed", !.f[c] = {}]

(* disconnectSlaves *)
DisconnectSlaves(S) == FoldLeft(Release, S, S.slaves)

(* replicationHandleMasterDisconnection *)
HandleDisconnection(S) ==
  LET s1 == [S EXCEPT !.master = None] IN IF s1.host THEN DisconnectSlaves(s1) ELSE s1

(* replicationCacheMaster *)
CacheMaster(S, c) ==
  HandleDisconnection([S EXCEPT !.clients = Without(@, c), !.cached = c, !.st[c] = "cached"])

(* freeClient *)
FreeClient(S, c) ==
  IF S.master # None /\ "master" \in S.f[c]
     /\ S.f[c] \cap {"close_after_reply", "close_asap", "blocked", "unblocked"} = {}
  THEN CacheMaster(S, c)
  ELSE IF "master" \in S.f[c] THEN HandleDisconnection(Release(S, c))
  ELSE Release(S, c)

(* replicationDiscardCachedMaster *)
DiscardCached(S) ==
  IF S.cached = None THEN S
  ELSE [FreeClient([S EXCEPT !.f[S.cached] = @ \ {"master"}], S.cached) EXCEPT !.cached = None]

Create(S, c, fs) == [S EXCEPT !.st[c] = "open", !.f[c] = fs, !.clients = Append(@, c)]

-----------------------------------------------------------------------------
Between == kill = NoKill /\ UNCHANGED kill     \* the server is single threaded
Plain(c) == status[c] = "open" /\ flags[c] = {}

(* acceptCommonHandler *)
Accept(c) ==
  /\ Between /\ status[c] = "none"
  /\ LET S == Create(State, c, {})
     IN  Store(IF Len(S.clients) > MaxClients THEN FreeClient(S, c) ELSE S)

(* readQueryFromClient or sendReplyToClient finds the socket closed *)
Disconnect(c) == Between /\ status[c] = "open" /\ Store(FreeClient(State, c))

(* blockForKeys; processInputBuffer only looks whether the client is blocked *)
Block(c) ==
  /\ Between /\ status[c] = "open" /\ flags[c] \subseteq (IF BlocksAgain THEN {"unblocked"} ELSE {})
  /\ Store([State EXCEPT !.waiting = @ \cup {c}, !.f[c] = @ \cup {"blocked"}])

Serve(c) == Between /\ c \in waiting /\ Store(Unblock(State, c))

(* beforeSleep *)
ProcessUnblocked ==
  /\ Between /\ unblocked # <<>>
  /\ Store([State EXCEPT !.unblocked = Tail(@), !.f[Head(unblocked)] = @ \ {"unblocked"}])

(* QUIT, or a protocol error *)
CloseAfterReply(c) ==
  /\ Between /\ status[c] = "open" /\ "close_after_reply" \notin flags[c]
  /\ Store([State EXCEPT !.f[c] = @ \cup {"close_after_reply"}])

(* freeClientAsync *)
FreeAsync(c) ==
  /\ Between /\ status[c] = "open" /\ "close_asap" \notin flags[c]
  /\ Store([State EXCEPT !.f[c] = @ \cup {"close_asap"}, !.toClose = Append(@, c)])

(* freeClientsInAsyncFreeQueue *)
AsyncFree ==
  /\ Between /\ toClose # <<>>
  /\ LET c == Head(toClose)
         S == FreeClient([State EXCEPT !.f[c] = @ \ {"close_asap"}], c)
     IN  Store([S EXCEPT !.toClose = Without(@, c)])

(* syncCommand and monitorCommand: no slaves while the link to the own master is down *)
BecomeSlave(c) ==
  /\ Between /\ Plain(c) /\ (masterhost => master # None)
  /\ Store([State EXCEPT !.f[c] = {"slave"}, !.slaves = Append(@, c)])
BecomeMonitor(c) ==
  /\ Between /\ Plain(c)
  /\ Store([State EXCEPT !.f[c] = {"slave", "monitor"}, !.monitors = Append(@, c)])

(* A full resynchronisation has ended: the cached master is gone before it *)
MasterConnected(c) ==
  /\ Between /\ masterhost /\ master = None /\ status[c] = "none"
  /\ Store([Create(DiscardCached(State), c, {"master"}) EXCEPT !.master = c])

(* replicationResurrectCachedMaster *)
Resurrect ==
  /\ Between /\ masterhost /\ master = None /\ cached # None
  /\ Store([State EXCEPT !.master = cached, !.cached = None, !.st[cached] = "open",
                         !.f[cached] = @ \ {"close_after_reply", "close_asap"}, !.clients = Append(@, cached)])

(* slaveofCommand: replicationUnsetMaster, replicationSetMaster *)
SlaveofNoOne ==
  /\ Between /\ masterhost
  /\ LET s1 == [State EXCEPT !.host = FALSE]
     IN  Store(DiscardCached(IF master # None THEN FreeClient(s1, master) ELSE s1))
Slaveof ==
  /\ Between /\ LET s1 == [State EXCEPT !.host = TRUE]
                    s2 == IF master # None THEN FreeClient(s1, master) ELSE s1
                IN  Store(DiscardCached(DisconnectSlaves(s2)))

-----------------------------------------------------------------------------
NextOf(s, c) == IF c = s[Len(s)] THEN None ELSE s[(CHOOSE i \in DOMAIN s : s[i] = c) + 1]

(* clientCommand: CLIENT KILL, by a client that goes on *)
Kill(by, named) ==
  /\ kill = NoKill /\ Plain(by)
  /\ KillsMaster \/ \A c \in named : "master" \notin flags[c]
  /\ kill' = [by |-> by, named |-> named, next |-> clients[1]]
  /\ Store(State)

(* One turn of the loop: listNext has taken the next node before the client is freed *)
KillStep ==
  /\ kill.next \in Range(clients)
  /\ LET c == kill.next
     IN  /\ kill' = IF NextOf(clients, c) = None THEN NoKill ELSE [kill EXCEPT !.next = NextOf(clients, c)]
         /\ Store(IF c \notin kill.named THEN State
                  ELSE IF c = kill.by THEN [State EXCEPT !.f[c] = @ \cup {"close_after_reply"}]
                  ELSE FreeClient(State, c))

Next ==
  \/ \E c \in Client :
       \/ Accept(c) \/ Disconnect(c) \/ Block(c) \/ Serve(c) \/ CloseAfterReply(c) \/ FreeAsync(c)
       \/ BecomeSlave(c) \/ BecomeMonitor(c) \/ MasterConnected(c)
       \/ \E named \in SUBSET Client : Kill(c, named)
  \/ ProcessUnblocked \/ AsyncFree \/ Resurrect \/ SlaveofNoOne \/ Slaveof \/ KillStep

Spec == Init /\ [][Next]_vars

-----------------------------------------------------------------------------
IsIn(s, c) == Cardinality({i \in DOMAIN s : s[i] = c}) = 1
IsNotIn(s, c) == \A i \in DOMAIN s : s[i] # c
Exactly(s, P(_)) == \A c \in Client : IF P(c) THEN IsIn(s, c) ELSE IsNotIn(s, c)

(* Every list of the server has exactly the clients whose flags say so,    *)
(* once each: freeClient takes one node out of each, and a freed client    *)
(* that were left in one would be used later.  That no client blocks again *)
(* while it is still among the unblocked (BlocksAgain) is needed: it would *)
(* be appended to them twice (t_list.c:842).                               *)
ListsExact ==
  /\ Exactly(clients, LAMBDA c : status[c] = "open")
  /\ Exactly(slaves, LAMBDA c : "slave" \in flags[c] /\ "monitor" \notin flags[c])
  /\ Exactly(monitors, LAMBDA c : "monitor" \in flags[c])
  /\ Exactly(toClose, LAMBDA c : "close_asap" \in flags[c])
  /\ Exactly(unblocked, LAMBDA c : "unblocked" \in flags[c])
  /\ waiting = {c \in Client : "blocked" \in flags[c]}
  /\ \A c \in Client : (status[c] = "cached") = (c = cached) /\ ((c = master) => status[c] = "open")

(* A cached master has nothing under way with the server that could        *)
(* touch it before it is resurrected or discarded.                         *)
CachedIsQuiet == cached # None => flags[cached] = {"master"} /\ master = None

(* A slave whose own master is lost has no slaves: they would go on with   *)
(* a history that its next resynchronisation may replace.                  *)
NoOrphanSlaves == masterhost /\ master = None => slaves = <<>>

(* While a list is iterated only the current element is removed            *)
(* (adlist.c:208): the node the iterator goes on with is in the list.      *)
IteratorValid == kill.next # None => IsIn(clients, kill.next)

(* The client that asks for a CLIENT KILL is there for the reply.          *)
KillerStays == kill.by # None => status[kill.by] = "open"
=============================================================================

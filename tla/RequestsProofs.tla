--------------------------- MODULE RequestsProofs ---------------------------
(***************************************************************************)
(* WATCH, MULTI and EXEC, scripts, and the replies on their way to the     *)
(* socket, for every set of clients, keys and commands, every length of a  *)
(* reply and every limit.                                                  *)
(*                                                                         *)
(* Transactions.  A command threads the whole state w through the          *)
(* functions it calls, so the lemmas are about such a w: each function     *)
(* keeps Sound(w).  The lock needs the numbers of the changes to be        *)
(* Bounded: a key that is touched gets a number that no client has seen.   *)
(* SlaveFollows does not hold in the middle of EXEC, when the slave is     *)
(* queueing: there the data it will have after its queue is that of the    *)
(* master (Mirrors).                                                       *)
(*                                                                         *)
(* Scripts.  The event loop that runs inside a slow script threads a state *)
(* S: it keeps Attended(S), which says that the client of the script is    *)
(* the one client that no event can free.                                  *)
(*                                                                         *)
(* Replies.  What is to be sent is what follows the first k bytes of the   *)
(* buffer b and of what the list l holds (Line), with the deferred length  *)
(* d in the place of the node that waits for it.  Each way of adding a     *)
(* reply appends to Line and says what memory it takes; each write moves   *)
(* bytes from its front to the socket; the invariant follows from both.    *)
(***************************************************************************)
EXTENDS MCRequests, SequenceTheorems, WellFoundedInduction, TLAPS

Worlds == [srv : Server, cl : [Client -> ClientState], ghost : History, rep : Slave]

Locked(w) ==
  \A c \in Client :
    "DIRTY_CAS" \in w.cl[c].flags <=>
      \E k \in w.cl[c].watched : w.ghost.lastw[k] # w.ghost.seen[c][k]

Both(w) == \A c \in Client, k \in Key : k \in w.cl[c].watched <=> c \in w.srv.watched[k]

Bounded(w) ==
  \A k \in Key : /\ w.ghost.lastw[k] <= w.srv.writes
                 /\ \A c \in Client : w.ghost.seen[c][k] <= w.ghost.lastw[k]

Aborts(w) ==
  (\A reason \in Reason : Flags(reason)) =>
    \A c \in w.ghost.refused : "DIRTY_EXEC" \in w.cl[c].flags

Mirrors(w) ==
  /\ Replay(w.rep.dict, w.rep.queue) = w.srv.dict
  /\ ~w.rep.multi => w.rep.queue = <<>>

Sound(w) ==
  /\ w \in Worlds
  /\ Locked(w) /\ Both(w) /\ Bounded(w) /\ Aborts(w) /\ Mirrors(w)

-----------------------------------------------------------------------------
(* Induction on the naturals, with a set for the statement. *)
LEMMA NatInd ==
  ASSUME NEW S, 0 \in S, \A n \in Nat : n \in S => n + 1 \in S
  PROVE  Nat \subseteq S
<1> SUFFICES ASSUME NEW m \in Nat, m \notin S PROVE FALSE
  OBVIOUS
<1> DEFINE T == {n \in Nat : n \notin S}
<1>1. PICK x \in T : \A y \in T : ~(<<y, x>> \in OpToRel(<, Nat))
  <2>1. IsWellFoundedOn(OpToRel(<, Nat), Nat)
    BY NatLessThanWellFounded
  <2>2. T \subseteq Nat /\ T # {}
    OBVIOUS
  <2> HIDE DEF T
  <2> QED
    BY <2>1, <2>2, WFMin
<1>2. x # 0 /\ x \in Nat
  OBVIOUS
<1>3. x - 1 \in Nat /\ x - 1 < x
  BY <1>2
<1>4. x - 1 \in T
  <2>1. x - 1 \in S => x \in S
    BY <1>3
  <2> QED
    BY <1>3, <2>1
<1> QED
  BY <1>1, <1>2, <1>3, <1>4 DEF OpToRel

(* Values 0 to N, each made of the one before. *)
Chained(g, N, base, next) ==
  g[0] = base /\ \A k \in 1..N : g[k] = next[k][g[k-1]]

(* Such a chain exists. *)
LEMMA Chain ==
  ASSUME NEW V, NEW N \in Nat, NEW base \in V, NEW next \in [1..N -> [V -> V]]
  PROVE  \E g \in [0..N -> V] : Chained(g, N, base, next)
<1> DEFINE Starts(n) == {g \in [0..n -> V] : /\ g[0] = base
                                            /\ \A k \in 1..n : g[k] = next[k][g[k-1]]}
           E == {n \in Nat : n <= N => Starts(n) # {}}
<1>1. 0 \in E
  <2> DEFINE h == [k \in 0..0 |-> base]
  <2>1. h \in Starts(0)
    OBVIOUS
  <2> QED
    BY <2>1
<1>2. ASSUME NEW n \in Nat, n \in E PROVE n + 1 \in E
  <2> SUFFICES ASSUME n + 1 <= N PROVE Starts(n + 1) # {}
    OBVIOUS
  <2>1. PICK h : h \in Starts(n)
    BY <1>2
  <2> DEFINE j == [k \in 0..(n+1) |-> IF k = n + 1 THEN next[n+1][h[n]] ELSE h[k]]
  <2>2. j \in [0..(n+1) -> V]
    <3>1. h[n] \in V /\ n + 1 \in 1..N
      BY <2>1
    <3>2. next[n+1][h[n]] \in V
      BY <3>1
    <3> QED
      BY <2>1, <3>2
  <2>3. j[0] = base
    BY <2>1
  <2>4. ASSUME NEW k \in 1..(n+1) PROVE j[k] = next[k][j[k-1]]
    <3>1. CASE k = n + 1
      BY <2>1, <3>1
    <3>2. CASE k # n + 1
      BY <2>1, <3>2
    <3> QED
      BY <3>1, <3>2
  <2>5. j \in Starts(n + 1)
    BY <2>2, <2>3, <2>4
  <2> HIDE DEF j
  <2> QED
    BY <2>5
<1> HIDE DEF E
<1>3. N \in E
  BY <1>1, <1>2, NatInd
<1> QED
  BY <1>3 DEF E, Chained

-----------------------------------------------------------------------------
Data == [Key -> Nat]
Entry == [cmd : Commands, v : Nat]

(* A command turns data into data. *)
LEMMA EffectType ==
  ASSUME NEW d \in Data, NEW cmd, NEW v \in Nat
  PROVE  Effect(d, cmd, v) \in Data
BY DEF Data, Effect, Absent

(* Executing a queue goes through a chain of data, one for each command. *)
LEMMA ReplayChain ==
  ASSUME NEW d \in Data, NEW q \in Seq(Entry)
  PROVE  \E g \in [0..Len(q) -> Data] :
           /\ g[0] = d
           /\ \A k \in 1..Len(q) : g[k] = Effect(g[k-1], q[k].cmd, q[k].v)
           /\ Replay(d, q) = g[Len(q)]
<1> DEFINE N == Len(q)
           next == [k \in 1..N |-> [x \in Data |-> Effect(x, q[k].cmd, q[k].v)]]
           Solves(g) == g = [n \in 0..N |->
             IF n = 0 THEN d ELSE Effect(g[n-1], q[n].cmd, q[n].v)]
<1>1. N \in Nat /\ \A k \in 1..N : q[k] \in Entry
  OBVIOUS
<1>2. PICK g \in [0..N -> Data] : g[0] = d /\ \A k \in 1..N : g[k] = next[k][g[k-1]]
  <2>1. next \in [1..N -> [Data -> Data]]
    <3>1. \A k \in 1..N, x \in Data : Effect(x, q[k].cmd, q[k].v) \in Data
      BY <1>1, EffectType DEF Entry
    <3> QED
      BY <3>1
  <2>2. N \in Nat
    BY <1>1
  <2> HIDE DEF next, N
  <2>3. \E g \in [0..N -> Data] : Chained(g, N, d, next)
    BY <2>1, <2>2, Chain
  <2> QED
    BY <2>3 DEF Chained
<1>3. \A k \in 1..N : k - 1 \in 0..N /\ g[k-1] \in Data
  BY <1>1, <1>2
<1>4. \A k \in 1..N : g[k] = Effect(g[k-1], q[k].cmd, q[k].v)
  BY <1>2, <1>3
<1>5. Solves(g)
  BY <1>1, <1>2, <1>4
<1> DEFINE h == CHOOSE f : Solves(f)
<1>6. Replay(d, q) = h[N]
  BY Zenon DEF Replay
<1>7. Solves(h)
  <2> HIDE DEF Solves
  <2> QED
    BY <1>5
<1> HIDE DEF h
<1>8. h[0] = d /\ \A k \in 1..N : h[k] = Effect(h[k-1], q[k].cmd, q[k].v)
  BY <1>1, <1>7
<1>9. \A k \in 0..N : h[k] = g[k]
  <2> DEFINE E == {n \in Nat : n <= N => h[n] = g[n]}
  <2>1. 0 \in E
    BY <1>2, <1>8
  <2>2. ASSUME NEW n \in Nat, n \in E PROVE n + 1 \in E
    <3> SUFFICES ASSUME n + 1 <= N PROVE h[n+1] = g[n+1]
      OBVIOUS
    <3>1. n + 1 \in 1..N /\ (n + 1) - 1 = n /\ h[n] = g[n]
      BY <1>1, <2>2
    <3>2. h[n+1] = Effect(h[(n+1)-1], q[n+1].cmd, q[n+1].v)
      BY <1>8, <3>1
    <3>3. g[n+1] = Effect(g[(n+1)-1], q[n+1].cmd, q[n+1].v)
      BY <1>4, <3>1
    <3> QED
      BY <3>1, <3>2, <3>3
  <2> HIDE DEF E
  <2>3. Nat \subseteq E
    BY <2>1, <2>2, NatInd
  <2> QED
    BY <1>1, <2>3 DEF E
<1>10. Replay(d, q) = g[N]
  BY <1>1, <1>6, <1>9
<1> QED
  BY <1>2, <1>4, <1>10

(* An empty queue changes nothing. *)
LEMMA ReplayEmpty ==
  ASSUME NEW d \in Data
  PROVE  Replay(d, <<>>) = d
<1> DEFINE none == <<>>
<1>1. none \in Seq(Entry) /\ Len(none) = 0
  OBVIOUS
<1> HIDE DEF none
<1>2. PICK g \in [0..Len(none) -> Data] :
        /\ g[0] = d
        /\ \A k \in 1..Len(none) : g[k] = Effect(g[k-1], none[k].cmd, none[k].v)
        /\ Replay(d, none) = g[Len(none)]
  BY <1>1, ReplayChain
<1> QED
  BY <1>1, <1>2 DEF none

(* A command at the end of the queue is executed last. *)
LEMMA ReplayAppend ==
  ASSUME NEW d \in Data, NEW q \in Seq(Entry), NEW cmd \in Commands, NEW v \in Nat
  PROVE  Replay(d, Append(q, [cmd |-> cmd, v |-> v])) = Effect(Replay(d, q), cmd, v)
<1> DEFINE e == [cmd |-> cmd, v |-> v]
           r == Append(q, e)
           N == Len(q)
<1>1. /\ e \in Entry /\ e.cmd = cmd /\ e.v = v
      /\ r \in Seq(Entry) /\ Len(r) = N + 1 /\ N \in Nat
      /\ r[N+1] = e /\ \A k \in 1..N : r[k] = q[k]
  BY DEF Entry
<1>2. PICK g \in [0..N -> Data] :
        /\ g[0] = d
        /\ \A k \in 1..N : g[k] = Effect(g[k-1], q[k].cmd, q[k].v)
        /\ Replay(d, q) = g[N]
  BY ReplayChain
<1> HIDE DEF r, e
<1>3. PICK h \in [0..Len(r) -> Data] :
        /\ h[0] = d
        /\ \A k \in 1..Len(r) : h[k] = Effect(h[k-1], r[k].cmd, r[k].v)
        /\ Replay(d, r) = h[Len(r)]
  BY <1>1, ReplayChain
<1>4. \A k \in 0..N : h[k] = g[k]
  <2> DEFINE E == {n \in Nat : n <= N => h[n] = g[n]}
  <2>1. 0 \in E
    BY <1>2, <1>3
  <2>2. ASSUME NEW n \in Nat, n \in E PROVE n + 1 \in E
    <3> SUFFICES ASSUME n + 1 <= N PROVE h[n+1] = g[n+1]
      OBVIOUS
    <3>1. /\ n + 1 \in 1..N /\ n + 1 \in 1..Len(r) /\ (n + 1) - 1 = n
          /\ h[n] = g[n] /\ r[n+1] = q[n+1]
      BY <1>1, <2>2
    <3>2. h[n+1] = Effect(h[(n+1)-1], r[n+1].cmd, r[n+1].v)
      BY <1>3, <3>1
    <3>3. g[n+1] = Effect(g[(n+1)-1], q[n+1].cmd, q[n+1].v)
      BY <1>2, <3>1
    <3> QED
      BY <3>1, <3>2, <3>3
  <2> HIDE DEF E
  <2>3. Nat \subseteq E
    BY <2>1, <2>2, NatInd
  <2> QED
    BY <1>1, <2>3 DEF E
<1>5. /\ N + 1 \in 1..Len(r) /\ (N + 1) - 1 = N /\ h[N] = g[N]
      /\ Replay(d, r) = h[N+1]
  BY <1>1, <1>3, <1>4
<1>6. h[N+1] = Effect(h[(N+1)-1], r[N+1].cmd, r[N+1].v)
  BY <1>3, <1>5
<1> QED
  BY <1>1, <1>2, <1>5, <1>6 DEF r, e

-----------------------------------------------------------------------------
(* The parts of a state, and a state made of parts. *)
LEMMA WorldParts ==
  ASSUME NEW w \in Worlds
  PROVE  /\ w.srv.dict \in Data /\ w.srv.watched \in [Key -> SUBSET Client]
         /\ w.srv.writes \in Nat /\ w.srv.refusals \in Nat
         /\ w.cl \in [Client -> ClientState]
         /\ \A c \in Client : /\ w.cl[c].watched \in SUBSET Key
                              /\ w.cl[c].queue \in Seq(Commands)
                              /\ w.cl[c].flags \in SUBSET {"MULTI", "DIRTY_CAS", "DIRTY_EXEC"}
         /\ w.ghost.lastw \in [Key -> Nat] /\ w.ghost.seen \in [Client -> [Key -> Nat]]
         /\ w.ghost.refused \in SUBSET Client
         /\ w.rep.dict \in Data /\ w.rep.queue \in Seq(Entry) /\ w.rep.multi \in BOOLEAN
         /\ w.srv \in Server /\ w.ghost \in History /\ w.rep \in Slave
BY DEF Worlds, Server, ClientState, History, Slave, Data, Entry

(* A touched client is dirty, and otherwise as before. *)
LEMMA DirtyFacts ==
  ASSUME NEW x \in ClientState
  PROVE  /\ Dirty(x) \in ClientState
         /\ Dirty(x).flags = x.flags \cup {"DIRTY_CAS"}
         /\ Dirty(x).watched = x.watched
         /\ Dirty(x).queue = x.queue
BY DEF Dirty, ClientState

(* The clients that a command touches are those that watch a key that it   *)
(* changes, whichever of the two lists it looks in.                        *)
Touched(w, cmd) ==
  IF cmd.op = "flushdb" THEN TouchWatchedKeysOnFlush(w)
                        ELSE TouchWatchedKeys(w, Changes(w.srv.dict, cmd))

LEMMA TouchedFacts ==
  ASSUME NEW w \in Worlds, Both(w), NEW cmd \in Commands
  PROVE  /\ Touched(w, cmd) \in [Client -> ClientState]
         /\ \A c \in Client :
              Touched(w, cmd)[c] =
                IF \E k \in Changes(w.srv.dict, cmd) : k \in w.cl[c].watched
                THEN Dirty(w.cl[c]) ELSE w.cl[c]
<1>1. Changes(w.srv.dict, cmd) \subseteq Key
  BY DEF Changes
<1>2. ASSUME NEW c \in Client
      PROVE  Touched(w, cmd)[c] =
               IF \E k \in Changes(w.srv.dict, cmd) : k \in w.cl[c].watched
               THEN Dirty(w.cl[c]) ELSE w.cl[c]
  <2>1. w.cl[c].watched \subseteq Key
    BY WorldParts
  <2>2. CASE cmd.op = "flushdb"
    <3>1. (\E k \in w.cl[c].watched : w.srv.dict[k] # Absent)
            <=> \E k \in Changes(w.srv.dict, cmd) : k \in w.cl[c].watched
      BY <2>1, <2>2 DEF Changes
    <3> QED
      BY <2>2, <3>1 DEF Touched, TouchWatchedKeysOnFlush
  <2>3. CASE cmd.op # "flushdb"
    <3>1. (\E k \in Changes(w.srv.dict, cmd) : c \in w.srv.watched[k])
            <=> \E k \in Changes(w.srv.dict, cmd) : k \in w.cl[c].watched
      BY <1>1 DEF Both
    <3> QED
      BY <2>3, <3>1 DEF Touched, TouchWatchedKeys
  <2> QED
    BY <2>2, <2>3
<1>3. \A c \in Client : w.cl[c] \in ClientState /\ Dirty(w.cl[c]) \in ClientState
  BY WorldParts, DirtyFacts
<1>4. Touched(w, cmd) = [c \in Client |-> Touched(w, cmd)[c]]
  BY DEF Touched, TouchWatchedKeysOnFlush, TouchWatchedKeys
<1>5. \A c \in Client : Touched(w, cmd)[c] \in ClientState
  BY <1>2, <1>3
<1> QED
  BY <1>2, <1>4, <1>5

(* What a slave does with a command: it mirrors the master that executed   *)
(* it, whether it executes it or queues it.                                *)
LEMMA PropagateFacts ==
  ASSUME NEW r \in Slave, NEW d \in Data, NEW cmd \in Commands, NEW v \in Nat,
         Replay(r.dict, r.queue) = d, ~r.multi => r.queue = <<>>
  PROVE  LET s == Propagate(r, cmd, v)
         IN  /\ s \in Slave
             /\ s.multi = r.multi
             /\ Replay(s.dict, s.queue) = Effect(d, cmd, v)
             /\ ~s.multi => s.queue = <<>>
<1>1. r.dict \in Data /\ r.queue \in Seq(Entry) /\ r.multi \in BOOLEAN
  BY DEF Slave, Data, Entry
<1> DEFINE s == Propagate(r, cmd, v)
           e == [cmd |-> cmd, v |-> v]
<1>2. e \in Entry /\ Append(r.queue, e) \in Seq(Entry)
  BY <1>1 DEF Entry
<1>3. CASE r.multi
  <2>1. s \in Slave /\ s.multi = r.multi /\ s.dict = r.dict /\ s.queue = Append(r.queue, e)
    BY <1>1, <1>2, <1>3 DEF Propagate, Slave, Data, Entry
  <2>2. Replay(r.dict, Append(r.queue, e)) = Effect(d, cmd, v)
    BY <1>1, ReplayAppend
  <2> QED
    BY <1>3, <2>1, <2>2
<1>4. CASE ~r.multi
  <2>1. Effect(r.dict, cmd, v) \in Data
    BY <1>1, EffectType
  <2>2. /\ s \in Slave /\ s.multi = r.multi /\ s.dict = Effect(r.dict, cmd, v)
        /\ s.queue = r.queue
    BY <1>1, <1>4, <2>1 DEF Propagate, Slave, Data
  <2>3. r.queue = <<>> /\ r.dict = d
    BY <1>1, <1>4, ReplayEmpty
  <2> QED
    BY <2>1, <2>2, <2>3, ReplayEmpty
<1> QED
  BY <1>1, <1>3, <1>4

-----------------------------------------------------------------------------
(* A command that is executed keeps a state sound. *)
LEMMA CallSound ==
  ASSUME NEW w, Sound(w), NEW cmd \in Commands
  PROVE  Sound(Call(w, cmd)) /\ Call(w, cmd).rep.multi = w.rep.multi
<1> DEFINE ks == Changes(w.srv.dict, cmd)
           v == w.srv.writes + 1
           z == Call(w, cmd)
<1> SUFFICES Sound(z) /\ z.rep.multi = w.rep.multi
  OBVIOUS
<1>1. CASE ks = {}
  <2>1. z = w
    BY <1>1 DEF Call
  <2> QED
    BY <2>1
<1>2. CASE ks # {}
  <2>1. w \in Worlds /\ Locked(w) /\ Both(w) /\ Bounded(w) /\ Aborts(w) /\ Mirrors(w)
    BY DEF Sound
  <2>2. /\ w.srv.dict \in Data /\ w.srv.watched \in [Key -> SUBSET Client]
        /\ w.srv.writes \in Nat /\ w.srv.refusals \in Nat
        /\ w.ghost.lastw \in [Key -> Nat] /\ w.ghost.seen \in [Client -> [Key -> Nat]]
        /\ w.ghost.refused \in SUBSET Client
        /\ w.srv \in Server /\ w.ghost \in History /\ w.rep \in Slave
        /\ \A c \in Client : w.cl[c] \in ClientState /\ w.cl[c].watched \in SUBSET Key
    BY <2>1, WorldParts
  <2> DEFINE s == [w.srv EXCEPT !.dict = Effect(@, cmd, v), !.writes = v]
             g == [w.ghost EXCEPT !.lastw = [k \in Key |-> IF k \in ks THEN v ELSE @[k]]]
             x == Touched(w, cmd)
             r == Propagate(w.rep, cmd, v)
  <2>3. z = [srv |-> s, cl |-> x, ghost |-> g, rep |-> r]
    BY <1>2 DEF Call, Touched
  <2>4. v \in Nat /\ ks \subseteq Key
    BY <2>2 DEF Changes
  <2>5. Effect(w.srv.dict, cmd, v) \in Data
    BY <2>2, <2>4, EffectType
  <2>6. /\ s \in Server /\ s.dict = Effect(w.srv.dict, cmd, v) /\ s.writes = v
        /\ s.watched = w.srv.watched
    BY <2>2, <2>4, <2>5 DEF Server, Data
  <2>7. /\ g \in History /\ g.seen = w.ghost.seen /\ g.refused = w.ghost.refused
        /\ \A k \in Key : g.lastw[k] = IF k \in ks THEN v ELSE w.ghost.lastw[k]
    BY <2>2, <2>4 DEF History
  <2>8. /\ x \in [Client -> ClientState]
        /\ \A c \in Client : x[c] = IF \E k \in ks : k \in w.cl[c].watched
                                    THEN Dirty(w.cl[c]) ELSE w.cl[c]
    BY <2>1, TouchedFacts
  <2>9. /\ r \in Slave /\ r.multi = w.rep.multi
        /\ Replay(r.dict, r.queue) = Effect(w.srv.dict, cmd, v)
        /\ ~r.multi => r.queue = <<>>
    BY <2>1, <2>2, <2>4, PropagateFacts DEF Mirrors
  <2>10. \A c \in Client :
           /\ x[c].watched = w.cl[c].watched
           /\ x[c].flags = w.cl[c].flags
                \cup IF \E k \in ks : k \in w.cl[c].watched THEN {"DIRTY_CAS"} ELSE {}
    <3> SUFFICES ASSUME NEW c \in Client
                 PROVE  /\ x[c].watched = w.cl[c].watched
                        /\ x[c].flags = w.cl[c].flags
                             \cup IF \E k \in ks : k \in w.cl[c].watched
                                  THEN {"DIRTY_CAS"} ELSE {}
      OBVIOUS
    <3>1. CASE \E k \in ks : k \in w.cl[c].watched
      <4>1. x[c] = Dirty(w.cl[c])
        BY <2>8, <3>1
      <4> HIDE DEF x, ks
      <4> QED
        BY <2>2, <3>1, <4>1, DirtyFacts
    <3>2. CASE ~ \E k \in ks : k \in w.cl[c].watched
      <4>1. x[c] = w.cl[c]
        BY <2>8, <3>2
      <4> HIDE DEF x, ks
      <4> QED
        BY <2>2, <3>2, <4>1
    <3> QED
      BY <3>1, <3>2
  <2>11. z.srv = s /\ z.cl = x /\ z.ghost = g /\ z.rep = r
    BY <2>3
  <2> HIDE DEF s, g, x, r, z, ks
  <2>12. z \in Worlds
    BY <2>3, <2>6, <2>7, <2>8, <2>9 DEF Worlds
  <2>13. Bounded(z)
    BY <2>1, <2>2, <2>4, <2>6, <2>7, <2>11 DEF Bounded
  <2>14. Both(z)
    BY <2>1, <2>6, <2>10, <2>11 DEF Both
  <2>15. Aborts(z)
    BY <2>1, <2>2, <2>7, <2>10, <2>11 DEF Aborts
  <2>16. Mirrors(z)
    BY <2>6, <2>9, <2>11 DEF Mirrors
  <2>17. Locked(z)
    <3> SUFFICES ASSUME NEW c \in Client
                 PROVE  "DIRTY_CAS" \in x[c].flags <=>
                          \E k \in x[c].watched : g.lastw[k] # g.seen[c][k]
      BY <2>11 DEF Locked
    <3>1. \A k \in Key : w.ghost.seen[c][k] # v
      BY <2>1, <2>2 DEF Bounded
    <3>2. "DIRTY_CAS" \in w.cl[c].flags <=>
            \E k \in w.cl[c].watched : w.ghost.lastw[k] # w.ghost.seen[c][k]
      BY <2>1 DEF Locked
    <3>3. "DIRTY_CAS" \in x[c].flags <=>
            "DIRTY_CAS" \in w.cl[c].flags \/ \E k \in ks : k \in w.cl[c].watched
      BY <2>10
    <3>4. \A k \in w.cl[c].watched :
            g.lastw[k] # g.seen[c][k] <=> k \in ks \/ w.ghost.lastw[k] # w.ghost.seen[c][k]
      BY <2>2, <2>7, <3>1
    <3> QED
      BY <2>10, <3>2, <3>3, <3>4
  <2> QED
    BY <2>9, <2>11, <2>12, <2>13, <2>14, <2>15, <2>16, <2>17 DEF Sound
<1> QED
  BY <1>1, <1>2

-----------------------------------------------------------------------------
(* State z is state w after client c has stopped watching. *)
Left(w, z, c) ==
  /\ z \in Worlds
  /\ z.rep = w.rep
  /\ z.srv.dict = w.srv.dict /\ z.srv.writes = w.srv.writes
  /\ \A k \in Key : z.srv.watched[k] = w.srv.watched[k] \ {c}
  /\ \A d \in Client : d # c => z.cl[d] = w.cl[d]
  /\ z.cl[c].watched = {}
  /\ z.ghost.lastw = w.ghost.lastw /\ z.ghost.seen = w.ghost.seen
  /\ z.ghost.refused \subseteq w.ghost.refused

(* A client that has stopped watching must not be left dirty, and must be  *)
(* left refused only if EXEC will abort.                                   *)
LEMMA LeftSound ==
  ASSUME NEW w, Sound(w), NEW c \in Client, NEW z, Left(w, z, c),
         "DIRTY_CAS" \notin z.cl[c].flags,
         c \notin z.ghost.refused \/ z.cl[c].flags = w.cl[c].flags
  PROVE  Sound(z)
<1>1. w \in Worlds /\ Locked(w) /\ Both(w) /\ Bounded(w) /\ Aborts(w) /\ Mirrors(w)
  BY DEF Sound
<1>2. w.srv.watched \in [Key -> SUBSET Client] /\ w.ghost.refused \in SUBSET Client
  BY <1>1, WorldParts
<1>3. Locked(z)
  BY <1>1 DEF Locked, Left
<1>4. Both(z)
  <2> SUFFICES ASSUME NEW d \in Client, NEW k \in Key
               PROVE  k \in z.cl[d].watched <=> d \in z.srv.watched[k]
    BY DEF Both
  <2>1. k \in w.cl[d].watched <=> d \in w.srv.watched[k]
    BY <1>1 DEF Both
  <2> QED
    BY <2>1 DEF Left
<1>5. Bounded(z)
  BY <1>1 DEF Bounded, Left
<1>6. Aborts(z)
  BY <1>1, <1>2 DEF Aborts, Left
<1>7. Mirrors(z)
  BY <1>1 DEF Mirrors, Left
<1> QED
  BY <1>3, <1>4, <1>5, <1>6, <1>7 DEF Sound, Left

(* What unwatchAllKeys leaves. *)
LEMMA UnwatchFacts ==
  ASSUME NEW w \in Worlds, Both(w), NEW c \in Client
  PROVE  LET u == UnwatchAllKeys(w, c)
         IN  /\ Left(w, u, c)
             /\ u.ghost = w.ghost
             /\ u.cl[c].flags = w.cl[c].flags
             /\ u.cl[c].queue = w.cl[c].queue
<1> DEFINE u == UnwatchAllKeys(w, c)
           W == [k \in Key |-> IF k \in w.cl[c].watched THEN w.srv.watched[k] \ {c}
                                                        ELSE w.srv.watched[k]]
           s == [w.srv EXCEPT !.watched = W]
           x == [w.cl[c] EXCEPT !.watched = {}]
           y == [w.cl EXCEPT ![c] = x]
<1>1. /\ w.srv \in Server /\ w.cl \in [Client -> ClientState] /\ w.cl[c] \in ClientState
      /\ w.srv.watched \in [Key -> SUBSET Client] /\ w.ghost \in History /\ w.rep \in Slave
  BY WorldParts
<1>2. W \in [Key -> SUBSET Client]
  BY <1>1
<1>3. \A k \in Key : W[k] = w.srv.watched[k] \ {c}
  BY <1>1 DEF Both
<1>4. u = [w EXCEPT !.srv = s, !.cl = y]
  BY DEF UnwatchAllKeys
<1> HIDE DEF W
<1>5. s \in Server /\ s.dict = w.srv.dict /\ s.writes = w.srv.writes /\ s.watched = W
  BY <1>1, <1>2 DEF Server
<1>6. x \in ClientState /\ x.watched = {} /\ x.flags = w.cl[c].flags /\ x.queue = w.cl[c].queue
  BY <1>1 DEF ClientState
<1> HIDE DEF x, s
<1>7. /\ y \in [Client -> ClientState] /\ y[c] = x
      /\ \A d \in Client : d # c => y[d] = w.cl[d]
  BY <1>1, <1>6
<1> HIDE DEF y, u
<1>8. u.srv = s /\ u.cl = y /\ u.ghost = w.ghost /\ u.rep = w.rep
  BY <1>4 DEF Worlds
<1>9. u \in Worlds
  BY <1>4, <1>5, <1>7 DEF Worlds
<1> QED
  BY <1>3, <1>5, <1>6, <1>7, <1>8, <1>9 DEF Left, u

(* discardTransaction, and the end of a client, keep a state sound. *)
LEMMA DiscardSound ==
  ASSUME NEW w, Sound(w), NEW c \in Client
  PROVE  Sound(DiscardTransaction(w, c)) /\ DiscardTransaction(w, c).rep = w.rep
<1> DEFINE u == UnwatchAllKeys(w, c)
           z == [u EXCEPT !.cl[c] = NewClient, !.ghost.refused = @ \ {c}]
           g == [u.ghost EXCEPT !.refused = @ \ {c}]
           y == [u.cl EXCEPT ![c] = NewClient]
<1>1. z = DiscardTransaction(w, c)
  BY DEF DiscardTransaction
<1>2. Left(w, u, c) /\ u.ghost = w.ghost
  <2>1. w \in Worlds /\ Both(w)
    BY DEF Sound
  <2> QED
    BY <2>1, UnwatchFacts
<1> HIDE DEF u
<1>3. u \in Worlds /\ u.cl \in [Client -> ClientState] /\ u.ghost \in History
  BY <1>2, WorldParts DEF Left
<1>4. z = [u EXCEPT !.cl = y, !.ghost = g]
  OBVIOUS
<1>5. g \in History /\ g.lastw = u.ghost.lastw /\ g.seen = u.ghost.seen
      /\ g.refused = u.ghost.refused \ {c}
  BY <1>3 DEF History
<1>6. NewClient \in ClientState /\ NewClient.watched = {} /\ NewClient.flags = {}
  BY DEF NewClient, ClientState
<1>7. /\ y \in [Client -> ClientState] /\ y[c] = NewClient
      /\ \A d \in Client : d # c => y[d] = u.cl[d]
  BY <1>3, <1>6
<1> HIDE DEF g, y, z
<1>8. z \in Worlds /\ z.srv = u.srv /\ z.cl = y /\ z.ghost = g /\ z.rep = u.rep
  BY <1>3, <1>4, <1>5, <1>7 DEF Worlds
<1>9. Left(w, z, c)
  BY <1>2, <1>5, <1>6, <1>7, <1>8 DEF Left
<1>10. "DIRTY_CAS" \notin z.cl[c].flags /\ c \notin z.ghost.refused
  BY <1>5, <1>6, <1>7, <1>8
<1>11. Sound(z)
  BY <1>9, <1>10, LeftSound
<1> QED
  BY <1>1, <1>9, <1>11 DEF Left

-----------------------------------------------------------------------------
(* MULTI, propagated before the first write of a transaction. *)
LEMMA MultiSound ==
  ASSUME NEW w, Sound(w)
  PROVE  LET z == [w EXCEPT !.rep = PropagateMulti(@)] IN Sound(z) /\ z.rep.multi
<1> DEFINE r == PropagateMulti(w.rep)
           z == [w EXCEPT !.rep = r]
<1>1. w \in Worlds /\ Locked(w) /\ Both(w) /\ Bounded(w) /\ Aborts(w) /\ Mirrors(w)
  BY DEF Sound
<1>2. w.rep \in Slave
  BY <1>1, WorldParts
<1>3. r \in Slave /\ r.multi /\ r.dict = w.rep.dict /\ r.queue = w.rep.queue
  BY <1>2 DEF PropagateMulti, Slave
<1> HIDE DEF r
<1>4. z \in Worlds /\ z.srv = w.srv /\ z.cl = w.cl /\ z.ghost = w.ghost /\ z.rep = r
  BY <1>1, <1>3 DEF Worlds
<1> SUFFICES Sound(z) /\ z.rep.multi
  BY DEF r
<1> HIDE DEF z
<1>5. Locked(z) /\ Both(z) /\ Bounded(z)
  BY <1>1, <1>4 DEF Locked, Both, Bounded
<1>6. Aborts(z)
  BY <1>1, <1>4 DEF Aborts
<1>7. Mirrors(z)
  BY <1>1, <1>3, <1>4 DEF Mirrors
<1> QED
  BY <1>3, <1>4, <1>5, <1>6, <1>7 DEF Sound

(* One turn of the loop of execCommand. *)
Turn(u, q, n) ==
  Call(IF FirstWrite(q, n) THEN [u EXCEPT !.rep = PropagateMulti(@)] ELSE u, q[n])

LEMMA TurnSound ==
  ASSUME NEW u, Sound(u), NEW q \in Seq(Commands), NEW n \in 1..Len(q)
  PROVE  /\ Sound(Turn(u, q, n))
         /\ Turn(u, q, n).rep.multi <=> u.rep.multi \/ FirstWrite(q, n)
<1>1. q[n] \in Commands
  OBVIOUS
<1>2. CASE FirstWrite(q, n)
  <2> DEFINE z == [u EXCEPT !.rep = PropagateMulti(@)]
  <2>1. Sound(z) /\ z.rep.multi
    BY MultiSound
  <2>2. Turn(u, q, n) = Call(z, q[n])
    BY <1>2 DEF Turn
  <2> HIDE DEF z
  <2>3. Sound(Call(z, q[n])) /\ Call(z, q[n]).rep.multi = z.rep.multi
    BY <1>1, <2>1, CallSound
  <2> QED
    BY <1>2, <2>1, <2>2, <2>3
<1>3. CASE ~FirstWrite(q, n)
  <2>1. Turn(u, q, n) = Call(u, q[n])
    BY <1>3 DEF Turn
  <2>2. Sound(Call(u, q[n])) /\ Call(u, q[n]).rep.multi = u.rep.multi
    BY <1>1, CallSound
  <2> QED
    BY <1>3, <2>1, <2>2
<1> QED
  BY <1>2, <1>3

(* The loop keeps the state sound, and MULTI was propagated if and only if *)
(* the queue has a write.                                                  *)
LEMMA ExecutedSound ==
  ASSUME NEW w, Sound(w), ~w.rep.multi, NEW q \in Seq(Commands)
  PROVE  /\ Sound(Executed(w, q))
         /\ Executed(w, q).rep.multi <=> \E n \in 1..Len(q) : ~ReadOnly(q[n])
<1> DEFINE N == Len(q)
           V == {u \in Worlds : Sound(u)}
           next == [k \in 1..N |-> [u \in V |-> Turn(u, q, k)]]
           Solves(g) == g = [n \in 0..N |-> IF n = 0 THEN w ELSE Turn(g[n-1], q, n)]
<1>1. N \in Nat /\ w \in V
  BY DEF Sound
<1>2. PICK g \in [0..N -> V] : g[0] = w /\ \A k \in 1..N : g[k] = next[k][g[k-1]]
  <2>1. next \in [1..N -> [V -> V]]
    <3>1. \A k \in 1..N, u \in V : Turn(u, q, k) \in V
      BY TurnSound DEF Sound
    <3> HIDE DEF V, N
    <3> QED
      BY <3>1
  <2>2. N \in Nat /\ w \in V
    BY <1>1
  <2> HIDE DEF next, N, V
  <2>3. \E g \in [0..N -> V] : Chained(g, N, w, next)
    BY <2>1, <2>2, Chain
  <2> QED
    BY <2>3 DEF Chained
<1> HIDE DEF V
<1>3. \A k \in 1..N : k - 1 \in 0..N /\ g[k-1] \in V
  BY <1>1, <1>2
<1>4. \A k \in 1..N : g[k] = Turn(g[k-1], q, k)
  BY <1>2, <1>3
<1>5. Solves(g)
  BY <1>1, <1>2, <1>4
<1> DEFINE h == CHOOSE f : Solves(f)
<1>6. Executed(w, q) = h[N]
  BY Zenon DEF Executed, Turn
<1>7. Solves(h)
  <2> HIDE DEF Solves
  <2> QED
    BY <1>5
<1> HIDE DEF h
<1>8. h[0] = w /\ \A k \in 1..N : h[k] = Turn(h[k-1], q, k)
  BY <1>1, <1>7
<1>9. \A k \in 0..N : h[k] = g[k]
  <2> DEFINE E == {n \in Nat : n <= N => h[n] = g[n]}
  <2>1. 0 \in E
    BY <1>2, <1>8
  <2>2. ASSUME NEW n \in Nat, n \in E PROVE n + 1 \in E
    <3> SUFFICES ASSUME n + 1 <= N PROVE h[n+1] = g[n+1]
      OBVIOUS
    <3>1. n + 1 \in 1..N /\ (n + 1) - 1 = n /\ h[n] = g[n]
      BY <1>1, <2>2
    <3>2. h[n+1] = Turn(h[(n+1)-1], q, n+1)
      BY <1>8, <3>1
    <3>3. g[n+1] = Turn(g[(n+1)-1], q, n+1)
      BY <1>4, <3>1
    <3> QED
      BY <3>1, <3>2, <3>3
  <2> HIDE DEF E
  <2>3. Nat \subseteq E
    BY <2>1, <2>2, NatInd
  <2> QED
    BY <1>1, <2>3 DEF E
<1>10. Executed(w, q) = g[N] /\ N \in 0..N
  BY <1>1, <1>6, <1>9
<1>11. \A n \in 0..N : g[n].rep.multi <=> \E j \in 1..n : ~ReadOnly(q[j])
  <2> DEFINE E == {n \in Nat : n <= N =>
                     (g[n].rep.multi <=> \E j \in 1..n : ~ReadOnly(q[j]))}
  <2>1. 0 \in E
    BY <1>2
  <2>2. ASSUME NEW n \in Nat, n \in E PROVE n + 1 \in E
    <3> SUFFICES ASSUME n + 1 <= N
                 PROVE  g[n+1].rep.multi <=> \E j \in 1..(n+1) : ~ReadOnly(q[j])
      OBVIOUS
    <3>1. n + 1 \in 1..N /\ (n + 1) - 1 = n /\ n \in 0..N
      BY <1>1
    <3>2. g[n+1] = Turn(g[n], q, n+1)
      BY <1>4, <3>1
    <3>3. Sound(g[n])
      BY <1>2, <3>1 DEF V
    <3>4. g[n+1].rep.multi <=> g[n].rep.multi \/ FirstWrite(q, n+1)
      BY <3>1, <3>2, <3>3, TurnSound
    <3>5. g[n].rep.multi <=> \E j \in 1..n : ~ReadOnly(q[j])
      BY <2>2, <3>1
    <3>6. FirstWrite(q, n+1) <=> ~ReadOnly(q[n+1]) /\ \A j \in 1..n : ReadOnly(q[j])
      BY <3>1 DEF FirstWrite
    <3>7. \A j : j \in 1..(n+1) <=> j \in 1..n \/ j = n + 1
      OBVIOUS
    <3> QED
      BY <3>4, <3>5, <3>6, <3>7
  <2> HIDE DEF E
  <2>3. Nat \subseteq E
    BY <2>1, <2>2, NatInd
  <2> QED
    BY <1>1, <2>3 DEF E
<1> QED
  BY <1>2, <1>10, <1>11 DEF V

(* execCommand keeps a state sound and leaves no slave in a transaction. *)
LEMMA ExecSound ==
  ASSUME NEW w, Sound(w), ~w.rep.multi, NEW c \in Client
  PROVE  Sound(ExecCommand(w, c)) /\ ~ExecCommand(w, c).rep.multi
<1> DEFINE q == w.cl[c].queue
           u == UnwatchAllKeys(w, c)
           e == Executed(u, q)
           done == DiscardTransaction(e, c)
           z == ExecCommand(w, c)
<1> SUFFICES Sound(z) /\ ~z.rep.multi
  OBVIOUS
<1>1. CASE w.cl[c].flags \cap {"DIRTY_CAS", "DIRTY_EXEC"} # {}
  <2>1. z = DiscardTransaction(w, c)
    BY <1>1 DEF ExecCommand
  <2> HIDE DEF z
  <2> QED
    BY <2>1, DiscardSound
<1>2. CASE w.cl[c].flags \cap {"DIRTY_CAS", "DIRTY_EXEC"} = {}
  <2>1. w \in Worlds /\ Both(w)
    BY DEF Sound
  <2>2. Left(w, u, c) /\ u.cl[c].flags = w.cl[c].flags
    BY <2>1, UnwatchFacts
  <2>3. q \in Seq(Commands)
    BY <2>1, WorldParts
  <2>4. z = IF \A n \in 1..Len(q) : ReadOnly(q[n]) THEN done
            ELSE [done EXCEPT !.rep = PropagateExec(@)]
    BY <1>2 DEF ExecCommand
  <2> HIDE DEF u, q, z
  <2>5. Sound(u)
    BY <1>2, <2>2, LeftSound
  <2>6. ~u.rep.multi
    BY <2>2 DEF Left
  <2>7. Sound(e) /\ (e.rep.multi <=> \E n \in 1..Len(q) : ~ReadOnly(q[n]))
    BY <2>3, <2>5, <2>6, ExecutedSound
  <2> HIDE DEF e
  <2>8. Sound(done) /\ done.rep = e.rep
    BY <2>7, DiscardSound
  <2> HIDE DEF done
  <2>9. CASE \A n \in 1..Len(q) : ReadOnly(q[n])
    BY <2>4, <2>7, <2>8, <2>9
  <2>10. CASE ~ \A n \in 1..Len(q) : ReadOnly(q[n])
    <3> DEFINE r == PropagateExec(done.rep)
    <3>1. z = [done EXCEPT !.rep = r]
      BY <2>4, <2>10
    <3>2. /\ done \in Worlds /\ Locked(done) /\ Both(done) /\ Bounded(done)
          /\ Aborts(done) /\ Mirrors(done)
      BY <2>8 DEF Sound
    <3>3. /\ done.srv.dict \in Data
          /\ done.srv.dict = Replay(done.rep.dict, done.rep.queue)
      BY <3>2, WorldParts DEF Mirrors
    <3>4. /\ r \in Slave /\ ~r.multi /\ r.queue = <<>> /\ r.dict = done.srv.dict
      BY <3>3 DEF PropagateExec, Slave, Data
    <3> HIDE DEF r
    <3>5. /\ z \in Worlds /\ z.srv = done.srv /\ z.cl = done.cl
          /\ z.ghost = done.ghost /\ z.rep = r
      BY <3>1, <3>2, <3>4 DEF Worlds
    <3>6. Locked(z) /\ Both(z) /\ Bounded(z)
      BY <3>2, <3>5 DEF Locked, Both, Bounded
    <3>7. Aborts(z)
      BY <3>2, <3>5 DEF Aborts
    <3>8. Mirrors(z)
      BY <3>3, <3>4, <3>5, ReplayEmpty DEF Mirrors
    <3> QED
      BY <3>4, <3>5, <3>6, <3>7, <3>8 DEF Sound
  <2> QED
    BY <2>9, <2>10
<1> QED
  BY <1>1, <1>2

-----------------------------------------------------------------------------
(* The inductive invariant: between commands the state is sound and the    *)
(* slave is not in a transaction.                                          *)
IInv == Sound(World) /\ ~rep.multi

(* The invariant is what the runs check, and more. *)
LEMMA InvariantSuffices == IInv => TransactionsSafe
<1> SUFFICES ASSUME IInv PROVE TransactionsSafe
  OBVIOUS
<1>1. /\ World \in Worlds /\ Locked(World) /\ Both(World) /\ Aborts(World)
      /\ Mirrors(World) /\ ~rep.multi
  BY DEF IInv, Sound
<1>2. World.srv = srv /\ World.cl = cl /\ World.ghost = ghost /\ World.rep = rep
  BY DEF World
<1> HIDE DEF World
<1>3. TypeOK
  BY <1>1, <1>2 DEF TypeOK, Worlds
<1>4. OptimisticLock
  BY <1>1, <1>2 DEF OptimisticLock, Locked
<1>5. WatchesAgree
  BY <1>1, <1>2 DEF WatchesAgree, Both
<1>6. RefusedAborts
  BY <1>1, <1>2 DEF RefusedAborts, Aborts
<1>7. SlaveFollows
  <2>1. rep.queue = <<>> /\ Replay(rep.dict, rep.queue) = srv.dict
    BY <1>1, <1>2 DEF Mirrors
  <2>2. rep.dict \in Data
    BY <1>1, <1>2, WorldParts
  <2>3. Replay(rep.dict, <<>>) = rep.dict
    BY <2>2, ReplayEmpty
  <2> QED
    BY <1>1, <2>1, <2>3 DEF SlaveFollows
<1> QED
  BY <1>3, <1>4, <1>5, <1>6, <1>7 DEF TransactionsSafe

(* The server starts sound. *)
LEMMA InitSound == Init => IInv
<1> SUFFICES ASSUME Init PROVE IInv
  OBVIOUS
<1>1. World.srv = srv /\ World.cl = cl /\ World.ghost = ghost /\ World.rep = rep
  BY DEF World
<1>2. /\ srv \in Server /\ rep \in Slave /\ ghost \in History
      /\ srv.dict \in Data /\ rep.dict = srv.dict /\ rep.queue = <<>> /\ rep.multi = FALSE
      /\ \A k \in Key : srv.watched[k] = {} /\ ghost.lastw[k] = 0
      /\ \A c \in Client, k \in Key : ghost.seen[c][k] = 0
      /\ ghost.refused = {} /\ srv.writes = 0
  BY DEF Init, Server, Slave, History, Data, Absent
<1>3. NewClient \in ClientState /\ NewClient.watched = {} /\ NewClient.flags = {}
  BY DEF NewClient, ClientState
<1>4. /\ cl \in [Client -> ClientState]
      /\ \A c \in Client : cl[c].watched = {} /\ cl[c].flags = {}
  BY <1>3 DEF Init
<1>5. World \in Worlds
  BY <1>2, <1>4 DEF World, Worlds
<1> HIDE DEF World
<1>6. Locked(World) /\ Both(World) /\ Bounded(World) /\ Aborts(World)
  BY <1>1, <1>2, <1>4 DEF Locked, Both, Bounded, Aborts
<1>7. Mirrors(World)
  <2>1. Replay(rep.dict, <<>>) = rep.dict
    BY <1>2, ReplayEmpty
  <2> QED
    BY <1>1, <1>2, <2>1 DEF Mirrors
<1> QED
  BY <1>2, <1>5, <1>6, <1>7 DEF IInv, Sound

(* A state that is committed is the next state. *)
LEMMA CommitSound ==
  ASSUME NEW w, Sound(w), ~w.rep.multi, Commit(w)
  PROVE  IInv'
<1>1. w \in Worlds
  BY DEF Sound
<1>2. World' = w
  BY <1>1 DEF World, Commit, Worlds
<1> QED
  BY <1>2 DEF IInv, Commit

-----------------------------------------------------------------------------
(* Steps that only queue, refuse or begin something, as changes of parts. *)
LEMMA QueueSound ==
  ASSUME IInv, NEW c \in Client, NEW x \in ClientState,
         cl' = [cl EXCEPT ![c] = x],
         x.watched = cl[c].watched,
         "DIRTY_CAS" \in x.flags <=> "DIRTY_CAS" \in cl[c].flags,
         NEW f, f \subseteq Client,
         \A d \in Client : d \in f => d = c \/ d \in ghost.refused,
         (\A reason \in Reason : Flags(reason)) /\ c \in f => "DIRTY_EXEC" \in x.flags,
         ghost' = [ghost EXCEPT !.refused = f],
         srv' \in Server, srv'.dict = srv.dict, srv'.watched = srv.watched,
         srv'.writes = srv.writes, rep' = rep
  PROVE  IInv'
<1>1. /\ World \in Worlds /\ Locked(World) /\ Both(World) /\ Bounded(World)
      /\ Aborts(World) /\ Mirrors(World) /\ ~rep.multi
  BY DEF IInv, Sound
<1>2. World.srv = srv /\ World.cl = cl /\ World.ghost = ghost /\ World.rep = rep
  BY DEF World
<1> DEFINE z == World'
<1>3. z.srv = srv' /\ z.cl = cl' /\ z.ghost = ghost' /\ z.rep = rep
  BY DEF World
<1>4. cl \in [Client -> ClientState] /\ ghost \in History /\ rep \in Slave
  BY <1>1, <1>2, WorldParts
<1>5. /\ cl' \in [Client -> ClientState] /\ cl'[c] = x
      /\ \A d \in Client : d # c => cl'[d] = cl[d]
  BY <1>4
<1>6. /\ ghost' \in History /\ ghost'.lastw = ghost.lastw /\ ghost'.seen = ghost.seen
      /\ ghost'.refused = f
  BY <1>4 DEF History
<1>7. z \in Worlds
  BY <1>4, <1>5, <1>6 DEF World, Worlds
<1> HIDE DEF z
<1>8. Locked(z)
  BY <1>1, <1>2, <1>3, <1>5, <1>6 DEF Locked
<1>9. Both(z)
  BY <1>1, <1>2, <1>3, <1>5 DEF Both
<1>10. Bounded(z)
  BY <1>1, <1>2, <1>3, <1>6 DEF Bounded
<1>11. Aborts(z)
  BY <1>1, <1>2, <1>3, <1>5, <1>6 DEF Aborts
<1>12. Mirrors(z)
  BY <1>1, <1>2, <1>3 DEF Mirrors
<1> QED
  BY <1>1, <1>7, <1>8, <1>9, <1>10, <1>11, <1>12 DEF IInv, Sound, z

(* The parts of the state in a state of the invariant. *)
LEMMA Parts ==
  ASSUME IInv
  PROVE  /\ Sound(World) /\ World \in Worlds /\ ~World.rep.multi /\ ~rep.multi
         /\ World.srv = srv /\ World.cl = cl /\ World.ghost = ghost /\ World.rep = rep
         /\ cl \in [Client -> ClientState] /\ srv \in Server /\ ghost \in History /\ rep \in Slave
         /\ \A c \in Client :
              /\ cl[c] \in ClientState
              /\ cl[c].flags \in SUBSET {"MULTI", "DIRTY_CAS", "DIRTY_EXEC"}
              /\ cl[c].queue \in Seq(Commands) /\ cl[c].watched \in SUBSET Key
<1>1. World.srv = srv /\ World.cl = cl /\ World.ghost = ghost /\ World.rep = rep
  BY DEF World
<1>2. Sound(World) /\ World \in Worlds /\ ~rep.multi
  BY DEF IInv, Sound
<1> HIDE DEF World
<1> QED
  BY <1>1, <1>2, WorldParts

(* queueMultiCommand, or call. *)
LEMMA CommandSound ==
  ASSUME IInv, NEW c \in Client, NEW cmd \in Cmd, Command(c, cmd)
  PROVE  IInv'
<1>1. cmd \in Commands
  BY TransactionsAssumption
<1>2. CASE InMulti(c)
  <2> DEFINE longer == Append(cl[c].queue, cmd)
             x == [cl[c] EXCEPT !.queue = longer]
  <2>1. cl[c] \in ClientState /\ cl[c].queue \in Seq(Commands) /\ ghost \in History
        /\ srv \in Server
    BY Parts
  <2>2. x \in ClientState /\ x.watched = cl[c].watched /\ x.flags = cl[c].flags
    <3>1. longer \in Seq(Commands)
      BY <1>1, <2>1
    <3> HIDE DEF longer
    <3> QED
      BY <2>1, <3>1 DEF ClientState
  <2>3. cl' = [cl EXCEPT ![c] = x] /\ srv' = srv /\ rep' = rep /\ ghost' = ghost
    BY <1>2 DEF Command
  <2>4. ghost' = [ghost EXCEPT !.refused = ghost.refused] /\ ghost.refused \subseteq Client
    BY <2>1, <2>3 DEF History
  <2>5. (\A reason \in Reason : Flags(reason)) /\ c \in ghost.refused => "DIRTY_EXEC" \in x.flags
    BY <2>2, Parts DEF Sound, Aborts
  <2> HIDE DEF x
  <2> QED
    BY <2>1, <2>2, <2>3, <2>4, <2>5, QueueSound
<1>3. CASE ~InMulti(c)
  <2>1. Commit(Call(World, cmd))
    BY <1>3 DEF Command
  <2>2. Sound(World) /\ ~World.rep.multi
    BY Parts
  <2>3. Sound(Call(World, cmd)) /\ ~Call(World, cmd).rep.multi
    BY <1>1, <2>2, CallSound
  <2> QED
    BY <2>1, <2>3, CommitSound
<1> QED
  BY <1>2, <1>3

(* A command that is refused. *)
LEMMA RefuseSound ==
  ASSUME IInv, NEW c \in Client, NEW reason \in Reason, Refuse(c, reason)
  PROVE  IInv'
<1> DEFINE x == IF InMulti(c) /\ Flags(reason)
                THEN [cl[c] EXCEPT !.flags = @ \cup {"DIRTY_EXEC"}] ELSE cl[c]
           f == IF InMulti(c) THEN ghost.refused \cup {c} ELSE ghost.refused
<1>1. /\ cl \in [Client -> ClientState] /\ cl[c] \in ClientState
      /\ ghost \in History /\ srv \in Server
  BY Parts
<1>2. /\ x \in ClientState /\ x.watched = cl[c].watched
      /\ x.flags = IF InMulti(c) /\ Flags(reason) THEN cl[c].flags \cup {"DIRTY_EXEC"}
                                                  ELSE cl[c].flags
  BY <1>1 DEF ClientState
<1>3. cl' = [cl EXCEPT ![c] = x]
  BY <1>1 DEF Refuse
<1>4. ghost' = [ghost EXCEPT !.refused = f] /\ f \subseteq Client
  BY <1>1 DEF Refuse, History
<1>5. /\ srv' \in Server /\ srv'.dict = srv.dict /\ srv'.watched = srv.watched
      /\ srv'.writes = srv.writes /\ rep' = rep
  BY <1>1 DEF Refuse, Server
<1>6. c \in ghost.refused /\ (\A r \in Reason : Flags(r)) => "DIRTY_EXEC" \in cl[c].flags
  BY Parts DEF Sound, Aborts
<1>7. (\A r \in Reason : Flags(r)) /\ c \in f => "DIRTY_EXEC" \in x.flags
  BY <1>2, <1>6
<1>8. \A d \in Client : d \in f => d = c \/ d \in ghost.refused
  OBVIOUS
<1>9. "DIRTY_CAS" \in x.flags <=> "DIRTY_CAS" \in cl[c].flags
  BY <1>2
<1> HIDE DEF x, f
<1> QED
  BY <1>2, <1>3, <1>4, <1>5, <1>7, <1>8, <1>9, QueueSound

(* multiCommand. *)
LEMMA MultiCommandSound ==
  ASSUME IInv, NEW c \in Client, Multi(c)
  PROVE  IInv'
<1> DEFINE x == [cl[c] EXCEPT !.flags = @ \cup {"MULTI"}]
<1>1. cl[c] \in ClientState /\ ghost \in History /\ srv \in Server
  BY Parts
<1>2. x \in ClientState /\ x.watched = cl[c].watched /\ x.flags = cl[c].flags \cup {"MULTI"}
  BY <1>1 DEF ClientState
<1>3. cl' = [cl EXCEPT ![c] = x] /\ srv' = srv /\ rep' = rep /\ ghost' = ghost
  BY DEF Multi
<1>4. ghost' = [ghost EXCEPT !.refused = ghost.refused] /\ ghost.refused \subseteq Client
  BY <1>1, <1>3 DEF History
<1>5. (\A r \in Reason : Flags(r)) /\ c \in ghost.refused => "DIRTY_EXEC" \in x.flags
  BY <1>2, Parts DEF Sound, Aborts
<1>6. "DIRTY_CAS" \in x.flags <=> "DIRTY_CAS" \in cl[c].flags
  BY <1>2
<1> HIDE DEF x
<1> QED
  BY <1>1, <1>2, <1>3, <1>4, <1>5, <1>6, QueueSound

(* watchForKey: both lists, and the number of the last change. *)
LEMMA WatchSound ==
  ASSUME IInv, NEW c \in Client, NEW k \in Key, Watch(c, k)
  PROVE  IInv'
<1>1. /\ World \in Worlds /\ Locked(World) /\ Both(World) /\ Bounded(World)
      /\ Aborts(World) /\ Mirrors(World) /\ ~rep.multi
  BY DEF IInv, Sound
<1>2. /\ World.srv = srv /\ World.cl = cl /\ World.ghost = ghost /\ World.rep = rep
      /\ cl \in [Client -> ClientState] /\ srv \in Server /\ ghost \in History /\ rep \in Slave
      /\ cl[c] \in ClientState
  BY Parts
<1> DEFINE z == World'
           x == [cl[c] EXCEPT !.watched = @ \cup {k}]
<1>3. z.srv = srv' /\ z.cl = cl' /\ z.ghost = ghost' /\ z.rep = rep
  BY DEF World, Watch
<1>4. x \in ClientState /\ x.watched = cl[c].watched \cup {k} /\ x.flags = cl[c].flags
  BY <1>2 DEF ClientState
<1>5. cl' = [cl EXCEPT ![c] = x]
  BY DEF Watch
<1> HIDE DEF x
<1>6. /\ cl' \in [Client -> ClientState] /\ cl'[c] = x
      /\ \A d \in Client : d # c => cl'[d] = cl[d]
  BY <1>2, <1>4, <1>5
<1>7. /\ srv' \in Server /\ srv'.dict = srv.dict /\ srv'.writes = srv.writes
      /\ srv'.watched = [srv.watched EXCEPT ![k] = @ \cup {c}]
  BY <1>2 DEF Watch, Server
<1>8. /\ ghost' \in History /\ ghost'.lastw = ghost.lastw /\ ghost'.refused = ghost.refused
      /\ ghost'.seen = [ghost.seen EXCEPT ![c] = [ghost.seen[c] EXCEPT ![k] = ghost.lastw[k]]]
  BY <1>2 DEF Watch, History
<1>9. srv.watched \in [Key -> SUBSET Client] /\ ghost.seen \in [Client -> [Key -> Nat]]
      /\ ghost.lastw \in [Key -> Nat] /\ ghost.refused \subseteq Client /\ srv.writes \in Nat
  BY <1>2 DEF Server, History
<1>10. /\ \A d \in Client, j \in Key : ghost'.seen[d][j] =
                IF d = c /\ j = k THEN ghost.lastw[k] ELSE ghost.seen[d][j]
       /\ \A j \in Key : srv'.watched[j] = IF j = k THEN srv.watched[j] \cup {c}
                                                    ELSE srv.watched[j]
  <2> DEFINE now == [ghost.seen[c] EXCEPT ![k] = ghost.lastw[k]]
  <2>1. \A j \in Key : now[j] = IF j = k THEN ghost.lastw[k] ELSE ghost.seen[c][j]
    BY <1>9
  <2> HIDE DEF now
  <2>2. ghost'.seen = [ghost.seen EXCEPT ![c] = now]
    BY <1>8 DEF now
  <2>3. ASSUME NEW d \in Client, NEW j \in Key
        PROVE  ghost'.seen[d][j] = IF d = c /\ j = k THEN ghost.lastw[k] ELSE ghost.seen[d][j]
    BY <1>9, <2>1, <2>2, <2>3
  <2>4. \A j \in Key : srv'.watched[j] = IF j = k THEN srv.watched[j] \cup {c}
                                                    ELSE srv.watched[j]
    BY <1>7, <1>9
  <2> QED
    BY <2>3, <2>4
<1>11. z \in Worlds
  BY <1>2, <1>6, <1>7, <1>8 DEF World, Worlds, Watch
<1> HIDE DEF z
<1>12. k \notin cl[c].watched /\ \A d \in Client : cl[d].watched \subseteq Key
  BY Parts DEF Watch
<1>13. Locked(z)
  <2> SUFFICES ASSUME NEW d \in Client
               PROVE  "DIRTY_CAS" \in cl'[d].flags <=>
                        \E j \in cl'[d].watched : ghost.lastw[j] # ghost'.seen[d][j]
    BY <1>3, <1>8 DEF Locked
  <2>1. "DIRTY_CAS" \in cl[d].flags <=>
          \E j \in cl[d].watched : ghost.lastw[j] # ghost.seen[d][j]
    BY <1>1, <1>2 DEF Locked
  <2>2. cl'[d].flags = cl[d].flags
        /\ cl'[d].watched = IF d = c THEN cl[d].watched \cup {k} ELSE cl[d].watched
    BY <1>4, <1>6
  <2>3. \A j \in cl[d].watched : ghost'.seen[d][j] = ghost.seen[d][j]
    BY <1>10, <1>12
  <2>4. ghost'.seen[c][k] = ghost.lastw[k]
    BY <1>10
  <2> QED
    BY <2>1, <2>2, <2>3, <2>4
<1>14. Both(z)
  <2> SUFFICES ASSUME NEW d \in Client, NEW j \in Key
               PROVE  j \in cl'[d].watched <=> d \in srv'.watched[j]
    BY <1>3 DEF Both
  <2>1. j \in cl[d].watched <=> d \in srv.watched[j]
    BY <1>1, <1>2 DEF Both
  <2>2. srv'.watched[j] = IF j = k THEN srv.watched[j] \cup {c} ELSE srv.watched[j]
    BY <1>10
  <2>3. CASE d = c
    <3>1. cl'[d].watched = cl[c].watched \cup {k}
      BY <1>4, <1>6, <2>3
    <3> QED
      BY <2>1, <2>2, <2>3, <3>1
  <2>4. CASE d # c
    <3>1. cl'[d].watched = cl[d].watched
      BY <1>6, <2>4
    <3> QED
      BY <2>1, <2>2, <2>4, <3>1
  <2> QED
    BY <2>3, <2>4
<1>15. Bounded(z)
  <2> SUFFICES ASSUME NEW j \in Key
               PROVE  /\ ghost.lastw[j] <= srv.writes
                      /\ \A d \in Client : ghost'.seen[d][j] <= ghost.lastw[j]
    BY <1>3, <1>7, <1>8 DEF Bounded
  <2>1. ghost.lastw[j] <= srv.writes /\ \A d \in Client : ghost.seen[d][j] <= ghost.lastw[j]
    BY <1>1, <1>2 DEF Bounded
  <2>2. ghost.lastw[j] \in Nat
    BY <1>9
  <2> QED
    BY <1>10, <2>1, <2>2
<1>16. Aborts(z)
  BY <1>1, <1>2, <1>3, <1>4, <1>6, <1>8, <1>9 DEF Aborts
<1>17. Mirrors(z)
  BY <1>1, <1>2, <1>3, <1>7 DEF Mirrors
<1> QED
  BY <1>1, <1>11, <1>13, <1>14, <1>15, <1>16, <1>17 DEF IInv, Sound, z, Watch

(* A key that expires is deleted on both sides. *)
LEMMA ExpireSound ==
  ASSUME IInv, NEW k \in Key, Expire(k)
  PROVE  IInv'
<1> DEFINE del == [op |-> "del", key |-> k]
           z == World'
<1>1. /\ World \in Worlds /\ Locked(World) /\ Both(World) /\ Bounded(World)
      /\ Aborts(World) /\ Mirrors(World) /\ ~rep.multi
  BY DEF IInv, Sound
<1>2. /\ World.srv = srv /\ World.cl = cl /\ World.ghost = ghost /\ World.rep = rep
      /\ cl \in [Client -> ClientState] /\ srv \in Server /\ ghost \in History /\ rep \in Slave
  BY Parts
<1>3. del \in Commands
  BY DEF Commands
<1>4. srv.dict \in Data /\ Absent \in Nat
  BY <1>2 DEF Server, Data, Absent
<1>5. Effect(srv.dict, del, 0) = [srv.dict EXCEPT ![k] = Absent]
  <2>1. Changes(srv.dict, del) = {k}
    BY DEF Changes, Expire
  <2>2. Effect(srv.dict, del, 0) = [j \in Key |-> IF j = k THEN Absent ELSE srv.dict[j]]
    BY <2>1 DEF Effect
  <2> QED
    BY <1>4, <2>2 DEF Data
<1>6. /\ srv' \in Server /\ srv'.dict = [srv.dict EXCEPT ![k] = Absent]
      /\ srv'.watched = srv.watched /\ srv'.writes = srv.writes
  BY <1>2, <1>4 DEF Expire, Server, Data
<1>7. /\ rep' \in Slave /\ rep'.multi = rep.multi
      /\ Replay(rep'.dict, rep'.queue) = Effect(srv.dict, del, 0)
      /\ ~rep'.multi => rep'.queue = <<>>
  <2>1. Replay(rep.dict, rep.queue) = srv.dict /\ (~rep.multi => rep.queue = <<>>)
    BY <1>1, <1>2 DEF Mirrors
  <2>2. rep' = Propagate(rep, del, 0)
    BY DEF Expire
  <2> HIDE DEF del
  <2> QED
    BY <1>2, <1>3, <1>4, <2>1, <2>2, PropagateFacts
<1>8. z.srv = srv' /\ z.cl = cl /\ z.ghost = ghost /\ z.rep = rep'
  BY DEF World, Expire
<1>9. z \in Worlds
  BY <1>2, <1>6, <1>7 DEF World, Worlds, Expire
<1> HIDE DEF z, del
<1>10. Locked(z) /\ Both(z) /\ Bounded(z)
  BY <1>1, <1>2, <1>6, <1>8 DEF Locked, Both, Bounded
<1>11. Aborts(z)
  BY <1>1, <1>2, <1>8 DEF Aborts
<1>12. Mirrors(z)
  BY <1>5, <1>6, <1>7, <1>8 DEF Mirrors
<1> QED
  BY <1>1, <1>7, <1>9, <1>10, <1>11, <1>12 DEF IInv, Sound, z

(* unwatchCommand. *)
LEMMA UnwatchSound ==
  ASSUME IInv, NEW c \in Client, Unwatch(c)
  PROVE  IInv'
<1> DEFINE u == UnwatchAllKeys(World, c)
           x == [u.cl[c] EXCEPT !.flags = @ \ {"DIRTY_CAS"}]
           y == [u.cl EXCEPT ![c] = x]
           z == [u EXCEPT !.cl = y]
<1>1. Sound(World) /\ World \in Worlds /\ Both(World) /\ ~World.rep.multi
  BY Parts DEF Sound
<1>2. Left(World, u, c) /\ u.ghost = World.ghost /\ u.cl[c].flags = World.cl[c].flags
  BY <1>1, UnwatchFacts
<1>3. Commit(z)
  BY DEF Unwatch
<1> HIDE DEF u
<1>4. u \in Worlds /\ u.cl \in [Client -> ClientState] /\ u.cl[c] \in ClientState
  BY <1>2, WorldParts DEF Left
<1>5. /\ x \in ClientState /\ x.watched = u.cl[c].watched
      /\ x.flags = u.cl[c].flags \ {"DIRTY_CAS"}
  BY <1>4 DEF ClientState
<1> HIDE DEF x
<1>6. /\ y \in [Client -> ClientState] /\ y[c] = x
      /\ \A d \in Client : d # c => y[d] = u.cl[d]
  BY <1>4, <1>5
<1> HIDE DEF y
<1>7. z \in Worlds /\ z.srv = u.srv /\ z.cl = y /\ z.ghost = u.ghost /\ z.rep = u.rep
  BY <1>4, <1>6 DEF Worlds
<1> HIDE DEF z
<1>8. Left(World, z, c)
  BY <1>2, <1>5, <1>6, <1>7 DEF Left
<1>9. Locked(z) /\ Both(z) /\ Bounded(z) /\ Mirrors(z)
  BY <1>1, <1>5, <1>6, <1>7, <1>8 DEF Sound, Locked, Both, Bounded, Mirrors, Left
<1>10. Aborts(z)
  <2>1. /\ z.ghost.refused = World.ghost.refused
        /\ "DIRTY_EXEC" \in z.cl[c].flags <=> "DIRTY_EXEC" \in World.cl[c].flags
        /\ \A d \in Client : d # c => z.cl[d] = World.cl[d]
        /\ World.ghost.refused \subseteq Client
    BY <1>1, <1>2, <1>5, <1>6, <1>7, <1>8, WorldParts DEF Left
  <2> QED
    BY <1>1, <2>1 DEF Sound, Aborts
<1>11. Sound(z) /\ ~z.rep.multi
  BY <1>1, <1>7, <1>8, <1>9, <1>10 DEF Sound, Left
<1> QED
  BY <1>3, <1>11, CommitSound

(* Every step keeps the invariant. *)
LEMMA NextSound == IInv /\ [Next]_vars => IInv'
<1> SUFFICES ASSUME IInv, [Next]_vars PROVE IInv'
  OBVIOUS
<1>1. Sound(World) /\ ~World.rep.multi
  BY Parts
<1>2. ASSUME NEW c \in Client, NEW cmd \in Cmd, Command(c, cmd) PROVE IInv'
  BY <1>2, CommandSound
<1>3. ASSUME NEW c \in Client, NEW reason \in Reason, Refuse(c, reason) PROVE IInv'
  BY <1>3, RefuseSound
<1>4. ASSUME NEW c \in Client, NEW k \in Key, Watch(c, k) PROVE IInv'
  BY <1>4, WatchSound
<1>5. ASSUME NEW c \in Client, Multi(c) PROVE IInv'
  BY <1>5, MultiCommandSound
<1>6. ASSUME NEW c \in Client, Discard(c) PROVE IInv'
  <2>1. Commit(DiscardTransaction(World, c))
    BY <1>6 DEF Discard
  <2>2. Sound(DiscardTransaction(World, c)) /\ ~DiscardTransaction(World, c).rep.multi
    BY <1>1, DiscardSound
  <2> QED
    BY <2>1, <2>2, CommitSound
<1>7. ASSUME NEW c \in Client, Exec(c) PROVE IInv'
  <2>1. Commit(ExecCommand(World, c))
    BY <1>7 DEF Exec
  <2>2. Sound(ExecCommand(World, c)) /\ ~ExecCommand(World, c).rep.multi
    BY <1>1, ExecSound
  <2> QED
    BY <2>1, <2>2, CommitSound
<1>8. ASSUME NEW c \in Client, Unwatch(c) PROVE IInv'
  BY <1>8, UnwatchSound
<1>9. ASSUME NEW c \in Client, Close(c) PROVE IInv'
  <2>1. Commit(DiscardTransaction(World, c))
    BY <1>9 DEF Close, DiscardTransaction
  <2>2. Sound(DiscardTransaction(World, c)) /\ ~DiscardTransaction(World, c).rep.multi
    BY <1>1, DiscardSound
  <2> QED
    BY <2>1, <2>2, CommitSound
<1>10. ASSUME NEW k \in Key, Expire(k) PROVE IInv'
  BY <1>10, ExpireSound
<1>11. CASE UNCHANGED vars
  BY <1>11 DEF vars, IInv, World
<1> QED
  BY <1>2, <1>3, <1>4, <1>5, <1>6, <1>7, <1>8, <1>9, <1>10, <1>11 DEF Next

(* The state is sound between commands, whatever the clients send. *)
THEOREM TransactionsInvariant == Spec => []IInv
<1>1. Init => IInv
  BY InitSound
<1>2. IInv /\ [Next]_vars => IInv'
  BY NextSound
<1> QED
  BY <1>1, <1>2, PTL DEF Spec

(* A client is marked dirty exactly when a command changed a key that it   *)
(* watches; a transaction that lost a command is refused, unless one of    *)
(* the two refusals that do not flag it can happen; the lists of clients   *)
(* and of keys agree; and after every command a slave has the data of the  *)
(* master: touchWatchedKey, flagTransaction, execCommand and propagate are *)
(* right for any number of clients, keys and queued commands.              *)
THEOREM TransactionsAreSafe == Spec => []TransactionsSafe
<1>1. IInv => TransactionsSafe
  BY InvariantSuffices
<1> QED
  BY <1>1, TransactionsInvariant, PTL

-----------------------------------------------------------------------------
(* A state of Scripting, field by field; the event loop threads it as a    *)
(* record S.                                                               *)
LEMMA ScriptFields ==
  ASSUME NEW S \in Lua!States
  PROVE  /\ S.up \in BOOLEAN
         /\ S.conn \in [Trio -> {"open", "closed", "freed"}]
         /\ S.out \in [Trio -> BOOLEAN] /\ S.readable \in [Trio -> BOOLEAN]
         /\ S.lua \in [caller : Trio \cup {"none"}, written : Nat, random : BOOLEAN,
                       timedout : BOOLEAN, kill : BOOLEAN]
         /\ S.lua.caller \in Trio \cup {"none"} /\ S.lua.written \in Nat
         /\ S.lua.timedout \in BOOLEAN /\ S.lua.kill \in BOOLEAN
         /\ S.data \in Seq(Trio)
BY DEF Lua!States, Lua!NoClient

(* Under a slow script nothing but the server, the flag to kill and the    *)
(* clients other than the caller can change.                               *)
LEMMA SlowEvents ==
  ASSUME NEW S \in Lua!States, Lua!Attended(S), S.lua.timedout, NEW T \in Lua!Events(S)
  PROVE  /\ T \in Lua!States /\ Lua!Attended(T)
         /\ T.lua.caller = S.lua.caller /\ T.lua.written = S.lua.written /\ T.data = S.data
<1> DEFINE Kept(U) == /\ U \in Lua!States /\ Lua!Attended(U)
                      /\ U.lua.caller = S.lua.caller /\ U.lua.written = S.lua.written /\ U.data = S.data
<1>0. S.lua.caller \in Trio /\ S.lua.caller # "none" /\ "none" \notin Trio
  BY ScriptFields, ScriptsAssumption DEF Lua!Attended, Lua!NoClient, Lua!ScriptingAssumption
<1>1. Kept(S)
  OBVIOUS
<1>2. ASSUME NEW c \in Trio, Lua!Readable(S, c) PROVE c # S.lua.caller
  BY <1>2 DEF Lua!Readable, Lua!Attended
<1>3. Kept(Lua!ScriptKill(S))
  <2>1. CASE S.lua.written > 0
    BY <1>1, <2>1 DEF Lua!ScriptKill
  <2>2. CASE ~(S.lua.written > 0)
    <3> DEFINE l == [S.lua EXCEPT !.kill = TRUE]
               T1 == [S EXCEPT !.lua = l]
    <3>1. l \in [caller : Trio \cup {"none"}, written : Nat, random : BOOLEAN,
                 timedout : BOOLEAN, kill : BOOLEAN]
      BY ScriptFields
    <3>2. l.caller = S.lua.caller /\ l.written = S.lua.written /\ l.timedout = S.lua.timedout /\ l.written = 0
      <4>1. S.lua.written = 0
        BY ScriptFields, <2>2
      <4>2. l.caller = S.lua.caller /\ l.written = S.lua.written
        BY ScriptFields
      <4>3. l.timedout = S.lua.timedout
        BY ScriptFields
      <4> QED
        BY <4>1, <4>2, <4>3
    <3>3. Lua!ScriptKill(S) = T1
      BY <2>2 DEF Lua!ScriptKill
    <3> HIDE DEF l
    <3>4. T1 \in Lua!States
      BY <3>1 DEF Lua!States, Lua!NoClient
    <3>5. /\ T1.lua = l /\ T1.conn = S.conn /\ T1.out = S.out /\ T1.readable = S.readable
          /\ T1.data = S.data
      BY DEF Lua!States
    <3> HIDE DEF T1
    <3> QED
      BY <3>2, <3>3, <3>4, <3>5 DEF Lua!Attended
  <2> QED
    BY <2>1, <2>2
<1>4. Kept([S EXCEPT !.up = FALSE])
  <2> DEFINE T1 == [S EXCEPT !.up = FALSE]
  <2>1. T1 \in Lua!States
    BY DEF Lua!States
  <2>2. /\ T1.lua = S.lua /\ T1.conn = S.conn /\ T1.out = S.out /\ T1.readable = S.readable
        /\ T1.data = S.data
    BY DEF Lua!States
  <2> HIDE DEF T1
  <2>3. Kept(T1)
    BY <2>1, <2>2 DEF Lua!Attended
  <2> QED
    BY <2>3 DEF T1
<1>5. ASSUME NEW c \in Trio, c # S.lua.caller, NEW f \in [Trio -> {"open", "closed", "freed"}],
             NEW o \in [Trio -> BOOLEAN],
             \A d \in Trio : d # c => f[d] = S.conn[d] /\ o[d] = S.out[d],
             f[c] = "freed" \/ f[c] = S.conn[c],
             NEW T1 \in Lua!States, T1.lua = S.lua, T1.conn = f, T1.out = o, T1.readable = S.readable,
             T1.data = S.data
      PROVE  Kept(T1)
  BY <1>0, <1>5 DEF Lua!Attended
<1>6. ASSUME NEW c \in Trio, c # S.lua.caller,
             T = [S EXCEPT !.conn[c] = "freed", !.out[c] = FALSE]
      PROVE  Kept(T)
  <2> DEFINE f == [S.conn EXCEPT ![c] = "freed"]
             o == [S.out EXCEPT ![c] = FALSE]
  <2>0. c # S.lua.caller
    BY <1>6
  <2>1. f \in [Trio -> {"open", "closed", "freed"}] /\ f[c] = "freed" /\ \A d \in Trio : d # c => f[d] = S.conn[d]
    BY ScriptFields
  <2>2. o \in [Trio -> BOOLEAN] /\ \A d \in Trio : d # c => o[d] = S.out[d]
    BY ScriptFields
  <2>3. T = [[S EXCEPT !.conn = f] EXCEPT !.out = o]
    BY <1>6, ScriptFields DEF Lua!States
  <2> HIDE DEF f, o
  <2>4. T \in Lua!States
    BY <2>1, <2>2, <2>3 DEF Lua!States
  <2>5. T.lua = S.lua /\ T.conn = f /\ T.out = o /\ T.readable = S.readable /\ T.data = S.data
    BY <2>1, <2>2, <2>3 DEF Lua!States
  <2> QED
    BY <1>5, <2>0, <2>1, <2>2, <2>4, <2>5
<1>7. ASSUME NEW c \in Trio, S.out[c],
             T = [S EXCEPT !.out[c] = FALSE, !.conn[c] = IF @ = "closed" THEN "freed" ELSE @]
      PROVE  Kept(T)
  <2> DEFINE f == [S.conn EXCEPT ![c] = IF S.conn[c] = "closed" THEN "freed" ELSE S.conn[c]]
             o == [S.out EXCEPT ![c] = FALSE]
  <2>0. c # S.lua.caller
    BY <1>0, <1>7 DEF Lua!Attended, Lua!NoClient
  <2>1. /\ f \in [Trio -> {"open", "closed", "freed"}]
        /\ f[c] = "freed" \/ f[c] = S.conn[c]
        /\ \A d \in Trio : d # c => f[d] = S.conn[d]
    BY ScriptFields
  <2>2. o \in [Trio -> BOOLEAN] /\ \A d \in Trio : d # c => o[d] = S.out[d]
    BY ScriptFields
  <2>3. T = [[S EXCEPT !.out = o] EXCEPT !.conn = f]
    BY <1>7, ScriptFields DEF Lua!States
  <2> HIDE DEF f, o
  <2>4. T \in Lua!States
    BY <2>1, <2>2, <2>3 DEF Lua!States
  <2>5. T.lua = S.lua /\ T.conn = f /\ T.out = o /\ T.readable = S.readable /\ T.data = S.data
    BY <2>1, <2>2, <2>3 DEF Lua!States
  <2> QED
    BY <1>5, <2>0, <2>1, <2>2, <2>4, <2>5
<1> HIDE DEF Kept
<1>8. \/ T \in {S, Lua!ScriptKill(S), [S EXCEPT !.up = FALSE]}
      \/ \E c \in Trio : Lua!Readable(S, c) /\ T = [S EXCEPT !.conn[c] = "freed", !.out[c] = FALSE]
      \/ \E c \in Trio : S.out[c] /\ T = [S EXCEPT !.out[c] = FALSE, !.conn[c] = IF @ = "closed" THEN "freed" ELSE @]
  BY Zenon DEF Lua!Events, Lua!SlowCommand, Lua!ReadEnd, Lua!WriteOut
<1>9. Kept(T)
  BY <1>1, <1>2, <1>3, <1>4, <1>6, <1>7, <1>8
<1> QED
  BY <1>9 DEF Kept

(* The event that stops the server kills no script. *)
LEMMA ServerStops ==
  ASSUME NEW S \in Lua!States, S.up, NEW T \in Lua!Events(S), ~T.up
  PROVE  T.lua = S.lua
<1>1. \/ T \in {S, Lua!ScriptKill(S), [S EXCEPT !.up = FALSE]}
      \/ \E c \in Trio : T = [S EXCEPT !.conn[c] = "freed", !.out[c] = FALSE]
      \/ \E c \in Trio : T = [S EXCEPT !.out[c] = FALSE, !.conn[c] = IF @ = "closed" THEN "freed" ELSE @]
  BY Zenon DEF Lua!Events, Lua!SlowCommand, Lua!ReadEnd, Lua!WriteOut
<1>2. CASE T = S
  BY <1>2
<1>3. CASE T = Lua!ScriptKill(S)
  <2>1. T.up = S.up
    BY <1>3 DEF Lua!ScriptKill, Lua!States
  <2> QED
    BY <2>1
<1>4. CASE T = [S EXCEPT !.up = FALSE]
  BY <1>4 DEF Lua!States
<1>5. ASSUME NEW c \in Trio, T = [S EXCEPT !.conn[c] = "freed", !.out[c] = FALSE] PROVE FALSE
  <2>1. T.up = S.up
    BY <1>5 DEF Lua!States
  <2> QED
    BY <2>1
<1>6. ASSUME NEW c \in Trio, T = [S EXCEPT !.out[c] = FALSE, !.conn[c] = IF @ = "closed" THEN "freed" ELSE @]
      PROVE  FALSE
  <2>1. T.up = S.up
    BY <1>6 DEF Lua!States
  <2> QED
    BY <2>1
<1> QED
  BY <1>1, <1>2, <1>3, <1>4, <1>5, <1>6

(* What a handler makes of a sound state is the next state, and sound. *)
LEMMA Becoming ==
  ASSUME NEW S \in Lua!States, Lua!Attended(S), Lua!Become(S)
  PROVE  Lua!State' \in Lua!States /\ Lua!Attended(Lua!State')
<1> DEFINE T == Lua!State'
<1>1. up' = S.up /\ conn' = S.conn /\ out' = S.out /\ readable' = S.readable /\ lua' = S.lua /\ data' = S.data
  BY DEF Lua!Become
<1>2. /\ up' \in BOOLEAN /\ conn' \in [Trio -> {"open", "closed", "freed"}]
      /\ out' \in [Trio -> BOOLEAN] /\ readable' \in [Trio -> BOOLEAN]
      /\ lua' \in [caller : Trio \cup {"none"}, written : Nat, random : BOOLEAN, timedout : BOOLEAN, kill : BOOLEAN]
      /\ data' \in Seq(Trio)
  BY <1>1, ScriptFields
<1>3. T \in Lua!States
  BY <1>2 DEF Lua!State, Lua!States, Lua!NoClient
<1>4. T.conn = S.conn /\ T.out = S.out /\ T.readable = S.readable /\ T.lua = S.lua
  BY <1>1 DEF Lua!State
<1> HIDE DEF T
<1>5. Lua!Attended(T)
  BY <1>4 DEF Lua!Attended
<1> QED
  BY <1>3, <1>5 DEF T

(* A script that ends, whatever the reason, leaves its client there and    *)
(* read again (the end of evalGenericCommand).                             *)
LEMMA Ending ==
  ASSUME NEW S \in Lua!States, Lua!Attended(S), S.lua.caller # "none",
         NEW why \in {"returned", "random", "memory", "killed"},
         why \in {"killed", "memory"} => S.lua.written = 0,
         Lua!Ends(S, why)
  PROVE  /\ Lua!State' \in Lua!States /\ Lua!Attended(Lua!State') /\ ~lua'.kill
         /\ last' \in [why : {"none", "returned", "random", "memory", "killed"}, written : Nat, freed : BOOLEAN]
         /\ Lua!StoppedWroteNothing' /\ Lua!CallerThere'
         /\ data' = S.data
<1> DEFINE k == S.lua.caller
           r == [S.readable EXCEPT ![k] = IF S.lua.timedout THEN TRUE ELSE S.readable[k]]
           T == [[S EXCEPT !.lua = Lua!Idle] EXCEPT !.readable = r]
<1>1. k \in Trio
  BY ScriptFields
<1>2. r \in [Trio -> BOOLEAN] /\ \A d \in Trio : S.readable[d] => r[d]
  BY <1>1, ScriptFields
<1>3. S.lua.timedout => r[k]
  BY <1>1, ScriptFields
<1>4. [S EXCEPT !.lua = Lua!Idle, !.readable[S.lua.caller] = IF S.lua.timedout THEN TRUE ELSE @] = T
  BY <1>1, ScriptFields DEF Lua!States
<1>5. Lua!Become(T)
  BY <1>4 DEF Lua!Ends
<1>6. last' = [why |-> why, written |-> S.lua.written, freed |-> S.conn[S.lua.caller] = "freed"]
  BY DEF Lua!Ends
<1>7. S.conn[k] # "freed"
  BY <1>1 DEF Lua!Attended, Lua!NoClient
<1> HIDE DEF r
<1>i. /\ Lua!Idle \in [caller : Trio \cup {"none"}, written : Nat, random : BOOLEAN,
                         timedout : BOOLEAN, kill : BOOLEAN]
      /\ Lua!Idle.caller = "none" /\ ~Lua!Idle.timedout /\ ~Lua!Idle.kill
  BY DEF Lua!Idle, Lua!NoClient
<1>8. T \in Lua!States
  BY <1>2, <1>i DEF Lua!States, Lua!NoClient
<1>9. T.lua = Lua!Idle /\ T.conn = S.conn /\ T.out = S.out /\ T.readable = r /\ T.data = S.data
  BY <1>2, <1>i DEF Lua!States
<1> HIDE DEF T
<1>10. Lua!Attended(T)
  <2>1. ASSUME NEW c \in Trio, S.conn[c] # "freed" PROVE r[c]
    BY <1>2, <1>3, <2>1 DEF Lua!Attended
  <2> QED
    BY <1>9, <1>i, <2>1 DEF Lua!Attended, Lua!NoClient
<1>11. lua' = Lua!Idle /\ data' = S.data
  BY <1>5, <1>9 DEF Lua!Become
<1>12. last' \in [why : {"none", "returned", "random", "memory", "killed"}, written : Nat, freed : BOOLEAN]
  BY <1>6, ScriptFields
<1>13. last'.why = why /\ last'.written = S.lua.written /\ last'.freed = (S.conn[S.lua.caller] = "freed")
  BY <1>6
<1>14. ~last'.freed
  BY <1>7, <1>13
<1> QED
  BY <1>5, <1>8, <1>10, <1>11, <1>12, <1>13, <1>14, <1>i, Becoming DEF Lua!StoppedWroteNothing, Lua!CallerThere

(* Every step of Scripting keeps the invariant. *)
LEMMA ScriptStep ==
  ASSUME Lua!ScriptInvariant, [Lua!Next]_(Lua!vars)
  PROVE  Lua!ScriptInvariant'
<1> DEFINE S == Lua!State
           Lasts == [why : {"none", "returned", "random", "memory", "killed"}, written : Nat, freed : BOOLEAN]
           Kept == Lua!State' \in Lua!States /\ Lua!Attended(Lua!State') /\ ~lua'.kill
           Told == last' \in Lasts /\ Lua!StoppedWroteNothing' /\ Lua!CallerThere'
           Counts == [closed : Nat, refused : Nat]
<1>1. /\ S \in Lua!States /\ Lua!Attended(S) /\ ~lua.kill /\ last \in Lasts /\ count \in Counts
      /\ Lua!StoppedWroteNothing /\ Lua!CallerThere
  BY DEF Lua!ScriptInvariant
<1>2. S.up = up /\ S.conn = conn /\ S.out = out /\ S.readable = readable /\ S.lua = lua /\ S.data = data
  BY DEF Lua!State
<1>3. SUFFICES Kept /\ Told /\ count' \in Counts
  BY DEF Lua!ScriptInvariant
<1>4. ASSUME UNCHANGED last PROVE Told
  BY <1>1, <1>4 DEF Lua!StoppedWroteNothing, Lua!CallerThere
<1>5. ASSUME NEW T \in Lua!States, Lua!Attended(T), ~T.lua.kill, Lua!Become(T) PROVE Kept /\ data' = T.data
  BY <1>5, Becoming DEF Lua!Become
<1>6. /\ up \in BOOLEAN /\ conn \in [Trio -> {"open", "closed", "freed"}]
      /\ out \in [Trio -> BOOLEAN] /\ readable \in [Trio -> BOOLEAN]
      /\ lua \in [caller : Trio \cup {"none"}, written : Nat, random : BOOLEAN, timedout : BOOLEAN, kill : BOOLEAN]
      /\ lua.caller \in Trio \cup {"none"} /\ lua.written \in Nat /\ data \in Seq(Trio)
  BY <1>1, <1>2, ScriptFields
<1>7. ASSUME Lua!Running PROVE lua.caller \in Trio /\ lua.caller # "none"
  BY <1>6, <1>7 DEF Lua!Running, Lua!NoClient
<1>8. "none" \notin Trio
  BY ScriptsAssumption DEF Lua!NoClient, Lua!ScriptingAssumption
<1> HIDE DEF S, Kept, Told, Counts, Lasts
<1>9. ASSUME NEW why \in {"returned", "random", "memory"}, Lua!Running, why = "memory" => lua.written = 0,
             Lua!Ends(S, why)
      PROVE  Kept /\ Told /\ data' = data
  BY <1>1, <1>2, <1>7, <1>9, Ending DEF Kept, Told, Lasts
<1>10. ASSUME NEW c \in Trio, Lua!Eval(c) PROVE Kept /\ Told /\ count' \in Counts
  <2> DEFINE l == [Lua!Idle EXCEPT !.caller = c]
             T == [S EXCEPT !.lua = l]
  <2>1. ~Lua!Running /\ conn[c] = "open" /\ ~out[c] /\ lua.caller = "none" /\ ~lua.timedout
        /\ Lua!Become(T) /\ UNCHANGED <<last, count>>
    <3>1. Lua!Waiting /\ conn[c] = "open" /\ ~out[c] /\ Lua!Become(T) /\ UNCHANGED <<last, count>>
      BY <1>10 DEF Lua!Eval, S
    <3> QED
      BY <1>1, <1>2, <3>1 DEF Lua!Waiting, Lua!Running, Lua!NoClient, Lua!Attended
  <2>2. l \in [caller : Trio \cup {"none"}, written : Nat, random : BOOLEAN, timedout : BOOLEAN, kill : BOOLEAN]
    BY DEF Lua!Idle
  <2>3. l.caller = c /\ ~l.timedout /\ ~l.kill
    BY DEF Lua!Idle
  <2> HIDE DEF l
  <2>4. T \in Lua!States
    BY <1>1, <2>2 DEF Lua!States, Lua!NoClient
  <2>5. T.lua = l /\ T.conn = conn /\ T.out = out /\ T.readable = readable /\ T.data = data
    BY <1>1, <1>2 DEF Lua!States
  <2> HIDE DEF T
  <2>6. Lua!Attended(T)
    BY <1>1, <1>2, <1>8, <2>1, <2>3, <2>5 DEF Lua!Attended, Lua!NoClient
  <2> QED
    BY <1>1, <1>4, <1>5, <2>1, <2>3, <2>4, <2>5, <2>6
<1>11. ASSUME NEW c \in Trio, Lua!Command(c) PROVE Kept /\ Told /\ count' \in Counts
  <2> DEFINE d == Append(data, c)
             o == [out EXCEPT ![c] = TRUE]
             T == [[S EXCEPT !.data = d] EXCEPT !.out = o]
  <2>1. lua.caller = "none" /\ ~lua.timedout /\ ~Lua!Running
    BY <1>1, <1>2, <1>11 DEF Lua!Command, Lua!Waiting, Lua!Running, Lua!NoClient, Lua!Attended
  <2>2. [S EXCEPT !.data = Append(@, c), !.out[c] = TRUE] = T
    BY <1>1, <1>2 DEF Lua!States
  <2>3. Lua!Become(T) /\ UNCHANGED <<last, count>>
    BY <1>11, <2>2 DEF Lua!Command, S
  <2>4. d \in Seq(Trio) /\ o \in [Trio -> BOOLEAN]
    BY <1>6
  <2> HIDE DEF d, o
  <2>5. T \in Lua!States
    BY <1>1, <2>4 DEF Lua!States
  <2>6. T.lua = lua /\ T.conn = conn /\ T.out = o /\ T.readable = readable /\ T.data = d
    BY <1>1, <1>2 DEF Lua!States
  <2> HIDE DEF T
  <2>7. Lua!Attended(T)
    BY <1>1, <1>2, <2>1, <2>6 DEF Lua!Attended, Lua!NoClient
  <2> QED
    BY <1>1, <1>4, <1>5, <2>1, <2>3, <2>5, <2>6, <2>7
<1>12. ASSUME NEW c \in Trio, Lua!Event(c) PROVE Kept /\ Told /\ count' \in Counts
  <2>1. lua.caller = "none" /\ ~lua.timedout /\ ~Lua!Running
    BY <1>1, <1>2, <1>12 DEF Lua!Event, Lua!Waiting, Lua!Running, Lua!NoClient, Lua!Attended
  <2>2. PICK T \in Lua!ReadEnd(S, c) \cup Lua!WriteOut(S, c) : Lua!Become(T)
    BY <1>12 DEF Lua!Event, S
  <2>3. PICK f \in [Trio -> {"open", "closed", "freed"}] :
          /\ T = [[S EXCEPT !.out = [out EXCEPT ![c] = FALSE]] EXCEPT !.conn = f]
          /\ \A d \in Trio : f[d] = "freed" \/ f[d] = conn[d]
    <3>1. \/ T = [S EXCEPT !.conn[c] = "freed", !.out[c] = FALSE]
          \/ T = [S EXCEPT !.out[c] = FALSE, !.conn[c] = IF @ = "closed" THEN "freed" ELSE @]
      BY <2>2, Zenon DEF Lua!ReadEnd, Lua!WriteOut
    <3>2. CASE T = [S EXCEPT !.conn[c] = "freed", !.out[c] = FALSE]
      <4> DEFINE f == [conn EXCEPT ![c] = "freed"]
      <4>1. T = [[S EXCEPT !.out = [out EXCEPT ![c] = FALSE]] EXCEPT !.conn = f]
        BY <1>1, <1>2, <3>2 DEF Lua!States
      <4>2. f \in [Trio -> {"open", "closed", "freed"}] /\ \A d \in Trio : f[d] = "freed" \/ f[d] = conn[d]
        BY <1>6
      <4> HIDE DEF f
      <4> QED
        BY <4>1, <4>2
    <3>3. CASE T = [S EXCEPT !.out[c] = FALSE, !.conn[c] = IF @ = "closed" THEN "freed" ELSE @]
      <4> DEFINE f == [conn EXCEPT ![c] = IF conn[c] = "closed" THEN "freed" ELSE conn[c]]
      <4>1. T = [[S EXCEPT !.out = [out EXCEPT ![c] = FALSE]] EXCEPT !.conn = f]
        BY <1>1, <1>2, <3>3 DEF Lua!States
      <4>2. f \in [Trio -> {"open", "closed", "freed"}] /\ \A d \in Trio : f[d] = "freed" \/ f[d] = conn[d]
        BY <1>6
      <4> HIDE DEF f
      <4> QED
        BY <4>1, <4>2
    <3> QED
      BY <3>1, <3>2, <3>3
  <2> DEFINE o == [out EXCEPT ![c] = FALSE]
  <2>4. o \in [Trio -> BOOLEAN]
    BY <1>6
  <2>5. T = [[S EXCEPT !.out = o] EXCEPT !.conn = f]
    BY <2>3
  <2> HIDE DEF o
  <2>6. T \in Lua!States
    BY <1>1, <2>4, <2>5 DEF Lua!States
  <2>7. T.lua = lua /\ T.conn = f /\ T.readable = readable /\ T.data = data
    BY <1>1, <1>2, <2>5 DEF Lua!States
  <2>8. Lua!Attended(T)
    BY <1>1, <1>2, <2>1, <2>3, <2>7 DEF Lua!Attended, Lua!NoClient
  <2>9. UNCHANGED <<last, count>>
    BY <1>12 DEF Lua!Event
  <2> QED
    BY <1>1, <1>4, <1>5, <2>1, <2>2, <2>6, <2>7, <2>8, <2>9
<1>13. ASSUME NEW c \in Trio, Lua!Close(c) PROVE Kept /\ Told /\ count' \in Counts
  <2> DEFINE f == [conn EXCEPT ![c] = "closed"]
             T == [S EXCEPT !.conn = f]
  <2>1. [S EXCEPT !.conn[c] = "closed"] = T
    BY <1>1, <1>2 DEF Lua!States
  <2>2. Lua!Become(T) /\ conn[c] = "open" /\ UNCHANGED last /\ count' = [count EXCEPT !.closed = @ + 1]
    BY <1>13, <2>1 DEF Lua!Close, S
  <2>3. f \in [Trio -> {"open", "closed", "freed"}] /\ \A d \in Trio : f[d] = "freed" <=> conn[d] = "freed"
    BY <1>6, <2>2
  <2> HIDE DEF f
  <2>4. T \in Lua!States
    BY <1>1, <2>3 DEF Lua!States
  <2>5. T.lua = lua /\ T.conn = f /\ T.out = out /\ T.readable = readable /\ T.data = data
    BY <1>1, <1>2 DEF Lua!States
  <2> HIDE DEF T
  <2>6. Lua!Attended(T)
    BY <1>1, <1>2, <1>6, <2>3, <2>5 DEF Lua!Attended, Lua!NoClient
  <2>7. count' \in Counts
    BY <1>1, <2>2 DEF Counts
  <2> QED
    BY <1>1, <1>4, <1>5, <2>2, <2>4, <2>5, <2>6, <2>7
<1>14. ASSUME Lua!Return PROVE Kept /\ Told /\ count' \in Counts
  <2>1. Lua!Running /\ Lua!Ends(S, "returned") /\ UNCHANGED count
    BY <1>14 DEF Lua!Return, S
  <2>2. Kept /\ Told /\ data' = data
    BY <1>9, <2>1
  <2> QED
    BY <1>1, <2>1, <2>2
<1>15. ASSUME NEW why \in {"random", "memory"}, Lua!Running, why = "memory" => lua.written = 0, Lua!Refused(why)
       PROVE  Kept /\ Told /\ data' = data
  <2>1. CASE Lua!Ends(S, why)
    BY <1>9, <1>15, <2>1
  <2>2. CASE Lua!Become(S) /\ UNCHANGED last
    BY <1>1, <1>2, <1>4, <1>5, <2>2
  <2> QED
    BY <1>15, <2>1, <2>2 DEF Lua!Refused, S
<1>16. ASSUME Lua!CallWrite PROVE Kept /\ Told /\ count' \in Counts
  <2>0. Lua!Running
    BY <1>16 DEF Lua!CallWrite
  <2>1. CASE Lua!Refused("random") /\ UNCHANGED count
    <3>1. Kept /\ Told /\ data' = data
      BY <1>15, <2>0, <2>1
    <3> QED
      BY <1>1, <2>1, <3>1
  <2>2. CASE Lua!OutOfMemory /\ Lua!Refused("memory") /\ count' = [count EXCEPT !.refused = @ + 1]
    <3>1. Kept /\ Told /\ data' = data
      BY <1>15, <2>0, <2>2 DEF Lua!OutOfMemory
    <3>2. count' \in Counts
      BY <1>1, <2>2 DEF Counts
    <3> QED
      BY <3>1, <3>2
  <2>3. CASE Lua!Become([S EXCEPT !.lua.written = @ + 1, !.data = Append(@, lua.caller)]) /\ UNCHANGED <<last, count>>
    <3> DEFINE l == [lua EXCEPT !.written = lua.written + 1]
               d == Append(data, lua.caller)
               T == [[S EXCEPT !.lua = l] EXCEPT !.data = d]
    <3>1. [S EXCEPT !.lua.written = @ + 1, !.data = Append(@, lua.caller)] = T
      BY <1>1, <1>2, <1>6 DEF Lua!States
    <3>2. d \in Seq(Trio)
      BY <1>6, <1>7, <2>0
    <3>3. l \in [caller : Trio \cup {"none"}, written : Nat, random : BOOLEAN, timedout : BOOLEAN, kill : BOOLEAN]
      BY <1>6
    <3>4. l.caller = lua.caller
      BY <1>6
    <3>5. l.timedout = lua.timedout
      BY <1>6
    <3>6. l.kill = lua.kill
      BY <1>6
    <3> HIDE DEF l, d
    <3>7. T \in Lua!States
      BY <1>1, <3>2, <3>3 DEF Lua!States, Lua!NoClient
    <3>8. T.lua = l /\ T.conn = conn /\ T.out = out /\ T.readable = readable /\ T.data = d
      BY <1>1, <1>2 DEF Lua!States
    <3>9. Lua!Become(T)
      BY <2>3, <3>1
    <3> HIDE DEF T
    <3>10. Lua!Attended(T)
      BY <1>1, <1>2, <3>4, <3>5, <3>6, <3>8 DEF Lua!Attended, Lua!NoClient
    <3>11. Kept /\ data' = d
      BY <1>1, <1>5, <3>6, <3>7, <3>8, <3>9, <3>10
    <3> QED
      BY <1>1, <1>4, <2>3, <3>11 DEF d
  <2> QED
    BY <1>16, <2>1, <2>2, <2>3 DEF Lua!CallWrite, S
<1>17. ASSUME Lua!CallRandom PROVE Kept /\ Told /\ count' \in Counts
  <2> DEFINE l == [lua EXCEPT !.random = TRUE]
             T == [S EXCEPT !.lua = l]
  <2>1. [S EXCEPT !.lua.random = TRUE] = T
    BY <1>1, <1>2 DEF Lua!States
  <2>2. Lua!Become(T) /\ UNCHANGED <<last, count>>
    BY <1>17, <2>1 DEF Lua!CallRandom, S
  <2>3. l \in [caller : Trio \cup {"none"}, written : Nat, random : BOOLEAN, timedout : BOOLEAN, kill : BOOLEAN]
    BY <1>6
  <2>4. l.caller = lua.caller /\ l.written = lua.written
    BY <1>6
  <2>5. l.timedout = lua.timedout
    BY <1>6
  <2>6. l.kill = lua.kill
    BY <1>6
  <2> HIDE DEF l
  <2>7. T \in Lua!States
    BY <1>1, <2>3 DEF Lua!States, Lua!NoClient
  <2>8. T.lua = l /\ T.conn = conn /\ T.out = out /\ T.readable = readable /\ T.data = data
    BY <1>1, <1>2 DEF Lua!States
  <2> HIDE DEF T
  <2>9. Lua!Attended(T)
    BY <1>1, <1>2, <2>4, <2>5, <2>6, <2>8 DEF Lua!Attended, Lua!NoClient
  <2>10. Kept /\ data' = data
    BY <1>1, <1>5, <2>2, <2>6, <2>7, <2>8, <2>9
  <2> QED
    BY <1>1, <1>4, <2>2, <2>10
<1>18. ASSUME Lua!Hook PROVE Kept /\ Told /\ count' \in Counts
  <2>0. Lua!Running /\ UNCHANGED count
    BY <1>18 DEF Lua!Hook
  <2>1. PICK T \in IF lua.timedout THEN Lua!Events(S) ELSE {S} \cup Lua!Events(Lua!TimedOut(S)) :
          IF T.up /\ T.lua.kill THEN Lua!Ends(T, "killed") ELSE Lua!Become(T) /\ UNCHANGED last
    BY <1>18 DEF Lua!Hook, S
  <2> DEFINE U == Lua!TimedOut(S)
  <2>2. U \in Lua!States /\ Lua!Attended(U) /\ U.lua.timedout /\ ~U.lua.kill /\ U.lua.caller = lua.caller /\ U.data = data
    <3> DEFINE l == [lua EXCEPT !.timedout = TRUE]
               r == [readable EXCEPT ![lua.caller] = FALSE]
               V == [[S EXCEPT !.lua = l] EXCEPT !.readable = r]
    <3>1. U = V
      BY <1>1, <1>2, <1>6, <1>7, <2>0 DEF Lua!TimedOut, Lua!States
    <3>2. l \in [caller : Trio \cup {"none"}, written : Nat, random : BOOLEAN, timedout : BOOLEAN, kill : BOOLEAN]
      BY <1>6
    <3>3. l.caller = lua.caller /\ l.timedout
      BY <1>6
    <3>4. l.kill = lua.kill
      BY <1>6
    <3>5. r \in [Trio -> BOOLEAN] /\ ~r[lua.caller] /\ \A d \in Trio : d # lua.caller => r[d] = readable[d]
      BY <1>6, <1>7, <2>0
    <3> HIDE DEF l, r
    <3>6. V \in Lua!States
      BY <1>1, <3>2, <3>5 DEF Lua!States, Lua!NoClient
    <3>7. V.lua = l /\ V.conn = conn /\ V.out = out /\ V.readable = r /\ V.data = data
      BY <1>1, <1>2 DEF Lua!States
    <3> HIDE DEF V, U
    <3>8. Lua!Attended(V)
      BY <1>1, <1>2, <1>7, <2>0, <3>3, <3>4, <3>5, <3>7 DEF Lua!Attended, Lua!NoClient
    <3> QED
      BY <1>1, <3>1, <3>3, <3>4, <3>6, <3>7, <3>8
  <2> HIDE DEF U
  <2>3. T \in Lua!States /\ Lua!Attended(T) /\ T.lua.caller = lua.caller /\ T.data = data
    <3>1. CASE lua.timedout /\ T \in Lua!Events(S)
      BY <1>1, <1>2, <3>1, SlowEvents
    <3>2. CASE T = S
      BY <1>1, <1>2, <3>2
    <3>3. CASE T \in Lua!Events(U)
      BY <2>2, <3>3, SlowEvents
    <3> QED
      BY <2>1, <3>1, <3>2, <3>3 DEF U
  <2>4. CASE T.up /\ T.lua.kill
    <3>1. Lua!Ends(T, "killed") /\ T.lua.written = 0 /\ T.lua.caller # "none"
      BY <1>7, <2>0, <2>1, <2>3, <2>4 DEF Lua!Attended
    <3>2. Kept /\ Told /\ data' = data
      BY <2>3, <3>1, Ending DEF Kept, Told, Lasts
    <3> QED
      BY <1>1, <2>0, <3>2
  <2>5. CASE ~(T.up /\ T.lua.kill)
    <3>1. Lua!Become(T) /\ UNCHANGED last
      BY <2>1, <2>5
    <3>2. ~T.lua.kill
      <4>1. up /\ U.up
        <5>1. up
          BY <2>0 DEF Lua!Running
        <5>2. Lua!TimedOut(S).up = S.up
          BY <1>1 DEF Lua!TimedOut, Lua!States
        <5> QED
          BY <1>2, <5>1, <5>2 DEF U
      <4>2. CASE T = S
        BY <1>1, <1>2, <4>2
      <4>3. CASE T \in Lua!Events(S) /\ ~T.up
        <5>1. T.lua = S.lua
          BY <1>1, <1>2, <4>1, <4>3, ServerStops
        <5> QED
          BY <1>1, <1>2, <5>1
      <4>4. CASE T \in Lua!Events(U) /\ ~T.up
        <5>1. T.lua = U.lua
          BY <2>2, <4>1, <4>4, ServerStops
        <5> QED
          BY <2>2, <5>1
      <4> QED
        BY <2>1, <2>5, <4>2, <4>3, <4>4 DEF U
    <3>3. Kept /\ data' = data
      BY <1>5, <2>3, <3>1, <3>2
    <3> QED
      BY <1>1, <1>4, <2>0, <3>1, <3>3
  <2> QED
    BY <2>4, <2>5
<1>19. ASSUME UNCHANGED Lua!vars PROVE Kept /\ Told /\ count' \in Counts
  <2>1. Lua!Become(S) /\ UNCHANGED <<last, count, data>>
    BY <1>2, <1>19 DEF Lua!vars, Lua!Become
  <2> QED
    BY <1>1, <1>2, <1>4, <1>5, <2>1
<1> QED
  BY <1>10, <1>11, <1>12, <1>13, <1>14, <1>16, <1>17, <1>18, <1>19 DEF Lua!Next

-----------------------------------------------------------------------------
(* What the reply buffers hold is a sequence of sequences, joined. *)
Flat(s) == Rb!FlattenSeq(s)

(* A joined sequence grows part by part. *)
Joins(g, s) ==
  /\ g \in [0..Len(s) -> Seq(Nat)]
  /\ g[0] = <<>>
  /\ \A k \in 1..Len(s) : g[k] = g[k-1] \o s[k]

(* The joined prefixes of a sequence exist, *)
LEMMA JoinsExist ==
  ASSUME NEW s \in Seq(Seq(Nat))
  PROVE  \E g : Joins(g, s)
<1> DEFINE N == Len(s)
           next == [k \in 1..N |-> [x \in Seq(Nat) |-> x \o s[k]]]
<1>1. N \in Nat /\ \A k \in 1..N : s[k] \in Seq(Nat)
  OBVIOUS
<1>2. next \in [1..N -> [Seq(Nat) -> Seq(Nat)]]
  <2>1. \A k \in 1..N, x \in Seq(Nat) : x \o s[k] \in Seq(Nat)
    BY <1>1
  <2> QED
    BY <2>1
<1>3. \A k \in 1..N, x \in Seq(Nat) : next[k][x] = x \o s[k]
  OBVIOUS
<1>4. <<>> \in Seq(Nat)
  OBVIOUS
<1> HIDE DEF next, N
<1>5. PICK g \in [0..N -> Seq(Nat)] : Chained(g, N, <<>>, next)
  BY <1>1, <1>2, <1>4, Chain
<1>6. \A k \in 1..N : k - 1 \in 0..N /\ g[k-1] \in Seq(Nat)
  BY <1>1
<1>7. g[0] = <<>> /\ \A k \in 1..N : g[k] = g[k-1] \o s[k]
  BY <1>3, <1>5, <1>6 DEF Chained
<1>8. Joins(g, s)
  BY <1>7 DEF Joins, N
<1> QED
  BY <1>8

(* are the only ones, *)
LEMMA JoinsUnique ==
  ASSUME NEW s \in Seq(Seq(Nat)), NEW g, NEW h, Joins(g, s),
         h[0] = <<>>, \A k \in 1..Len(s) : h[k] = h[k-1] \o s[k]
  PROVE  \A k \in 0..Len(s) : h[k] = g[k]
<1> DEFINE N == Len(s)
           E == {n \in Nat : n <= N => h[n] = g[n]}
<1>1. N \in Nat
  OBVIOUS
<1>2. /\ h[0] = <<>> /\ g[0] = <<>>
      /\ \A k \in 1..N : h[k] = h[k-1] \o s[k]
      /\ \A k \in 1..N : g[k] = g[k-1] \o s[k]
  BY DEF Joins
<1> HIDE DEF N
<1>3. 0 \in E
  BY <1>2
<1>4. ASSUME NEW n \in Nat, n \in E PROVE n + 1 \in E
  <2> SUFFICES ASSUME n + 1 <= N PROVE h[n+1] = g[n+1]
    OBVIOUS
  <2>1. n + 1 \in 1..N /\ (n + 1) - 1 = n /\ h[n] = g[n]
    BY <1>1, <1>4
  <2>2. h[n+1] = h[n] \o s[n+1]
    BY <1>2, <2>1
  <2>3. g[n+1] = g[n] \o s[n+1]
    BY <1>2, <2>1
  <2> QED
    BY <2>1, <2>2, <2>3
<1> HIDE DEF E
<1>5. Nat \subseteq E
  BY <1>3, <1>4, NatInd
<1> QED
  BY <1>1, <1>5 DEF E, N

(* and the last of them is what FlattenSeq computes. *)
LEMMA FlatJoins ==
  ASSUME NEW s \in Seq(Seq(Nat)), NEW g, Joins(g, s)
  PROVE  Flat(s) = g[Len(s)] /\ Flat(s) \in Seq(Nat)
<1> DEFINE N == Len(s)
           Solves(f) == f = [i \in 1..N |-> IF i = 1 THEN s[i] ELSE f[i-1] \o s[i]]
<1>1. N \in Nat /\ \A k \in 1..N : s[k] \in Seq(Nat)
  OBVIOUS
<1>2. /\ g \in [0..N -> Seq(Nat)] /\ g[0] = <<>>
      /\ \A k \in 1..N : g[k] = g[k-1] \o s[k]
  BY DEF Joins
<1>3. g[N] \in Seq(Nat)
  BY <1>1, <1>2
<1>4. SUFFICES Flat(s) = g[N]
  BY <1>3
<1>5. CASE N = 0
  <2>1. s = <<>>
    BY <1>5, EmptySeq
  <2> QED
    BY <1>2, <1>5, <2>1 DEF Flat, Rb!FlattenSeq
<1>6. CASE N # 0
  <2> DEFINE e == [i \in 1..N |-> g[i]]
  <2>1. Solves(e)
    <3>1. ASSUME NEW i \in 1..N PROVE e[i] = IF i = 1 THEN s[i] ELSE e[i-1] \o s[i]
      <4>1. g[i] = g[i-1] \o s[i] /\ e[i] = g[i]
        BY <1>2
      <4>2. CASE i = 1
        <5>1. g[i-1] = <<>> /\ s[i] \in Seq(Nat)
          BY <1>1, <1>2, <4>2
        <5> QED
          BY <4>1, <4>2, <5>1, ConcatEmptySeq
      <4>3. CASE i # 1
        <5>1. i - 1 \in 1..N
          BY <1>1, <4>3
        <5>2. e[i-1] = g[i-1]
          BY <5>1
        <5> QED
          BY <4>1, <4>3, <5>2
      <4> QED
        BY <4>2, <4>3
    <3>2. e = [i \in 1..N |-> e[i]]
      OBVIOUS
    <3> HIDE DEF e
    <3> QED
      BY <3>1, <3>2
  <2> DEFINE h == CHOOSE f : Solves(f)
  <2>2. Flat(s) = h[N]
    BY <1>6, Zenon DEF Flat, Rb!FlattenSeq
  <2>3. Solves(h)
    <3> HIDE DEF Solves
    <3> QED
      BY <2>1
  <2> HIDE DEF h
  <2>4. ASSUME NEW k \in 1..N PROVE h[k] = IF k = 1 THEN s[k] ELSE h[k-1] \o s[k]
    BY <2>3, Zenon
  <2> DEFINE j == [i \in 0..N |-> IF i = 0 THEN <<>> ELSE h[i]]
  <2>5. ASSUME NEW k \in 1..N PROVE j[k] = j[k-1] \o s[k]
    <3>1. j[k] = h[k]
      BY <1>1
    <3>2. CASE k = 1
      <4>1. j[k-1] = <<>> /\ s[k] \in Seq(Nat) /\ h[k] = s[k]
        BY <1>1, <2>4, <3>2
      <4> QED
        BY <3>1, <4>1, ConcatEmptySeq
    <3>3. CASE k # 1
      <4>1. k - 1 \in 0..N /\ k - 1 # 0
        BY <1>1, <3>3
      <4>2. j[k-1] = h[k-1]
        BY <4>1
      <4> QED
        BY <2>4, <3>1, <3>3, <4>2
    <3> QED
      BY <3>2, <3>3
  <2>6. j[0] = <<>> /\ j[N] = h[N]
    BY <1>1, <1>6
  <2> HIDE DEF j
  <2>7. \A k \in 0..N : j[k] = g[k]
    BY <2>5, <2>6, JoinsUnique
  <2> QED
    BY <1>1, <2>2, <2>6, <2>7
<1> QED
  BY <1>5, <1>6

(* Joined sequences of numbers are a sequence of numbers. *)
LEMMA FlatType ==
  ASSUME NEW s \in Seq(Seq(Nat))
  PROVE  Flat(s) \in Seq(Nat)
BY JoinsExist, FlatJoins

(* Nothing joined is nothing. *)
LEMMA FlatEmpty == Flat(<<>>) = <<>>
<1>1. Len(<<>>) = 0
  OBVIOUS
<1> QED
  BY <1>1 DEF Flat, Rb!FlattenSeq

(* A part at the end comes last. *)
LEMMA FlatAppend ==
  ASSUME NEW s \in Seq(Seq(Nat)), NEW x \in Seq(Nat)
  PROVE  Flat(Append(s, x)) = Flat(s) \o x
<1> DEFINE t == Append(s, x)
           N == Len(s)
<1>1. t \in Seq(Seq(Nat)) /\ Len(t) = N + 1 /\ N \in Nat /\ t[N + 1] = x
      /\ \A i \in 1..N : t[i] = s[i]
  BY AppendProperties
<1>2. PICK g : Joins(g, s)
  BY JoinsExist
<1>3. /\ g \in [0..N -> Seq(Nat)] /\ g[0] = <<>>
      /\ \A k \in 1..N : g[k] = g[k-1] \o s[k]
  BY <1>2 DEF Joins
<1>4. Flat(s) = g[N]
  BY <1>2, FlatJoins
<1> HIDE DEF t, N
<1> DEFINE j == [k \in 0..(N + 1) |-> IF k = N + 1 THEN g[N] \o x ELSE g[k]]
<1>5. j \in [0..(N + 1) -> Seq(Nat)]
  <2>1. g[N] \in Seq(Nat)
    BY <1>1, <1>3
  <2>2. g[N] \o x \in Seq(Nat)
    BY <2>1
  <2> QED
    BY <1>1, <1>3, <2>2
<1>6. j[0] = <<>> /\ j[N + 1] = g[N] \o x /\ j[N] = g[N]
  <2>1. 0 \in 0..(N + 1) /\ N \in 0..(N + 1) /\ N + 1 \in 0..(N + 1) /\ N # N + 1 /\ 0 # N + 1
    BY <1>1
  <2> QED
    BY <1>3, <2>1
<1>7. ASSUME NEW k \in 1..(N + 1) PROVE j[k] = j[k-1] \o t[k]
  <2>1. CASE k = N + 1
    <3>1. k - 1 = N
      BY <1>1, <2>1
    <3> HIDE DEF j
    <3> QED
      BY <1>1, <1>6, <2>1, <3>1
  <2>2. CASE k # N + 1
    <3>1. k \in 1..N /\ k - 1 \in 0..(N + 1) /\ k - 1 # N + 1 /\ k \in 0..(N + 1)
      BY <1>1, <2>2
    <3>2. j[k] = g[k] /\ j[k-1] = g[k-1]
      BY <2>2, <3>1
    <3> HIDE DEF j
    <3> QED
      BY <1>1, <1>3, <3>1, <3>2
  <2> QED
    BY <2>1, <2>2
<1> HIDE DEF j
<1>8. Joins(j, t)
  BY <1>1, <1>5, <1>6, <1>7 DEF Joins
<1>9. Flat(t) = j[N + 1]
  BY <1>1, <1>8, FlatJoins
<1> QED
  BY <1>4, <1>6, <1>9 DEF t

(* Concatenation is associative. *)
LEMMA Associative ==
  ASSUME NEW a \in Seq(Nat), NEW b \in Seq(Nat), NEW c \in Seq(Nat)
  PROVE  (a \o b) \o c = a \o (b \o c)
BY ConcatAssociative

(* Joining what follows one another is joining twice. *)
LEMMA FlatCat ==
  ASSUME NEW s \in Seq(Seq(Nat)), NEW t \in Seq(Seq(Nat))
  PROVE  Flat(s \o t) = Flat(s) \o Flat(t)
<1> DEFINE E == {n \in Nat : \A u \in Seq(Seq(Nat)) : Len(u) = n => Flat(s \o u) = Flat(s) \o Flat(u)}
<1>1. 0 \in E
  <2> SUFFICES ASSUME NEW u \in Seq(Seq(Nat)), Len(u) = 0 PROVE Flat(s \o u) = Flat(s) \o Flat(u)
    OBVIOUS
  <2>1. u = <<>>
    BY EmptySeq
  <2>2. s \o u = s /\ Flat(s) \o <<>> = Flat(s)
    BY <2>1, ConcatEmptySeq, FlatType
  <2> QED
    BY <2>1, <2>2, FlatEmpty
<1>2. ASSUME NEW n \in Nat, n \in E PROVE n + 1 \in E
  <2> SUFFICES ASSUME NEW u \in Seq(Seq(Nat)), Len(u) = n + 1 PROVE Flat(s \o u) = Flat(s) \o Flat(u)
    OBVIOUS
  <2>1. u # <<>>
    OBVIOUS
  <2>2. PICK v \in Seq(Seq(Nat)), x \in Seq(Nat) : u = Append(v, x)
    BY <2>1, SequenceEmptyOrAppend
  <2>3. Len(v) = n
    BY <2>2
  <2>4. Flat(s \o v) = Flat(s) \o Flat(v)
    BY <1>2, <2>3
  <2>5. s \o u = Append(s \o v, x) /\ s \o v \in Seq(Seq(Nat))
    BY <2>2
  <2>6. Flat(s \o u) = Flat(s \o v) \o x /\ Flat(u) = Flat(v) \o x
    BY <2>2, <2>5, FlatAppend
  <2>7. Flat(s) \in Seq(Nat) /\ Flat(v) \in Seq(Nat)
    BY FlatType
  <2>8. (Flat(s) \o Flat(v)) \o x = Flat(s) \o (Flat(v) \o x)
    BY <2>7, Associative
  <2> QED
    BY <2>4, <2>6, <2>8
<1> HIDE DEF E
<1>3. Nat \subseteq E
  BY <1>1, <1>2, NatInd
<1> QED
  BY <1>3 DEF E

(* One part joined is that part. *)
LEMMA FlatOne ==
  ASSUME NEW x \in Seq(Nat)
  PROVE  Flat(<<x>>) = x
<1>1. <<>> \in Seq(Seq(Nat)) /\ Append(<<>>, x) = <<x>> /\ <<>> \o x = x
  BY ConcatEmptySeq
<1> QED
  BY <1>1, FlatAppend, FlatEmpty

(* The memory of a list of nodes, in the same way. *)
Mem(node) == Rb!MemOf(node.ptr)

(* A node that has been written takes memory. *)
LEMMA MemType ==
  ASSUME NEW x \in Rb!Nodes
  PROVE  Mem(x) \in Nat /\ (x.ptr # Rb!NullPtr => Mem(x) > 0)
<1>1. Overhead \in Nat
  BY BuffersAssumption DEF Rb!ReplyBuffersAssumption
<1>2. CASE x.ptr = Rb!NullPtr
  BY <1>2 DEF Mem, Rb!MemOf
<1>3. CASE x.ptr # Rb!NullPtr
  <2>1. x.ptr \in Seq(Nat) /\ x.ptr # <<>>
    BY <1>3 DEF Rb!Nodes
  <2>2. Len(x.ptr) \in Nat /\ Len(x.ptr) > 0
    BY <2>1, EmptySeq
  <2>3. Mem(x) = Overhead + Len(x.ptr)
    BY <1>3 DEF Mem, Rb!MemOf
  <2> QED
    BY <1>1, <1>3, <2>2, <2>3
<1> QED
  BY <1>2, <1>3

(* The memory of the first k nodes, for every k *)
Sums(g, s) ==
  /\ g \in [0..Len(s) -> Nat]
  /\ g[0] = 0
  /\ \A k \in 1..Len(s) : g[k] = g[k-1] + Mem(s[k])

(* Such sums exist, *)
LEMMA SumsExist ==
  ASSUME NEW s \in Seq(Rb!Nodes)
  PROVE  \E g : Sums(g, s)
<1> DEFINE N == Len(s)
           next == [k \in 1..N |-> [x \in Nat |-> x + Mem(s[k])]]
<1>1. N \in Nat /\ \A k \in 1..N : Mem(s[k]) \in Nat
  BY MemType
<1>2. next \in [1..N -> [Nat -> Nat]]
  <2>1. \A k \in 1..N, x \in Nat : x + Mem(s[k]) \in Nat
    BY <1>1
  <2> QED
    BY <2>1
<1>3. \A k \in 1..N, x \in Nat : next[k][x] = x + Mem(s[k])
  OBVIOUS
<1> HIDE DEF next, N
<1>5. PICK g \in [0..N -> Nat] : Chained(g, N, 0, next)
  BY <1>1, <1>2, Chain
<1>6. \A k \in 1..N : k - 1 \in 0..N /\ g[k-1] \in Nat
  BY <1>1
<1>7. g[0] = 0 /\ \A k \in 1..N : g[k] = g[k-1] + Mem(s[k])
  BY <1>3, <1>5, <1>6 DEF Chained
<1>8. Sums(g, s)
  BY <1>7 DEF Sums, N
<1> QED
  BY <1>8

(* are the only ones, *)
LEMMA SumsUnique ==
  ASSUME NEW s \in Seq(Rb!Nodes), NEW g, NEW h, Sums(g, s),
         h[0] = 0, \A k \in 1..Len(s) : h[k] = h[k-1] + Mem(s[k])
  PROVE  \A k \in 0..Len(s) : h[k] = g[k]
<1> DEFINE N == Len(s)
           E == {n \in Nat : n <= N => h[n] = g[n]}
<1>1. N \in Nat
  OBVIOUS
<1>2. /\ h[0] = 0 /\ g[0] = 0
      /\ \A k \in 1..N : h[k] = h[k-1] + Mem(s[k])
      /\ \A k \in 1..N : g[k] = g[k-1] + Mem(s[k])
  BY DEF Sums
<1> HIDE DEF N
<1>3. 0 \in E
  BY <1>2
<1>4. ASSUME NEW n \in Nat, n \in E PROVE n + 1 \in E
  <2> SUFFICES ASSUME n + 1 <= N PROVE h[n+1] = g[n+1]
    OBVIOUS
  <2>1. n + 1 \in 1..N /\ (n + 1) - 1 = n /\ h[n] = g[n]
    BY <1>1, <1>4
  <2>2. h[n+1] = h[n] + Mem(s[n+1])
    BY <1>2, <2>1
  <2>3. g[n+1] = g[n] + Mem(s[n+1])
    BY <1>2, <2>1
  <2> QED
    BY <2>1, <2>2, <2>3
<1> HIDE DEF E
<1>5. Nat \subseteq E
  BY <1>3, <1>4, NatInd
<1> QED
  BY <1>1, <1>5 DEF E, N

(* and the last of them is what Total computes. *)
LEMMA TotalSums ==
  ASSUME NEW s \in Seq(Rb!Nodes), NEW g, Sums(g, s)
  PROVE  Rb!Total(s) = g[Len(s)] /\ Rb!Total(s) \in Nat
<1> DEFINE N == Len(s)
           Solves(f) == f = [i \in 0..N |-> IF i = 0 THEN 0 ELSE f[i-1] + Rb!MemOf(s[i].ptr)]
           h == CHOOSE f : Solves(f)
<1>1. N \in Nat
  OBVIOUS
<1>2. /\ g \in [0..N -> Nat] /\ g[0] = 0
      /\ \A k \in 1..N : g[k] = g[k-1] + Mem(s[k])
  BY DEF Sums
<1>3. Rb!Total(s) = h[N]
  BY Zenon DEF Rb!Total
<1>4. Solves(g)
  <2>1. ASSUME NEW i \in 0..N PROVE g[i] = IF i = 0 THEN 0 ELSE g[i-1] + Rb!MemOf(s[i].ptr)
    <3>1. CASE i = 0
      BY <1>2, <3>1
    <3>2. CASE i # 0
      <4>1. i \in 1..N
        BY <1>1, <3>2
      <4> QED
        BY <1>2, <3>2, <4>1 DEF Mem
    <3> QED
      BY <3>1, <3>2
  <2>2. g = [i \in 0..N |-> g[i]]
    BY <1>2
  <2> QED
    BY <2>1, <2>2
<1>5. Solves(h)
  <2> HIDE DEF Solves
  <2> QED
    BY <1>4
<1> HIDE DEF h
<1>6. ASSUME NEW i \in 0..N PROVE h[i] = IF i = 0 THEN 0 ELSE h[i-1] + Rb!MemOf(s[i].ptr)
  BY <1>5, Zenon
<1>7. h[0] = 0 /\ \A k \in 1..N : h[k] = h[k-1] + Mem(s[k])
  <2>1. 0 \in 0..N /\ \A k \in 1..N : k \in 0..N /\ k # 0
    BY <1>1
  <2> QED
    BY <1>6, <2>1 DEF Mem
<1>8. \A k \in 0..N : h[k] = g[k]
  BY <1>7, SumsUnique
<1>9. g[N] \in Nat /\ h[N] = g[N]
  BY <1>1, <1>2, <1>8
<1> QED
  BY <1>3, <1>9

(* A node at the end adds its memory. *)
LEMMA TotalAppend ==
  ASSUME NEW s \in Seq(Rb!Nodes), NEW x \in Rb!Nodes
  PROVE  Rb!Total(Append(s, x)) = Rb!Total(s) + Mem(x)
<1> DEFINE t == Append(s, x)
           N == Len(s)
<1>1. t \in Seq(Rb!Nodes) /\ Len(t) = N + 1 /\ N \in Nat /\ t[N + 1] = x
      /\ \A i \in 1..N : t[i] = s[i]
  BY AppendProperties
<1>2. PICK g : Sums(g, s)
  BY SumsExist
<1>3. /\ g \in [0..N -> Nat] /\ g[0] = 0
      /\ \A k \in 1..N : g[k] = g[k-1] + Mem(s[k])
  BY <1>2 DEF Sums
<1>4. Rb!Total(s) = g[N]
  BY <1>2, TotalSums
<1>m. Mem(x) \in Nat
  BY MemType
<1> HIDE DEF t, N
<1> DEFINE j == [k \in 0..(N + 1) |-> IF k = N + 1 THEN g[N] + Mem(x) ELSE g[k]]
<1>5. j \in [0..(N + 1) -> Nat]
  <2>1. g[N] + Mem(x) \in Nat
    BY <1>1, <1>3, <1>m
  <2> QED
    BY <1>1, <1>3, <2>1
<1>6. j[0] = 0 /\ j[N + 1] = g[N] + Mem(x) /\ j[N] = g[N]
  <2>1. 0 \in 0..(N + 1) /\ N \in 0..(N + 1) /\ N + 1 \in 0..(N + 1) /\ N # N + 1 /\ 0 # N + 1
    BY <1>1
  <2> QED
    BY <1>3, <2>1
<1>7. ASSUME NEW k \in 1..(N + 1) PROVE j[k] = j[k-1] + Mem(t[k])
  <2>1. CASE k = N + 1
    <3>1. k - 1 = N
      BY <1>1, <2>1
    <3> HIDE DEF j
    <3> QED
      BY <1>1, <1>6, <2>1, <3>1
  <2>2. CASE k # N + 1
    <3>1. k \in 1..N /\ k - 1 \in 0..(N + 1) /\ k - 1 # N + 1 /\ k \in 0..(N + 1)
      BY <1>1, <2>2
    <3>2. j[k] = g[k] /\ j[k-1] = g[k-1]
      BY <2>2, <3>1
    <3> HIDE DEF j
    <3> QED
      BY <1>1, <1>3, <3>1, <3>2
  <2> QED
    BY <2>1, <2>2
<1> HIDE DEF j
<1>8. Sums(j, t)
  BY <1>1, <1>5, <1>6, <1>7 DEF Sums
<1>9. Rb!Total(t) = j[N + 1]
  BY <1>1, <1>8, TotalSums
<1> QED
  BY <1>4, <1>6, <1>9 DEF t

(* An empty list takes no memory. *)
LEMMA TotalEmpty == Rb!Total(<<>>) = 0
<1> DEFINE e == <<>>
<1>1. e \in Seq(Rb!Nodes) /\ Len(e) = 0
  OBVIOUS
<1> HIDE DEF e
<1>2. PICK g : Sums(g, e)
  BY <1>1, SumsExist
<1>3. g[0] = 0
  BY <1>2 DEF Sums
<1> QED
  BY <1>1, <1>2, <1>3, TotalSums DEF e

(* The memory of a list is a number. *)
LEMMA TotalType ==
  ASSUME NEW s \in Seq(Rb!Nodes)
  PROVE  Rb!Total(s) \in Nat
BY SumsExist, TotalSums

(* Two lists take the memory of both. *)
LEMMA TotalCat ==
  ASSUME NEW s \in Seq(Rb!Nodes), NEW t \in Seq(Rb!Nodes)
  PROVE  Rb!Total(s \o t) = Rb!Total(s) + Rb!Total(t)
<1> DEFINE E == {n \in Nat : \A u \in Seq(Rb!Nodes) : Len(u) = n => Rb!Total(s \o u) = Rb!Total(s) + Rb!Total(u)}
<1>0. Rb!Total(s) \in Nat
  BY TotalType
<1>1. 0 \in E
  <2> SUFFICES ASSUME NEW u \in Seq(Rb!Nodes), Len(u) = 0 PROVE Rb!Total(s \o u) = Rb!Total(s) + Rb!Total(u)
    OBVIOUS
  <2>1. u = <<>>
    BY EmptySeq
  <2>2. s \o u = s
    BY <2>1, ConcatEmptySeq
  <2> QED
    BY <1>0, <2>1, <2>2, TotalEmpty
<1>2. ASSUME NEW n \in Nat, n \in E PROVE n + 1 \in E
  <2> SUFFICES ASSUME NEW u \in Seq(Rb!Nodes), Len(u) = n + 1 PROVE Rb!Total(s \o u) = Rb!Total(s) + Rb!Total(u)
    OBVIOUS
  <2>1. u # <<>>
    OBVIOUS
  <2>2. PICK v \in Seq(Rb!Nodes), x \in Rb!Nodes : u = Append(v, x)
    BY <2>1, SequenceEmptyOrAppend
  <2>3. Len(v) = n
    BY <2>2
  <2>4. Rb!Total(s \o v) = Rb!Total(s) + Rb!Total(v)
    BY <1>2, <2>3
  <2>5. s \o u = Append(s \o v, x) /\ s \o v \in Seq(Rb!Nodes)
    BY <2>2
  <2>6. Rb!Total(s \o u) = Rb!Total(s \o v) + Mem(x) /\ Rb!Total(u) = Rb!Total(v) + Mem(x)
    BY <2>2, <2>5, TotalAppend
  <2>7. Rb!Total(v) \in Nat /\ Mem(x) \in Nat
    BY TotalType, MemType
  <2> QED
    BY <1>0, <2>4, <2>6, <2>7
<1> HIDE DEF E
<1>3. Nat \subseteq E
  BY <1>1, <1>2, NatInd
<1> QED
  BY <1>3 DEF E

(* A list of one node takes its memory. *)
LEMMA TotalOne ==
  ASSUME NEW x \in Rb!Nodes
  PROVE  Rb!Total(<<x>>) = Mem(x)
<1>1. <<>> \in Seq(Rb!Nodes) /\ Append(<<>>, x) = <<x>>
  OBVIOUS
<1>2. Rb!Total(Append(<<>>, x)) = Rb!Total(<<>>) + Mem(x)
  BY <1>1, TotalAppend
<1>3. Mem(x) \in Nat
  BY MemType
<1> QED
  BY <1>1, <1>2, <1>3, TotalEmpty

(* What the nodes of a list hold, joined *)
Held(l, d) == Flat(Rb!Parts(l, d))

(* What follows the first k bytes *)
Drop(a, k) == SubSeq(a, k + 1, Len(a))

(* No node waits for its length. *)
Whole(l) == \A i \in DOMAIN l : l[i].ptr # Rb!NullPtr

(* A node that is written holds bytes; the marker of one that is not       *)
(* counts as one byte.                                                     *)
LEMMA NodeFields ==
  ASSUME NEW x \in Rb!Nodes
  PROVE  /\ x.ptr # Rb!NullPtr => x.ptr \in Seq(Nat) /\ x.ptr # <<>> /\ Len(x.ptr) > 0
         /\ x.ptr = Rb!NullPtr => Len(x.ptr) = 1
         /\ x.shared \in BOOLEAN
<1>1. x.ptr \in (Seq(Nat) \ {<<>>}) \cup {Rb!NullPtr} /\ x.shared \in BOOLEAN
  BY DEF Rb!Nodes
<1>2. ASSUME x.ptr # Rb!NullPtr PROVE x.ptr \in Seq(Nat) /\ x.ptr # <<>> /\ Len(x.ptr) > 0
  <2>1. x.ptr \in Seq(Nat) /\ x.ptr # <<>>
    BY <1>1, <1>2
  <2> QED
    BY <2>1, EmptySeq, LenProperties
<1>3. Len(Rb!NullPtr) = 1
  BY DEF Rb!NullPtr
<1> QED
  BY <1>1, <1>2, <1>3

(* The parts of a list, one for every node *)
LEMMA PartsType ==
  ASSUME NEW l \in Seq(Rb!Nodes), NEW d, Whole(l) \/ d \in Nat
  PROVE  Rb!Parts(l, d) \in Seq(Seq(Nat)) /\ Len(Rb!Parts(l, d)) = Len(l)
<1> DEFINE p == Rb!Parts(l, d)
<1>1. DOMAIN l = 1..Len(l) /\ Len(l) \in Nat
  OBVIOUS
<1>2. ASSUME NEW i \in 1..Len(l) PROVE p[i] \in Seq(Nat)
  <2>1. l[i] \in Rb!Nodes
    BY <1>1, ElementOfSeq
  <2>2. CASE l[i].ptr = Rb!NullPtr
    <3>1. d \in Nat
      BY <2>2, <1>1 DEF Whole
    <3>2. p[i] = <<d>>
      BY <2>2, <1>1 DEF Rb!Parts
    <3> QED
      BY <3>1, <3>2
  <2>3. CASE l[i].ptr # Rb!NullPtr
    <3>1. p[i] = l[i].ptr
      BY <2>3, <1>1 DEF Rb!Parts
    <3> QED
      BY <3>1, <2>3, <2>1, NodeFields
  <2> QED
    BY <2>2, <2>3
<1>3. p = [i \in 1..Len(l) |-> p[i]]
  BY <1>1 DEF Rb!Parts
<1> HIDE DEF p
<1>4. p \in Seq(Seq(Nat)) /\ Len(p) = Len(l)
  BY <1>1, <1>2, <1>3
<1> QED
  BY <1>4 DEF p

(* Two lists have no node that waits when neither has. *)
LEMMA WholeCat ==
  ASSUME NEW l \in Seq(Rb!Nodes), NEW m \in Seq(Rb!Nodes)
  PROVE  Whole(l \o m) <=> Whole(l) /\ Whole(m)
<1>1. /\ Len(l) \in Nat /\ Len(m) \in Nat /\ DOMAIN l = 1..Len(l) /\ DOMAIN m = 1..Len(m)
      /\ DOMAIN (l \o m) = 1..(Len(l) + Len(m))
      /\ \A i \in 1..Len(l) : (l \o m)[i] = l[i]
      /\ \A i \in 1..Len(m) : (l \o m)[Len(l) + i] = m[i]
  OBVIOUS
<1>2. ASSUME Whole(l \o m) PROVE Whole(l)
  <2> SUFFICES ASSUME NEW i \in 1..Len(l) PROVE l[i].ptr # Rb!NullPtr
    BY <1>1 DEF Whole
  <2>1. i \in 1..(Len(l) + Len(m))
    BY <1>1
  <2> QED
    BY <2>1, <1>1, <1>2 DEF Whole
<1>3. ASSUME Whole(l \o m) PROVE Whole(m)
  <2> SUFFICES ASSUME NEW i \in 1..Len(m) PROVE m[i].ptr # Rb!NullPtr
    BY <1>1 DEF Whole
  <2>1. Len(l) + i \in 1..(Len(l) + Len(m))
    BY <1>1
  <2> QED
    BY <2>1, <1>1, <1>3 DEF Whole
<1>4. ASSUME Whole(l), Whole(m) PROVE Whole(l \o m)
  <2> SUFFICES ASSUME NEW i \in 1..(Len(l) + Len(m)) PROVE (l \o m)[i].ptr # Rb!NullPtr
    BY <1>1 DEF Whole
  <2>1. CASE i \in 1..Len(l)
    BY <2>1, <1>1, <1>4 DEF Whole
  <2>2. CASE i \notin 1..Len(l)
    <3> DEFINE j == i - Len(l)
    <3>1. j \in 1..Len(m) /\ i = Len(l) + j
      BY <2>2, <1>1
    <3> HIDE DEF j
    <3> QED
      BY <3>1, <1>1, <1>4 DEF Whole
  <2> QED
    BY <2>1, <2>2
<1> QED
  BY <1>2, <1>3, <1>4

(* The parts of two lists are those of the one and those of the other. *)
LEMMA PartsCat ==
  ASSUME NEW l \in Seq(Rb!Nodes), NEW m \in Seq(Rb!Nodes), NEW d, Whole(l \o m) \/ d \in Nat
  PROVE  Rb!Parts(l \o m, d) = Rb!Parts(l, d) \o Rb!Parts(m, d)
<1> DEFINE p == Rb!Parts(l, d)
           q == Rb!Parts(m, d)
           r == Rb!Parts(l \o m, d)
<1>0. l \o m \in Seq(Rb!Nodes)
  OBVIOUS
<1>1. /\ Len(l) \in Nat /\ Len(m) \in Nat /\ DOMAIN l = 1..Len(l) /\ DOMAIN m = 1..Len(m)
      /\ Len(l \o m) = Len(l) + Len(m)
      /\ DOMAIN (l \o m) = 1..(Len(l) + Len(m))
      /\ \A i \in 1..Len(l) : (l \o m)[i] = l[i]
      /\ \A i \in 1..Len(m) : (l \o m)[Len(l) + i] = m[i]
  OBVIOUS
<1>2. (Whole(l) /\ Whole(m)) \/ d \in Nat
  BY WholeCat
<1>3. /\ p \in Seq(Seq(Nat)) /\ Len(p) = Len(l) /\ q \in Seq(Seq(Nat)) /\ Len(q) = Len(m)
      /\ r \in Seq(Seq(Nat)) /\ Len(r) = Len(l) + Len(m)
  BY <1>0, <1>1, <1>2, PartsType
<1>4. ASSUME NEW i \in 1..Len(l) PROVE r[i] = p[i]
  <2>1. i \in 1..(Len(l) + Len(m))
    BY <1>1
  <2> QED
    BY <2>1, <1>1 DEF Rb!Parts
<1>5. ASSUME NEW i \in 1..Len(m) PROVE r[Len(l) + i] = q[i]
  <2>1. Len(l) + i \in 1..(Len(l) + Len(m))
    BY <1>1
  <2> QED
    BY <2>1, <1>1 DEF Rb!Parts
<1> HIDE DEF p, q, r
<1>6. \A i \in 1..(Len(l) + Len(m)) : r[i] = (p \o q)[i]
  <2> TAKE i \in 1..(Len(l) + Len(m))
  <2>1. CASE i \in 1..Len(l)
    BY <2>1, <1>1, <1>3, <1>4
  <2>2. CASE i \notin 1..Len(l)
    <3> DEFINE j == i - Len(l)
    <3>1. j \in 1..Len(m) /\ i = Len(l) + j
      BY <2>2, <1>1
    <3> HIDE DEF j
    <3>2. Len(p) + j \in 1..(Len(p) + Len(q)) /\ ~(Len(p) + j <= Len(p)) /\ (Len(p) + j) - Len(p) = j
      BY <3>1, <1>1, <1>3
    <3>5. (p \o q)[Len(p) + j] = q[j]
      <4>1. \A n \in 1..(Len(p) + Len(q)) : (p \o q)[n] = IF n <= Len(p) THEN p[n] ELSE q[n - Len(p)]
        <5>1. p \in Seq(Seq(Nat)) /\ q \in Seq(Seq(Nat))
          BY <1>3
        <5> QED
          BY ONLY <5>1, ConcatProperties, Zenon
      <4> QED
        BY ONLY <3>2, <4>1
    <3>3. (p \o q)[i] = q[j]
      BY <3>1, <3>5, <1>3
    <3>4. r[i] = q[j]
      BY <3>1, <1>5
    <3> QED
      BY <3>3, <3>4
  <2> QED
    BY <2>1, <2>2
<1>7. p \o q \in Seq(Seq(Nat)) /\ Len(p \o q) = Len(l) + Len(m)
  BY <1>3, ConcatProperties
<1>8. r = p \o q
  BY <1>3, <1>6, <1>7, SeqEqual
<1> QED
  BY <1>8 DEF p, q, r

(* A list holds a sequence of bytes. *)
LEMMA HeldType ==
  ASSUME NEW l \in Seq(Rb!Nodes), NEW d, Whole(l) \/ d \in Nat
  PROVE  Held(l, d) \in Seq(Nat)
BY PartsType, FlatType DEF Held

(* Two lists hold what the one holds and then what the other holds. *)
LEMMA HeldCat ==
  ASSUME NEW l \in Seq(Rb!Nodes), NEW m \in Seq(Rb!Nodes), NEW d, Whole(l \o m) \/ d \in Nat
  PROVE  Held(l \o m, d) = Held(l, d) \o Held(m, d)
<1>1. (Whole(l) /\ Whole(m)) \/ d \in Nat
  BY WholeCat
<1>2. Rb!Parts(l, d) \in Seq(Seq(Nat)) /\ Rb!Parts(m, d) \in Seq(Seq(Nat))
  BY <1>1, PartsType
<1>3. Rb!Parts(l \o m, d) = Rb!Parts(l, d) \o Rb!Parts(m, d)
  BY PartsCat
<1>4. Flat(Rb!Parts(l, d) \o Rb!Parts(m, d)) = Flat(Rb!Parts(l, d)) \o Flat(Rb!Parts(m, d))
  BY <1>2, FlatCat
<1> QED
  BY <1>3, <1>4, Zenon DEF Held

(* A list of one node holds what the node holds. *)
LEMMA HeldOne ==
  ASSUME NEW x \in Rb!Nodes, NEW d, x.ptr # Rb!NullPtr \/ d \in Nat
  PROVE  Held(<<x>>, d) = IF x.ptr = Rb!NullPtr THEN <<d>> ELSE x.ptr
<1> DEFINE y == IF x.ptr = Rb!NullPtr THEN <<d>> ELSE x.ptr
<1>1. y \in Seq(Nat)
  BY NodeFields
<1>2. DOMAIN <<x>> = 1..1 /\ <<x>>[1] = x
  OBVIOUS
<1>3. Rb!Parts(<<x>>, d) = [i \in 1..1 |-> y]
  BY <1>2 DEF Rb!Parts
<1> HIDE DEF y
<1>4. [i \in 1..1 |-> y] = <<y>>
  OBVIOUS
<1>5. Held(<<x>>, d) = y
  BY <1>1, <1>3, <1>4, FlatOne DEF Held
<1> QED
  BY <1>5 DEF y

(* An empty list holds nothing. *)
LEMMA HeldEmpty ==
  ASSUME NEW d
  PROVE  Held(<<>>, d) = <<>>
<1>1. Rb!Parts(<<>>, d) = <<>>
  BY DEF Rb!Parts
<1> QED
  BY <1>1, FlatEmpty DEF Held

(* Without a node that waits, the deferred length does not matter. *)
LEMMA HeldSame ==
  ASSUME NEW l, Whole(l), NEW d, NEW e
  PROVE  Held(l, d) = Held(l, e)
<1>1. Rb!Parts(l, d) = Rb!Parts(l, e)
  BY DEF Rb!Parts, Whole
<1> QED
  BY <1>1 DEF Held

(* The part of a sequence behind its first k elements *)
LEMMA DropIs ==
  ASSUME NEW a \in Seq(Nat), NEW k \in Nat, k <= Len(a)
  PROVE  /\ Drop(a, k) \in Seq(Nat) /\ Len(Drop(a, k)) = Len(a) - k
         /\ \A i \in 1..(Len(a) - k) : Drop(a, k)[i] = a[k + i]
<1>0. Len(a) \in Nat /\ \A i \in (k + 1)..Len(a) : a[i] \in Nat
  OBVIOUS
<1> DEFINE d == SubSeq(a, k + 1, Len(a))
<1>1. /\ d \in Seq(Nat) /\ Len(d) = IF k + 1 <= Len(a) THEN Len(a) - (k + 1) + 1 ELSE 0
      /\ \A i \in 1..(Len(a) - (k + 1) + 1) : d[i] = a[(k + 1) + i - 1]
  BY <1>0, SubSeqProperties
<1> HIDE DEF d
<1>2. Len(d) = Len(a) - k
  BY <1>0, <1>1
<1>3. ASSUME NEW i \in 1..(Len(a) - k) PROVE d[i] = a[k + i]
  <2>1. i \in 1..(Len(a) - (k + 1) + 1) /\ (k + 1) + i - 1 = k + i
    BY <1>0
  <2> QED
    BY <2>1, <1>1
<1> QED
  BY <1>1, <1>2, <1>3 DEF d, Drop

(* What is appended stays behind the first k bytes. *)
LEMMA DropCat ==
  ASSUME NEW a \in Seq(Nat), NEW s \in Seq(Nat), NEW k \in Nat, k <= Len(a)
  PROVE  Drop(a \o s, k) = Drop(a, k) \o s
<1> DEFINE d == Drop(a, k)
           e == Drop(a \o s, k)
           c == a \o s
<1>1. /\ c \in Seq(Nat) /\ Len(c) = Len(a) + Len(s) /\ Len(a) \in Nat /\ Len(s) \in Nat
      /\ \A i \in 1..(Len(a) + Len(s)) : c[i] = IF i <= Len(a) THEN a[i] ELSE s[i - Len(a)]
  BY ConcatProperties, LenProperties
<1> HIDE DEF c
<1>2. k <= Len(c)
  BY <1>1
<1>3. /\ d \in Seq(Nat) /\ Len(d) = Len(a) - k
      /\ \A i \in 1..(Len(a) - k) : d[i] = a[k + i]
  BY DropIs
<1>4. /\ e \in Seq(Nat) /\ Len(e) = Len(c) - k
      /\ \A i \in 1..(Len(c) - k) : e[i] = c[k + i]
  BY <1>1, <1>2, DropIs DEF c
<1> HIDE DEF d, e
<1>5. /\ d \o s \in Seq(Nat) /\ Len(d \o s) = Len(d) + Len(s)
      /\ \A i \in 1..(Len(d) + Len(s)) : (d \o s)[i] = IF i <= Len(d) THEN d[i] ELSE s[i - Len(d)]
  BY <1>3, ConcatProperties
<1>6. ASSUME NEW i \in 1..Len(e) PROVE e[i] = (d \o s)[i]
  <2>1. /\ i \in 1..(Len(c) - k) /\ i \in 1..(Len(d) + Len(s)) /\ k + i \in 1..(Len(a) + Len(s))
        /\ i \in Nat
    BY <1>1, <1>3, <1>4
  <2>2. e[i] = IF k + i <= Len(a) THEN a[k + i] ELSE s[(k + i) - Len(a)]
    BY <2>1, <1>1, <1>4
  <2>3. CASE k + i <= Len(a)
    <3>1. i \in 1..(Len(a) - k) /\ i <= Len(d)
      BY <2>1, <2>3, <1>1, <1>3
    <3> QED
      BY <3>1, <2>1, <2>2, <2>3, <1>3, <1>5
  <2>4. CASE ~(k + i <= Len(a))
    <3>1. ~(i <= Len(d)) /\ i - Len(d) = (k + i) - Len(a)
      BY <2>1, <2>4, <1>1, <1>3
    <3> QED
      BY <3>1, <2>1, <2>2, <2>4, <1>5
  <2> QED
    BY <2>3, <2>4
<1>7. Len(e) = Len(d \o s)
  BY <1>1, <1>3, <1>4, <1>5
<1>8. e = d \o s
  BY <1>4, <1>5, <1>6, <1>7, SeqEqual
<1> QED
  BY <1>8 DEF d, e, c

(* The next n bytes come first in what is left. *)
LEMMA DropMore ==
  ASSUME NEW a \in Seq(Nat), NEW k \in Nat, NEW n \in Nat, k + n <= Len(a)
  PROVE  /\ Drop(a, k) = SubSeq(a, k + 1, k + n) \o Drop(a, k + n)
         /\ SubSeq(a, k + 1, k + n) \in Seq(Nat)
<1> DEFINE d == Drop(a, k)
           e == Drop(a, k + n)
           m == SubSeq(a, k + 1, k + n)
<1>0. Len(a) \in Nat /\ k <= Len(a) /\ k + n \in Nat /\ k + 1 \in Int /\ k + n \in Int
  OBVIOUS
<1>1. \A i \in (k + 1)..(k + n) : a[i] \in Nat
  BY <1>0
<1>2. /\ m \in Seq(Nat) /\ Len(m) = IF k + 1 <= k + n THEN (k + n) - (k + 1) + 1 ELSE 0
      /\ \A i \in 1..((k + n) - (k + 1) + 1) : m[i] = a[(k + 1) + i - 1]
  BY <1>0, <1>1, SubSeqProperties
<1>3. /\ d \in Seq(Nat) /\ Len(d) = Len(a) - k
      /\ \A i \in 1..(Len(a) - k) : d[i] = a[k + i]
  BY <1>0, DropIs
<1>4. /\ e \in Seq(Nat) /\ Len(e) = Len(a) - (k + n)
      /\ \A i \in 1..(Len(a) - (k + n)) : e[i] = a[(k + n) + i]
  BY <1>0, DropIs
<1> HIDE DEF d, e, m
<1>5. Len(m) = n
  BY <1>0, <1>2
<1>6. /\ m \o e \in Seq(Nat) /\ Len(m \o e) = Len(m) + Len(e)
      /\ \A i \in 1..(Len(m) + Len(e)) : (m \o e)[i] = IF i <= Len(m) THEN m[i] ELSE e[i - Len(m)]
  BY <1>2, <1>4, ConcatProperties
<1>7. ASSUME NEW i \in 1..Len(d) PROVE d[i] = (m \o e)[i]
  <2>1. i \in 1..(Len(a) - k) /\ i \in 1..(Len(m) + Len(e)) /\ i \in Nat
    BY <1>0, <1>3, <1>4, <1>5
  <2>2. d[i] = a[k + i]
    BY <2>1, <1>3
  <2>3. CASE i <= n
    <3>1. i \in 1..((k + n) - (k + 1) + 1) /\ (k + 1) + i - 1 = k + i /\ i <= Len(m)
      BY <2>1, <2>3, <1>5
    <3>2. m[i] = a[k + i]
      BY <3>1, <1>2
    <3> QED
      BY <3>1, <3>2, <2>1, <2>2, <1>6
  <2>4. CASE ~(i <= n)
    <3>1. /\ ~(i <= Len(m)) /\ i - Len(m) \in 1..(Len(a) - (k + n))
          /\ (k + n) + (i - Len(m)) = k + i
      BY <2>1, <2>4, <1>0, <1>5
    <3>2. e[i - Len(m)] = a[k + i]
      BY <3>1, <1>4
    <3> QED
      BY <3>1, <3>2, <2>1, <2>2, <1>6
  <2> QED
    BY <2>3, <2>4
<1>8. Len(d) = Len(m \o e)
  BY <1>0, <1>3, <1>4, <1>5, <1>6
<1>9. d = m \o e
  BY <1>3, <1>6, <1>7, <1>8, SeqEqual
<1> QED
  BY <1>2, <1>9 DEF d, e, m

(* Nothing left out is everything, everything left out is nothing. *)
LEMMA DropEnds ==
  ASSUME NEW a \in Seq(Nat)
  PROVE  Drop(a, 0) = a /\ Drop(a, Len(a)) = <<>>
<1>1. Drop(a, 0) = a
  BY DEF Drop
<1>2. Drop(a, Len(a)) = <<>>
  BY DEF Drop
<1> QED
  BY <1>1, <1>2

(* At most one node waits for its length: one when a length is deferred. *)
Waits(l, d) ==
  IF d = Rb!None THEN Whole(l)
  ELSE \E i \in DOMAIN l : \A j \in DOMAIN l : l[j].ptr = Rb!NullPtr <=> j = i

(* Less than the first buffer has been sent of it. *)
Partly(b, l, k) ==
  IF b # <<>> THEN k < Len(b) ELSE IF l # <<>> THEN k < Len(l[1].ptr) ELSE k = 0

(* What is kept of the buffer b, the list l, the deferred length d and the *)
(* sent bytes k                                                            *)
Kept(b, l, d, k) ==
  /\ b \in Seq(Nat) /\ l \in Seq(Rb!Nodes) /\ k \in Nat /\ d \in Nat \cup {Rb!None}
  /\ Waits(l, d) /\ Partly(b, l, k)

(* All that is buffered *)
Line(b, l, d) == b \o Held(l, d)

(* A node that has been written *)
Written(x) == x \in Rb!Nodes /\ x.ptr # Rb!NullPtr

(* A node waits only for a length that is a number. *)
LEMMA WaitsWhole ==
  ASSUME NEW l, NEW d \in Nat \cup {Rb!None}, Waits(l, d)
  PROVE  Whole(l) \/ d \in Nat
BY DEF Waits

(* A list of one written node has none that waits. *)
LEMMA WholeOne ==
  ASSUME NEW x, x.ptr # Rb!NullPtr
  PROVE  Whole(<<x>>)
BY DEF Whole

(* All that is buffered is a sequence of bytes. *)
LEMMA LineType ==
  ASSUME NEW b, NEW l, NEW d, NEW k, Kept(b, l, d, k)
  PROVE  /\ Held(l, d) \in Seq(Nat) /\ Line(b, l, d) \in Seq(Nat)
         /\ Len(Line(b, l, d)) = Len(b) + Len(Held(l, d))
<1>1. Held(l, d) \in Seq(Nat)
  BY WaitsWhole, HeldType DEF Kept
<1> QED
  BY <1>1, ConcatProperties DEF Line, Kept

(* A list in front of its first node *)
LEMMA First ==
  ASSUME NEW S, NEW l \in Seq(S), l # <<>>
  PROVE  /\ Tail(l) \in Seq(S) /\ l[1] \in S /\ <<l[1]>> \in Seq(S) /\ l = <<l[1]>> \o Tail(l)
         /\ Len(l) \in Nat /\ Len(l) > 0 /\ Len(Tail(l)) = Len(l) - 1
<1>1. Len(l) \in Nat /\ Len(l) > 0
  BY EmptySeq
<1>2. l[1] \in S
  BY <1>1
<1>3. Tail(l) \in Seq(S) /\ Len(Tail(l)) = Len(l) - 1 /\ \A i \in 1..Len(Tail(l)) : Tail(l)[i] = l[i+1]
  BY <1>1, HeadTailProperties
<1>4. <<l[1]>> \in Seq(S) /\ Len(<<l[1]>>) = 1 /\ <<l[1]>>[1] = l[1]
  BY <1>2
<1> DEFINE c == <<l[1]>> \o Tail(l)
<1>5. /\ c \in Seq(S) /\ Len(c) = 1 + Len(Tail(l))
      /\ \A i \in 1..(1 + Len(Tail(l))) : c[i] = IF i <= 1 THEN l[i] ELSE Tail(l)[i - 1]
  <2> DEFINE o == <<l[1]>>
  <2>1. o \in Seq(S) /\ Len(o) = 1
    BY <1>4
  <2> HIDE DEF o
  <2>2. /\ o \o Tail(l) \in Seq(S) /\ Len(o \o Tail(l)) = Len(o) + Len(Tail(l))
        /\ \A i \in 1..(Len(o) + Len(Tail(l))) : (o \o Tail(l))[i] = IF i <= Len(o) THEN o[i] ELSE Tail(l)[i - Len(o)]
    <3> DEFINE t == Tail(l)
    <3>1. o \in Seq(S) /\ t \in Seq(S)
      BY <2>1, <1>3
    <3> HIDE DEF t
    <3>2. /\ o \o t \in Seq(S) /\ Len(o \o t) = Len(o) + Len(t)
          /\ \A i \in 1..(Len(o) + Len(t)) : (o \o t)[i] = IF i <= Len(o) THEN o[i] ELSE t[i - Len(o)]
      BY ONLY <3>1, ConcatProperties
    <3> QED
      BY <3>2, Zenon DEF t
  <2>3. c = o \o Tail(l)
    BY DEF o
  <2>4. o[1] = l[1]
    BY DEF o
  <2> HIDE DEF c
  <2>5. c \in Seq(S) /\ Len(c) = 1 + Len(Tail(l))
    BY <2>1, <2>2, <2>3
  <2>6. ASSUME NEW i \in 1..(1 + Len(Tail(l))) PROVE c[i] = IF i <= 1 THEN l[i] ELSE Tail(l)[i - 1]
    <3>1. c[i] = IF i <= 1 THEN o[i] ELSE Tail(l)[i - 1]
      BY <2>1, <2>2, <2>3
    <3>2. CASE i <= 1
      <4>1. i = 1
        BY <3>2, <1>1, <1>3
      <4> QED
        BY <4>1, <3>1, <2>4
    <3>3. CASE ~(i <= 1)
      BY <3>1, <3>3
    <3> QED
      BY <3>2, <3>3
  <2> QED
    BY <2>5, <2>6
<1> HIDE DEF c
<1>6. ASSUME NEW i \in 1..Len(l) PROVE l[i] = c[i]
  <2>1. i \in 1..(1 + Len(Tail(l))) /\ i \in Nat
    BY <1>1, <1>3
  <2>2. CASE i <= 1
    <3>1. i = 1
      BY <2>1, <2>2
    <3> QED
      BY <3>1, <2>1, <1>4, <1>5
  <2>3. CASE ~(i <= 1)
    <3>1. i - 1 \in 1..Len(Tail(l)) /\ (i - 1) + 1 = i
      BY <2>1, <2>3, <1>1, <1>3
    <3> QED
      BY <3>1, <2>1, <2>3, <1>3, <1>5
  <2> QED
    BY <2>2, <2>3
<1>7. l = c
  BY <1>1, <1>3, <1>5, <1>6, SeqEqual
<1> QED
  BY <1>1, <1>2, <1>3, <1>4, <1>7 DEF c

(* What has been sent is no more than what is buffered, and less unless    *)
(* nothing is.                                                             *)
LEMMA Reaches ==
  ASSUME NEW b, NEW l, NEW d, NEW k, Kept(b, l, d, k)
  PROVE  /\ k <= Len(Line(b, l, d))
         /\ b # <<>> \/ l # <<>> => k < Len(Line(b, l, d))
<1>0. /\ b \in Seq(Nat) /\ l \in Seq(Rb!Nodes) /\ k \in Nat /\ d \in Nat \cup {Rb!None}
      /\ Waits(l, d) /\ Partly(b, l, k) /\ Len(b) \in Nat
  BY DEF Kept
<1>1. /\ Held(l, d) \in Seq(Nat) /\ Len(Held(l, d)) \in Nat
      /\ Len(Line(b, l, d)) = Len(b) + Len(Held(l, d))
  BY LineType, LenProperties
<1>2. CASE b # <<>>
  BY <1>0, <1>1, <1>2 DEF Partly
<1>3. CASE b = <<>> /\ l = <<>>
  BY <1>0, <1>1, <1>3 DEF Partly
<1>4. CASE b = <<>> /\ l # <<>>
  <2>1. /\ Tail(l) \in Seq(Rb!Nodes) /\ l[1] \in Rb!Nodes /\ <<l[1]>> \in Seq(Rb!Nodes)
        /\ l = <<l[1]>> \o Tail(l)
    BY <1>0, <1>4, First
  <2>2. Whole(<<l[1]>> \o Tail(l)) \/ d \in Nat
    BY <1>0, <2>1, WaitsWhole
  <2>3. Held(<<l[1]>> \o Tail(l), d) = Held(<<l[1]>>, d) \o Held(Tail(l), d)
    BY <2>1, <2>2, HeldCat
  <2>4. (Whole(<<l[1]>>) /\ Whole(Tail(l))) \/ d \in Nat
    BY <2>1, <2>2, WholeCat
  <2>5. l[1].ptr # Rb!NullPtr \/ d \in Nat
    BY <2>4 DEF Whole
  <2>6. Held(<<l[1]>>, d) = IF l[1].ptr = Rb!NullPtr THEN <<d>> ELSE l[1].ptr
    BY <2>1, <2>5, HeldOne
  <2>7. Len(Held(<<l[1]>>, d)) = Len(l[1].ptr) /\ Len(l[1].ptr) \in Nat
    <3>1. CASE l[1].ptr = Rb!NullPtr
      BY <3>1, <2>1, <2>6, NodeFields
    <3>2. CASE l[1].ptr # Rb!NullPtr
      BY <3>2, <2>1, <2>6, NodeFields, LenProperties
    <3> QED
      BY <3>1, <3>2
  <2>8. Held(<<l[1]>>, d) \in Seq(Nat) /\ Held(Tail(l), d) \in Seq(Nat)
    BY <2>1, <2>4, HeldType
  <2>9. Len(Held(l, d)) = Len(l[1].ptr) + Len(Held(Tail(l), d)) /\ Len(Held(Tail(l), d)) \in Nat
    <3>1. Len(Held(<<l[1]>>, d) \o Held(Tail(l), d)) = Len(Held(<<l[1]>>, d)) + Len(Held(Tail(l), d))
      BY <2>8, ConcatProperties
    <3>2. Len(Held(Tail(l), d)) \in Nat
      BY <2>8, LenProperties
    <3>3. Held(l, d) = Held(<<l[1]>>, d) \o Held(Tail(l), d)
      BY <2>1, <2>3
    <3> QED
      BY <3>1, <3>2, <3>3, <2>7
  <2>10. k < Len(l[1].ptr)
    BY <1>0, <1>4 DEF Partly
  <2> QED
    <3>1. Len(b) \in Nat /\ Len(Line(b, l, d)) >= Len(Held(l, d))
      BY <1>0, <1>1
    <3> QED
      BY <3>1, <2>7, <2>9, <2>10, <1>0, <1>1
<1> QED
  BY <1>2, <1>3, <1>4

(* What is appended to a line comes last, of what is to be sent after o too. *)
ComesLast(line, k, o, s) == o \o Drop(line \o s, k) = (o \o Drop(line, k)) \o s

(* Whatever is appended comes last. *)
LEMMA Longer ==
  ASSUME NEW b, NEW l, NEW d, NEW k, Kept(b, l, d, k), NEW s, s \in Seq(Nat), NEW o, o \in Seq(Nat)
  PROVE  ComesLast(Line(b, l, d), k, o, s)
<1>1. /\ Line(b, l, d) \in Seq(Nat) /\ k \in Nat /\ k <= Len(Line(b, l, d))
  BY LineType, Reaches DEF Kept
<1>2. Drop(Line(b, l, d) \o s, k) = Drop(Line(b, l, d), k) \o s
  BY <1>1, DropCat
<1> DEFINE r == Drop(Line(b, l, d), k)
<1>3. r \in Seq(Nat)
  BY <1>1, DropIs
<1> HIDE DEF r
<1>4. (o \o r) \o s = o \o (r \o s)
  BY <1>3, Associative
<1> QED
  BY <1>2, <1>4 DEF r, ComesLast

(* _addReplyToBuffer: bytes go to the end of the buffer when the list is   *)
(* empty.                                                                  *)
LEMMA BufferGrows ==
  ASSUME NEW b, NEW d, NEW k, Kept(b, <<>>, d, k), NEW s \in Seq(Nat), s # <<>>
  PROVE  Kept(b \o s, <<>>, d, k) /\ Line(b \o s, <<>>, d) = Line(b, <<>>, d) \o s
<1>0. /\ b \in Seq(Nat) /\ k \in Nat /\ d \in Nat \cup {Rb!None} /\ Waits(<<>>, d) /\ Partly(b, <<>>, k)
      /\ <<>> \in Seq(Rb!Nodes) /\ Len(b) \in Nat /\ Len(s) \in Nat /\ Len(s) > 0
  BY EmptySeq DEF Kept
<1>1. b \o s \in Seq(Nat) /\ Len(b \o s) = Len(b) + Len(s)
  BY <1>0, ConcatProperties
<1>2. k < Len(b \o s)
  <2>1. CASE b = <<>>
    BY <2>1, <1>0, <1>1 DEF Partly
  <2>2. CASE b # <<>>
    BY <2>2, <1>0, <1>1 DEF Partly
  <2> QED
    BY <2>1, <2>2
<1>3. b \o s # <<>>
  BY <1>0, <1>1, EmptySeq
<1>4. Partly(b \o s, <<>>, k)
  BY <1>2, <1>3 DEF Partly
<1>5. Line(b \o s, <<>>, d) = b \o s /\ Line(b, <<>>, d) = b
  BY <1>0, <1>1, HeldEmpty, ConcatEmptySeq DEF Line
<1> QED
  BY <1>0, <1>1, <1>4, <1>5 DEF Kept

(* A list with one more node *)
LEMMA AppendOne ==
  ASSUME NEW l \in Seq(Rb!Nodes), NEW x \in Rb!Nodes
  PROVE  /\ Append(l, x) \in Seq(Rb!Nodes) /\ Append(l, x) = l \o <<x>> /\ <<x>> \in Seq(Rb!Nodes)
         /\ DOMAIN Append(l, x) = 1..(Len(l) + 1) /\ DOMAIN l = 1..Len(l) /\ Len(l) \in Nat
         /\ Len(Append(l, x)) = Len(l) + 1 /\ Append(l, x) # <<>>
         /\ Append(l, x)[Len(l) + 1] = x
         /\ \A i \in 1..Len(l) : Append(l, x)[i] = l[i]
         /\ l # <<>> => Append(l, x)[1] = l[1]
<1>1. /\ Append(l, x) \in Seq(Rb!Nodes) /\ <<x>> \in Seq(Rb!Nodes)
      /\ DOMAIN Append(l, x) = 1..(Len(l) + 1) /\ DOMAIN l = 1..Len(l) /\ Len(l) \in Nat
      /\ Len(Append(l, x)) = Len(l) + 1 /\ Append(l, x)[Len(l) + 1] = x
      /\ \A i \in 1..Len(l) : Append(l, x)[i] = l[i]
  OBVIOUS
<1>2. Append(l, x) = l \o <<x>>
  OBVIOUS
<1>3. Append(l, x) # <<>>
  BY <1>1
<1>4. l # <<>> => Append(l, x)[1] = l[1]
  BY <1>1, EmptySeq
<1> QED
  BY <1>1, <1>2, <1>3, <1>4

(* A new node at the end: its bytes come last, its memory is added. *)
LEMMA ListGrows ==
  ASSUME NEW b, NEW l, NEW d, NEW k, Kept(b, l, d, k), NEW x, Written(x)
  PROVE  /\ Kept(b, Append(l, x), d, k) /\ Line(b, Append(l, x), d) = Line(b, l, d) \o x.ptr
         /\ Rb!Total(Append(l, x)) = Rb!Total(l) + Mem(x)
<1>0. /\ b \in Seq(Nat) /\ l \in Seq(Rb!Nodes) /\ k \in Nat /\ d \in Nat \cup {Rb!None}
      /\ Waits(l, d) /\ Partly(b, l, k) /\ x \in Rb!Nodes /\ x.ptr # Rb!NullPtr
      /\ x.ptr \in Seq(Nat) /\ Len(x.ptr) > 0
  BY NodeFields DEF Kept, Written
<1> DEFINE m == Append(l, x)
<1>1. /\ m \in Seq(Rb!Nodes) /\ m = l \o <<x>> /\ <<x>> \in Seq(Rb!Nodes)
      /\ DOMAIN m = 1..(Len(l) + 1) /\ DOMAIN l = 1..Len(l) /\ Len(l) \in Nat
      /\ m # <<>> /\ m[Len(l) + 1] = x /\ \A i \in 1..Len(l) : m[i] = l[i]
      /\ l # <<>> => m[1] = l[1]
  BY <1>0, AppendOne
<1>2. Rb!Total(m) = Rb!Total(l) + Mem(x)
  BY <1>0, TotalAppend
<1> HIDE DEF m
<1>3. Waits(m, d)
  <2>1. CASE d = Rb!None
    <3>1. Whole(l) /\ Whole(<<x>>)
      BY <2>1, <1>0, WholeOne DEF Waits
    <3>2. Whole(m)
      BY <3>1, <1>0, <1>1, WholeCat
    <3> QED
      BY <3>2, <2>1 DEF Waits
  <2>2. CASE d # Rb!None
    <3>1. PICK i \in DOMAIN l : \A j \in DOMAIN l : l[j].ptr = Rb!NullPtr <=> j = i
      BY <2>2, <1>0 DEF Waits
    <3>2. i \in DOMAIN m /\ i # Len(l) + 1
      BY <3>1, <1>1
    <3>3. ASSUME NEW j \in DOMAIN m PROVE m[j].ptr = Rb!NullPtr <=> j = i
      <4>1. CASE j = Len(l) + 1
        BY <4>1, <3>2, <1>0, <1>1
      <4>2. CASE j # Len(l) + 1
        <5>1. j \in DOMAIN l /\ j \in 1..Len(l)
          BY <4>2, <1>1
        <5> QED
          BY <5>1, <3>1, <1>1
      <4> QED
        BY <4>1, <4>2
    <3> QED
      BY <3>2, <3>3, <2>2 DEF Waits
  <2> QED
    BY <2>1, <2>2
<1>4. Partly(b, m, k)
  <2>1. CASE l = <<>>
    <3>1. m[1] = x
      BY <2>1, <1>1
    <3> QED
      BY <3>1, <2>1, <1>0, <1>1 DEF Partly
  <2>2. CASE l # <<>>
    BY <2>2, <1>0, <1>1 DEF Partly
  <2> QED
    BY <2>1, <2>2
<1>5. Whole(m) \/ d \in Nat
  BY <1>0, <1>3, WaitsWhole
<1>6. Held(m, d) = Held(l, d) \o x.ptr
  <2>1. Held(l \o <<x>>, d) = Held(l, d) \o Held(<<x>>, d)
    BY <1>0, <1>1, <1>5, HeldCat
  <2>2. Held(<<x>>, d) = x.ptr
    BY <1>0, HeldOne
  <2> QED
    BY <2>1, <2>2, <1>1
<1>7. Line(b, m, d) = Line(b, l, d) \o x.ptr
  <2>1. Held(l, d) \in Seq(Nat)
    BY LineType
  <2>2. (b \o Held(l, d)) \o x.ptr = b \o (Held(l, d) \o x.ptr)
    BY <2>1, <1>0, Associative
  <2> QED
    BY <2>2, <1>6 DEF Line
<1>8. Kept(b, m, d, k)
  BY <1>0, <1>1, <1>3, <1>4 DEF Kept
<1> QED
  BY <1>2, <1>7, <1>8 DEF m

(* addDeferredMultiBulkLength: a node that waits holds the place of its    *)
(* length, and takes no memory.                                            *)
LEMMA ListDefers ==
  ASSUME NEW b, NEW l, NEW k, Kept(b, l, Rb!None, k), NEW d \in Nat,
         NEW x \in Rb!Nodes, x.ptr = Rb!NullPtr
  PROVE  /\ Kept(b, Append(l, x), d, k) /\ Line(b, Append(l, x), d) = Line(b, l, Rb!None) \o <<d>>
         /\ Rb!Total(Append(l, x)) = Rb!Total(l)
<1>0. /\ b \in Seq(Nat) /\ l \in Seq(Rb!Nodes) /\ k \in Nat
      /\ Waits(l, Rb!None) /\ Partly(b, l, k) /\ Len(x.ptr) = 1 /\ d # Rb!None /\ <<d>> \in Seq(Nat)
  BY NodeFields DEF Kept, Rb!None
<1> DEFINE m == Append(l, x)
<1>1. /\ m \in Seq(Rb!Nodes) /\ m = l \o <<x>> /\ <<x>> \in Seq(Rb!Nodes)
      /\ DOMAIN m = 1..(Len(l) + 1) /\ DOMAIN l = 1..Len(l) /\ Len(l) \in Nat
      /\ m # <<>> /\ m[Len(l) + 1] = x /\ \A i \in 1..Len(l) : m[i] = l[i]
      /\ l # <<>> => m[1] = l[1]
  BY <1>0, AppendOne
<1>2. Rb!Total(m) = Rb!Total(l)
  <2>1. Rb!Total(m) = Rb!Total(l) + Mem(x)
    BY <1>0, TotalAppend
  <2>2. Mem(x) = 0
    BY DEF Mem, Rb!MemOf
  <2> QED
    BY <2>1, <2>2, <1>0, TotalType
<1> HIDE DEF m
<1>w. Whole(l)
  BY <1>0 DEF Waits
<1>3. Waits(m, d)
  <2>1. Len(l) + 1 \in DOMAIN m
    BY <1>1
  <2>2. ASSUME NEW j \in DOMAIN m PROVE m[j].ptr = Rb!NullPtr <=> j = Len(l) + 1
    <3>1. CASE j = Len(l) + 1
      BY <3>1, <1>1
    <3>2. CASE j # Len(l) + 1
      <4>1. j \in DOMAIN l /\ j \in 1..Len(l)
        BY <3>2, <1>1
      <4> QED
        BY <4>1, <3>2, <1>w, <1>1 DEF Whole
    <3> QED
      BY <3>1, <3>2
  <2> QED
    BY <2>1, <2>2, <1>0 DEF Waits
<1>4. Partly(b, m, k)
  <2>1. CASE l = <<>>
    <3>1. m[1] = x
      BY <2>1, <1>1
    <3> QED
      BY <3>1, <2>1, <1>0, <1>1 DEF Partly
  <2>2. CASE l # <<>>
    BY <2>2, <1>0, <1>1 DEF Partly
  <2> QED
    BY <2>1, <2>2
<1>6. Held(m, d) = Held(l, Rb!None) \o <<d>>
  <2>1. Held(l \o <<x>>, d) = Held(l, d) \o Held(<<x>>, d)
    BY <1>0, <1>1, HeldCat
  <2>2. Held(<<x>>, d) = <<d>>
    BY <1>0, HeldOne
  <2>3. Held(l, d) = Held(l, Rb!None)
    BY <1>w, HeldSame
  <2> QED
    BY <2>1, <2>2, <2>3, <1>1
<1>7. Line(b, m, d) = Line(b, l, Rb!None) \o <<d>>
  <2>1. Held(l, Rb!None) \in Seq(Nat)
    BY LineType
  <2>2. (b \o Held(l, Rb!None)) \o <<d>> = b \o (Held(l, Rb!None) \o <<d>>)
    BY <2>1, <1>0, Associative
  <2> QED
    BY <2>2, <1>6 DEF Line
<1>8. Kept(b, m, d, k)
  BY <1>0, <1>1, <1>3, <1>4 DEF Kept
<1> QED
  BY <1>2, <1>7, <1>8 DEF m

(* The tail takes the bytes s when they fit: the last node becomes y. *)
Fits(l, s, y) == l # <<>> /\ Written(l[Len(l)]) /\ s \in Seq(Nat) /\ Written(y) /\ y.ptr = l[Len(l)].ptr \o s

(* The list has got them, and has the memory of the new node. *)
TailTakes(b, l, d, k, s, y) ==
  /\ Kept(b, [l EXCEPT ![Len(l)] = y], d, k)
  /\ Line(b, [l EXCEPT ![Len(l)] = y], d) = Line(b, l, d) \o s
  /\ Rb!Total([l EXCEPT ![Len(l)] = y]) = Rb!Total(l) - Mem(l[Len(l)]) + Mem(y)

(* Then all that is buffered has got them, and the memory is that of y. *)
LEMMA TailGrows ==
  ASSUME NEW b, NEW l, NEW d, NEW k, Kept(b, l, d, k), NEW s, NEW y, Fits(l, s, y)
  PROVE  TailTakes(b, l, d, k, s, y)
<1> SUFFICES ASSUME l # <<>>, Written(l[Len(l)]), s \in Seq(Nat), Written(y), y.ptr = l[Len(l)].ptr \o s
             PROVE  /\ Kept(b, [l EXCEPT ![Len(l)] = y], d, k)
                    /\ Line(b, [l EXCEPT ![Len(l)] = y], d) = Line(b, l, d) \o s
                    /\ Rb!Total([l EXCEPT ![Len(l)] = y]) = Rb!Total(l) - Mem(l[Len(l)]) + Mem(y)
  BY Zenon DEF Fits, TailTakes
<1> DEFINE n == Len(l)
           x == l[n]
           m == [l EXCEPT ![n] = y]
           f == SubSeq(l, 1, n - 1)
<1>0. /\ b \in Seq(Nat) /\ l \in Seq(Rb!Nodes) /\ k \in Nat /\ d \in Nat \cup {Rb!None}
      /\ Waits(l, d) /\ Partly(b, l, k) /\ y \in Rb!Nodes /\ x \in Rb!Nodes
      /\ y.ptr # Rb!NullPtr /\ x.ptr # Rb!NullPtr
      /\ x.ptr \in Seq(Nat) /\ y.ptr \in Seq(Nat) /\ n \in Nat /\ n > 0
  <2>1. /\ b \in Seq(Nat) /\ l \in Seq(Rb!Nodes) /\ k \in Nat /\ d \in Nat \cup {Rb!None}
        /\ Waits(l, d) /\ Partly(b, l, k)
    BY DEF Kept
  <2>2. n \in Nat /\ n > 0
    BY <2>1, EmptySeq
  <2>3. y \in Rb!Nodes /\ x \in Rb!Nodes /\ y.ptr # Rb!NullPtr /\ x.ptr # Rb!NullPtr
    BY Zenon DEF Written
  <2>4. x.ptr \in Seq(Nat) /\ y.ptr \in Seq(Nat)
    BY <2>3, NodeFields, Zenon
  <2> QED
    BY <2>1, <2>2, <2>3, <2>4, Zenon
<1>1. /\ m \in Seq(Rb!Nodes) /\ Len(m) = n /\ DOMAIN m = 1..n /\ DOMAIN l = 1..n /\ m # <<>>
      /\ m[n] = y /\ \A i \in 1..n : i # n => m[i] = l[i]
  BY <1>0
<1>2. \A i \in 1..(n - 1) : l[i] \in Rb!Nodes
  BY <1>0
<1>3. /\ f \in Seq(Rb!Nodes) /\ Len(f) = n - 1 /\ \A i \in 1..(n - 1) : f[i] = l[i]
  <2>1. /\ f \in Seq(Rb!Nodes) /\ Len(f) = IF 1 <= n - 1 THEN (n - 1) - 1 + 1 ELSE 0
        /\ \A i \in 1..((n - 1) - 1 + 1) : f[i] = l[1 + i - 1]
    BY <1>0, <1>2, SubSeqProperties
  <2> HIDE DEF f
  <2>2. ASSUME NEW i \in 1..(n - 1) PROVE f[i] = l[i]
    <3>1. i \in 1..((n - 1) - 1 + 1) /\ 1 + i - 1 = i
      BY <1>0
    <3> QED
      BY <3>1, <2>1
  <2>0. n \in Nat /\ n > 0
    BY <1>0
  <2>3. n - 1 \in Nat /\ (n - 1) - 1 + 1 = n - 1 /\ (~(1 <= n - 1) => n - 1 = 0)
    <3> HIDE DEF n
    <3> QED
      BY <2>0
  <2>4. Len(f) = n - 1
    BY <2>1, <2>3
  <2> QED
    BY <2>1, <2>2, <2>4
<1> HIDE DEF n, m, f, x
<1>4. l = Append(f, x)
  <2>1. /\ Append(f, x) \in Seq(Rb!Nodes) /\ Len(Append(f, x)) = n /\ Append(f, x)[n] = x
        /\ \A i \in 1..(n - 1) : Append(f, x)[i] = f[i]
    <3>1. Len(f) + 1 = n /\ x \in Rb!Nodes /\ f \in Seq(Rb!Nodes)
      BY <1>0, <1>3
    <3> QED
      BY <3>1, <1>3, AppendOne
  <2>2. ASSUME NEW i \in 1..n PROVE l[i] = Append(f, x)[i]
    <3>1. CASE i = n
      BY <3>1, <2>1 DEF x
    <3>2. CASE i # n
      <4>1. i \in 1..(n - 1)
        BY <3>2, <1>0
      <4> QED
        BY <4>1, <2>1, <1>3
    <3> QED
      BY <3>1, <3>2
  <2>3. Len(l) = n
    BY DEF n
  <2> QED
    BY <1>0, <2>1, <2>2, <2>3, SeqEqual
<1>5. m = Append(f, y)
  <2>1. /\ Append(f, y) \in Seq(Rb!Nodes) /\ Len(Append(f, y)) = n /\ Append(f, y)[n] = y
        /\ \A i \in 1..(n - 1) : Append(f, y)[i] = f[i]
    <3>1. Len(f) + 1 = n /\ y \in Rb!Nodes /\ f \in Seq(Rb!Nodes)
      BY <1>0, <1>3
    <3> QED
      BY <3>1, <1>3, AppendOne
  <2>2. ASSUME NEW i \in 1..n PROVE m[i] = Append(f, y)[i]
    <3>1. CASE i = n
      BY <3>1, <2>1, <1>1
    <3>2. CASE i # n
      <4>1. i \in 1..(n - 1)
        BY <3>2, <1>0
      <4> QED
        BY <4>1, <3>2, <2>1, <1>1, <1>3
    <3> QED
      BY <3>1, <3>2
  <2> QED
    BY <1>0, <1>1, <2>1, <2>2, SeqEqual
<1>6. Waits(m, d)
  <2>0. \A j \in 1..n : m[j].ptr = Rb!NullPtr <=> l[j].ptr = Rb!NullPtr
    <3> TAKE j \in 1..n
    <3>1. CASE j = n
      BY <3>1, <1>0, <1>1 DEF x
    <3>2. CASE j # n
      BY <3>2, <1>1
    <3> QED
      BY <3>1, <3>2
  <2>1. CASE d = Rb!None
    BY <2>0, <2>1, <1>0, <1>1 DEF Waits, Whole
  <2>2. CASE d # Rb!None
    <3>1. PICK i \in DOMAIN l : \A j \in DOMAIN l : l[j].ptr = Rb!NullPtr <=> j = i
      BY <2>2, <1>0 DEF Waits
    <3>2. i \in DOMAIN m /\ \A j \in DOMAIN m : m[j].ptr = Rb!NullPtr <=> j = i
      BY <3>1, <2>0, <1>1
    <3> QED
      BY <3>2, <2>2 DEF Waits
  <2> QED
    BY <2>1, <2>2
<1>7. Partly(b, m, k)
  <2>1. CASE b # <<>>
    BY <2>1, <1>0 DEF Partly
  <2>2. CASE b = <<>>
    <3>0. k < Len(l[1].ptr)
      BY <2>2, <1>0 DEF Partly
    <3>1. CASE n = 1
      <4>1. l[1] = x /\ m[1] = y
        BY <3>1, <1>1 DEF x
      <4>2. Len(y.ptr) = Len(x.ptr) + Len(s) /\ Len(x.ptr) \in Nat /\ Len(s) \in Nat
        <5>1. y.ptr = x.ptr \o s
          BY DEF x, n
        <5>2. Len(x.ptr \o s) = Len(x.ptr) + Len(s)
          BY <1>0, ConcatProperties
        <5> QED
          BY <5>1, <5>2, <1>0, LenProperties
      <4>3. k < Len(m[1].ptr)
        <5>1. k \in Nat /\ k < Len(x.ptr)
          BY <3>0, <4>1, <1>0
        <5>2. k < Len(y.ptr)
          BY <5>1, <4>2
        <5> QED
          BY <5>2, <4>1
      <4> QED
        BY <4>3, <2>2, <1>1 DEF Partly
    <3>2. CASE n # 1
      <4>1. m[1] = l[1]
        BY <3>2, <1>0, <1>1
      <4> QED
        BY <4>1, <3>0, <2>2, <1>1 DEF Partly
    <3> QED
      BY <3>1, <3>2
  <2> QED
    BY <2>1, <2>2
<1>8. (Whole(m) \/ d \in Nat) /\ (Whole(l) \/ d \in Nat)
  BY <1>0, <1>6, WaitsWhole
<1>9. l = f \o <<x>> /\ m = f \o <<y>> /\ <<x>> \in Seq(Rb!Nodes) /\ <<y>> \in Seq(Rb!Nodes)
  BY <1>0, <1>3, <1>4, <1>5, AppendOne
<1>10. Held(l, d) = Held(f, d) \o x.ptr
  <2>1. Held(f \o <<x>>, d) = Held(f, d) \o Held(<<x>>, d)
    BY <1>3, <1>8, <1>9, HeldCat
  <2>2. Held(<<x>>, d) = x.ptr
    BY <1>0, HeldOne
  <2> QED
    BY <2>1, <2>2, <1>9
<1>11. Held(m, d) = Held(f, d) \o y.ptr
  <2>1. Held(f \o <<y>>, d) = Held(f, d) \o Held(<<y>>, d)
    BY <1>3, <1>8, <1>9, HeldCat
  <2>2. Held(<<y>>, d) = y.ptr
    BY <1>0, HeldOne
  <2> QED
    BY <2>1, <2>2, <1>9
<1>12. Line(b, m, d) = Line(b, l, d) \o s
  <2>1. Whole(f) \/ d \in Nat
    BY <1>3, <1>8, <1>9, WholeCat
  <2>2. Held(f, d) \in Seq(Nat)
    BY <2>1, <1>3, HeldType
  <2>3. y.ptr = x.ptr \o s
    BY DEF x, n
  <2>4. Held(f, d) \o (x.ptr \o s) = (Held(f, d) \o x.ptr) \o s
    BY <2>2, <1>0, Associative
  <2>5. Held(m, d) = Held(l, d) \o s
    BY <2>3, <2>4, <1>10, <1>11
  <2>6. Held(l, d) \in Seq(Nat)
    BY LineType
  <2>7. (b \o Held(l, d)) \o s = b \o (Held(l, d) \o s)
    BY <2>6, <1>0, Associative
  <2> QED
    BY <2>5, <2>7 DEF Line
<1>13. Rb!Total(m) = Rb!Total(l) - Mem(x) + Mem(y)
  <2>1. Rb!Total(l) = Rb!Total(f) + Mem(x)
    BY <1>0, <1>3, <1>4, TotalAppend
  <2>2. Rb!Total(m) = Rb!Total(f) + Mem(y)
    BY <1>0, <1>3, <1>5, TotalAppend
  <2>3. Rb!Total(f) \in Nat /\ Mem(x) \in Nat /\ Mem(y) \in Nat
    BY <1>0, <1>3, TotalType, MemType
  <2> QED
    BY <2>1, <2>2, <2>3
<1>14. Kept(b, m, d, k)
  BY <1>0, <1>1, <1>6, <1>7 DEF Kept
<1> QED
  BY <1>12, <1>13, <1>14 DEF m, x, n

(* What the first buffer loses when it has been sent *)
LEMMA ListLoses ==
  ASSUME NEW l, NEW k, Kept(<<>>, l, Rb!None, k), l # <<>>
  PROVE  /\ Kept(<<>>, Tail(l), Rb!None, 0) /\ Written(l[1])
         /\ Line(<<>>, l, Rb!None) = l[1].ptr \o Line(<<>>, Tail(l), Rb!None)
         /\ Rb!Total(Tail(l)) = Rb!Total(l) - Mem(l[1]) /\ Rb!Total(Tail(l)) \in Nat
         /\ Len(Tail(l)) = Len(l) - 1
         /\ \A i \in DOMAIN Tail(l) : i + 1 \in DOMAIN l /\ Tail(l)[i] = l[i + 1]
<1> DEFINE t == Tail(l)
           x == l[1]
<1>0. /\ l \in Seq(Rb!Nodes) /\ k \in Nat /\ Whole(l)
  BY DEF Kept, Waits
<1>1. /\ t \in Seq(Rb!Nodes) /\ x \in Rb!Nodes /\ <<x>> \in Seq(Rb!Nodes) /\ l = <<x>> \o t
      /\ Len(l) \in Nat /\ Len(l) > 0 /\ Len(t) = Len(l) - 1
  BY <1>0, First
<1>2. \A i \in DOMAIN t : i + 1 \in DOMAIN l /\ t[i] = l[i + 1]
  BY <1>0, <1>1
<1> HIDE DEF t
<1>3. Whole(<<x>> \o t)
  BY <1>0, <1>1
<1>4. Whole(<<x>>) /\ Whole(t)
  BY <1>1, <1>3, WholeCat
<1>5. x.ptr # Rb!NullPtr
  BY <1>0, <1>1 DEF Whole
<1>6. Held(l, Rb!None) = x.ptr \o Held(t, Rb!None)
  <2>1. Held(<<x>> \o t, Rb!None) = Held(<<x>>, Rb!None) \o Held(t, Rb!None)
    BY <1>1, <1>3, HeldCat
  <2>2. Held(<<x>>, Rb!None) = x.ptr
    BY <1>1, <1>5, HeldOne
  <2> QED
    BY <2>1, <2>2, <1>1
<1>7. Held(t, Rb!None) \in Seq(Nat) /\ Held(l, Rb!None) \in Seq(Nat) /\ x.ptr \in Seq(Nat)
  BY <1>0, <1>1, <1>4, <1>5, HeldType, NodeFields
<1>8. Line(<<>>, l, Rb!None) = Held(l, Rb!None) /\ Line(<<>>, t, Rb!None) = Held(t, Rb!None)
  BY <1>7, ConcatEmptySeq DEF Line
<1>9. Rb!Total(t) = Rb!Total(l) - Mem(x) /\ Rb!Total(t) \in Nat
  <2>1. Rb!Total(<<x>> \o t) = Rb!Total(<<x>>) + Rb!Total(t)
    BY <1>1, TotalCat
  <2>2. Rb!Total(<<x>>) = Mem(x)
    BY <1>1, TotalOne
  <2>3. Rb!Total(t) \in Nat /\ Mem(x) \in Nat
    BY <1>1, TotalType, MemType
  <2>4. Rb!Total(l) = Mem(x) + Rb!Total(t)
    BY <2>1, <2>2, <1>1
  <2> QED
    BY <2>3, <2>4
<1>10. Partly(<<>>, t, 0)
  <2>1. CASE t = <<>>
    BY <2>1 DEF Partly
  <2>2. CASE t # <<>>
    <3>1. t[1] \in Rb!Nodes /\ 1 \in DOMAIN t
      BY <2>2, <1>1, EmptySeq
    <3>2. t[1].ptr # Rb!NullPtr
      BY <3>1, <1>4 DEF Whole
    <3>3. Len(t[1].ptr) > 0
      BY <3>1, <3>2, NodeFields
    <3> QED
      BY <3>3, <2>2 DEF Partly
  <2> QED
    BY <2>1, <2>2
<1>11. Waits(t, Rb!None)
  BY <1>4 DEF Waits
<1>12. Kept(<<>>, t, Rb!None, 0)
  BY <1>1, <1>10, <1>11 DEF Kept
<1> QED
  BY <1>1, <1>2, <1>5, <1>6, <1>8, <1>9, <1>12 DEF t, Written

(* What a written node is *)
LEMMA WrittenIs ==
  ASSUME NEW x, Written(x)
  PROVE  x \in Rb!Nodes /\ x.ptr # Rb!NullPtr /\ x.ptr \in Seq(Nat) /\ Len(x.ptr) > 0 /\ Whole(<<x>>)
<1>1. x \in Rb!Nodes /\ x.ptr # Rb!NullPtr
  BY DEF Written
<1> QED
  BY <1>1, NodeFields, WholeOne

(* HeldCat, when a length is deferred *)
LEMMA HeldBoth ==
  ASSUME NEW l \in Seq(Rb!Nodes), NEW m \in Seq(Rb!Nodes), NEW d, d \in Nat
  PROVE  Held(l \o m, d) = Held(l, d) \o Held(m, d)
<1>1. Whole(l \o m) \/ d \in Nat
  OBVIOUS
<1> QED
  BY <1>1, HeldCat

(* A function on 1..n is a sequence. *)
LEMMA Listed ==
  ASSUME NEW S, NEW n \in Nat, NEW f, f = [q \in 1..n |-> f[q]], \A q \in 1..n : f[q] \in S
  PROVE  f \in Seq(S) /\ Len(f) = n
OBVIOUS

(* A sequence around one of its elements *)
Around(s, p, x, r) ==
  /\ Len(s) = Len(p) + 1 + Len(r) /\ s[Len(p) + 1] = x
  /\ \A q \in 1..Len(p) : s[q] = p[q]
  /\ \A q \in 1..Len(r) : s[Len(p) + 1 + q] = r[q]

(* A sequence is what is before an element, the element, and what is       *)
(* behind it.                                                              *)
LEMMA AroundOne ==
  ASSUME NEW S, NEW p \in Seq(S), NEW x \in S, NEW r \in Seq(S), NEW s \in Seq(S), Around(s, p, x, r)
  PROVE  s = p \o (<<x>> \o r)
<1> DEFINE o == <<x>>
           t == o \o r
           u == p \o t
<1>0. Len(p) \in Nat /\ Len(r) \in Nat /\ o \in Seq(S) /\ Len(o) = 1 /\ o[1] = x
  BY LenProperties
<1> HIDE DEF o
<1>1. /\ t \in Seq(S) /\ Len(t) = 1 + Len(r)
      /\ \A q \in 1..(1 + Len(r)) : t[q] = IF q <= 1 THEN o[q] ELSE r[q - 1]
  <2>0. o \in Seq(S)
    BY <1>0
  <2>1. /\ t \in Seq(S) /\ Len(t) = Len(o) + Len(r)
        /\ \A q \in 1..(Len(o) + Len(r)) : t[q] = IF q <= Len(o) THEN o[q] ELSE r[q - Len(o)]
    BY <2>0, ConcatProperties
  <2> HIDE DEF t
  <2> QED
    BY <2>1, <1>0
<1> HIDE DEF t
<1>2. /\ u \in Seq(S) /\ Len(u) = Len(p) + Len(t)
      /\ \A q \in 1..(Len(p) + Len(t)) : u[q] = IF q <= Len(p) THEN p[q] ELSE t[q - Len(p)]
  <2>1. t \in Seq(S)
    BY <1>1
  <2> QED
    BY <2>1, ConcatProperties
<1> HIDE DEF u
<1>3. ASSUME NEW q \in 1..Len(s) PROVE s[q] = u[q]
  <2>0. q \in Nat /\ q \in 1..(Len(p) + Len(t)) /\ q <= Len(p) + 1 + Len(r) /\ 1 <= q
    BY <1>0, <1>1 DEF Around
  <2>1. CASE q <= Len(p)
    <3>1. q \in 1..Len(p)
      BY <2>0, <2>1, <1>0
    <3> QED
      BY <3>1, <2>0, <2>1, <1>2 DEF Around
  <2>2. CASE q = Len(p) + 1
    <3>1. ~(q <= Len(p)) /\ q - Len(p) = 1 /\ 1 \in 1..(1 + Len(r))
      BY <2>2, <1>0
    <3>2. u[q] = t[1] /\ t[1] = x
      BY <3>1, <2>0, <1>0, <1>1, <1>2
    <3> QED
      BY <3>2, <2>2 DEF Around
  <2>3. CASE q > Len(p) + 1
    <3> DEFINE j == q - Len(p) - 1
    <3>1. /\ ~(q <= Len(p)) /\ q - Len(p) \in 1..(1 + Len(r)) /\ ~(q - Len(p) <= 1)
          /\ (q - Len(p)) - 1 = j /\ j \in 1..Len(r) /\ q = Len(p) + 1 + j
      BY <2>0, <2>3, <1>0, <1>1
    <3>2. u[q] = t[q - Len(p)]
      BY <3>1, <2>0, <1>2
    <3> HIDE DEF j
    <3>3. t[q - Len(p)] = r[j]
      BY <3>1, <1>1
    <3>4. s[q] = r[j]
      BY <3>1 DEF Around
    <3> QED
      BY <3>2, <3>3, <3>4
  <2> QED
    BY <2>0, <2>1, <2>2, <2>3, <1>0
<1>4. Len(s) = Len(u)
  BY <1>0, <1>1, <1>2 DEF Around
<1>5. s = u
  BY <1>2, <1>3, <1>4, SeqEqual
<1> QED
  BY <1>5 DEF u, t, o

(* The node z that waited for its length, and those that it is glued to,   *)
(* become the node y.                                                      *)
Glues(l, m, p, z, g, r, y, d) ==
  /\ p \in Seq(Rb!Nodes) /\ g \in Seq(Rb!Nodes) /\ r \in Seq(Rb!Nodes) /\ Whole(p) /\ Whole(g) /\ Whole(r)
  /\ d \in Nat /\ Written(y) /\ z \in Rb!Nodes
  /\ l = p \o (<<z>> \o (g \o r)) /\ z.ptr = Rb!NullPtr
  /\ m = p \o (<<y>> \o r) /\ y.ptr = <<d>> \o Held(g, d)

(* What gluing does to what the list holds and to its memory *)
Merged(l, m, g, y, d) ==
  /\ Held(m, Rb!None) = Held(l, d) /\ Whole(m)
  /\ Rb!Total(m) = Rb!Total(l) - Rb!Total(g) + Mem(y)

(* Gluing changes nothing of what the list holds. *)
LEMMA Glued ==
  ASSUME NEW l, NEW m, NEW p, NEW z, NEW g, NEW r, NEW y, NEW d, Glues(l, m, p, z, g, r, y, d)
  PROVE  Merged(l, m, g, y, d)
<1>d. d \in Nat
  BY DEF Glues
<1>p. /\ p \in Seq(Rb!Nodes) /\ g \in Seq(Rb!Nodes) /\ r \in Seq(Rb!Nodes) /\ Whole(p) /\ Whole(g) /\ Whole(r)
      /\ Written(y) /\ z \in Rb!Nodes
  BY DEF Glues
<1>b. \A a, c \in Seq(Rb!Nodes) : Held(a \o c, d) = Held(a, d) \o Held(c, d)
  BY <1>d, HeldBoth
<1>c. \A a, c \in Seq(Rb!Nodes) : Rb!Total(a \o c) = Rb!Total(a) + Rb!Total(c)
  BY TotalCat
<1> DEFINE o == <<z>>
           q == <<y>>
           h == g \o r
           t == o \o h
           v == q \o r
<1>0. y \in Rb!Nodes /\ y.ptr # Rb!NullPtr /\ y.ptr \in Seq(Nat) /\ o \in Seq(Rb!Nodes) /\ q \in Seq(Rb!Nodes)
  <2>1. y \in Rb!Nodes /\ y.ptr # Rb!NullPtr /\ y.ptr \in Seq(Nat)
    BY <1>p, WrittenIs
  <2> QED
    BY <1>p, <2>1
<1>1. h \in Seq(Rb!Nodes)
  BY <1>p, ConcatProperties
<1>2. Whole(q)
  BY <1>0, WholeOne
<1>z. z.ptr = Rb!NullPtr
  BY DEF Glues
<1>3. Held(o, d) = <<d>> /\ Held(q, Rb!None) = y.ptr /\ Rb!Total(o) = Mem(z) /\ Rb!Total(q) = Mem(y)
  <2>1. Held(o, d) = <<d>>
    BY <1>z, <1>p, <1>d, HeldOne
  <2>2. Held(q, Rb!None) = y.ptr
    BY <1>0, HeldOne
  <2>3. Rb!Total(o) = Mem(z) /\ Rb!Total(q) = Mem(y)
    BY <1>0, <1>p, TotalOne
  <2> QED
    BY <2>1, <2>2, <2>3
<1>4. Held(h, d) = Held(g, d) \o Held(r, d) /\ Rb!Total(h) = Rb!Total(g) + Rb!Total(r)
  BY <1>p, <1>b, <1>c
<1> HIDE DEF o, q, h
<1>5. t \in Seq(Rb!Nodes) /\ v \in Seq(Rb!Nodes)
  BY <1>p, <1>0, <1>1, ConcatProperties
<1>6. Whole(v)
  BY <1>p, <1>0, <1>2, WholeCat
<1>7. /\ Held(t, d) = Held(o, d) \o Held(h, d) /\ Rb!Total(t) = Rb!Total(o) + Rb!Total(h)
      /\ Held(v, Rb!None) = Held(q, Rb!None) \o Held(r, Rb!None) /\ Rb!Total(v) = Rb!Total(q) + Rb!Total(r)
  <2>1. Held(t, d) = Held(o, d) \o Held(h, d)
    <3>2. o \in Seq(Rb!Nodes) /\ h \in Seq(Rb!Nodes)
      BY <1>0, <1>1
    <3> QED
      BY <3>2, <1>b, Zenon
  <2>2. Rb!Total(t) = Rb!Total(o) + Rb!Total(h)
    BY <1>0, <1>1, <1>c
  <2>3. Held(v, Rb!None) = Held(q, Rb!None) \o Held(r, Rb!None)
    BY <1>p, <1>0, <1>6, HeldCat
  <2>4. Rb!Total(v) = Rb!Total(q) + Rb!Total(r)
    BY <1>p, <1>0, <1>c
  <2> QED
    BY <2>1, <2>2, <2>3, <2>4
<1> HIDE DEF t, v
<1>8. l = p \o t /\ m = p \o v
  BY DEF t, v, o, q, h, Glues
<1>9. Whole(m) /\ Whole(p \o v)
  <2>1. Whole(p \o v)
    BY <1>p, <1>5, <1>6, WholeCat
  <2> QED
    BY <2>1, <1>8
<1>10. /\ Held(l, d) = Held(p, d) \o Held(t, d) /\ Rb!Total(l) = Rb!Total(p) + Rb!Total(t)
       /\ Held(m, Rb!None) = Held(p, Rb!None) \o Held(v, Rb!None) /\ Rb!Total(m) = Rb!Total(p) + Rb!Total(v)
  <2>1. Held(p \o t, d) = Held(p, d) \o Held(t, d)
    BY <1>p, <1>5, <1>b
  <2>2. Rb!Total(p \o t) = Rb!Total(p) + Rb!Total(t)
    BY <1>p, <1>5, <1>c
  <2>3. Held(p \o v, Rb!None) = Held(p, Rb!None) \o Held(v, Rb!None)
    BY <1>p, <1>5, <1>9, HeldCat
  <2>4. Rb!Total(p \o v) = Rb!Total(p) + Rb!Total(v)
    BY <1>p, <1>5, <1>c
  <2> QED
    BY <2>1, <2>2, <2>3, <2>4, <1>8
<1>11. Held(p, Rb!None) = Held(p, d) /\ Held(r, Rb!None) = Held(r, d)
  BY <1>p, HeldSame
<1>12. Held(g, d) \in Seq(Nat) /\ Held(r, d) \in Seq(Nat) /\ <<d>> \in Seq(Nat)
  BY <1>p, <1>d, HeldType
<1>13. Held(v, Rb!None) = Held(t, d)
  <2>1. (<<d>> \o Held(g, d)) \o Held(r, d) = <<d>> \o (Held(g, d) \o Held(r, d))
    BY <1>12, Associative
  <2>2. y.ptr = <<d>> \o Held(g, d)
    BY DEF Glues
  <2> QED
    BY <2>1, <2>2, <1>3, <1>4, <1>7, <1>11
<1>14. Held(m, Rb!None) = Held(l, d)
  BY <1>10, <1>11, <1>13
<1>15. Rb!Total(m) = Rb!Total(l) - Rb!Total(g) + Mem(y)
  <2>1. Mem(z) = 0
    BY <1>z DEF Mem, Rb!MemOf
  <2>2. Rb!Total(p) \in Nat /\ Rb!Total(g) \in Nat /\ Rb!Total(r) \in Nat /\ Mem(y) \in Nat
    BY <1>p, <1>0, TotalType, MemType
  <2>3. Rb!Total(l) = Rb!Total(p) + (0 + (Rb!Total(g) + Rb!Total(r)))
    BY <2>1, <1>3, <1>4, <1>7, <1>10
  <2>4. Rb!Total(m) = Rb!Total(p) + (Mem(y) + Rb!Total(r))
    BY <1>3, <1>7, <1>10
  <2> QED
    BY <2>2, <2>3, <2>4
<1> QED
  BY <1>9, <1>14, <1>15 DEF Merged

(* A part of a sequence *)
LEMMA PartOf ==
  ASSUME NEW S, NEW l \in Seq(S), NEW a \in 1..(Len(l) + 1), NEW c \in 0..Len(l), a <= c + 1
  PROVE  /\ SubSeq(l, a, c) \in Seq(S) /\ Len(SubSeq(l, a, c)) = c + 1 - a
         /\ \A q \in 1..(c + 1 - a) : SubSeq(l, a, c)[q] = l[a - 1 + q]
<1> DEFINE f == SubSeq(l, a, c)
<1>0. Len(l) \in Nat /\ a \in Nat /\ c \in Nat /\ a \in Int /\ c \in Int /\ a >= 1
  OBVIOUS
<1>1. \A i \in a..c : l[i] \in S
  BY <1>0
<1>2. /\ f \in Seq(S) /\ Len(f) = IF a <= c THEN c - a + 1 ELSE 0
      /\ \A i \in 1..(c - a + 1) : f[i] = l[a + i - 1]
  BY <1>0, <1>1, SubSeqProperties
<1> HIDE DEF f
<1>3. Len(f) = c + 1 - a
  BY <1>0, <1>2
<1>4. ASSUME NEW q \in 1..(c + 1 - a) PROVE f[q] = l[a - 1 + q]
  <2>1. q \in 1..(c - a + 1) /\ a + q - 1 = a - 1 + q
    BY <1>0
  <2> QED
    BY <2>1, <1>2
<1> QED
  BY <1>2, <1>3, <1>4 DEF f

(* setDeferredMultiBulkLength: the node i gets its length, alone or glued  *)
(* to the one behind it.                                                   *)
Waiting(l, i) == i \in DOMAIN l /\ \A j \in DOMAIN l : l[j].ptr = Rb!NullPtr <=> j = i

(* The node that waits is the last one, *)
SetsAlone(l, m, i, y, d) ==
  /\ i = Len(l) /\ y.ptr = <<d>>
  /\ m = [q \in 1..Len(l) |-> IF q < i THEN l[q] ELSE IF q = i THEN y ELSE l[q]]

(* or takes what the one behind it holds, which is deleted. *)
SetsGlued(l, m, i, y, d) ==
  /\ i < Len(l) /\ y.ptr = <<d>> \o l[i + 1].ptr
  /\ m = [q \in 1..(Len(l) - 1) |-> IF q < i THEN l[q] ELSE IF q = i THEN y ELSE l[q + 1]]

(* The list before and behind the node i *)
Parted(l, i, p, t) ==
  /\ Len(p) = i - 1 /\ Len(t) = Len(l) - i
  /\ \A q \in 1..(i - 1) : p[q] = l[q]
  /\ \A q \in 1..(Len(l) - i) : t[q] = l[i + q]

(* A list is parted at the node that waits, and no other does. *)
LEMMA SplitAt ==
  ASSUME NEW l \in Seq(Rb!Nodes), NEW i \in Nat, 1 <= i, i <= Len(l), Waiting(l, i)
  PROVE  \E p, t \in Seq(Rb!Nodes) :
            Parted(l, i, p, t) /\ l = p \o (<<l[i]>> \o t) /\ Whole(p) /\ Whole(t)
<1> DEFINE n == Len(l)
           p == SubSeq(l, 1, i - 1)
           t == SubSeq(l, i + 1, n)
<1>0. n \in Nat /\ DOMAIN l = 1..n /\ i <= n
  OBVIOUS
<1>a. /\ 1 \in 1..(n + 1) /\ i - 1 \in 0..n /\ 1 <= (i - 1) + 1 /\ (i - 1) + 1 - 1 = i - 1
      /\ i + 1 \in 1..(n + 1) /\ n \in 0..n /\ i + 1 <= n + 1 /\ n + 1 - (i + 1) = n - i /\ (i + 1) - 1 = i
      /\ i \in 1..n
  <2> HIDE DEF n
  <2> QED
    BY <1>0
<1>1. /\ p \in Seq(Rb!Nodes) /\ Len(p) = i - 1 /\ \A q \in 1..(i - 1) : p[q] = l[q]
  <2>2. /\ p \in Seq(Rb!Nodes) /\ Len(p) = (i - 1) + 1 - 1
        /\ \A q \in 1..((i - 1) + 1 - 1) : p[q] = l[1 - 1 + q]
    BY <1>a, PartOf
  <2> HIDE DEF p
  <2> QED
    BY <1>a, <2>2
<1>2. /\ t \in Seq(Rb!Nodes) /\ Len(t) = n - i /\ \A q \in 1..(n - i) : t[q] = l[i + q]
  <2>2. /\ t \in Seq(Rb!Nodes) /\ Len(t) = n + 1 - (i + 1)
        /\ \A q \in 1..(n + 1 - (i + 1)) : t[q] = l[(i + 1) - 1 + q]
    BY <1>a, PartOf
  <2> HIDE DEF t
  <2> QED
    BY <1>a, <2>2
<1> HIDE DEF p, t
<1>p. Parted(l, i, p, t)
  BY <1>1, <1>2 DEF Parted
<1>3. l[i] \in Rb!Nodes
  BY <1>0, <1>a
<1>4. l = p \o (<<l[i]>> \o t)
  <2>1. Len(l) = Len(p) + 1 + Len(t) /\ Len(p) + 1 = i
    BY <1>0, <1>1, <1>2
  <2>2. \A q \in 1..Len(t) : l[Len(p) + 1 + q] = t[q]
    BY <2>1, <1>2
  <2>3. \A q \in 1..Len(p) : l[q] = p[q]
    BY <1>1
  <2>4. Around(l, p, l[i], t)
    BY <2>1, <2>2, <2>3 DEF Around
  <2> QED
    BY <2>4, <1>1, <1>2, <1>3, AroundOne
<1>w. ASSUME NEW j \in 1..n, j # i PROVE l[j].ptr # Rb!NullPtr
  BY <1>0, <1>w DEF Waiting
<1>5. Whole(p) /\ Whole(t)
  <2>1. ASSUME NEW q \in 1..(i - 1) PROVE p[q].ptr # Rb!NullPtr
    <3>1. q \in 1..n /\ q # i
      <4> HIDE DEF n
      <4> QED
        BY <1>0
    <3> QED
      BY <3>1, <1>1, <1>w
  <2>2. ASSUME NEW q \in 1..(n - i) PROVE t[q].ptr # Rb!NullPtr
    <3>1. i + q \in 1..n /\ i + q # i
      <4> HIDE DEF n
      <4> QED
        BY <1>0
    <3> QED
      BY <3>1, <1>2, <1>w
  <2>3. DOMAIN p = 1..(i - 1) /\ DOMAIN t = 1..(n - i)
    BY <1>1, <1>2
  <2> QED
    BY <2>1, <2>2, <2>3 DEF Whole
<1> QED
  BY <1>1, <1>2, <1>p, <1>4, <1>5

(* What becomes of the list *)
LengthIn(l, m, i, y, d, freed) ==
  /\ m \in Seq(Rb!Nodes) /\ Held(m, Rb!None) = Held(l, d) /\ Whole(m) /\ m # <<>>
  /\ Rb!Total(m) = Rb!Total(l) + Mem(y) - freed
  /\ m[1] = (IF i = 1 THEN y ELSE l[1])
  /\ \A q \in DOMAIN m : m[q] = y \/ \E j \in DOMAIN l : m[q] = l[j]

(* The length of the last node *)
LEMMA SetAlone ==
  ASSUME NEW l \in Seq(Rb!Nodes), NEW i \in Nat, 1 <= i, i <= Len(l), Waiting(l, i),
         NEW y, Written(y), NEW d, d \in Nat, NEW m, SetsAlone(l, m, i, y, d)
  PROVE  LengthIn(l, m, i, y, d, 0)
<1> DEFINE n == Len(l)
<1>0. n \in Nat /\ DOMAIN l = 1..n /\ i = n /\ i \in DOMAIN l
  BY DEF SetsAlone
<1>y. y \in Rb!Nodes
  BY WrittenIs
<1>z. l[i] \in Rb!Nodes /\ l[i].ptr = Rb!NullPtr
  BY <1>0 DEF Waiting
<1>1. PICK p, t \in Seq(Rb!Nodes) : Parted(l, i, p, t) /\ l = p \o (<<l[i]>> \o t) /\ Whole(p) /\ Whole(t)
  BY SplitAt
<1>2. Len(p) = n - 1 /\ Len(t) = 0 /\ \A q \in 1..(n - 1) : p[q] = l[q]
  BY <1>0, <1>1 DEF Parted
<1>3. t = <<>>
  BY <1>1, <1>2, EmptySeq
<1>4. DOMAIN m = 1..n /\ \A q \in 1..n : m[q] = IF q = n THEN y ELSE l[q]
  BY <1>0 DEF SetsAlone
<1>5. m \in Seq(Rb!Nodes) /\ Len(m) = n
  <2>1. ASSUME NEW q \in 1..n PROVE m[q] \in Rb!Nodes
    <3>1. l[q] \in Rb!Nodes
      BY <1>0
    <3> QED
      BY <3>1, <1>4, <1>y
  <2>2. m = [q \in 1..n |-> IF q < i THEN l[q] ELSE IF q = i THEN y ELSE l[q]]
    BY DEF SetsAlone
  <2>3. m = [q \in 1..n |-> m[q]]
    BY <2>2
  <2> HIDE DEF n
  <2> QED
    BY <2>1, <2>3, <1>0, Listed
<1>6. m = p \o (<<y>> \o t)
  <2>1. Len(m) = Len(p) + 1 + Len(t) /\ Len(p) + 1 = n
    BY <1>0, <1>2, <1>5
  <2>2. \A q \in 1..Len(t) : m[Len(p) + 1 + q] = t[q]
    BY <1>2
  <2>3. ASSUME NEW q \in 1..Len(p) PROVE m[q] = p[q]
    <3>1. q \in 1..(n - 1) /\ q \in 1..n /\ q # n
      BY <1>0, <1>2
    <3> QED
      BY <3>1, <1>2, <1>4
  <2>4. m[Len(p) + 1] = y
    <3>1. n \in 1..n
      BY <1>0
    <3> QED
      BY <3>1, <2>1, <1>4
  <2>5. Around(m, p, y, t)
    BY <2>1, <2>2, <2>3, <2>4 DEF Around
  <2> QED
    BY <2>5, <1>1, <1>5, <1>y, AroundOne
<1>7. l = p \o (<<l[i]>> \o (t \o t))
  <2>1. t \o t = t
    BY <1>3
  <2> QED
    BY <2>1, <1>1
<1>8. y.ptr = <<d>> \o Held(t, d)
  <2>1. Held(t, d) = <<>> /\ <<d>> \in Seq(Nat)
    BY <1>3, HeldEmpty
  <2>2. y.ptr = <<d>>
    BY DEF SetsAlone
  <2> QED
    BY <2>1, <2>2, ConcatEmptySeq
<1>9. Glues(l, m, p, l[i], t, t, y, d)
  BY <1>1, <1>6, <1>7, <1>8, <1>z DEF Glues
<1>10. Held(m, Rb!None) = Held(l, d) /\ Whole(m) /\ Rb!Total(m) = Rb!Total(l) - Rb!Total(t) + Mem(y)
  <2>1. Merged(l, m, t, y, d)
    BY <1>9, Glued, Zenon
  <2> QED
    BY <2>1 DEF Merged
<1>11. Rb!Total(m) = Rb!Total(l) + Mem(y) - 0
  <2>1. Rb!Total(t) = 0 /\ Rb!Total(l) \in Nat /\ Mem(y) \in Nat
    BY <1>3, <1>y, TotalEmpty, TotalType, MemType
  <2> QED
    BY <2>1, <1>10
<1>12. m # <<>> /\ m[1] = IF i = 1 THEN y ELSE l[1]
  <2>1. 1 \in 1..n
    BY <1>0
  <2>2. m[1] = IF i = 1 THEN y ELSE l[1]
    BY <2>1, <1>0, <1>4
  <2>3. m # <<>>
    BY <1>0, <1>5
  <2> QED
    BY <2>2, <2>3
<1>13. \A q \in DOMAIN m : m[q] = y \/ \E j \in DOMAIN l : m[q] = l[j]
  BY <1>0, <1>4
<1> QED
  BY <1>5, <1>10, <1>11, <1>12, <1>13 DEF LengthIn

(* The length of a node that is glued to the next one *)
LEMMA SetGlued ==
  ASSUME NEW l \in Seq(Rb!Nodes), NEW i \in Nat, 1 <= i, i <= Len(l), Waiting(l, i),
         NEW y, Written(y), NEW d, d \in Nat, NEW m, SetsGlued(l, m, i, y, d)
  PROVE  LengthIn(l, m, i, y, d, Mem(l[i + 1]))
<1> DEFINE n == Len(l)
           x == l[i + 1]
<1>0. n \in Nat /\ DOMAIN l = 1..n /\ i < n
  BY DEF SetsGlued
<1> HIDE DEF n
<1>a. /\ n - 1 \in Nat /\ n - i \in Nat /\ n - i > 0 /\ i + 1 \in 1..n /\ 1 \in 1..(n - i) /\ i \in 1..n
      /\ i \in 1..(n - 1) /\ 1 \in 1..(n - 1) /\ (i # 1 => 1 < i)
  BY <1>0
<1>y. y \in Rb!Nodes
  BY WrittenIs
<1>z. l[i] \in Rb!Nodes /\ l[i].ptr = Rb!NullPtr
  BY <1>0, <1>a DEF Waiting, n
<1>1. PICK p, t \in Seq(Rb!Nodes) : Parted(l, i, p, t) /\ l = p \o (<<l[i]>> \o t) /\ Whole(p) /\ Whole(t)
  BY SplitAt
<1>2. /\ Len(p) = i - 1 /\ Len(t) = n - i /\ \A q \in 1..(i - 1) : p[q] = l[q]
      /\ \A q \in 1..(n - i) : t[q] = l[i + q]
  BY <1>1 DEF Parted, n
<1> DEFINE r == Tail(t)
<1>3. t # <<>> /\ t[1] = x /\ x \in Rb!Nodes
  <2>1. t # <<>>
    BY <1>2, <1>a
  <2>2. t[1] = x
    BY <1>2, <1>a
  <2>3. x \in Rb!Nodes
    BY <1>0, <1>a DEF n
  <2> QED
    BY <2>1, <2>2, <2>3
<1>4. /\ r \in Seq(Rb!Nodes) /\ <<x>> \in Seq(Rb!Nodes) /\ t = <<x>> \o r /\ Len(r) = n - i - 1
  <2>1. /\ r \in Seq(Rb!Nodes) /\ t = <<t[1]>> \o r /\ Len(r) = Len(t) - 1
    BY <1>1, <1>3, First
  <2>2. <<x>> \in Seq(Rb!Nodes)
    BY <1>3
  <2> QED
    BY <2>1, <2>2, <1>2, <1>3
<1>5. ASSUME NEW q \in 1..(n - i - 1) PROVE r[q] = l[i + 1 + q]
  <2>1. r[q] = t[q + 1]
    BY <1>1, <1>3, <1>4, HeadTailProperties
  <2>2. q + 1 \in 1..(n - i) /\ i + (q + 1) = i + 1 + q
    BY <1>a
  <2> QED
    BY <2>1, <2>2, <1>2
<1> HIDE DEF r, x
<1>6. DOMAIN m = 1..(n - 1) /\ \A q \in 1..(n - 1) : m[q] = IF q < i THEN l[q] ELSE IF q = i THEN y ELSE l[q + 1]
  BY DEF SetsGlued, n
<1>7. m \in Seq(Rb!Nodes) /\ Len(m) = n - 1
  <2>1. ASSUME NEW q \in 1..(n - 1) PROVE m[q] \in Rb!Nodes
    <3>1. q \in 1..n /\ q + 1 \in 1..n
      BY <1>0
    <3>2. l[q] \in Rb!Nodes /\ l[q + 1] \in Rb!Nodes
      BY <3>1, <1>0 DEF n
    <3> QED
      BY <3>2, <1>6, <1>y
  <2>2. m = [q \in 1..(n - 1) |-> m[q]]
    <3>1. m = [q \in 1..(n - 1) |-> IF q < i THEN l[q] ELSE IF q = i THEN y ELSE l[q + 1]]
      BY DEF SetsGlued, n
    <3> QED
      BY <3>1
  <2> QED
    BY <2>1, <2>2, <1>a, Listed
<1>8. m = p \o (<<y>> \o r)
  <2>1. Len(m) = Len(p) + 1 + Len(r) /\ Len(p) + 1 = i
    BY <1>0, <1>2, <1>4, <1>7
  <2>2. ASSUME NEW q \in 1..Len(r) PROVE m[Len(p) + 1 + q] = r[q]
    <3>1. i + q \in 1..(n - 1) /\ ~(i + q < i) /\ i + q # i /\ (i + q) + 1 = i + 1 + q /\ q \in 1..(n - i - 1)
      BY <1>0, <1>4
    <3>2. m[i + q] = l[i + 1 + q]
      BY <3>1, <1>6
    <3>3. Len(p) + 1 + q = i + q
      BY <2>1
    <3> QED
      BY <3>1, <3>2, <3>3, <1>5
  <2>3. ASSUME NEW q \in 1..Len(p) PROVE m[q] = p[q]
    <3>1. q \in 1..(n - 1) /\ q < i /\ q \in 1..(i - 1)
      BY <1>0, <1>2
    <3> QED
      BY <3>1, <1>2, <1>6
  <2>4. m[Len(p) + 1] = y
    BY <2>1, <1>a, <1>6
  <2>5. Around(m, p, y, r)
    BY <2>1, <2>2, <2>3, <2>4 DEF Around
  <2> QED
    BY <2>5, <1>1, <1>4, <1>7, <1>y, AroundOne
<1>9. l = p \o (<<l[i]>> \o (<<x>> \o r))
  BY <1>1, <1>4
<1>10. Whole(<<x>>) /\ Whole(r)
  BY <1>1, <1>4, WholeCat
<1>11. y.ptr = <<d>> \o Held(<<x>>, d)
  <2>1. Held(<<x>>, d) = x.ptr
    <3>1. x.ptr # Rb!NullPtr
      BY <1>10 DEF Whole
    <3> QED
      BY <3>1, <1>3, HeldOne
  <2> QED
    BY <2>1 DEF x, SetsGlued
<1>12. Glues(l, m, p, l[i], <<x>>, r, y, d)
  BY <1>1, <1>4, <1>10, <1>8, <1>9, <1>11, <1>z DEF Glues
<1>13. Held(m, Rb!None) = Held(l, d) /\ Whole(m) /\ Rb!Total(m) = Rb!Total(l) - Rb!Total(<<x>>) + Mem(y)
  <2>1. Merged(l, m, <<x>>, y, d)
    BY <1>12, Glued, Zenon
  <2> QED
    BY <2>1 DEF Merged
<1>14. Rb!Total(m) = Rb!Total(l) + Mem(y) - Mem(x)
  <2>1. Rb!Total(<<x>>) = Mem(x) /\ Mem(x) \in Nat /\ Mem(y) \in Nat /\ Rb!Total(l) \in Nat
    BY <1>3, <1>y, TotalOne, TotalType, MemType
  <2> QED
    BY <2>1, <1>13
<1>15. m # <<>> /\ m[1] = IF i = 1 THEN y ELSE l[1]
  <2>1. m[1] = IF i = 1 THEN y ELSE l[1]
    BY <1>a, <1>6
  <2>2. m # <<>>
    BY <1>a, <1>7
  <2> QED
    BY <2>1, <2>2
<1>16. ASSUME NEW q \in DOMAIN m PROVE m[q] = y \/ \E j \in DOMAIN l : m[q] = l[j]
  <2>1. q \in 1..(n - 1) /\ q \in DOMAIN l /\ q + 1 \in DOMAIN l
    BY <1>0, <1>6
  <2> QED
    BY <2>1, <1>6
<1> QED
  BY <1>7, <1>13, <1>14, <1>15, <1>16 DEF LengthIn, x

(* What becomes of all that is buffered: the same bytes, and the memory    *)
(* that was taken and freed                                                *)
AfterSet(b, l, m, d, k, y, freed) ==
  /\ Kept(b, m, Rb!None, k) /\ Line(b, m, Rb!None) = Line(b, l, d)
  /\ Rb!Total(m) = Rb!Total(l) + Mem(y) - freed /\ Rb!Total(m) \in Nat /\ Rb!Total(m) > 0
  /\ \A q \in DOMAIN m : m[q] = y \/ \E j \in DOMAIN l : m[q] = l[j]

(* setDeferredMultiBulkLength changes nothing of what is to be sent. *)
LEMMA LengthSet ==
  ASSUME NEW b, NEW l, NEW d, d \in Nat, NEW k, Kept(b, l, d, k), NEW i, Waiting(l, i),
         NEW y, Written(y), NEW m, NEW freed, LengthIn(l, m, i, y, d, freed)
  PROVE  AfterSet(b, l, m, d, k, y, freed)
<1>0. b \in Seq(Nat) /\ l \in Seq(Rb!Nodes) /\ k \in Nat /\ Partly(b, l, k)
  BY DEF Kept
<1>1. /\ m \in Seq(Rb!Nodes) /\ Held(m, Rb!None) = Held(l, d) /\ Whole(m) /\ m # <<>>
      /\ m[1] = IF i = 1 THEN y ELSE l[1]
  BY DEF LengthIn
<1>2. i \in DOMAIN l /\ l[i] \in Rb!Nodes /\ l[i].ptr = Rb!NullPtr /\ l # <<>>
  BY <1>0 DEF Waiting
<1>3. Partly(b, m, k)
  <2>1. CASE b # <<>>
    BY <2>1, <1>0 DEF Partly
  <2>2. CASE b = <<>>
    <3>0. k < Len(l[1].ptr)
      BY <2>2, <1>0, <1>2 DEF Partly
    <3>1. CASE i = 1
      <4>1. Len(l[1].ptr) = 1 /\ Len(y.ptr) > 0
        BY <3>1, <1>2, NodeFields, WrittenIs
      <4>2. k = 0
        BY <4>1, <3>0, <1>0
      <4> QED
        BY <4>1, <4>2, <3>1, <2>2, <1>1 DEF Partly
    <3>2. CASE i # 1
      BY <3>0, <3>2, <2>2, <1>1 DEF Partly
    <3> QED
      BY <3>1, <3>2
  <2> QED
    BY <2>1, <2>2
<1>4. Kept(b, m, Rb!None, k)
  BY <1>0, <1>1, <1>3 DEF Kept, Waits
<1>5. Line(b, m, Rb!None) = Line(b, l, d)
  BY <1>1 DEF Line
<1>6. Rb!Total(m) \in Nat /\ Rb!Total(m) > 0
  <2>1. m[1] \in Rb!Nodes /\ Tail(m) \in Seq(Rb!Nodes) /\ m = <<m[1]>> \o Tail(m) /\ <<m[1]>> \in Seq(Rb!Nodes)
    BY <1>1, First
  <2>2. m[1].ptr # Rb!NullPtr
    <3>1. 1 \in DOMAIN m
      BY <1>1, EmptySeq
    <3> QED
      BY <3>1, <1>1 DEF Whole
  <2>3. Rb!Total(<<m[1]>> \o Tail(m)) = Rb!Total(<<m[1]>>) + Rb!Total(Tail(m))
    BY <2>1, TotalCat
  <2>4. Rb!Total(<<m[1]>>) = Mem(m[1]) /\ Mem(m[1]) \in Nat /\ Mem(m[1]) > 0 /\ Rb!Total(Tail(m)) \in Nat
    BY <2>1, <2>2, TotalOne, TotalType, MemType
  <2>5. Rb!Total(m) = Mem(m[1]) + Rb!Total(Tail(m))
    BY <2>1, <2>3, <2>4
  <2> QED
    BY <2>4, <2>5
<1> QED
  BY <1>4, <1>5, <1>6 DEF LengthIn, AfterSet

(* Sending n bytes of the first buffer w, of which k are sent *)
Takes(w, r, o, k, n) ==
  /\ (o \o SubSeq(w, k + 1, k + n)) \o Drop(w \o r, k + n) = o \o Drop(w \o r, k)
  /\ o \o SubSeq(w, k + 1, k + n) \in Seq(Nat)
  /\ k + n = Len(w) => Drop(w \o r, k + n) = r

(* What a write takes from the first buffer is what the socket gets next. *)
LEMMA Sends ==
  ASSUME NEW w, w \in Seq(Nat), NEW r, r \in Seq(Nat), NEW o, o \in Seq(Nat), NEW k \in Nat, NEW n \in Nat, k + n <= Len(w)
  PROVE  Takes(w, r, o, k, n)
<1> DEFINE c == SubSeq(w, k + 1, k + n)
           e == Drop(w, k + n)
<1>0. k + n \in Nat /\ k <= Len(w) /\ Len(w) \in Nat
  BY LenProperties
<1>1. Drop(w, k) = c \o e /\ c \in Seq(Nat)
  BY <1>0, DropMore
<1>2. e \in Seq(Nat)
  BY <1>0, DropIs
<1>3. Drop(w \o r, k) = Drop(w, k) \o r
  BY <1>0, DropCat
<1>4. Drop(w \o r, k + n) = e \o r
  BY <1>0, DropCat
<1>5. k + n = Len(w) => e = <<>>
  BY DropEnds
<1> HIDE DEF c, e
<1>6. e \o r \in Seq(Nat)
  BY <1>2, ConcatProperties
<1>7. (c \o e) \o r = c \o (e \o r)
  BY <1>1, <1>2, Associative
<1>8. (o \o c) \o (e \o r) = o \o (c \o (e \o r))
  BY <1>1, <1>6, Associative
<1>9. o \o c \in Seq(Nat)
  BY <1>1, ConcatProperties
<1>10. ASSUME k + n = Len(w) PROVE e \o r = r
  BY <1>5, <1>10, ConcatEmptySeq
<1> QED
  BY <1>1, <1>3, <1>4, <1>7, <1>8, <1>9, <1>10 DEF c, Takes

(* The buffer that is sent first *)
Front(b, l) == IF b # <<>> THEN b ELSE l[1].ptr

(* One write of sendReplyToClient, that leaves something of the buffer or  *)
(* nothing of it                                                           *)
AfterPart(b, l, k, o, n) ==
  /\ Kept(b, l, Rb!None, k + n)
  /\ o \o SubSeq(Front(b, l), k + 1, k + n) \in Seq(Nat)
  /\ (o \o SubSeq(Front(b, l), k + 1, k + n)) \o Drop(Line(b, l, Rb!None), k + n)
       = o \o Drop(Line(b, l, Rb!None), k)

(* A write that leaves something of the first buffer *)
LEMMA WritesPart ==
  ASSUME NEW b, NEW l, NEW k, Kept(b, l, Rb!None, k), b # <<>> \/ l # <<>>, NEW o, o \in Seq(Nat),
         NEW n \in Nat, k + n < Len(Front(b, l))
  PROVE  AfterPart(b, l, k, o, n)
<1>0. b \in Seq(Nat) /\ l \in Seq(Rb!Nodes) /\ k \in Nat /\ Waits(l, Rb!None)
  BY DEF Kept
<1>1. Kept(b, l, Rb!None, k + n)
  <2>1. k + n \in Nat /\ Partly(b, l, k + n)
    BY <1>0 DEF Partly, Front
  <2> QED
    BY <2>1, <1>0 DEF Kept
<1>2. \E r : r \in Seq(Nat) /\ Front(b, l) \in Seq(Nat) /\ Line(b, l, Rb!None) = Front(b, l) \o r
  <2>1. CASE b # <<>>
    <3>1. Held(l, Rb!None) \in Seq(Nat)
      BY LineType
    <3> QED
      BY <3>1, <2>1, <1>0 DEF Front, Line
  <2>2. CASE b = <<>>
    <3>1. /\ Line(<<>>, l, Rb!None) = l[1].ptr \o Line(<<>>, Tail(l), Rb!None)
          /\ Written(l[1]) /\ Kept(<<>>, Tail(l), Rb!None, 0)
      BY <2>2, ListLoses
    <3>2. Line(<<>>, Tail(l), Rb!None) \in Seq(Nat)
      BY <3>1, LineType
    <3>3. l[1].ptr \in Seq(Nat)
      BY <3>1, WrittenIs
    <3> QED
      BY <3>1, <3>2, <3>3, <2>2 DEF Front
  <2> QED
    BY <2>1, <2>2
<1>3. PICK r : r \in Seq(Nat) /\ Front(b, l) \in Seq(Nat) /\ Line(b, l, Rb!None) = Front(b, l) \o r
  BY <1>2
<1> DEFINE w == Front(b, l)
<1>4. w \in Seq(Nat) /\ r \in Seq(Nat) /\ k \in Nat /\ k + n <= Len(w)
  BY <1>0, <1>3
<1> HIDE DEF w
<1>5. /\ (o \o SubSeq(w, k + 1, k + n)) \o Drop(w \o r, k + n) = o \o Drop(w \o r, k)
      /\ o \o SubSeq(w, k + 1, k + n) \in Seq(Nat)
  <2>1. Takes(w, r, o, k, n)
    BY <1>4, Sends, Zenon
  <2> QED
    BY <2>1, Zenon DEF Takes
<1>6. Line(b, l, Rb!None) = w \o r
  BY <1>3 DEF w
<1>7. (o \o SubSeq(w, k + 1, k + n)) \o Drop(Line(b, l, Rb!None), k + n) = o \o Drop(Line(b, l, Rb!None), k)
  BY <1>5, <1>6, Zenon
<1> QED
  BY <1>1, <1>5, <1>7, Zenon DEF w, AfterPart

(* The first buffer is gone, and the next one starts at its first byte. *)
AfterWhole(b, l, m, k, o, n) ==
  /\ Kept(<<>>, m, Rb!None, 0)
  /\ o \o SubSeq(Front(b, l), k + 1, k + n) \in Seq(Nat)
  /\ (o \o SubSeq(Front(b, l), k + 1, k + n)) \o Drop(Line(<<>>, m, Rb!None), 0)
       = o \o Drop(Line(b, l, Rb!None), k)

(* A write that leaves nothing of the first buffer *)
LEMMA WritesWhole ==
  ASSUME NEW b, NEW l, NEW k, Kept(b, l, Rb!None, k), b # <<>> \/ l # <<>>, NEW o, o \in Seq(Nat),
         NEW n \in Nat, k + n = Len(Front(b, l)), NEW m, m = IF b # <<>> THEN l ELSE Tail(l)
  PROVE  AfterWhole(b, l, m, k, o, n)
<1>0. b \in Seq(Nat) /\ l \in Seq(Rb!Nodes) /\ k \in Nat /\ Waits(l, Rb!None) /\ Whole(l)
  BY DEF Kept, Waits
<1>2. /\ Line(<<>>, m, Rb!None) \in Seq(Nat) /\ Front(b, l) \in Seq(Nat)
      /\ Line(b, l, Rb!None) = Front(b, l) \o Line(<<>>, m, Rb!None) /\ Kept(<<>>, m, Rb!None, 0)
  <2>1. CASE b # <<>>
    <3>0. m = l /\ Front(b, l) = b
      BY <2>1 DEF Front
    <3>1. Held(l, Rb!None) \in Seq(Nat)
      BY LineType
    <3>2. Line(<<>>, l, Rb!None) = Held(l, Rb!None)
      BY <3>1, ConcatEmptySeq DEF Line
    <3>3. Partly(<<>>, l, 0)
      <4>1. CASE l = <<>>
        BY <4>1 DEF Partly
      <4>2. CASE l # <<>>
        <5>1. l[1] \in Rb!Nodes /\ 1 \in DOMAIN l
          BY <4>2, <1>0, EmptySeq
        <5>2. l[1].ptr # Rb!NullPtr
          BY <5>1, <1>0 DEF Whole
        <5>3. Len(l[1].ptr) > 0
          BY <5>1, <5>2, NodeFields
        <5> QED
          BY <5>3, <4>2 DEF Partly
      <4> QED
        BY <4>1, <4>2
    <3>4. Kept(<<>>, l, Rb!None, 0)
      BY <3>3, <1>0 DEF Kept
    <3>5. Line(b, l, Rb!None) = b \o Held(l, Rb!None)
      BY DEF Line
    <3> QED
      BY <3>0, <3>1, <3>2, <3>4, <3>5, <1>0
  <2>2. CASE b = <<>>
    <3>0. m = Tail(l) /\ Front(b, l) = l[1].ptr
      BY <2>2 DEF Front
    <3>1. /\ Line(<<>>, l, Rb!None) = l[1].ptr \o Line(<<>>, Tail(l), Rb!None)
          /\ Written(l[1]) /\ Kept(<<>>, Tail(l), Rb!None, 0)
      BY <2>2, ListLoses
    <3>2. Line(<<>>, Tail(l), Rb!None) \in Seq(Nat)
      BY <3>1, LineType
    <3>3. l[1].ptr \in Seq(Nat)
      BY <3>1, WrittenIs
    <3> QED
      BY <3>0, <3>1, <3>2, <3>3, <2>2
  <2> QED
    BY <2>1, <2>2
<1> DEFINE w == Front(b, l)
           r == Line(<<>>, m, Rb!None)
<1>4. w \in Seq(Nat) /\ r \in Seq(Nat) /\ k \in Nat /\ k + n <= Len(w) /\ k + n = Len(w)
  BY <1>0, <1>2
<1>6. Line(b, l, Rb!None) = w \o r
  BY <1>2
<1> HIDE DEF w, r
<1>5. /\ (o \o SubSeq(w, k + 1, k + n)) \o Drop(w \o r, k + n) = o \o Drop(w \o r, k)
      /\ o \o SubSeq(w, k + 1, k + n) \in Seq(Nat) /\ Drop(w \o r, k + n) = r
  <2>1. Takes(w, r, o, k, n)
    BY <1>4, Sends, Zenon
  <2> QED
    BY <2>1, <1>4, Zenon DEF Takes
<1>7. Drop(r, 0) = r
  BY <1>4, DropEnds
<1>8. (o \o SubSeq(w, k + 1, k + n)) \o Drop(r, 0) = o \o Drop(Line(b, l, Rb!None), k)
  BY <1>5, <1>6, <1>7, Zenon
<1> QED
  BY <1>2, <1>5, <1>8, Zenon DEF w, r, AfterWhole

(* Nothing is buffered, nothing is to be sent. *)
LEMMA Quiet ==
  ASSUME NEW d, NEW k, k = 0
  PROVE  Drop(Line(<<>>, <<>>, d), k) = <<>>
<1>1. Line(<<>>, <<>>, d) = <<>>
  BY HeldEmpty DEF Line
<1>2. <<>> \in Seq(Nat) /\ Len(<<>>) = 0
  OBVIOUS
<1> QED
  BY <1>1, <1>2, DropEnds

(* The invariant, of any values of the variables *)
Fine(rs, h, f, b, l, d, k, all, o, bytes) ==
  /\ rs \in {"none", "wait_bgsave", "online"} /\ h \in BOOLEAN
  /\ f \in {"none", "close_after_reply", "close_asap", "freed"}
  /\ Kept(b, l, d, k) /\ all \in Seq(Nat) /\ o \in Seq(Nat)
  /\ d # Rb!None => f \in {"none", "close_asap"}
  /\ (b # <<>> \/ l # <<>>) /\ rs # "wait_bgsave" => h
  /\ f = "freed" => b = <<>> /\ l = <<>>
  /\ f = "freed" => o = all
  /\ f # "freed" => o \o Drop(Line(b, l, d), k) = all
  /\ \A i \in DOMAIN l : l[i].shared => l[i].ptr = Rb!SharedObject
  /\ bytes = Rb!Total(l)
  /\ Rb!Reached(Hard, bytes + Len(l)) /\ d = Rb!None /\ f # "freed" => f # "none"

(* The invariant of the variables as they are *)
Now == Fine(replstate, handler, flag, buf, list, deferred, sentlen, stream, sent, replyBytes)

(* BuffersInvariant says so, *)
LEMMA FineNow == Rb!BuffersInvariant => Now
<1> SUFFICES ASSUME Rb!BuffersInvariant PROVE Now
  OBVIOUS
<1>1. Kept(buf, list, deferred, sentlen)
  BY DEF Rb!BuffersInvariant, Kept, Waits, Whole, Partly
<1>2. Rb!Pending = Drop(Line(buf, list, deferred), sentlen)
  BY DEF Rb!Pending, Drop, Line, Held, Flat
<1>3. flag # "freed" => sent \o Drop(Line(buf, list, deferred), sentlen) = stream
  BY <1>2 DEF Rb!BuffersInvariant, Rb!InOrder
<1>4. /\ deferred # Rb!None => flag \in {"none", "close_asap"}
      /\ flag = "freed" => sent = stream
  BY DEF Rb!BuffersInvariant, Rb!ReplyIsScheduled
<1>5. Rb!Reached(Hard, replyBytes + Len(list)) /\ deferred = Rb!None /\ flag # "freed" => flag # "none"
  BY DEF Rb!BuffersInvariant, Rb!HardCloses, Rb!Usage, Rb!UsageOf, Rb!State
<1>6. \A i \in DOMAIN list : list[i].shared => list[i].ptr = Rb!SharedObject
  BY DEF Rb!BuffersInvariant, Rb!SharedUntouched
<1>7. replyBytes = Rb!Total(list)
  BY DEF Rb!BuffersInvariant, Rb!BytesAccounted
<1>8. /\ replstate \in {"none", "wait_bgsave", "online"} /\ handler \in BOOLEAN
      /\ flag \in {"none", "close_after_reply", "close_asap", "freed"}
      /\ stream \in Seq(Nat) /\ sent \in Seq(Nat)
      /\ (buf # <<>> \/ list # <<>>) /\ replstate # "wait_bgsave" => handler
      /\ flag = "freed" => buf = <<>> /\ list = <<>>
  BY DEF Rb!BuffersInvariant
<1> QED
  BY <1>1, <1>3, <1>4, <1>5, <1>6, <1>7, <1>8 DEF Now, Fine

(* and conversely, after a step. *)
LEMMA FineLater == Now' => Rb!BuffersInvariant'
<1> SUFFICES ASSUME Now' PROVE Rb!BuffersInvariant'
  OBVIOUS
<1>1. /\ replstate' \in {"none", "wait_bgsave", "online"} /\ handler' \in BOOLEAN
      /\ flag' \in {"none", "close_after_reply", "close_asap", "freed"}
      /\ stream' \in Seq(Nat) /\ sent' \in Seq(Nat) /\ Kept(buf', list', deferred', sentlen')
      /\ (buf' # <<>> \/ list' # <<>>) /\ replstate' # "wait_bgsave" => handler'
      /\ flag' = "freed" => buf' = <<>> /\ list' = <<>>
  BY DEF Now, Fine
<1>2. Rb!Pending' = Drop(Line(buf', list', deferred'), sentlen')
  BY DEF Rb!Pending, Drop, Line, Held, Flat
<1>3. Rb!InOrder'
  BY <1>2 DEF Rb!InOrder, Now, Fine
<1>4. Rb!SharedUntouched'
  BY DEF Rb!SharedUntouched, Now, Fine
<1>5. Rb!BytesAccounted'
  BY DEF Rb!BytesAccounted, Now, Fine
<1>6. Rb!HardCloses'
  BY DEF Rb!HardCloses, Rb!Usage, Rb!UsageOf, Rb!State, Now, Fine
<1>7. Rb!ReplyIsScheduled'
  <2>1. flag' = "freed" => sent' = stream'
    BY DEF Now, Fine
  <2>2. ASSUME Rb!Pending' # <<>>, replstate' # "wait_bgsave" PROVE handler'
    <3>1. ASSUME buf' = <<>>, list' = <<>> PROVE FALSE
      <4>1. sentlen' = 0
        BY <3>1, <1>1 DEF Kept, Partly
      <4>2. Drop(Line(<<>>, <<>>, deferred'), sentlen') = <<>>
        BY <4>1, Quiet
      <4> QED
        BY <4>2, <3>1, <2>2, <1>2
    <3> QED
      BY <3>1, <2>2, <1>1
  <2> QED
    BY <2>1, <2>2 DEF Rb!ReplyIsScheduled
<1>8. /\ buf' \in Seq(Nat) /\ list' \in Seq(Rb!Nodes) /\ sentlen' \in Nat /\ deferred' \in Nat \cup {Rb!None}
      /\ IF buf' # <<>> THEN sentlen' < Len(buf')
         ELSE IF list' # <<>> THEN sentlen' < Len(list'[1].ptr) ELSE sentlen' = 0
  BY <1>1 DEF Kept, Partly
<1>9. IF deferred' = Rb!None THEN \A i \in DOMAIN list' : list'[i].ptr # Rb!NullPtr
      ELSE /\ \E i \in DOMAIN list' : \A j \in DOMAIN list' : list'[j].ptr = Rb!NullPtr <=> j = i
           /\ flag' \in {"none", "close_asap"}
  <2>1. Waits(list', deferred')
    BY <1>1 DEF Kept
  <2>2. deferred' # Rb!None => flag' \in {"none", "close_asap"}
    BY DEF Now, Fine
  <2> QED
    BY <2>1, <2>2 DEF Waits, Whole
<1> QED
  BY <1>1, <1>3, <1>4, <1>5, <1>6, <1>7, <1>8, <1>9 DEF Rb!BuffersInvariant

(* No shared object has been written to. *)
Untouched(l) == \A i \in DOMAIN l : l[i].shared => l[i].ptr = Rb!SharedObject

(* The bytes s are added at the end. *)
Grows(rs, f, b, l, d, k, s, h2, f2, b2, l2, d2, bytes2) ==
  /\ f \notin {"freed", "close_after_reply"} /\ s \in Seq(Nat)
  /\ h2 \in BOOLEAN /\ (rs # "wait_bgsave" => h2)
  /\ Kept(b2, l2, d2, k) /\ Line(b2, l2, d2) = Line(b, l, d) \o s
  /\ f2 \in {f, "close_asap"} /\ Untouched(l2)
  /\ bytes2 = Rb!Total(l2)
  /\ Rb!Reached(Hard, bytes2 + Len(l2)) /\ d2 = Rb!None => f2 # "none"

(* Whatever adds bytes at the end, sees to the handler, the memory and the *)
(* limit, keeps the invariant.                                             *)
LEMMA FineGrows ==
  ASSUME NEW rs, NEW h, NEW f, NEW b, NEW l, NEW d, NEW k, NEW all, NEW o, NEW bytes,
         Fine(rs, h, f, b, l, d, k, all, o, bytes),
         NEW s, NEW h2, NEW f2, NEW b2, NEW l2, NEW d2, NEW bytes2,
         Grows(rs, f, b, l, d, k, s, h2, f2, b2, l2, d2, bytes2)
  PROVE  Fine(rs, h2, f2, b2, l2, d2, k, all \o s, o, bytes2)
<1>1. /\ rs \in {"none", "wait_bgsave", "online"} /\ Kept(b, l, d, k)
      /\ all \in Seq(Nat) /\ o \in Seq(Nat)
  BY DEF Fine
<1>2. f \in {"none", "close_asap"}
  BY DEF Fine, Grows
<1>3. o \o Drop(Line(b, l, d), k) = all
  BY <1>2 DEF Fine
<1>4. s \in Seq(Nat) /\ Line(b2, l2, d2) = Line(b, l, d) \o s
  BY DEF Grows
<1>5. o \o Drop(Line(b, l, d) \o s, k) = (o \o Drop(Line(b, l, d), k)) \o s
  <2>1. ComesLast(Line(b, l, d), k, o, s)
    BY <1>1, <1>4, Longer, Zenon
  <2> QED
    BY <2>1, Zenon DEF ComesLast
<1>6. o \o Drop(Line(b2, l2, d2), k) = all \o s
  BY <1>3, <1>4, <1>5, Zenon
<1>7. all \o s \in Seq(Nat)
  BY <1>1, <1>4, ConcatProperties
<1>8. f2 \in {"none", "close_asap"}
  BY <1>2 DEF Grows
<1>9. /\ h2 \in BOOLEAN /\ (rs # "wait_bgsave" => h2)
      /\ Kept(b2, l2, d2, k) /\ bytes2 = Rb!Total(l2)
  BY DEF Grows
<1>10. Rb!Reached(Hard, bytes2 + Len(l2)) /\ d2 = Rb!None => f2 # "none"
  BY DEF Grows
<1>11. \A i \in DOMAIN l2 : l2[i].shared => l2[i].ptr = Rb!SharedObject
  BY DEF Grows, Untouched
<1>12. f2 # "freed"
  BY <1>8
<1> QED
  BY <1>1, <1>6, <1>7, <1>8, <1>9, <1>10, <1>11, <1>12 DEF Fine

(* What the assumptions say of the parameters *)
LEMMA Numbers ==
  /\ BufSize \in Nat /\ Chunk \in Nat /\ MaxReply \in Nat /\ Hard \in Nat /\ Soft \in Nat
  /\ Overhead \in Nat /\ MinReply \in Nat /\ MinReply > 0 /\ MaxBytes \in Nat
BY BuffersAssumption DEF Rb!ReplyBuffersAssumption

(* asyncCloseClientOnOutputBufferLimitReached *)
LEMMA Closes ==
  ASSUME NEW st, Rb!AsyncClose(st, TRUE), st.bytes # 0
  PROVE  flag' \in {flag, "close_asap"} /\ (Rb!Reached(Hard, st.bytes + Len(st.list)) => flag' = "close_asap")
<1>1. CASE flag = "close_asap"
  BY <1>1 DEF Rb!AsyncClose
<1>2. CASE flag # "close_asap"
  <2>1. flag' = IF Rb!Limits(st).over THEN "close_asap" ELSE flag
    BY <1>2 DEF Rb!AsyncClose
  <2>2. Rb!Reached(Hard, st.bytes + Len(st.list)) => Rb!Limits(st).over
    BY DEF Rb!Limits, Rb!UsageOf
  <2> QED
    BY <2>1, <2>2
<1> QED
  BY <1>1, <1>2

(* prepareClientToWrite: from then on there is a handler, or a BGSAVE. *)
LEMMA Prepared ==
  ASSUME Now, handler' = (handler \/ Rb!Prepare)
  PROVE  handler' \in BOOLEAN /\ (replstate # "wait_bgsave" => handler')
<1>1. /\ replstate \in {"none", "wait_bgsave", "online"} /\ handler \in BOOLEAN
      /\ (buf # <<>> \/ list # <<>>) /\ replstate # "wait_bgsave" => handler
  BY DEF Now, Fine
<1>2. Rb!Prepare \in BOOLEAN
  BY DEF Rb!Prepare
<1>3. ASSUME replstate # "wait_bgsave" PROVE handler \/ Rb!Prepare
  BY <1>1, <1>3 DEF Rb!Prepare
<1> QED
  BY <1>1, <1>2, <1>3

(* A node made of bytes *)
LEMMA NodeIs ==
  ASSUME NEW p, p \in Seq(Nat), p # <<>>, NEW sh \in BOOLEAN
  PROVE  /\ Written(Rb!Node(p, sh)) /\ Rb!Node(p, sh).ptr = p /\ Rb!Node(p, sh).shared = sh
         /\ Mem(Rb!Node(p, sh)) = Rb!MemOf(p)
<1>1. p # Rb!NullPtr
  <2>1. p[1] \in Nat
    BY EmptySeq
  <2>2. Rb!NullPtr[1] = -1
    BY DEF Rb!NullPtr, Rb!None
  <2> QED
    BY <2>1, <2>2
<1>2. Rb!Node(p, sh).ptr = p /\ Rb!Node(p, sh).shared = sh
  BY DEF Rb!Node
<1>3. Rb!Node(p, sh) \in Rb!Nodes
  BY DEF Rb!Node, Rb!Nodes
<1> QED
  BY <1>1, <1>2, <1>3 DEF Written, Mem

(* _addReplyToBuffer or the list: the buffer, a new node, or a tail that   *)
(* is not shared and has room (addReply).                                  *)
LEMMA AddReplySound ==
  ASSUME Now, NEW s, s \in Seq(Nat), s # <<>>, NEW sh \in BOOLEAN, sh => s = Rb!SharedObject,
         Rb!AddReply(s, sh)
  PROVE  Now'
<1>1. /\ flag # "freed" /\ handler' = (handler \/ Rb!Prepare)
      /\ replstate' = replstate /\ sentlen' = sentlen /\ deferred' = deferred /\ sent' = sent
  BY DEF Rb!AddReply
<1>2. handler' \in BOOLEAN /\ (replstate # "wait_bgsave" => handler')
  BY <1>1, Prepared
<1>3. /\ Kept(buf, list, deferred, sentlen) /\ buf \in Seq(Nat) /\ list \in Seq(Rb!Nodes)
      /\ Untouched(list) /\ replyBytes = Rb!Total(list) /\ replyBytes \in Nat
  BY TotalType DEF Now, Fine, Kept, Untouched
<1>4. CASE flag = "close_after_reply"
  <2>1. /\ buf' = buf /\ list' = list /\ replyBytes' = replyBytes /\ stream' = stream /\ flag' = flag
    BY <1>4 DEF Rb!AddReply
  <2>2. Fine(replstate, handler', flag, buf, list, deferred, sentlen, stream, sent, replyBytes)
    BY <1>2 DEF Now, Fine
  <2> QED
    BY <2>1, <2>2, <1>1 DEF Now
<1>5. CASE flag # "close_after_reply"
  <2> DEFINE tb == Rb!ToBuffer(Rb!State, s)
             st == IF tb.ok THEN tb.st ELSE Rb!ToList(Rb!State, s, sh)
  <2>1. /\ buf' = st.buf /\ list' = st.list /\ replyBytes' = st.bytes /\ stream' = stream \o s
        /\ Rb!AsyncClose(st, ~tb.ok)
    BY <1>5 DEF Rb!AddReply, Rb!Store
  <2>2. flag \notin {"freed", "close_after_reply"}
    BY <1>1, <1>5
  <2>n. Written(Rb!Node(s, sh)) /\ Rb!Node(s, sh).ptr = s /\ Rb!Node(s, sh).shared = sh
        /\ Mem(Rb!Node(s, sh)) = Rb!MemOf(s)
    BY NodeIs
  <2>3. Grows(replstate, flag, buf, list, deferred, sentlen, s, handler', flag', buf', list', deferred, replyBytes')
    <3>1. CASE list = <<>> /\ ~(Len(s) > BufSize - Len(buf))
      <4>1. tb.ok = TRUE /\ tb.st = [Rb!State EXCEPT !.buf = @ \o s]
        BY <3>1 DEF Rb!ToBuffer, Rb!State
      <4>2. st.buf = buf \o s /\ st.list = <<>> /\ st.bytes = replyBytes
        BY <4>1, <3>1 DEF Rb!State
      <4>3. flag' = flag
        BY <4>1, <2>1 DEF Rb!AsyncClose
      <4> HIDE DEF st, tb
      <4>4. /\ Kept(buf \o s, <<>>, deferred, sentlen)
            /\ Line(buf \o s, <<>>, deferred) = Line(buf, <<>>, deferred) \o s
        BY <3>1, <1>3, BufferGrows
      <4>5. ~(Rb!Reached(Hard, replyBytes' + Len(list')))
        <5>1. replyBytes' = 0 /\ Len(list') = 0
          BY <4>2, <2>1, <3>1, <1>3, TotalEmpty
        <5> QED
          BY <5>1, Numbers DEF Rb!Reached
      <4>6. buf' = buf \o s /\ list' = <<>> /\ replyBytes' = Rb!Total(list')
        BY <4>2, <2>1, <3>1, <1>3
      <4>7. Untouched(list')
        BY <4>6 DEF Untouched
      <4>8. Kept(buf', list', deferred, sentlen) /\ Line(buf', list', deferred) = Line(buf, list, deferred) \o s
        BY <4>4, <4>6, <3>1
      <4> QED
        BY <4>3, <4>5, <4>6, <4>7, <4>8, <2>2, <1>2 DEF Grows
    <3>2. CASE ~(list = <<>> /\ ~(Len(s) > BufSize - Len(buf)))
      <4>1. tb.ok = FALSE
        BY <3>2 DEF Rb!ToBuffer, Rb!State
      <4>2. st = Rb!ToList(Rb!State, s, sh) /\ Rb!AsyncClose(st, TRUE)
        BY <4>1, <2>1
      <4> HIDE DEF st, tb
      <4>3. /\ Kept(buf', list', deferred, sentlen) /\ Line(buf', list', deferred) = Line(buf, list, deferred) \o s
            /\ Untouched(list') /\ replyBytes' = Rb!Total(list')
            /\ replyBytes' \in Nat /\ replyBytes' > 0
        <5> DEFINE z == list[Len(list)]
        <5>1. CASE list # <<>> /\ z.ptr # Rb!NullPtr /\ Len(z.ptr) + Len(s) <= Chunk
          <6> DEFINE y == Rb!Node(z.ptr \o s, FALSE)
          <6>1. z \in Rb!Nodes /\ Written(z) /\ z.ptr \in Seq(Nat) /\ z.ptr # <<>>
            <7>1. z \in Rb!Nodes
              BY <5>1, <1>3, EmptySeq
            <7> QED
              BY <7>1, <5>1, NodeFields DEF Written
          <6>2. z.ptr \o s \in Seq(Nat) /\ z.ptr \o s # <<>>
            BY <6>1, ConcatProperties, ConcatEqualIffEmpty
          <6>3. Written(y) /\ y.ptr = z.ptr \o s /\ y.shared = FALSE /\ Mem(y) = Rb!MemOf(z.ptr \o s)
            BY <6>2, NodeIs
          <6>4. /\ st.buf = buf /\ st.list = [list EXCEPT ![Len(list)] = y]
                /\ st.bytes = replyBytes - Rb!MemOf(z.ptr) + Rb!MemOf(z.ptr \o s)
            BY <4>2, <5>1 DEF Rb!ToList, Rb!State
          <6> HIDE DEF y, z
          <6>z. z = list[Len(list)] /\ Mem(z) = Rb!MemOf(z.ptr)
            BY DEF z, Mem
          <6>5. /\ Kept(buf, [list EXCEPT ![Len(list)] = y], deferred, sentlen)
                /\ Line(buf, [list EXCEPT ![Len(list)] = y], deferred) = Line(buf, list, deferred) \o s
                /\ Rb!Total([list EXCEPT ![Len(list)] = y]) = Rb!Total(list) - Mem(list[Len(list)]) + Mem(y)
            <7>1. list # <<>> /\ Written(list[Len(list)]) /\ y.ptr = list[Len(list)].ptr \o s
              BY <6>1, <6>3, <6>z, <5>1
            <7>2. Fits(list, s, y)
              BY <7>1, <6>3 DEF Fits
            <7>3. TailTakes(buf, list, deferred, sentlen, s, y)
              BY <7>2, <1>3, TailGrows, Zenon
            <7> QED
              BY <7>3, Zenon DEF TailTakes
          <6>6. list' = [list EXCEPT ![Len(list)] = y] /\ buf' = buf
                /\ replyBytes' = Rb!Total(list) - Mem(list[Len(list)]) + Mem(y)
            BY <6>3, <6>4, <6>z, <2>1, <1>3
          <6>7. Untouched(list')
            <7>1. DOMAIN list' = DOMAIN list /\ \A i \in DOMAIN list : list'[i] = y \/ list'[i] = list[i]
              BY <6>6
            <7> QED
              BY <7>1, <6>3, <1>3 DEF Untouched
          <6>8. replyBytes' \in Nat /\ replyBytes' > 0
            <7>1. list' \in Seq(Rb!Nodes) /\ list' # <<>> /\ list'[Len(list)] = y /\ Len(list) \in DOMAIN list
              BY <6>6, <6>5, <5>1, <1>3, EmptySeq DEF Kept
            <7>2. Rb!Total(list) - Mem(z) \in Nat
              <8>1. PICK fr \in Seq(Rb!Nodes), lt \in Rb!Nodes : list = Append(fr, lt)
                BY <5>1, <1>3, SequenceEmptyOrAppend
              <8>2. lt = z
                BY <8>1, <6>z
              <8>3. Rb!Total(list) = Rb!Total(fr) + Mem(z) /\ Rb!Total(fr) \in Nat /\ Mem(z) \in Nat
                BY <8>1, <8>2, TotalAppend, TotalType, MemType
              <8> QED
                BY <8>3
            <7>3. Mem(y) \in Nat /\ Mem(y) > 0
              BY <6>3, MemType DEF Written
            <7> QED
              BY <7>2, <7>3, <6>6, <6>z
          <6> QED
            BY <6>5, <6>6, <6>7, <6>8
        <5>2. CASE ~(list # <<>> /\ z.ptr # Rb!NullPtr /\ Len(z.ptr) + Len(s) <= Chunk)
          <6>1. st.buf = buf /\ st.list = Append(list, Rb!Node(s, sh)) /\ st.bytes = replyBytes + Rb!MemOf(s)
            BY <4>2, <5>2 DEF Rb!ToList, Rb!State
          <6> DEFINE y == Rb!Node(s, sh)
          <6>n. Written(y) /\ y.ptr = s /\ y.shared = sh /\ Mem(y) = Rb!MemOf(s)
            BY <2>n
          <6>2. /\ buf' = buf /\ list' = Append(list, y) /\ replyBytes' = Rb!Total(list) + Mem(y)
            BY <6>1, <2>1, <2>n, <1>3
          <6> HIDE DEF y
          <6>3. /\ Kept(buf, Append(list, y), deferred, sentlen)
                /\ Line(buf, Append(list, y), deferred) = Line(buf, list, deferred) \o y.ptr
                /\ Rb!Total(Append(list, y)) = Rb!Total(list) + Mem(y)
            <7>1. Kept(buf, list, deferred, sentlen) /\ Written(y)
              BY <6>n, <1>3
            <7> QED
              BY ONLY <7>1, ListGrows
          <6>4. Untouched(list')
            <7>1. ASSUME NEW i \in DOMAIN list' PROVE list'[i] = y \/ (i \in DOMAIN list /\ list'[i] = list[i])
              <8>1. y \in Rb!Nodes
                BY <6>n, WrittenIs
              <8>2. /\ DOMAIN list' = 1..(Len(list) + 1) /\ DOMAIN list = 1..Len(list) /\ Len(list) \in Nat
                    /\ list'[Len(list) + 1] = y /\ \A j \in 1..Len(list) : list'[j] = list[j]
                BY <8>1, <6>2, <1>3, AppendOne
              <8> QED
                BY <8>2
            <7> QED
              BY <7>1, <6>n, <1>3 DEF Untouched
          <6>5. replyBytes' \in Nat /\ replyBytes' > 0
            <7>1. Mem(y) \in Nat /\ Mem(y) > 0 /\ Rb!Total(list) \in Nat
              BY <6>n, <1>3, MemType DEF Written
            <7> QED
              BY <7>1, <6>2
          <6> QED
            BY <6>2, <6>3, <6>4, <6>5, <6>n
        <5> QED
          BY <5>1, <5>2
      <4>4. flag' \in {flag, "close_asap"} /\ (Rb!Reached(Hard, replyBytes' + Len(list')) => flag' = "close_asap")
        <5>1. st.bytes # 0 /\ st.bytes = replyBytes' /\ st.list = list'
          BY <4>3, <2>1
        <5>2. flag' \in {flag, "close_asap"} /\ (Rb!Reached(Hard, st.bytes + Len(st.list)) => flag' = "close_asap")
          BY <5>1, <4>2, Closes
        <5> QED
          BY <5>1, <5>2
      <4> QED
        BY <4>3, <4>4, <2>2, <1>2 DEF Grows
    <3> QED
      BY <3>1, <3>2
  <2>4. Fine(replstate, handler', flag', buf', list', deferred, sentlen, stream \o s, sent, replyBytes')
    BY <2>3, FineGrows, Zenon DEF Now
  <2> HIDE DEF st, tb
  <2> QED
    BY <2>1, <2>4, <1>1 DEF Now
<1> QED
  BY <1>4, <1>5

(* A reply of the command itself keeps the invariant. *)
LEMMA AddOwnSound ==
  ASSUME Now, NEW n \in MinReply..MaxReply, Rb!AddOwn(n)
  PROVE  Now'
<1> DEFINE s == [i \in 1..n |-> Len(stream) + i]
<1>1. n \in Nat /\ n > 0 /\ Len(stream) \in Nat
  BY Numbers DEF Now, Fine
<1>2. s \in Seq(Nat) /\ Len(s) = n
  BY <1>1
<1>3. s # <<>>
  BY <1>1, <1>2
<1>4. Rb!AddReply(s, FALSE)
  BY DEF Rb!AddOwn
<1> HIDE DEF s
<1>5. FALSE \in BOOLEAN /\ (FALSE => s = Rb!SharedObject)
  OBVIOUS
<1> QED
  BY <1>2, <1>3, <1>4, <1>5, AddReplySound

(* A shared object as a reply keeps the invariant. *)
LEMMA AddSharedSound ==
  ASSUME Now, Rb!AddShared
  PROVE  Now'
<1>1. Rb!SharedObject \in Seq(Nat) /\ Rb!SharedObject # <<>>
  BY DEF Rb!SharedObject
<1>2. Rb!AddReply(Rb!SharedObject, TRUE)
  BY DEF Rb!AddShared
<1>3. TRUE \in BOOLEAN /\ (TRUE => Rb!SharedObject = Rb!SharedObject)
  OBVIOUS
<1> QED
  BY <1>1, <1>2, <1>3, AddReplySound

(* A deferred length keeps the invariant. *)
LEMMA AddDeferredSound ==
  ASSUME Now, Rb!AddDeferred
  PROVE  Now'
<1> DEFINE d == Len(stream) + 1
           y == Rb!Node(Rb!NullPtr, FALSE)
<1>1. /\ flag \in {"none", "close_asap"} /\ deferred = Rb!None /\ handler' = (handler \/ Rb!Prepare)
      /\ deferred' = d /\ stream' = Append(stream, d)
      /\ replstate' = replstate /\ sentlen' = sentlen /\ flag' = flag /\ sent' = sent
  BY DEF Rb!AddDeferred
<1>2. buf' = buf /\ list' = Append(list, y) /\ replyBytes' = replyBytes
  BY DEF Rb!AddDeferred, Rb!Store, Rb!State
<1>3. handler' \in BOOLEAN /\ (replstate # "wait_bgsave" => handler')
  BY <1>1, Prepared
<1>4. /\ Kept(buf, list, deferred, sentlen) /\ buf \in Seq(Nat) /\ list \in Seq(Rb!Nodes)
      /\ Untouched(list) /\ replyBytes = Rb!Total(list) /\ stream \in Seq(Nat)
  BY DEF Now, Fine, Kept, Untouched
<1>5. d \in Nat /\ d # Rb!None
  BY <1>4 DEF Rb!None
<1>6. y.ptr = Rb!NullPtr /\ y.shared = FALSE
  BY DEF Rb!Node
<1>7. y \in Rb!Nodes
  BY DEF Rb!Node, Rb!Nodes
<1> HIDE DEF d, y
<1>8. /\ Kept(buf, Append(list, y), d, sentlen)
      /\ Line(buf, Append(list, y), d) = Line(buf, list, Rb!None) \o <<d>>
      /\ Rb!Total(Append(list, y)) = Rb!Total(list)
  <2>1. Kept(buf, list, Rb!None, sentlen) /\ d \in Nat /\ y \in Rb!Nodes /\ y.ptr = Rb!NullPtr
    BY <1>1, <1>4, <1>5, <1>6, <1>7
  <2> QED
    BY ONLY <2>1, ListDefers
<1>9. Untouched(list')
  <2>1. /\ DOMAIN list' = 1..(Len(list) + 1) /\ DOMAIN list = 1..Len(list) /\ Len(list) \in Nat
        /\ list'[Len(list) + 1] = y /\ \A j \in 1..Len(list) : list'[j] = list[j]
    BY <1>2, <1>4, <1>7, AppendOne
  <2>2. ASSUME NEW i \in DOMAIN list' PROVE list'[i] = y \/ (i \in DOMAIN list /\ list'[i] = list[i])
    BY <2>1
  <2> QED
    BY <2>2, <1>6, <1>4 DEF Untouched
<1>10. <<d>> \in Seq(Nat) /\ stream \o <<d>> = Append(stream, d)
  BY <1>4, <1>5
<1>11. Grows(replstate, flag, buf, list, deferred, sentlen, <<d>>, handler', flag', buf', list', d, replyBytes')
  BY <1>1, <1>2, <1>3, <1>4, <1>5, <1>8, <1>9, <1>10 DEF Grows
<1>12. Fine(replstate, handler', flag', buf', list', d, sentlen, stream \o <<d>>, sent, replyBytes')
  BY <1>11, FineGrows, Zenon DEF Now
<1> QED
  BY <1>1, <1>10, <1>12 DEF Now

(* Its value, when it is known, keeps the invariant. *)
LEMMA SetDeferredSound ==
  ASSUME Now, Rb!SetDeferred
  PROVE  Now'
<1> DEFINE i == CHOOSE j \in DOMAIN list : list[j].ptr = Rb!NullPtr
           nx == i < Len(list)
           glued == IF nx THEN <<deferred>> \o list[i + 1].ptr ELSE <<deferred>>
           y == Rb!Node(glued, FALSE)
           m == [q \in 1..(IF nx THEN Len(list) - 1 ELSE Len(list)) |->
                   IF q < i THEN list[q] ELSE IF q = i THEN y ELSE IF nx THEN list[q + 1] ELSE list[q]]
           freed == IF nx THEN Rb!MemOf(list[i + 1].ptr) ELSE 0
<1>1. /\ deferred # Rb!None /\ deferred' = Rb!None /\ buf' = buf /\ list' = m
      /\ replyBytes' = replyBytes + Rb!MemOf(glued) - freed
      /\ replstate' = replstate /\ sentlen' = sentlen /\ handler' = handler /\ stream' = stream /\ sent' = sent
  BY DEF Rb!SetDeferred, Rb!Store, Rb!State
<1>2. \E st : Rb!Store(st) /\ Rb!AsyncClose(st, TRUE)
  BY DEF Rb!SetDeferred
<1>3. /\ Kept(buf, list, deferred, sentlen) /\ buf \in Seq(Nat) /\ list \in Seq(Rb!Nodes)
      /\ Untouched(list) /\ replyBytes = Rb!Total(list) /\ stream \in Seq(Nat)
      /\ deferred \in Nat /\ Waits(list, deferred) /\ flag \in {"none", "close_asap"}
      /\ handler \in BOOLEAN
  BY <1>1 DEF Now, Fine, Kept, Untouched
<1>4. Waiting(list, i)
  <2>1. PICK j \in DOMAIN list : \A e \in DOMAIN list : list[e].ptr = Rb!NullPtr <=> e = j
    BY <1>1, <1>3 DEF Waits
  <2>2. i \in DOMAIN list /\ list[i].ptr = Rb!NullPtr
    BY <2>1
  <2> HIDE DEF i
  <2>3. i = j
    BY <2>1, <2>2
  <2> QED
    BY <2>1, <2>3 DEF Waiting
<1> HIDE DEF i
<1>5. i \in Nat /\ 1 <= i /\ i <= Len(list) /\ DOMAIN list = 1..Len(list) /\ Len(list) \in Nat
  BY <1>3, <1>4 DEF Waiting
<1>6. <<deferred>> \in Seq(Nat) /\ <<deferred>> # <<>>
  BY <1>3
<1>7. glued \in Seq(Nat) /\ glued # <<>>
  <2>1. CASE nx
    <3>1. i + 1 \in DOMAIN list /\ i + 1 # i
      BY <2>1, <1>5
    <3>2. list[i + 1] \in Rb!Nodes /\ list[i + 1].ptr # Rb!NullPtr
      BY <3>1, <1>3, <1>4 DEF Waiting
    <3>3. list[i + 1].ptr \in Seq(Nat)
      BY <3>2, NodeFields
    <3>4. glued = <<deferred>> \o list[i + 1].ptr
      BY <2>1
    <3> QED
      BY <3>3, <3>4, <1>6, ConcatProperties, ConcatEqualIffEmpty
  <2>2. CASE ~nx
    BY <2>2, <1>6
  <2> QED
    BY <2>1, <2>2
<1>8. Written(y) /\ y.ptr = glued /\ y.shared = FALSE /\ Mem(y) = Rb!MemOf(glued)
  <2> HIDE DEF glued
  <2> QED
    BY <1>7, NodeIs
<1>9. LengthIn(list, m, i, y, deferred, freed)
  <2>1. CASE nx
    <3>1. y.ptr = <<deferred>> \o list[i + 1].ptr /\ freed = Mem(list[i + 1])
      BY <2>1, <1>8 DEF Mem
    <3> HIDE DEF y, freed
    <3>2. m = [q \in 1..(Len(list) - 1) |-> IF q < i THEN list[q] ELSE IF q = i THEN y ELSE list[q + 1]]
      BY <2>1
    <3> HIDE DEF m
    <3>3. SetsGlued(list, m, i, y, deferred)
      BY <2>1, <3>1, <3>2 DEF SetsGlued
    <3>4. LengthIn(list, m, i, y, deferred, Mem(list[i + 1]))
      <4>1. list \in Seq(Rb!Nodes) /\ i \in Nat /\ 1 <= i /\ i <= Len(list) /\ Waiting(list, i) /\ Written(y) /\ deferred \in Nat
        BY <1>3, <1>4, <1>5, <1>8
      <4> QED
        BY ONLY <3>3, <4>1, SetGlued
    <3> QED
      BY <3>1, <3>4
  <2>2. CASE ~nx
    <3>0. i = Len(list)
      <4>1. ~(i < Len(list))
        BY <2>2
      <4>2. i \in Nat /\ i <= Len(list) /\ Len(list) \in Nat
        BY <1>5
      <4> HIDE DEF nx, glued, y, m, freed
      <4> QED
        BY <4>1, <4>2
    <3>1. y.ptr = <<deferred>> /\ freed = 0 /\ i = Len(list)
      <4>1. glued = <<deferred>> /\ freed = 0
        BY <2>2
      <4>2. y.ptr = glued
        BY <1>8
      <4> HIDE DEF y, freed, glued
      <4> QED
        BY <4>1, <4>2, <3>0
    <3> HIDE DEF y, freed
    <3>2. m = [q \in 1..Len(list) |-> IF q < i THEN list[q] ELSE IF q = i THEN y ELSE list[q]]
      BY <2>2
    <3> HIDE DEF m
    <3>3. SetsAlone(list, m, i, y, deferred)
      BY <3>1, <3>2 DEF SetsAlone
    <3>4. LengthIn(list, m, i, y, deferred, 0)
      <4>1. list \in Seq(Rb!Nodes) /\ i \in Nat /\ 1 <= i /\ i <= Len(list) /\ Waiting(list, i) /\ Written(y) /\ deferred \in Nat
        BY <1>3, <1>4, <1>5, <1>8
      <4> QED
        BY ONLY <3>3, <4>1, SetAlone
    <3> QED
      BY <3>1, <3>4
  <2> QED
    BY <2>1, <2>2
<1> HIDE DEF m, y, glued, freed, nx
<1>s. PICK st : Rb!Store(st) /\ Rb!AsyncClose(st, TRUE)
  BY <1>2
<1>t. st.bytes = replyBytes' /\ st.list = list'
  BY <1>s DEF Rb!Store
<1>10. /\ Kept(buf, m, Rb!None, sentlen) /\ Line(buf, m, Rb!None) = Line(buf, list, deferred)
       /\ Rb!Total(m) = Rb!Total(list) + Mem(y) - freed /\ Rb!Total(m) \in Nat /\ Rb!Total(m) > 0
       /\ \A q \in DOMAIN m : m[q] = y \/ \E j \in DOMAIN list : m[q] = list[j]
  <2>1. deferred \in Nat /\ Kept(buf, list, deferred, sentlen) /\ Waiting(list, i) /\ Written(y)
    BY <1>3, <1>4, <1>8
  <2> QED
    <3>1. AfterSet(buf, list, m, deferred, sentlen, y, freed)
      BY <2>1, <1>9, LengthSet, Zenon
    <3> QED
      BY <3>1 DEF AfterSet
<1>11. replyBytes' = Rb!Total(m)
  BY <1>1, <1>3, <1>8, <1>10
<1>12. Untouched(list')
  BY <1>1, <1>3, <1>8, <1>10 DEF Untouched
<1>13. flag' \in {flag, "close_asap"} /\ (Rb!Reached(Hard, replyBytes' + Len(list')) => flag' = "close_asap")
  <2>1. st.bytes # 0
    BY <1>t, <1>10, <1>11
  <2>2. flag' \in {flag, "close_asap"} /\ (Rb!Reached(Hard, st.bytes + Len(st.list)) => flag' = "close_asap")
    BY <2>1, <1>s, Closes
  <2> QED
    BY <2>2, <1>t
<1>14. Line(buf, m, Rb!None) = Line(buf, list, deferred) \o <<>> /\ stream \o <<>> = stream /\ <<>> \in Seq(Nat)
  <2>1. Line(buf, list, deferred) \in Seq(Nat)
    BY <1>3, LineType
  <2> QED
    BY <2>1, <1>3, <1>10, ConcatEmptySeq
<1>15. handler' \in BOOLEAN /\ (replstate # "wait_bgsave" => handler')
  <2>1. list # <<>>
    BY <1>5
  <2> QED
    BY <2>1, <1>1 DEF Now, Fine
<1>16. Grows(replstate, flag, buf, list, deferred, sentlen, <<>>, handler', flag', buf', list', Rb!None, replyBytes')
  BY <1>1, <1>3, <1>10, <1>11, <1>12, <1>13, <1>14, <1>15 DEF Grows
<1>17. Fine(replstate, handler', flag', buf', list', Rb!None, sentlen, stream \o <<>>, sent, replyBytes')
  BY <1>16, FineGrows, Zenon DEF Now
<1> QED
  BY <1>1, <1>14, <1>17 DEF Now

(* One write of sendReplyToClient keeps the invariant. *)
LEMMA SendSound ==
  ASSUME Now, buf # <<>> \/ list # <<>>, NEW n \in 1..MaxBytes, Rb!Send(n)
  PROVE  Now'
<1> DEFINE w == Front(buf, list)
<1>0. n \in Nat /\ n > 0
  BY Numbers
<1>1. /\ handler /\ flag # "freed" /\ deferred = Rb!None /\ sentlen + n <= Len(w)
      /\ sent' = sent \o SubSeq(w, sentlen + 1, sentlen + n)
      /\ sentlen' = (IF sentlen + n = Len(w) THEN 0 ELSE sentlen + n)
      /\ replstate' = replstate /\ deferred' = deferred /\ stream' = stream
  BY DEF Rb!Send, Front
<1>2. /\ Kept(buf, list, Rb!None, sentlen) /\ buf \in Seq(Nat) /\ list \in Seq(Rb!Nodes)
      /\ Untouched(list) /\ replyBytes = Rb!Total(list) /\ stream \in Seq(Nat) /\ sent \in Seq(Nat)
      /\ handler \in BOOLEAN /\ sentlen \in Nat /\ sent \o Drop(Line(buf, list, Rb!None), sentlen) = stream
      /\ flag \in {"none", "close_after_reply", "close_asap"}
      /\ replstate \in {"none", "wait_bgsave", "online"}
      /\ Rb!Reached(Hard, replyBytes + Len(list)) => flag # "none"
  BY <1>1 DEF Now, Fine, Kept, Untouched
<1>3. CASE sentlen + n # Len(w)
  <2>1. buf' = buf /\ list' = list /\ replyBytes' = replyBytes /\ handler' = TRUE /\ flag' = flag
    BY <1>3 DEF Rb!Send, Rb!Store, Rb!State, Rb!Drained, Front
  <2>2. sentlen + n < Len(w) /\ sentlen' = sentlen + n
    <3>1. Len(w) \in Nat
      <4>1. CASE buf # <<>>
        BY <4>1, <1>2 DEF Front
      <4>2. CASE buf = <<>>
        <5>1. Written(list[1])
          BY <4>2, <1>2, ListLoses
        <5>2. list[1].ptr \in Seq(Nat)
          BY <5>1, WrittenIs
        <5> QED
          BY <5>2, <4>2 DEF Front
      <4> QED
        BY <4>1, <4>2
    <3> HIDE DEF w
    <3> QED
      BY <3>1, <1>0, <1>1, <1>2, <1>3
  <2>3. /\ Kept(buf, list, Rb!None, sentlen + n)
        /\ sent \o SubSeq(w, sentlen + 1, sentlen + n) \in Seq(Nat)
        /\ (sent \o SubSeq(w, sentlen + 1, sentlen + n)) \o Drop(Line(buf, list, Rb!None), sentlen + n)
              = sent \o Drop(Line(buf, list, Rb!None), sentlen)
    <3>1. Kept(buf, list, Rb!None, sentlen) /\ (buf # <<>> \/ list # <<>>) /\ sent \in Seq(Nat) /\ n \in Nat
          /\ sentlen + n < Len(Front(buf, list))
      BY <1>0, <1>2, <2>2
    <3> QED
      <4>1. AfterPart(buf, list, sentlen, sent, n)
        BY ONLY <3>1, WritesPart
      <4> QED
        BY <4>1, Zenon DEF AfterPart
  <2>4. Fine(replstate, TRUE, flag, buf, list, Rb!None, sentlen + n, stream, sent', replyBytes)
    <3>1. sent' \in Seq(Nat) /\ sent' \o Drop(Line(buf, list, Rb!None), sentlen + n) = stream
      BY <2>3, <1>1, <1>2
    <3>2. \A j \in DOMAIN list : list[j].shared => list[j].ptr = Rb!SharedObject
      BY <1>2 DEF Untouched
    <3> QED
      BY <3>1, <3>2, <2>3, <1>2 DEF Fine
  <2> QED
    BY <2>1, <2>2, <2>4, <1>1 DEF Now
<1>4. CASE sentlen + n = Len(w)
  <2> DEFINE m == IF buf # <<>> THEN list ELSE Tail(list)
  <2>1. /\ buf' = <<>> /\ list' = m /\ sentlen' = 0
        /\ replyBytes' = IF buf # <<>> THEN replyBytes ELSE replyBytes - Rb!MemOf(list[1].ptr)
    BY <1>1, <1>4 DEF Rb!Send, Rb!Store, Rb!State, Front
  <2>2. /\ handler' = (buf' # <<>> \/ list' # <<>>)
        /\ flag' = IF ~handler' /\ flag = "close_after_reply" THEN "freed" ELSE flag
    BY DEF Rb!Send, Rb!Store, Rb!Drained
  <2>3. /\ Kept(<<>>, m, Rb!None, 0)
        /\ sent \o SubSeq(w, sentlen + 1, sentlen + n) \in Seq(Nat)
        /\ (sent \o SubSeq(w, sentlen + 1, sentlen + n)) \o Drop(Line(<<>>, m, Rb!None), 0)
              = sent \o Drop(Line(buf, list, Rb!None), sentlen)
    <3>1. Kept(buf, list, Rb!None, sentlen) /\ (buf # <<>> \/ list # <<>>) /\ sent \in Seq(Nat) /\ n \in Nat
          /\ sentlen + n = Len(Front(buf, list)) /\ m = IF buf # <<>> THEN list ELSE Tail(list)
      BY <1>0, <1>2, <1>4
    <3> HIDE DEF m
    <3> QED
      <4>1. AfterWhole(buf, list, m, sentlen, sent, n)
        BY ONLY <3>1, WritesWhole
      <4> QED
        BY <4>1, Zenon DEF AfterWhole
  <2>4. /\ Untouched(m) /\ replyBytes' = Rb!Total(m) /\ replyBytes' \in Nat
        /\ replyBytes' + Len(m) <= replyBytes + Len(list) /\ replyBytes' + Len(m) \in Nat /\ replyBytes + Len(list) \in Nat
    <3>1. CASE buf # <<>>
      <4>1. m = list /\ replyBytes' = replyBytes
        BY <3>1, <2>1
      <4>2. replyBytes \in Nat /\ Len(list) \in Nat
        BY <1>2, TotalType
      <4> QED
        BY <4>1, <4>2, <1>2
    <3>2. CASE buf = <<>>
      <4>1. m = Tail(list) /\ replyBytes' = replyBytes - Mem(list[1])
        BY <3>2, <2>1 DEF Mem
      <4>2. /\ Written(list[1]) /\ Rb!Total(Tail(list)) = Rb!Total(list) - Mem(list[1]) /\ Rb!Total(Tail(list)) \in Nat
            /\ Len(Tail(list)) = Len(list) - 1
            /\ \A j \in DOMAIN Tail(list) : j + 1 \in DOMAIN list /\ Tail(list)[j] = list[j + 1]
        <5>1. Kept(<<>>, list, Rb!None, sentlen) /\ list # <<>>
          BY <3>2, <1>2
        <5> QED
          BY ONLY <5>1, ListLoses
      <4>3. Untouched(Tail(list))
        BY <4>2, <1>2 DEF Untouched
      <4>4. Mem(list[1]) \in Nat /\ Len(list) \in Nat /\ Len(list) > 0 /\ replyBytes \in Nat
        BY <4>2, <3>2, <1>2, MemType, TotalType, EmptySeq DEF Written
      <4> HIDE DEF m
      <4>5. replyBytes' = Rb!Total(m) /\ replyBytes' \in Nat
        BY <4>1, <4>2, <1>2
      <4>6. Len(m) = Len(list) - 1
        BY <4>1, <4>2
      <4> QED
        BY <4>1, <4>3, <4>4, <4>5, <4>6
    <3> QED
      BY <3>1, <3>2
  <2> HIDE DEF m
  <2>5. sent' \in Seq(Nat) /\ sent' \o Drop(Line(<<>>, m, Rb!None), 0) = stream
    BY <2>3, <1>1, <1>2
  <2>6. ASSUME flag' = "freed" PROVE m = <<>> /\ sent' = stream
    <3>1. m = <<>>
      BY <2>6, <2>1, <2>2, <1>2
    <3>2. Drop(Line(<<>>, <<>>, Rb!None), 0) = <<>>
      BY Quiet
    <3>3. sent' \o <<>> = sent'
      BY <2>5, ConcatEmptySeq
    <3> QED
      BY <3>1, <3>2, <3>3, <2>5
  <2>7. flag' \in {"none", "close_after_reply", "close_asap", "freed"} /\ (flag' # "freed" => flag' = flag)
    BY <2>2, <1>2
  <2>8. handler' \in BOOLEAN /\ (m # <<>> => handler')
    BY <2>1, <2>2
  <2>9. Rb!Reached(Hard, replyBytes' + Len(m)) /\ flag' # "freed" => flag' # "none"
    <3> SUFFICES ASSUME Rb!Reached(Hard, replyBytes' + Len(m)), flag' # "freed" PROVE flag' # "none"
      OBVIOUS
    <3>1. Rb!Reached(Hard, replyBytes + Len(list))
      BY <2>4, Numbers DEF Rb!Reached
    <3> QED
      BY <3>1, <2>7, <1>2
  <2>10. \A j \in DOMAIN m : m[j].shared => m[j].ptr = Rb!SharedObject
    BY <2>4 DEF Untouched
  <2>11. Fine(replstate, handler', flag', <<>>, m, Rb!None, 0, stream, sent', replyBytes')
    BY <2>3, <2>4, <2>5, <2>6, <2>7, <2>8, <2>9, <2>10, <1>2 DEF Fine
  <2> QED
    BY <2>1, <2>11, <1>1 DEF Now
<1> QED
  BY <1>3, <1>4

(* The other steps keep the invariant: nothing is empty, nothing is moved. *)
LEMMA OtherSound ==
  ASSUME Now, Rb!SendEmpty \/ Rb!PutOnline \/ Rb!CloseAfterReply \/ Rb!Tick \/ UNCHANGED Rb!vars
  PROVE  Now'
<1>1. CASE Rb!SendEmpty
  <2>1. buf = <<>> /\ list # <<>> /\ list[1].ptr = <<>> /\ list \in Seq(Rb!Nodes)
    BY <1>1 DEF Rb!SendEmpty, Now, Fine, Kept
  <2>2. list[1] \in Rb!Nodes
    BY <2>1, EmptySeq
  <2>3. list[1].ptr # Rb!NullPtr => Len(list[1].ptr) > 0
    BY <2>2, NodeFields
  <2>4. list[1].ptr = Rb!NullPtr => Len(list[1].ptr) = 1
    BY <2>2, NodeFields
  <2> QED
    BY <2>1, <2>3, <2>4
<1>2. CASE Rb!PutOnline
  <2>1. /\ replstate' = "online" /\ handler' = TRUE
        /\ buf' = buf /\ list' = list /\ sentlen' = sentlen /\ replyBytes' = replyBytes
        /\ flag' = flag /\ deferred' = deferred /\ stream' = stream /\ sent' = sent
    BY <1>2 DEF Rb!PutOnline
  <2>2. Fine("online", TRUE, flag, buf, list, deferred, sentlen, stream, sent, replyBytes)
    BY DEF Now, Fine
  <2> QED
    BY <2>1, <2>2 DEF Now
<1>3. CASE Rb!CloseAfterReply
  <2>1. /\ flag' = "close_after_reply" /\ flag = "none" /\ deferred = Rb!None
        /\ buf' = buf /\ list' = list /\ sentlen' = sentlen /\ replyBytes' = replyBytes /\ handler' = handler
        /\ replstate' = replstate /\ deferred' = deferred /\ stream' = stream /\ sent' = sent
    BY <1>3 DEF Rb!CloseAfterReply
  <2>2. Fine(replstate, handler, "close_after_reply", buf, list, deferred, sentlen, stream, sent, replyBytes)
    BY <2>1 DEF Now, Fine
  <2> QED
    BY <2>1, <2>2 DEF Now
<1>4. CASE Rb!Tick \/ UNCHANGED Rb!vars
  BY <1>4 DEF Rb!Tick, Rb!vars, Now
<1> QED
  BY <1>1, <1>2, <1>3, <1>4

(* Every step of ReplyBuffers keeps the invariant. *)
LEMMA BuffersStep == Rb!BuffersInvariant /\ [Rb!Next]_(Rb!vars) => Rb!BuffersInvariant'
<1> SUFFICES ASSUME Rb!BuffersInvariant, [Rb!Next]_(Rb!vars) PROVE Rb!BuffersInvariant'
  OBVIOUS
<1>0. Now
  BY FineNow
<1>1. Now'
  <2>1. CASE \E n \in MinReply..MaxReply : Rb!AddOwn(n)
    BY <2>1, <1>0, AddOwnSound
  <2>2. CASE Rb!AddShared
    BY <2>2, <1>0, AddSharedSound
  <2>3. CASE Rb!AddDeferred
    BY <2>3, <1>0, AddDeferredSound
  <2>4. CASE Rb!SetDeferred
    BY <2>4, <1>0, SetDeferredSound
  <2>5. CASE (buf # <<>> \/ list # <<>>) /\ \E n \in 1..MaxBytes : Rb!Send(n)
    BY <2>5, <1>0, SendSound
  <2>6. CASE Rb!SendEmpty \/ Rb!PutOnline \/ Rb!CloseAfterReply \/ Rb!Tick \/ UNCHANGED Rb!vars
    BY <2>6, <1>0, OtherSound
  <2> QED
    BY <2>1, <2>2, <2>3, <2>4, <2>5, <2>6 DEF Rb!Next
<1> QED
  BY <1>1, FineLater

(* The invariant holds of a new client. *)
LEMMA BuffersStart == Rb!Init => Rb!BuffersInvariant
<1> SUFFICES ASSUME Rb!Init PROVE Rb!BuffersInvariant
  OBVIOUS
<1>1. /\ replstate \in {"none", "wait_bgsave", "online"} /\ buf = <<>> /\ list = <<>> /\ sentlen = 0
      /\ replyBytes = 0 /\ handler = FALSE /\ flag = "none" /\ deferred = Rb!None /\ stream = <<>> /\ sent = <<>>
  BY BuffersAssumption DEF Rb!Init, Rb!ReplyBuffersAssumption
<1>2. Rb!Pending = <<>>
  <2>1. Rb!Pending = Drop(Line(buf, list, deferred), sentlen)
    BY DEF Rb!Pending, Drop, Line, Held, Flat
  <2>2. Drop(Line(<<>>, <<>>, deferred), sentlen) = <<>>
    BY <1>1, Quiet
  <2> QED
    BY <2>1, <2>2, <1>1
<1>3. Rb!InOrder
  BY <1>1, <1>2 DEF Rb!InOrder
<1>4. Rb!SharedUntouched /\ Rb!ReplyIsScheduled
  BY <1>1, <1>2 DEF Rb!SharedUntouched, Rb!ReplyIsScheduled
<1>5. Rb!BytesAccounted
  BY <1>1, TotalEmpty DEF Rb!BytesAccounted
<1>6. Rb!HardCloses
  <2>1. Rb!Usage = 0
    BY <1>1 DEF Rb!Usage, Rb!UsageOf, Rb!State
  <2> QED
    BY <2>1, Numbers DEF Rb!HardCloses, Rb!Reached
<1>7. /\ replstate \in {"none", "wait_bgsave", "online"} /\ handler \in BOOLEAN
      /\ flag \in {"none", "close_after_reply", "close_asap", "freed"}
      /\ buf \in Seq(Nat) /\ list \in Seq(Rb!Nodes) /\ sentlen \in Nat
      /\ stream \in Seq(Nat) /\ sent \in Seq(Nat) /\ deferred \in Nat \cup {Rb!None}
  <2>1. <<>> \in Seq(Nat) /\ <<>> \in Seq(Rb!Nodes) /\ 0 \in Nat /\ FALSE \in BOOLEAN
    OBVIOUS
  <2> QED
    BY <2>1, <1>1
<1> QED
  BY <1>1, <1>3, <1>4, <1>5, <1>6, <1>7 DEF Rb!BuffersInvariant

-----------------------------------------------------------------------------
(* The invariant holds before the first script, and gives ReadAgain:       *)
(* between scripts nobody is unreadable.                                   *)
LEMMA ScriptStart == Lua!Init => Lua!ScriptInvariant
<1> SUFFICES ASSUME Lua!Init PROVE Lua!ScriptInvariant
  OBVIOUS
<1> QED
  BY DEF Lua!Init, Lua!ScriptInvariant, Lua!State, Lua!States, Lua!Attended, Lua!StoppedWroteNothing,
         Lua!CallerThere, Lua!NoClient, Lua!Idle

(* Whatever ended the last script, all clients are read between scripts. *)
LEMMA AllAreRead == Lua!ScriptInvariant => Lua!ReadAgain
<1> SUFFICES ASSUME Lua!ScriptInvariant, Lua!Waiting, NEW c \in Trio, conn[c] # "freed" PROVE readable[c]
  BY DEF Lua!ReadAgain
<1> QED
  BY DEF Lua!ScriptInvariant, Lua!Waiting, Lua!Attended, Lua!State

(* A step of a suite in which scripts run is one of Scripting. *)
LEMMA ScriptingStep ==
  ASSUME [SuiteNext]_allVars, component' = "scripting" \/ component = "scripting"
  PROVE  component = "scripting" /\ [Lua!Next]_(Lua!vars)
BY DEF SuiteNext, allVars, scripting, Lua!vars

(* For any number of clients: a script that is stopped from outside has    *)
(* written nothing, although it was stopped between two of its commands;   *)
(* its client is there when it ends, although the event loop ran in        *)
(* between; and it is read again whatever ended the script                 *)
(* (luaMaskCountHook, luaRedisGenericCommand, evalGenericCommand).         *)
THEOREM ScriptsAlwaysStopCleanly == SuiteSpec => []ScriptsStopCleanly
<1>1. SuiteInit => ScriptsStopCleanly
  <2> SUFFICES ASSUME SuiteInit, component = "scripting" PROVE Lua!ScriptInvariant
    BY AllAreRead DEF ScriptsStopCleanly, Lua!ScriptInvariant
  <2> QED
    BY ScriptStart DEF SuiteInit
<1>2. ScriptsStopCleanly /\ [SuiteNext]_allVars => ScriptsStopCleanly'
  <2> SUFFICES ASSUME ScriptsStopCleanly, [SuiteNext]_allVars, component' = "scripting"
               PROVE  (Lua!ScriptInvariant /\ Lua!ReadAgain)'
    BY DEF ScriptsStopCleanly, Lua!ScriptInvariant
  <2>1. Lua!ScriptInvariant'
    BY ScriptingStep, ScriptStep DEF ScriptsStopCleanly
  <2>2. (Lua!ScriptInvariant => Lua!ReadAgain)'
    BY AllAreRead, PTL
  <2> QED
    BY <2>1, <2>2
<1>3. QED
  BY <1>1, <1>2, PTL DEF SuiteSpec

(* For any sizes of the buffer, of the chunks and of the replies, of which *)
(* none is empty (MinReply > 0), and any limits, 0 for none included: what *)
(* the socket has taken, followed by what is buffered, is what the         *)
(* commands have replied, in their order; bytes that wait have a handler;  *)
(* no shared object is written to; the memory is accounted for and a       *)
(* client beyond a hard limit is closed.  An empty reply would leave its   *)
(* memory in reply_bytes (networking.c:801).  The client is of one class   *)
(* of limits, and its socket takes what is written or nothing (addReply,   *)
(* addDeferredMultiBulkLength, setDeferredMultiBulkLength,                 *)
(* sendReplyToClient, asyncCloseClientOnOutputBufferLimitReached).         *)
THEOREM RepliesAlwaysInOrder == SuiteSpec => []RepliesInOrder
<1>1. SuiteInit => RepliesInOrder
  <2> SUFFICES ASSUME SuiteInit, component = "replies" PROVE Rb!BuffersInvariant
    BY DEF RepliesInOrder, Rb!BuffersInvariant
  <2> QED
    BY BuffersStart DEF SuiteInit
<1>2. RepliesInOrder /\ [SuiteNext]_allVars => RepliesInOrder'
  <2> SUFFICES ASSUME RepliesInOrder, [SuiteNext]_allVars, component' = "replies" PROVE Rb!BuffersInvariant'
    BY DEF RepliesInOrder, Rb!BuffersInvariant
  <2>1. component = "replies" /\ [Rb!Next]_(Rb!vars)
    BY DEF SuiteNext, allVars, replies, Rb!vars
  <2> QED
    BY <2>1, BuffersStep DEF RepliesInOrder
<1>3. QED
  BY <1>1, <1>2, PTL DEF SuiteSpec
=============================================================================

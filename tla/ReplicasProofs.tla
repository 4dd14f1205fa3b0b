--------------------------- MODULE ReplicasProofs ---------------------------
(***************************************************************************)
(* Proofs about Redis over several machines: the election of Sentinels,    *)
(* the role of a slave and the script cache.  They are about the suite     *)
(* MCReplicas with its constants left open, so each theorem holds for all  *)
(* their values, and is about the very definitions that TLC checks.        *)
(***************************************************************************)
EXTENDS MCReplicas, Sequences, FiniteSetTheorems, TLAPS

-----------------------------------------------------------------------------
(* SentinelElection, for any Sentinels, any quorum and any number of       *)
(* epochs, restarts, lost answers and forced failovers.                    *)
(*                                                                         *)
(* The argument is that of the epochs.  The vote in the configuration file *)
(* is the one in memory (VotesSaved), so a restart forgets none; a vote is *)
(* only given in an epoch beyond all those a Sentinel has voted in         *)
(* (VotesRise), hence at most once per epoch.  What a Sentinel has heard   *)
(* of the votes of the others are votes that were given (AnswersTrue), so  *)
(* who counts a majority has one; and two majorities share a voter.        *)

Peer == [down : BOOLEAN, leader : RunId \cup {Nil}, epoch : Epoch]

(* A well-formed record of the Sentinel s *)
Good(s, r) ==
  /\ r \in [run : 0..MaxEvents, current_epoch : Epoch, leader : RunId \cup {Nil},
            leader_epoch : Epoch, failover_epoch : Epoch,
            state : {"none", "wait_start", "select_slave"}, forced : BOOLEAN,
            s_down : BOOLEAN, o_down : BOOLEAN, peer : [Other(s) -> Peer]]
  /\ r.leader_epoch <= r.current_epoch
  /\ r.failover_epoch <= r.current_epoch

Questions == [epoch : Epoch, runid : RunId \cup {Nil}]

WellFormed ==
  /\ events \in 0..MaxEvents
  /\ sen = [s \in Sentinel |-> sen[s]]
  /\ \A s \in Sentinel : Good(s, sen[s]) /\ sen[s].run <= events
  /\ disk \in [Sentinel -> [current : Epoch, leader : Epoch]]
  /\ link = [s \in Sentinel |-> link[s]]
  /\ \A s \in Sentinel : link[s] \in [Other(s) -> Questions \cup {None}]
  /\ cast \subseteq Sentinel \X Epoch \X RunId
  /\ elected \subseteq [id : RunId, epoch : Epoch, counted : Epoch, forced : BOOLEAN]

VotesSaved ==
  \A s \in Sentinel : /\ disk[s].leader = sen[s].leader_epoch
                      /\ disk[s].leader <= disk[s].current

VotesRise ==
  /\ \A v \in cast : v[2] <= sen[v[1]].leader_epoch
  /\ \A s \in Sentinel :
       sen[s].leader # Nil => <<s, sen[s].leader_epoch, sen[s].leader>> \in cast

AnswersTrue ==
  \A s \in Sentinel : \A t \in Other(s) :
    sen[s].peer[t].leader # Nil => <<t, sen[s].peer[t].epoch, sen[s].peer[t].leader>> \in cast

IInv ==
  /\ WellFormed
  /\ VotesSaved
  /\ VotesRise
  /\ AnswersTrue
  /\ OneVotePerEpoch
  /\ ElectedByMajority

-----------------------------------------------------------------------------
(***************************************************************************)
(* Records.                                                                *)
(***************************************************************************)
LEMMA Facts ==
  /\ IsFiniteSet(Sentinel) /\ MaxEpoch \in Nat /\ MaxEvents \in Nat
  /\ Nil \notin RunId /\ Quorum \in Nat
  /\ Cardinality(Sentinel) \in Nat
<1>1. /\ IsFiniteSet(Sentinel) /\ MaxEpoch \in Nat /\ MaxEvents \in Nat
      /\ Nil \notin RunId /\ Quorum \in 1..Cardinality(Sentinel)
  BY ElectionAssumption DEF RunId
<1>2. Cardinality(Sentinel) \in Nat
  BY <1>1, FS_CardinalityType
<1> QED
  BY <1>1, <1>2

(* The fields of a well-formed record *)
LEMMA GoodFields ==
  ASSUME NEW s, NEW r, Good(s, r)
  PROVE  /\ r.run \in 0..MaxEvents /\ r.current_epoch \in Epoch
         /\ r.leader \in RunId \cup {Nil} /\ r.leader_epoch \in Epoch
         /\ r.failover_epoch \in Epoch
         /\ r.state \in {"none", "wait_start", "select_slave"}
         /\ r.forced \in BOOLEAN /\ r.s_down \in BOOLEAN /\ r.o_down \in BOOLEAN
         /\ r.peer \in [Other(s) -> Peer] /\ DOMAIN r.peer = Other(s)
         /\ r.leader_epoch <= r.current_epoch /\ r.failover_epoch <= r.current_epoch
BY DEF Good

LEMMA MaxPair ==
  ASSUME NEW a \in Nat, NEW b \in Nat
  PROVE  Max({a, b}) \in {a, b} /\ Max({a, b}) >= a /\ Max({a, b}) >= b
<1>1. \E x \in {a, b} : \A y \in {a, b} : x >= y
  OBVIOUS
<1> QED
  BY <1>1 DEF Max

(* v is r after a vote, or without one. *)
Voted(r, v) ==
  /\ v.peer = r.peer /\ v.run = r.run
  /\ r.current_epoch <= v.current_epoch
  /\ \/ v.leader_epoch = r.leader_epoch /\ v.leader = r.leader
     \/ v.leader_epoch > r.leader_epoch /\ v.leader \in RunId

(* sentinelVoteLeader gives a vote only in a later epoch than before. *)
LEMMA Voting ==
  ASSUME NEW s, NEW r, Good(s, r), NEW e \in Epoch, NEW id \in RunId,
         NEW v, v = VoteLeader(r, e, id)
  PROVE  /\ Good(s, v) /\ Voted(r, v)
         /\ v.failover_epoch = r.failover_epoch /\ v.state = r.state
         /\ v.forced = r.forced /\ v.s_down = r.s_down
<1> DEFINE m == Max({r.current_epoch, e})
<1>1. r.current_epoch \in Nat /\ e \in Nat /\ r.leader_epoch \in Nat /\ MaxEpoch \in Nat
      /\ r.failover_epoch \in Nat
  BY GoodFields, Facts DEF Epoch
<1>2. m \in {r.current_epoch, e} /\ m >= r.current_epoch /\ m >= e
  BY <1>1, MaxPair
<1>3. m \in Epoch /\ m \in Nat
  BY <1>1, <1>2, GoodFields DEF Epoch
<1>4. v = IF r.leader_epoch < e /\ m <= e
          THEN [r EXCEPT !.current_epoch = m, !.leader = id, !.leader_epoch = m]
          ELSE [r EXCEPT !.current_epoch = m]
  BY DEF VoteLeader
<1> HIDE DEF m
<1>5. CASE r.leader_epoch < e /\ m <= e
  <2>1. v = [r EXCEPT !.current_epoch = m, !.leader = id, !.leader_epoch = m]
    BY <1>4, <1>5
  <2>2. m > r.leader_epoch /\ m >= r.failover_epoch
    BY <1>1, <1>2, <1>3, <1>5, GoodFields
  <2>3. /\ v.peer = r.peer /\ v.run = r.run /\ v.current_epoch = m /\ v.leader = id
        /\ v.leader_epoch = m /\ v.failover_epoch = r.failover_epoch /\ v.state = r.state
        /\ v.forced = r.forced /\ v.s_down = r.s_down
    BY <2>1 DEF Good
  <2>4. Good(s, v)
    <3>1. v \in [run : 0..MaxEvents, current_epoch : Epoch, leader : RunId \cup {Nil},
                leader_epoch : Epoch, failover_epoch : Epoch,
                state : {"none", "wait_start", "select_slave"}, forced : BOOLEAN,
                s_down : BOOLEAN, o_down : BOOLEAN, peer : [Other(s) -> Peer]]
      BY <1>3, <2>1 DEF Good
    <3> QED
      BY <1>1, <1>3, <2>2, <2>3, <3>1 DEF Good
  <2> QED
    BY <1>1, <1>2, <1>3, <2>2, <2>3, <2>4 DEF Voted
<1>6. CASE ~(r.leader_epoch < e /\ m <= e)
  <2>1. v = [r EXCEPT !.current_epoch = m]
    BY <1>4, <1>6
  <2>2. Good(s, v)
    BY <1>1, <1>2, <1>3, <2>1 DEF Good
  <2> QED
    BY <1>1, <1>2, <1>3, <2>1, <2>2 DEF Voted, Good
<1> QED
  BY <1>5, <1>6

(* The others that are recorded as voters for id in the epoch e *)
Supporters(s, r, id, e) ==
  {t \in Other(s) : r.peer[t].leader = id /\ r.peer[t].epoch = e}

(* r stands in the epoch e and has, with its own vote in v, a majority. *)
HasMajority(s, r, v, e) ==
  LET me  == MyId(s, r)
      own == IF v.leader = me /\ v.leader_epoch = e THEN 1 ELSE 0
      n   == Cardinality(Supporters(s, r, me, e)) + own
  IN  n >= Cardinality(Sentinel) \div 2 + 1 /\ n >= Quorum

(* What the timer does to the record *)
LEMMA Handling ==
  ASSUME NEW s \in Sentinel, NEW r, Good(s, r), NEW elapsed \in BOOLEAN,
         NEW h, h \in Handled(s, r, elapsed)
  PROVE  /\ Good(s, h.begun) /\ Good(s, h.voted) /\ Voted(r, h.voted)
         /\ h.begun.run = r.run /\ h.begun.peer = r.peer
         /\ (/\ h.voted.state = "select_slave" /\ h.begun.state = "wait_start"
             /\ ~h.begun.forced /\ h.begun.current_epoch = h.begun.failover_epoch)
              => HasMajority(s, h.begun, h.voted, h.begun.failover_epoch)
<1> DEFINE seen    == CheckObjectivelyDown(r)
           starts  == FailoverNeeded(seen, elapsed)
           begun   == IF starts THEN StartFailover(seen) ELSE seen
           winners == FirstOfPeers(begun)
           late    == elapsed /\ ~starts
<1>1. PICK winner \in IF winners = {} THEN {Nil} ELSE winners :
        h = [starts |-> starts, begun |-> begun,
             voted |-> IF begun.state = "wait_start" THEN WaitStart(s, begun, winner, late) ELSE begun]
  BY DEF Handled
<1>2. Good(s, seen) /\ Voted(r, seen) /\ seen.run = r.run /\ seen.peer = r.peer
  <2>1. PICK b : seen = [r EXCEPT !.o_down = b] /\ b \in BOOLEAN
    BY DEF CheckObjectivelyDown
  <2>2. Good(s, seen)
    BY <2>1 DEF Good
  <2> HIDE DEF seen
  <2>3. r.current_epoch \in Nat
    BY GoodFields, Facts DEF Epoch
  <2> QED
    BY <2>1, <2>2, <2>3 DEF Voted, Good
<1> HIDE DEF seen
<1>3. /\ Good(s, begun) /\ begun.run = r.run /\ begun.peer = r.peer
      /\ begun.leader = r.leader /\ begun.leader_epoch = r.leader_epoch
      /\ r.current_epoch <= begun.current_epoch
  <2>0. /\ seen.leader = r.leader /\ seen.leader_epoch = r.leader_epoch
        /\ r.current_epoch <= seen.current_epoch /\ seen.current_epoch = r.current_epoch
    BY <1>2 DEF seen, CheckObjectivelyDown, Voted, Good
  <2>1. CASE starts
    <3>1. seen.current_epoch + 1 \in Epoch /\ seen.current_epoch \in Nat
      BY <1>2, <2>1, Facts, GoodFields DEF FailoverNeeded, Epoch
    <3>2. begun = [seen EXCEPT !.state = "wait_start", !.current_epoch = seen.current_epoch + 1,
                               !.failover_epoch = seen.current_epoch + 1]
      BY <2>1 DEF StartFailover
    <3>3. seen.leader_epoch \in Nat /\ seen.leader_epoch <= seen.current_epoch
      BY <1>2, GoodFields DEF Epoch
    <3> HIDE DEF begun
    <3>4. PICK n \in Epoch : n = seen.current_epoch + 1
      BY <3>1
    <3>5. begun = [seen EXCEPT !.state = "wait_start", !.current_epoch = n, !.failover_epoch = n]
      BY <3>2, <3>4
    <3>6. seen.leader_epoch <= n /\ n <= n /\ r.current_epoch <= n
      BY <2>0, <3>1, <3>3, <3>4
    <3> QED
      BY <1>2, <2>0, <3>5, <3>6 DEF Good
  <2>2. CASE ~starts
    BY <1>2, <2>0, <2>2
  <2> QED
    BY <2>1, <2>2
<1> HIDE DEF begun, starts
<1>4. h.begun = begun /\ h.voted = (IF begun.state = "wait_start"
                                    THEN WaitStart(s, begun, winner, late) ELSE begun)
  BY <1>1
<1>5. CASE begun.state # "wait_start"
  BY <1>2, <1>3, <1>4, <1>5 DEF Voted
<1>6. CASE begun.state = "wait_start"
  <2> DEFINE id == IF winner = Nil THEN MyId(s, begun) ELSE winner
             v  == OwnVote(s, begun, winner)
  <2>1. id \in RunId
    <3>1. MyId(s, begun) \in RunId
      BY <1>3, GoodFields DEF MyId, RunId
    <3>2. winner # Nil => winner \in RunId
      <4>1. \A t \in Other(s) : begun.peer[t].leader \in RunId \cup {Nil}
        BY <1>3, GoodFields DEF Peer
      <4>2. DOMAIN begun.peer = Other(s)
        BY <1>3, GoodFields
      <4>3. \A x \in winners : \E t \in Other(s) : x = begun.peer[t].leader
        BY <4>2 DEF FirstOfPeers
      <4> QED
        BY <4>1, <4>3
    <3> QED
      BY <3>1, <3>2
  <2>2. v = VoteLeader(begun, begun.failover_epoch, id)
    BY DEF OwnVote
  <2>3. begun.failover_epoch \in Epoch
    BY <1>3, GoodFields
  <2> HIDE DEF id, v
  <2>4. /\ Good(s, v) /\ Voted(begun, v) /\ v.failover_epoch = begun.failover_epoch
        /\ v.state = begun.state /\ v.forced = begun.forced
    BY <1>3, <2>1, <2>2, <2>3, Voting
  <2>5. h.voted = (IF IsLeader(s, begun, v, winner) \/ begun.forced
                   THEN [v EXCEPT !.state = "select_slave"]
                   ELSE IF late THEN [v EXCEPT !.state = "none", !.forced = FALSE] ELSE v)
    BY <1>4, <1>6 DEF WaitStart, v
  <2>6. /\ Good(s, h.voted) /\ h.voted.peer = v.peer /\ h.voted.run = v.run
        /\ h.voted.leader = v.leader /\ h.voted.leader_epoch = v.leader_epoch
        /\ h.voted.current_epoch = v.current_epoch
    <3>1. ASSUME NEW w, w = [v EXCEPT !.state = "select_slave"]
          PROVE  /\ Good(s, w) /\ w.peer = v.peer /\ w.run = v.run
                 /\ w.leader = v.leader /\ w.leader_epoch = v.leader_epoch
                 /\ w.current_epoch = v.current_epoch
      BY <2>4, <3>1 DEF Good
    <3>2. ASSUME NEW w, w = [v EXCEPT !.state = "none", !.forced = FALSE]
          PROVE  /\ Good(s, w) /\ w.peer = v.peer /\ w.run = v.run
                 /\ w.leader = v.leader /\ w.leader_epoch = v.leader_epoch
                 /\ w.current_epoch = v.current_epoch
      BY <2>4, <3>2 DEF Good
    <3> QED
      BY <2>4, <2>5, <3>1, <3>2
  <2>7. Voted(r, h.voted)
    <3>1. r.current_epoch \in Nat /\ begun.current_epoch \in Nat /\ v.current_epoch \in Nat
      BY <1>3, <2>4, GoodFields DEF Epoch
    <3>2. r.current_epoch <= v.current_epoch
      BY <1>3, <2>4, <3>1 DEF Voted
    <3> QED
      BY <1>3, <2>4, <2>6, <3>2 DEF Voted
  <2>8. ASSUME h.voted.state = "select_slave", ~begun.forced,
               begun.current_epoch = begun.failover_epoch
        PROVE  HasMajority(s, begun, h.voted, begun.failover_epoch)
    <3>1. IsLeader(s, begun, v, winner)
      BY <1>6, <2>4, <2>5, <2>8 DEF Good
    <3> DEFINE me == MyId(s, begun)
    <3>2. PeerVotes(begun, me) = Cardinality(Supporters(s, begun, me, begun.failover_epoch))
      <4>1. DOMAIN begun.peer = Other(s)
        BY <1>3, GoodFields
      <4> QED
        BY <2>8, <4>1 DEF PeerVotes, Supporters
    <3>3. LET own == IF v.leader = me /\ v.leader_epoch = begun.failover_epoch THEN 1 ELSE 0
          IN  /\ PeerVotes(begun, me) + own >= Cardinality(Sentinel) \div 2 + 1
              /\ PeerVotes(begun, me) + own >= Quorum
      BY <3>1, Zenon DEF IsLeader
    <3> QED
      BY <2>6, <3>2, <3>3 DEF HasMajority
  <2> QED
    BY <1>3, <1>4, <2>6, <2>7, <2>8
<1> QED
  BY <1>5, <1>6

-----------------------------------------------------------------------------
(***************************************************************************)
(* Majorities.                                                             *)
(***************************************************************************)
Voters(e, votes) == {s \in Sentinel : <<s, e.epoch, e.id>> \in votes}

(* e is forced, or its epoch has moved, or a majority has voted for it. *)
Legitimate(e, votes) ==
  ~e.forced /\ e.counted = e.epoch =>
    /\ 2 * Cardinality(Voters(e, votes)) > Cardinality(Sentinel)
    /\ Cardinality(Voters(e, votes)) >= Quorum

LEMMA MajorityOf == ElectedByMajority <=> \A e \in elected : Legitimate(e, cast)
BY DEF ElectedByMajority, Legitimate, Voters

LEMMA MajorityOfNext == ElectedByMajority' <=> \A e \in elected' : Legitimate(e, cast')
BY DEF ElectedByMajority, Legitimate, Voters

LEMMA VotersFinite ==
  ASSUME NEW e, NEW votes
  PROVE  IsFiniteSet(Voters(e, votes)) /\ Cardinality(Voters(e, votes)) \in Nat
<1>1. Voters(e, votes) \in SUBSET Sentinel
  BY DEF Voters
<1>2. IsFiniteSet(Voters(e, votes))
  BY <1>1, Facts, FS_Subset
<1> QED
  BY <1>2, FS_CardinalityType

(* A majority stays one when more votes are given. *)
LEMMA StaysLegitimate ==
  ASSUME NEW e, NEW votes, NEW more, votes \subseteq more, Legitimate(e, votes)
  PROVE  Legitimate(e, more)
<1>1. Voters(e, votes) \in SUBSET Voters(e, more)
  BY DEF Voters
<1>2. Cardinality(Voters(e, votes)) <= Cardinality(Voters(e, more))
  BY <1>1, VotersFinite, FS_Subset
<1>3. /\ Cardinality(Voters(e, votes)) \in Nat /\ Cardinality(Voters(e, more)) \in Nat
      /\ Quorum \in Nat /\ Cardinality(Sentinel) \in Nat
  BY VotersFinite, Facts
<1> QED
  BY <1>2, <1>3 DEF Legitimate

(* Who counts a majority among answers that are true has one. *)
LEMMA CountedIsCast ==
  ASSUME NEW s \in Sentinel, NEW r, NEW v, NEW votes, NEW e,
         HasMajority(s, r, v, e.epoch), e.id = MyId(s, r),
         \A t \in Other(s) : r.peer[t].leader # Nil =>
                               <<t, r.peer[t].epoch, r.peer[t].leader>> \in votes,
         v.leader # Nil => <<s, v.leader_epoch, v.leader>> \in votes,
         MyId(s, r) # Nil
  PROVE  Legitimate(e, votes)
<1> DEFINE me == MyId(s, r)
           S  == Supporters(s, r, me, e.epoch)
           V  == Voters(e, votes)
           W  == S \cup {s}
           C  == Cardinality(Sentinel)
<1>1. S \subseteq V /\ s \notin S /\ S \in SUBSET Sentinel
  BY DEF Supporters, Voters, Other
<1>2. IsFiniteSet(S) /\ Cardinality(S) \in Nat
  BY <1>1, Facts, FS_Subset, FS_CardinalityType
<1>3. IsFiniteSet(W) /\ Cardinality(W) = Cardinality(S) + 1
  BY <1>1, <1>2, FS_AddElement
<1>4. IsFiniteSet(V) /\ Cardinality(V) \in Nat
  BY VotersFinite
<1>5. PICK own \in {0, 1} : /\ own = IF v.leader = me /\ v.leader_epoch = e.epoch THEN 1 ELSE 0
                            /\ Cardinality(S) + own >= C \div 2 + 1
                            /\ Cardinality(S) + own >= Quorum
  BY DEF HasMajority
<1>6. C \in Nat /\ Quorum \in Nat
  BY Facts
<1>7. Cardinality(S) + own <= Cardinality(V)
  <2>1. CASE own = 0
    <3>1. S \in SUBSET V
      BY <1>1
    <3>2. Cardinality(S) <= Cardinality(V)
      BY <1>4, <3>1, FS_Subset
    <3> QED
      BY <1>2, <1>4, <2>1, <3>2
  <2>2. CASE own = 1
    <3>1. v.leader = me /\ v.leader_epoch = e.epoch
      BY <1>5, <2>2
    <3>2. s \in V
      BY <3>1 DEF Voters
    <3>3. W \in SUBSET V
      BY <1>1, <3>2
    <3>4. Cardinality(W) <= Cardinality(V)
      BY <1>4, <3>3, FS_Subset
    <3> QED
      BY <1>2, <1>3, <1>4, <2>2, <3>4
  <2> QED
    BY <2>1, <2>2
<1> HIDE DEF S, V, C
<1>8. 2 * Cardinality(V) > C /\ Cardinality(V) >= Quorum
  BY <1>2, <1>4, <1>5, <1>6, <1>7
<1> QED
  BY <1>8 DEF Legitimate, V, C

(* Two majorities share a voter, who has voted once. *)
LEMMA OneMajority ==
  ASSUME NEW votes, NEW e, NEW f, e.epoch = f.epoch,
         \A v, w \in votes : v[1] = w[1] /\ v[2] = w[2] => v[3] = w[3],
         2 * Cardinality(Voters(e, votes)) > Cardinality(Sentinel),
         2 * Cardinality(Voters(f, votes)) > Cardinality(Sentinel)
  PROVE  e.id = f.id
<1> DEFINE A == Voters(e, votes)
           B == Voters(f, votes)
<1>1. A \in SUBSET Sentinel /\ B \in SUBSET Sentinel
  BY DEF Voters
<1>2. Cardinality(A) + Cardinality(B) > Cardinality(Sentinel)
  BY VotersFinite, Facts
<1>3. A \cap B # {}
  BY <1>1, <1>2, Facts, FS_MajoritiesIntersect
<1>4. PICK s : s \in A /\ s \in B
  BY <1>3
<1>5. <<s, e.epoch, e.id>> \in votes /\ <<s, f.epoch, f.id>> \in votes
  BY <1>4 DEF Voters
<1> QED
  BY <1>5

-----------------------------------------------------------------------------
(***************************************************************************)
(* The invariant, action by action.                                        *)
(***************************************************************************)
(* A process that starts has a well-formed record. *)
LEMMA StartedGood ==
  ASSUME NEW s, NEW n \in 0..MaxEvents, NEW d \in [current : Epoch, leader : Epoch],
         d.leader <= d.current, NEW r, r = Started(s, n, d)
  PROVE  /\ Good(s, r) /\ r.run = n /\ r.leader = Nil /\ r.leader_epoch = d.leader
         /\ \A t \in Other(s) : r.peer[t].leader = Nil
<1>1. PICK pe : pe = [t \in Other(s) |-> [down |-> FALSE, leader |-> Nil, epoch |-> 0]]
  OBVIOUS
<1>2. 0 \in Epoch /\ 0 <= d.current
  BY Facts DEF Epoch
<1>3. pe \in [Other(s) -> Peer] /\ \A t \in Other(s) : pe[t].leader = Nil
  BY <1>1, <1>2 DEF Peer
<1>4. r = [run |-> n, current_epoch |-> d.current, leader |-> Nil,
           leader_epoch |-> d.leader, failover_epoch |-> 0, state |-> "none",
           forced |-> FALSE, s_down |-> FALSE, o_down |-> FALSE, peer |-> pe]
  BY <1>1 DEF Started
<1>5. /\ r.run = n /\ r.leader = Nil /\ r.leader_epoch = d.leader /\ r.peer = pe
      /\ r.failover_epoch = 0 /\ r.current_epoch = d.current
  BY <1>4
<1>6. r \in [run : 0..MaxEvents, current_epoch : Epoch, leader : RunId \cup {Nil},
             leader_epoch : Epoch, failover_epoch : Epoch,
             state : {"none", "wait_start", "select_slave"}, forced : BOOLEAN,
             s_down : BOOLEAN, o_down : BOOLEAN, peer : [Other(s) -> Peer]]
  BY <1>2, <1>3, <1>4
<1>7. Good(s, r)
  BY <1>2, <1>5, <1>6 DEF Good
<1> QED
  BY <1>3, <1>5, <1>7

LEMMA InitInv == Init => IInv
<1> SUFFICES ASSUME Init PROVE IInv
  OBVIOUS
<1>1. 0 \in Epoch /\ 0 \in 0..MaxEvents
  BY Facts DEF Epoch
<1>2. disk = [s \in Sentinel |-> [current |-> 0, leader |-> 0]]
  BY DEF Init
<1>3. \A s \in Sentinel : sen[s] = [Started(s, 0, disk[s]) EXCEPT !.s_down = s \in Cut]
  BY DEF Init
<1>4. \A s \in Sentinel :
        /\ Good(s, sen[s]) /\ sen[s].run = 0 /\ sen[s].leader = Nil /\ sen[s].leader_epoch = 0
        /\ \A t \in Other(s) : sen[s].peer[t].leader = Nil
  <2> SUFFICES ASSUME NEW s \in Sentinel
               PROVE  /\ Good(s, sen[s]) /\ sen[s].run = 0 /\ sen[s].leader = Nil
                      /\ sen[s].leader_epoch = 0
                      /\ \A t \in Other(s) : sen[s].peer[t].leader = Nil
    OBVIOUS
  <2>1. disk[s] \in [current : Epoch, leader : Epoch] /\ disk[s].current = 0 /\ disk[s].leader = 0
    BY <1>1, <1>2
  <2>2. PICK st : st = Started(s, 0, disk[s])
    OBVIOUS
  <2>3. /\ Good(s, st) /\ st.run = 0 /\ st.leader = Nil /\ st.leader_epoch = 0
        /\ \A t \in Other(s) : st.peer[t].leader = Nil
    <3>1. PICK d \in [current : Epoch, leader : Epoch] : d = disk[s]
      BY <2>1
    <3>2. d.leader <= d.current /\ d.leader = 0
      BY <2>1, <3>1
    <3> QED
      BY <1>1, <2>2, <3>1, <3>2, StartedGood
  <2>4. PICK b \in BOOLEAN : sen[s] = [st EXCEPT !.s_down = b]
    <3>1. sen[s] = [st EXCEPT !.s_down = s \in Cut]
      BY <1>3, <2>2
    <3>2. CASE s \in Cut
      <4>1. (s \in Cut) = TRUE
        BY <3>2
      <4> QED
        BY <3>1, <4>1, Zenon
    <3>3. CASE s \notin Cut
      <4>1. (s \in Cut) = FALSE
        BY <3>3
      <4> QED
        BY <3>1, <4>1, Zenon
    <3> QED
      BY <3>2, <3>3
  <2>5. Good(s, sen[s])
    BY <2>3, <2>4 DEF Good
  <2>6. /\ sen[s].run = st.run /\ sen[s].leader = st.leader /\ sen[s].leader_epoch = st.leader_epoch
        /\ sen[s].peer = st.peer
    BY <2>3, <2>4 DEF Good
  <2> QED
    BY <2>3, <2>5, <2>6
<1>5. WellFormed
  <2>1. sen = [s \in Sentinel |-> sen[s]] /\ link = [s \in Sentinel |-> link[s]]
    BY DEF Init
  <2>2. \A s \in Sentinel : link[s] \in [Other(s) -> Questions \cup {None}]
    BY DEF Init
  <2>3. disk \in [Sentinel -> [current : Epoch, leader : Epoch]]
    BY <1>1, <1>2
  <2>4. events = 0 /\ cast = {} /\ elected = {}
    BY DEF Init
  <2> QED
    BY <1>1, <1>4, <2>1, <2>2, <2>3, <2>4 DEF WellFormed
<1>6. VotesSaved
  BY <1>2, <1>4 DEF VotesSaved
<1>7. VotesRise /\ AnswersTrue /\ OneVotePerEpoch /\ ElectedByMajority
  BY <1>4 DEF Init, VotesRise, AnswersTrue, OneVotePerEpoch, ElectedByMajority
<1> QED
  BY <1>5, <1>6, <1>7 DEF IInv

(* The record of s changes to r: its vote is a new one, the old one, or    *)
(* forgotten, and saved if it is new.  The other Sentinels may hear of     *)
(* votes that were given.                                                  *)
Changes(s, r) ==
  /\ sen' = [u \in Sentinel |-> sen'[u]] /\ sen'[s] = r
  /\ \A u \in Sentinel \ {s} :
       /\ Good(u, sen'[u]) /\ sen'[u].run = sen[u].run
       /\ sen'[u].leader_epoch = sen[u].leader_epoch /\ sen'[u].leader = sen[u].leader
  /\ Good(s, r) /\ r.run <= events'
  /\ \/ /\ r.leader_epoch = sen[s].leader_epoch /\ r.leader \in {sen[s].leader, Nil}
        /\ cast' = cast
     \/ /\ r.leader_epoch > sen[s].leader_epoch /\ r.leader \in RunId
        /\ cast' = cast \cup {<<s, r.leader_epoch, r.leader>>}
  /\ \/ disk' = disk /\ r.leader_epoch = sen[s].leader_epoch
     \/ Save(s, r)
  /\ \A u \in Sentinel : \A t \in Other(u) :
       sen'[u].peer[t].leader # Nil => <<t, sen'[u].peer[t].epoch, sen'[u].peer[t].leader>> \in cast'

LEMMA ChangesInv ==
  ASSUME IInv, NEW s \in Sentinel, NEW r, Changes(s, r),
         events' \in 0..MaxEvents, events <= events',
         link' = [u \in Sentinel |-> link'[u]],
         \A u \in Sentinel : link'[u] \in [Other(u) -> Questions \cup {None}],
         elected' \subseteq [id : RunId, epoch : Epoch, counted : Epoch, forced : BOOLEAN],
         ElectedByMajority'
  PROVE  IInv'
<1>1. /\ sen = [u \in Sentinel |-> sen[u]] /\ events \in 0..MaxEvents
      /\ \A u \in Sentinel : Good(u, sen[u]) /\ sen[u].run <= events
      /\ disk \in [Sentinel -> [current : Epoch, leader : Epoch]]
      /\ cast \subseteq Sentinel \X Epoch \X RunId
  BY DEF IInv, WellFormed
<1>2. /\ sen' = [u \in Sentinel |-> sen'[u]] /\ sen'[s] = r
      /\ \A u \in Sentinel : u # s =>
           /\ Good(u, sen'[u]) /\ sen'[u].run = sen[u].run
           /\ sen'[u].leader_epoch = sen[u].leader_epoch /\ sen'[u].leader = sen[u].leader
  BY DEF Changes
<1>3. /\ Good(s, r) /\ r.leader_epoch \in Nat /\ r.leader_epoch \in Epoch
      /\ r.current_epoch \in Epoch /\ r.leader_epoch <= r.current_epoch
      /\ r.run <= events'
      /\ \A u \in Sentinel : sen[u].leader_epoch \in Nat /\ sen[u].run \in Nat
  BY <1>1, GoodFields DEF Changes, Epoch
<1>4. PICK V : V = <<s, r.leader_epoch, r.leader>>
  OBVIOUS
<1>5. /\ \/ /\ r.leader_epoch = sen[s].leader_epoch /\ r.leader \in {sen[s].leader, Nil}
            /\ cast' = cast
         \/ /\ r.leader_epoch > sen[s].leader_epoch /\ r.leader \in RunId
            /\ cast' = cast \cup {V}
      /\ r.leader_epoch >= sen[s].leader_epoch
  BY <1>3, <1>4 DEF Changes
<1>6. cast' \subseteq Sentinel \X Epoch \X RunId /\ cast \subseteq cast'
  BY <1>1, <1>3, <1>4, <1>5
<1>7. \A u \in Sentinel : Good(u, sen'[u]) /\ sen'[u].run <= events'
  <2>1. \A u \in Sentinel : sen[u].run <= events'
    BY <1>1, <1>3, Facts
  <2> QED
    BY <1>2, <1>3, <2>1
<1>8. disk' \in [Sentinel -> [current : Epoch, leader : Epoch]]
  BY <1>1, <1>3 DEF Changes, Save
<1>9. WellFormed'
  BY <1>2, <1>6, <1>7, <1>8 DEF WellFormed
<1>10. VotesSaved'
  <2>1. \A u \in Sentinel : /\ disk[u].leader = sen[u].leader_epoch
                            /\ disk[u].leader <= disk[u].current
    BY DEF IInv, VotesSaved
  <2>2. CASE disk' = disk /\ r.leader_epoch = sen[s].leader_epoch
    BY <1>2, <2>1, <2>2 DEF VotesSaved
  <2>3. CASE Save(s, r)
    <3>1. disk'[s] = [current |-> r.current_epoch, leader |-> r.leader_epoch]
      BY <1>1, <2>3 DEF Save
    <3>2. \A u \in Sentinel : u # s => disk'[u] = disk[u]
      BY <1>1, <2>3 DEF Save
    <3> QED
      BY <1>2, <1>3, <2>1, <3>1, <3>2 DEF VotesSaved
  <2> QED
    BY <2>2, <2>3 DEF Changes
<1>11. VotesRise'
  <2>1. /\ \A v \in cast : v[2] <= sen[v[1]].leader_epoch
        /\ \A u \in Sentinel :
             sen[u].leader # Nil => <<u, sen[u].leader_epoch, sen[u].leader>> \in cast
    BY DEF IInv, VotesRise
  <2>2. ASSUME NEW v \in cast' PROVE v[2] <= sen'[v[1]].leader_epoch
    <3>1. v[1] \in Sentinel /\ v[2] \in Nat
      BY <1>6 DEF Epoch
    <3>2. CASE v \in cast
      <4>1. v[2] <= sen[v[1]].leader_epoch
        BY <2>1, <3>2
      <4> QED
        BY <1>2, <1>3, <1>5, <3>1, <4>1
    <3>3. CASE v = V
      BY <1>2, <1>3, <1>4, <3>3
    <3> QED
      BY <1>5, <3>2, <3>3
  <2>3. ASSUME NEW u \in Sentinel, sen'[u].leader # Nil
        PROVE  <<u, sen'[u].leader_epoch, sen'[u].leader>> \in cast'
    <3>1. CASE u = s
      BY <1>2, <1>4, <1>5, <2>1, <2>3, <3>1
    <3>2. CASE u # s
      BY <1>2, <1>6, <2>1, <2>3, <3>2
    <3> QED
      BY <3>1, <3>2
  <2> QED
    BY <2>2, <2>3 DEF VotesRise
<1>12. AnswersTrue'
  BY DEF Changes, AnswersTrue
<1>13. OneVotePerEpoch'
  <2>1. \A v, w \in cast : v[1] = w[1] /\ v[2] = w[2] => v[3] = w[3]
    BY DEF IInv, OneVotePerEpoch
  <2>2. CASE cast' = cast
    BY <2>1, <2>2 DEF OneVotePerEpoch
  <2>3. CASE r.leader_epoch > sen[s].leader_epoch /\ cast' = cast \cup {V}
    <3>1. ASSUME NEW v \in cast, v[1] = s PROVE v[2] # r.leader_epoch
      <4>1. v[2] <= sen[s].leader_epoch /\ v[2] \in Nat
        BY <1>1, <3>1 DEF IInv, VotesRise, Epoch
      <4> QED
        BY <1>3, <2>3, <4>1
    <3>2. V[1] = s /\ V[2] = r.leader_epoch
      BY <1>4
    <3> QED
      BY <2>1, <2>3, <3>1, <3>2 DEF OneVotePerEpoch
  <2> QED
    BY <1>5, <2>2, <2>3
<1> QED
  BY <1>9, <1>10, <1>11, <1>12, <1>13 DEF IInv

(* The same when s alone changes. *)
Moves(s, r) ==
  /\ sen' = [sen EXCEPT ![s] = r]
  /\ Good(s, r) /\ r.run <= events'
  /\ \/ /\ r.leader_epoch = sen[s].leader_epoch /\ r.leader \in {sen[s].leader, Nil}
        /\ cast' = cast
     \/ /\ r.leader_epoch > sen[s].leader_epoch /\ r.leader \in RunId
        /\ cast' = cast \cup {<<s, r.leader_epoch, r.leader>>}
  /\ \/ disk' = disk /\ r.leader_epoch = sen[s].leader_epoch
     \/ Save(s, r)
  /\ \A t \in Other(s) : r.peer[t].leader # Nil =>
                           <<t, r.peer[t].epoch, r.peer[t].leader>> \in cast'

LEMMA MovesInv ==
  ASSUME IInv, NEW s \in Sentinel, NEW r, Moves(s, r),
         events' \in 0..MaxEvents, events <= events',
         link' = [u \in Sentinel |-> link'[u]],
         \A u \in Sentinel : link'[u] \in [Other(u) -> Questions \cup {None}],
         elected' \subseteq [id : RunId, epoch : Epoch, counted : Epoch, forced : BOOLEAN],
         ElectedByMajority'
  PROVE  IInv'
<1>1. /\ sen = [u \in Sentinel |-> sen[u]]
      /\ \A u \in Sentinel : Good(u, sen[u])
  BY DEF IInv, WellFormed
<1>2. /\ sen' = [u \in Sentinel |-> sen'[u]] /\ sen'[s] = r
      /\ \A u \in Sentinel \ {s} : sen'[u] = sen[u]
  BY <1>1 DEF Moves
<1>3. cast \subseteq cast'
  BY DEF Moves
<1>4. ASSUME NEW u \in Sentinel, NEW t \in Other(u), sen'[u].peer[t].leader # Nil
      PROVE  <<t, sen'[u].peer[t].epoch, sen'[u].peer[t].leader>> \in cast'
  <2>1. CASE u = s
    BY <1>2, <1>4, <2>1 DEF Moves
  <2>2. CASE u # s
    BY <1>2, <1>3, <1>4, <2>2 DEF IInv, AnswersTrue
  <2> QED
    BY <2>1, <2>2
<1>5. \A u \in Sentinel \ {s} :
        /\ Good(u, sen'[u]) /\ sen'[u].run = sen[u].run
        /\ sen'[u].leader_epoch = sen[u].leader_epoch /\ sen'[u].leader = sen[u].leader
  BY <1>1, <1>2
<1>6. Changes(s, r)
  BY <1>2, <1>4, <1>5 DEF Moves, Changes
<1> QED
  BY <1>6, ChangesInv

(* The links stay well-formed when they are left alone. *)
LEMMA LinksKept ==
  ASSUME IInv, link' = link
  PROVE  /\ link' = [u \in Sentinel |-> link'[u]]
         /\ \A u \in Sentinel : link'[u] \in [Other(u) -> Questions \cup {None}]
BY DEF IInv, WellFormed

(* Leaders stay legitimate while none is added. *)
LEMMA LeadersKept ==
  ASSUME IInv, elected' = elected, cast \subseteq cast'
  PROVE  /\ elected' \subseteq [id : RunId, epoch : Epoch, counted : Epoch, forced : BOOLEAN]
         /\ ElectedByMajority'
<1>1. \A e \in elected : Legitimate(e, cast)
  BY MajorityOf DEF IInv
<1>2. \A e \in elected' : Legitimate(e, cast')
  BY <1>1, StaysLegitimate
<1> QED
  BY <1>2, MajorityOfNext DEF IInv, WellFormed

(* The event that is exceptional is counted. *)
LEMMA EventCounted ==
  ASSUME IInv, NEW kind, Exceptional(kind) \/ UNCHANGED events
  PROVE  events' \in 0..MaxEvents /\ events <= events'
BY Facts DEF IInv, WellFormed, Exceptional

(* A step that leaves the vote, the answers and the links alone *)
LEMMA QuietInv ==
  ASSUME IInv, NEW s \in Sentinel, NEW r, sen' = [sen EXCEPT ![s] = r],
         Good(s, r), r.run = sen[s].run, r.peer = sen[s].peer,
         r.leader_epoch = sen[s].leader_epoch, r.leader \in {sen[s].leader, Nil},
         disk' = disk \/ Save(s, r),
         UNCHANGED <<link, cast, elected>>,
         events' \in 0..MaxEvents, events <= events'
  PROVE  IInv'
<1>1. sen[s].run <= events /\ sen[s].run \in Nat /\ events \in Nat
  BY Facts, GoodFields DEF IInv, WellFormed
<1>2. r.run <= events'
  BY <1>1
<1>3. Moves(s, r)
  BY <1>2 DEF Moves, IInv, AnswersTrue
<1> QED
  BY <1>3, LinksKept, LeadersKept, MovesInv

(* What the invariant says of the record of s. *)
LEMMA RecordOf ==
  ASSUME IInv, NEW s \in Sentinel
  PROVE  Good(s, sen[s]) /\ sen[s].run <= events /\ events \in 0..MaxEvents
BY DEF IInv, WellFormed

LEMMA CheckSubjectivelyDownInv ==
  ASSUME IInv, NEW s \in Sentinel, CheckSubjectivelyDown(s) PROVE IInv'
<1>1. PICK r : r = [sen[s] EXCEPT !.s_down = ~sen[s].s_down]
  OBVIOUS
<1>2. sen' = [sen EXCEPT ![s] = r]
  BY <1>1 DEF CheckSubjectivelyDown
<1>3. /\ Good(s, r) /\ r.run = sen[s].run /\ r.peer = sen[s].peer
      /\ r.leader_epoch = sen[s].leader_epoch /\ r.leader = sen[s].leader
  BY <1>1, RecordOf DEF Good
<1>4. events' \in 0..MaxEvents /\ events <= events'
  BY EventCounted DEF CheckSubjectivelyDown
<1> QED
  BY <1>2, <1>3, <1>4, QuietInv DEF CheckSubjectivelyDown

LEMMA ForceFailoverInv ==
  ASSUME IInv, NEW s \in Sentinel, ForceFailover(s) PROVE IInv'
<1>1. PICK n : n = sen[s].current_epoch + 1
  OBVIOUS
<1>2. PICK r : r = [sen[s] EXCEPT !.state = "wait_start", !.current_epoch = n,
                                  !.failover_epoch = n, !.forced = TRUE]
  OBVIOUS
<1>3. sen' = [sen EXCEPT ![s] = r]
  BY <1>1, <1>2 DEF ForceFailover, StartFailover
<1>4. n \in Epoch /\ sen[s].leader_epoch <= n /\ n <= n
  BY <1>1, RecordOf, GoodFields, Facts DEF ForceFailover, Epoch
<1>5. /\ Good(s, r) /\ r.run = sen[s].run /\ r.peer = sen[s].peer
      /\ r.leader_epoch = sen[s].leader_epoch /\ r.leader = sen[s].leader
  BY <1>2, <1>4, RecordOf DEF Good
<1>6. events' \in 0..MaxEvents /\ events <= events'
  BY EventCounted DEF ForceFailover
<1> QED
  BY <1>3, <1>5, <1>6, QuietInv DEF ForceFailover

LEMMA FailoverEndsInv ==
  ASSUME IInv, NEW s \in Sentinel, FailoverEnds(s) PROVE IInv'
<1>1. PICK r : /\ sen' = [sen EXCEPT ![s] = r]
               /\ \/ r = [sen[s] EXCEPT !.state = "none", !.forced = FALSE, !.leader = Nil,
                                        !.s_down = FALSE, !.o_down = FALSE]
                  \/ r = [sen[s] EXCEPT !.state = "none", !.forced = FALSE]
  BY DEF FailoverEnds
<1>2. /\ Good(s, r) /\ r.run = sen[s].run /\ r.peer = sen[s].peer
      /\ r.leader_epoch = sen[s].leader_epoch /\ r.leader \in {sen[s].leader, Nil}
  <2>1. CASE r = [sen[s] EXCEPT !.state = "none", !.forced = FALSE, !.leader = Nil,
                                !.s_down = FALSE, !.o_down = FALSE]
    BY <2>1, RecordOf DEF Good
  <2>2. CASE r = [sen[s] EXCEPT !.state = "none", !.forced = FALSE]
    BY <2>2, RecordOf DEF Good
  <2> QED
    BY <1>1, <2>1, <2>2
<1>3. events' \in 0..MaxEvents /\ events <= events'
  BY EventCounted DEF FailoverEnds
<1> QED
  BY <1>1, <1>2, <1>3, QuietInv DEF FailoverEnds

LEMMA HearEpochInv ==
  ASSUME IInv, NEW s \in Sentinel, NEW t \in Other(s), HearEpoch(s, t) PROVE IInv'
<1>1. PICK n : n = sen[t].current_epoch
  OBVIOUS
<1>2. PICK r : r = [sen[s] EXCEPT !.current_epoch = n]
  OBVIOUS
<1>3. sen' = [sen EXCEPT ![s] = r] /\ Save(s, r) /\ n > sen[s].current_epoch
  BY <1>1, <1>2 DEF HearEpoch
<1>4. n \in Epoch /\ sen[s].leader_epoch <= n /\ sen[s].failover_epoch <= n
  <2>1. t \in Sentinel
    BY DEF Other
  <2>2. /\ n \in Epoch /\ sen[s].current_epoch \in Epoch /\ sen[s].leader_epoch \in Epoch
        /\ sen[s].failover_epoch \in Epoch
        /\ sen[s].leader_epoch <= sen[s].current_epoch
        /\ sen[s].failover_epoch <= sen[s].current_epoch
    BY <1>1, <2>1, RecordOf, GoodFields
  <2> QED
    BY <1>3, <2>2, Facts DEF Epoch
<1>5. /\ Good(s, r) /\ r.run = sen[s].run /\ r.peer = sen[s].peer
      /\ r.leader_epoch = sen[s].leader_epoch /\ r.leader = sen[s].leader
  BY <1>2, <1>4, RecordOf DEF Good
<1>6. events' \in 0..MaxEvents /\ events <= events'
  BY EventCounted DEF HearEpoch
<1> QED
  BY <1>3, <1>5, <1>6, QuietInv DEF HearEpoch

(* The question of a Sentinel is well-formed. *)
LEMMA AskGood ==
  ASSUME NEW s \in Sentinel, NEW r, Good(s, r),
         NEW links, links \in [Other(s) -> Questions \cup {None}]
  PROVE  Ask(s, r, links) \in [Other(s) -> Questions \cup {None}]
<1>1. MyId(s, r) \in RunId /\ r.current_epoch \in Epoch
  BY GoodFields DEF MyId, RunId
<1>2. Question(s, r) \in Questions
  BY <1>1 DEF Question, Questions
<1> QED
  BY <1>2 DEF Ask

(* Forgetting answers makes none of them wrong. *)
LEMMA Forgetting ==
  ASSUME NEW s, NEW r, Good(s, r), NEW stale, NEW v, v = Forget(r, stale)
  PROVE  /\ Good(s, v) /\ v.run = r.run /\ v.leader = r.leader /\ v.leader_epoch = r.leader_epoch
         /\ v.current_epoch = r.current_epoch
         /\ \A t \in Other(s) : v.peer[t].leader # Nil => v.peer[t] = r.peer[t]
<1> DEFINE pe == [t \in DOMAIN r.peer |->
                    IF t \in stale THEN [r.peer[t] EXCEPT !.down = FALSE, !.leader = Nil, !.epoch = 0]
                    ELSE r.peer[t]]
<1>1. v = [r EXCEPT !.peer = pe]
  BY DEF Forget
<1>2. DOMAIN r.peer = Other(s) /\ \A t \in Other(s) : r.peer[t] \in Peer
  BY GoodFields
<1>3. ASSUME NEW t \in Other(s)
      PROVE  pe[t] \in Peer /\ (pe[t].leader # Nil => pe[t] = r.peer[t])
  <2>1. 0 \in Epoch
    BY Facts DEF Epoch
  <2>2. CASE t \in stale
    <3>1. pe[t] = [r.peer[t] EXCEPT !.down = FALSE, !.leader = Nil, !.epoch = 0]
      BY <1>2, <2>2
    <3> QED
      BY <1>2, <2>1, <3>1 DEF Peer
  <2>3. CASE t \notin stale
    BY <1>2, <2>3
  <2> QED
    BY <2>2, <2>3
<1>4. pe \in [Other(s) -> Peer]
  BY <1>2, <1>3
<1> HIDE DEF pe
<1>5. Good(s, v) /\ v.peer = pe
  BY <1>1, <1>4 DEF Good
<1>6. /\ v.run = r.run /\ v.leader = r.leader /\ v.leader_epoch = r.leader_epoch
      /\ v.current_epoch = r.current_epoch
  BY <1>1 DEF Good
<1> QED
  BY <1>3, <1>5, <1>6

LEMMA HandleMasterInv ==
  ASSUME IInv, NEW s \in Sentinel, HandleMaster(s) PROVE IInv'
<1>1. PICK elapsed \in BOOLEAN, stale \in SUBSET Other(s) :
        \E h \in Handled(s, sen[s], elapsed) :
          LET after == Forget(h.voted, stale)
              asked == Ask(s, after, IF h.starts THEN Ask(s, h.begun, link[s]) ELSE link[s])
              votes == after.leader_epoch # sen[s].leader_epoch
              wins  == h.voted.state = "select_slave" /\ h.begun.state = "wait_start"
          IN  /\ after # sen[s] \/ asked # link[s]
              /\ sen' = [sen EXCEPT ![s] = after]
              /\ link' = [link EXCEPT ![s] = asked]
              /\ IF votes THEN Save(s, after) ELSE UNCHANGED disk
              /\ cast' = IF votes THEN cast \cup {<<s, after.leader_epoch, after.leader>>} ELSE cast
              /\ elected' =
                   IF wins
                   THEN elected \cup {[id |-> MyId(s, h.begun), epoch |-> h.begun.failover_epoch,
                                      counted |-> h.begun.current_epoch, forced |-> h.begun.forced]}
                   ELSE elected
              /\ IF stale = {} THEN UNCHANGED events ELSE Exceptional("outdated")
  BY DEF HandleMaster
<1>2. PICK r : r = sen[s]
  OBVIOUS
<1>3. PICK h \in Handled(s, r, elapsed) :
        LET after == Forget(h.voted, stale)
            asked == Ask(s, after, IF h.starts THEN Ask(s, h.begun, link[s]) ELSE link[s])
            votes == after.leader_epoch # r.leader_epoch
            wins  == h.voted.state = "select_slave" /\ h.begun.state = "wait_start"
        IN  /\ sen' = [sen EXCEPT ![s] = after]
            /\ link' = [link EXCEPT ![s] = asked]
            /\ IF votes THEN Save(s, after) ELSE UNCHANGED disk
            /\ cast' = IF votes THEN cast \cup {<<s, after.leader_epoch, after.leader>>} ELSE cast
            /\ elected' =
                 IF wins
                 THEN elected \cup {[id |-> MyId(s, h.begun), epoch |-> h.begun.failover_epoch,
                                    counted |-> h.begun.current_epoch, forced |-> h.begun.forced]}
                 ELSE elected
            /\ IF stale = {} THEN UNCHANGED events ELSE Exceptional("outdated")
  BY <1>1, <1>2
<1> DEFINE after == Forget(h.voted, stale)
           asked == Ask(s, after, IF h.starts THEN Ask(s, h.begun, link[s]) ELSE link[s])
           votes == after.leader_epoch # r.leader_epoch
           wins  == h.voted.state = "select_slave" /\ h.begun.state = "wait_start"
           e     == [id |-> MyId(s, h.begun), epoch |-> h.begun.failover_epoch,
                     counted |-> h.begun.current_epoch, forced |-> h.begun.forced]
<1>4. Good(s, r) /\ r.run <= events /\ events \in 0..MaxEvents /\ r.run \in Nat
  BY <1>2, RecordOf, GoodFields
<1>5. /\ Good(s, h.begun) /\ Good(s, h.voted) /\ Voted(r, h.voted)
      /\ h.begun.run = r.run /\ h.begun.peer = r.peer
      /\ (/\ wins /\ ~h.begun.forced /\ h.begun.current_epoch = h.begun.failover_epoch)
           => HasMajority(s, h.begun, h.voted, h.begun.failover_epoch)
  BY <1>4, Handling
<1>6. /\ Good(s, after) /\ after.run = r.run /\ after.leader = h.voted.leader
      /\ after.leader_epoch = h.voted.leader_epoch
      /\ \A t \in Other(s) : after.peer[t].leader # Nil => after.peer[t] = r.peer[t]
  <2>1. h.voted.peer = r.peer /\ h.voted.run = r.run
    BY <1>5 DEF Voted
  <2> QED
    BY <1>5, <2>1, Forgetting
<1>7. asked \in [Other(s) -> Questions \cup {None}]
  <2>1. link[s] \in [Other(s) -> Questions \cup {None}]
    BY DEF IInv, WellFormed
  <2>2. PICK links \in [Other(s) -> Questions \cup {None}] :
          links = IF h.starts THEN Ask(s, h.begun, link[s]) ELSE link[s]
    BY <1>5, <2>1, AskGood
  <2>3. Ask(s, after, links) \in [Other(s) -> Questions \cup {None}]
    BY <1>6, AskGood
  <2> QED
    BY <2>2, <2>3
<1>8. /\ sen' = [sen EXCEPT ![s] = after] /\ link' = [link EXCEPT ![s] = asked]
      /\ IF votes THEN Save(s, after) ELSE UNCHANGED disk
      /\ cast' = IF votes THEN cast \cup {<<s, after.leader_epoch, after.leader>>} ELSE cast
      /\ elected' = IF wins THEN elected \cup {e} ELSE elected
      /\ IF stale = {} THEN UNCHANGED events ELSE Exceptional("outdated")
  BY <1>3
<1> HIDE DEF after, asked, e
<1>9. events' \in 0..MaxEvents /\ events <= events'
  BY <1>8, EventCounted
<1>10. /\ \/ after.leader_epoch = r.leader_epoch /\ after.leader = r.leader /\ cast' = cast
          \/ /\ after.leader_epoch > r.leader_epoch /\ after.leader \in RunId
             /\ cast' = cast \cup {<<s, after.leader_epoch, after.leader>>}
       /\ \/ disk' = disk /\ after.leader_epoch = r.leader_epoch
          \/ Save(s, after)
  <2>1. r.leader_epoch \in Nat /\ after.leader_epoch \in Nat
    BY <1>4, <1>6, GoodFields DEF Epoch
  <2> QED
    BY <1>5, <1>6, <1>8, <2>1 DEF Voted
<1>11. cast \subseteq cast'
  BY <1>10
<1>12. \A t \in Other(s) : r.peer[t].leader # Nil =>
                             <<t, r.peer[t].epoch, r.peer[t].leader>> \in cast'
  BY <1>2, <1>11 DEF IInv, AnswersTrue
<1>13. Moves(s, after)
  <2>1. after.run <= events'
    BY <1>4, <1>6, <1>9
  <2>2. \A t \in Other(s) : after.peer[t].leader # Nil =>
                              <<t, after.peer[t].epoch, after.peer[t].leader>> \in cast'
    BY <1>6, <1>12
  <2> QED
    BY <1>2, <1>6, <1>8, <1>10, <2>1, <2>2 DEF Moves
<1>14. /\ link' = [u \in Sentinel |-> link'[u]]
       /\ \A u \in Sentinel : link'[u] \in [Other(u) -> Questions \cup {None}]
  <2>1. /\ link = [u \in Sentinel |-> link[u]]
        /\ \A u \in Sentinel : link[u] \in [Other(u) -> Questions \cup {None}]
    BY DEF IInv, WellFormed
  <2>2. link'[s] = asked /\ \A u \in Sentinel : u # s => link'[u] = link[u]
    BY <1>8, <2>1
  <2>3. link' = [u \in Sentinel |-> link'[u]]
    BY <1>8, <2>1
  <2> QED
    BY <1>7, <2>1, <2>2, <2>3
<1>15. e.id = MyId(s, h.begun) /\ e.epoch = h.begun.failover_epoch
       /\ e.counted = h.begun.current_epoch /\ e.forced = h.begun.forced
       /\ MyId(s, h.begun) \in RunId
       /\ e \in [id : RunId, epoch : Epoch, counted : Epoch, forced : BOOLEAN]
  <2>1. MyId(s, h.begun) \in RunId
    BY <1>5, GoodFields DEF MyId, RunId
  <2>2. /\ h.begun.failover_epoch \in Epoch /\ h.begun.current_epoch \in Epoch
        /\ h.begun.forced \in BOOLEAN
    BY <1>5, GoodFields
  <2> QED
    BY <2>1, <2>2 DEF e
<1>16. wins => Legitimate(e, cast')
  <2>1. CASE wins /\ ~e.forced /\ e.counted = e.epoch
    <3>1. HasMajority(s, h.begun, h.voted, e.epoch)
      BY <1>5, <1>15, <2>1
    <3>2. h.voted.leader # Nil => <<s, h.voted.leader_epoch, h.voted.leader>> \in cast'
      BY <1>2, <1>6, <1>10 DEF IInv, VotesRise
    <3>3. MyId(s, h.begun) # Nil
      BY <1>15, Facts
    <3>4. \A t \in Other(s) : h.begun.peer[t].leader # Nil =>
                                <<t, h.begun.peer[t].epoch, h.begun.peer[t].leader>> \in cast'
      BY <1>5, <1>12
    <3>5. PICK votesNow, b, v : votesNow = cast' /\ b = h.begun /\ v = h.voted
      OBVIOUS
    <3>6. Legitimate(e, votesNow)
      BY <1>15, <3>1, <3>2, <3>3, <3>4, <3>5, CountedIsCast
    <3> QED
      BY <3>5, <3>6
  <2>2. CASE ~(~e.forced /\ e.counted = e.epoch)
    BY <2>2 DEF Legitimate
  <2> QED
    BY <2>1, <2>2
<1>17. ElectedByMajority'
  <2>1. \A f \in elected : Legitimate(f, cast)
    BY MajorityOf DEF IInv
  <2>2. \A f \in elected : Legitimate(f, cast')
    BY <1>11, <2>1, StaysLegitimate
  <2>3. \A f \in elected' : Legitimate(f, cast')
    BY <1>8, <1>16, <2>2
  <2> QED
    BY <2>3, MajorityOfNext
<1>18. elected' \subseteq [id : RunId, epoch : Epoch, counted : Epoch, forced : BOOLEAN]
  BY <1>8, <1>15 DEF IInv, WellFormed
<1> QED
  BY <1>9, <1>13, <1>14, <1>17, <1>18, MovesInv

LEMMA IsMasterDownByAddrInv ==
  ASSUME IInv, NEW s \in Sentinel, NEW t \in Other(s), IsMasterDownByAddr(s, t) PROVE IInv'
<1>1. PICK q, rs, rt : q = link[s][t] /\ rs = sen[s] /\ rt = sen[t]
  OBVIOUS
<1>2. t \in Sentinel /\ s # t /\ s \in Sentinel
  BY DEF Other
<1>3. q \in Questions
  <2>1. link[s] \in [Other(s) -> Questions \cup {None}]
    BY DEF IInv, WellFormed
  <2>2. q \in Questions \cup {None} /\ q # None
    BY <1>1, <2>1 DEF IsMasterDownByAddr
  <2> QED
    BY <2>2
<1>4. PICK v : v = IF q.runid = Nil THEN rt ELSE VoteLeader(rt, q.epoch, q.runid)
  OBVIOUS
<1>5. PICK leader : leader = IF q.runid = Nil THEN Nil ELSE v.leader
  OBVIOUS
<1>6. Good(s, rs) /\ Good(t, rt) /\ rt.run <= events /\ rt.run \in Nat /\ events \in Nat
  BY <1>1, <1>2, RecordOf, GoodFields, Facts
<1>7. Good(t, v) /\ Voted(rt, v)
  <2>1. CASE q.runid = Nil
    <3>1. rt.current_epoch \in Nat
      BY <1>6, GoodFields DEF Epoch
    <3> QED
      BY <1>4, <1>6, <2>1, <3>1 DEF Voted
  <2>2. CASE q.runid # Nil
    <3>1. q.runid \in RunId /\ q.epoch \in Epoch
      BY <1>3, <2>2 DEF Questions
    <3>2. v = VoteLeader(rt, q.epoch, q.runid)
      BY <1>4, <2>2
    <3> QED
      BY <1>6, <3>1, <3>2, Voting
  <2> QED
    BY <2>1, <2>2
<1>8. /\ \/ sen' = [sen EXCEPT ![t] = v, ![s].peer[t] = ReceiveReply(@, v.s_down, leader, v.leader_epoch)]
            /\ UNCHANGED events
         \/ sen' = [sen EXCEPT ![t] = v] /\ Exceptional("lost")
      /\ IF v # rt THEN Save(t, v) ELSE UNCHANGED disk
      /\ cast' = IF v.leader # rt.leader \/ v.leader_epoch # rt.leader_epoch
                 THEN cast \cup {<<t, v.leader_epoch, v.leader>>} ELSE cast
      /\ link' = [link EXCEPT ![s][t] = None]
      /\ UNCHANGED elected
  BY <1>1, <1>4, <1>5 DEF IsMasterDownByAddr
<1>9. events' \in 0..MaxEvents /\ events <= events'
  BY <1>8, EventCounted
<1>10. v.leader_epoch \in Nat /\ rt.leader_epoch \in Nat /\ v.leader_epoch \in Epoch
       /\ v.leader \in RunId \cup {Nil} /\ v.s_down \in BOOLEAN
  BY <1>6, <1>7, GoodFields DEF Epoch
<1>11. \/ v.leader_epoch = rt.leader_epoch /\ v.leader = rt.leader /\ cast' = cast
       \/ /\ v.leader_epoch > rt.leader_epoch /\ v.leader \in RunId
          /\ cast' = cast \cup {<<t, v.leader_epoch, v.leader>>}
  <2>1. CASE v.leader_epoch = rt.leader_epoch /\ v.leader = rt.leader
    BY <1>8, <2>1
  <2>2. CASE v.leader_epoch > rt.leader_epoch /\ v.leader \in RunId
    BY <1>8, <1>10, <2>2
  <2> QED
    BY <1>7, <2>1, <2>2 DEF Voted
<1>12. \/ disk' = disk /\ v.leader_epoch = rt.leader_epoch
       \/ Save(t, v)
  BY <1>8
<1>13. cast \subseteq cast' /\ (v.leader # Nil => <<t, v.leader_epoch, v.leader>> \in cast')
  BY <1>1, <1>2, <1>11 DEF IInv, VotesRise
<1>14. /\ link' = [u \in Sentinel |-> link'[u]]
       /\ \A u \in Sentinel : link'[u] \in [Other(u) -> Questions \cup {None}]
  <2>1. /\ link = [u \in Sentinel |-> link[u]]
        /\ \A u \in Sentinel : link[u] \in [Other(u) -> Questions \cup {None}]
    BY DEF IInv, WellFormed
  <2>2. PICK ls : ls = [link[s] EXCEPT ![t] = None]
    OBVIOUS
  <2>3. ls \in [Other(s) -> Questions \cup {None}]
    BY <2>1, <2>2
  <2>4. link' = [link EXCEPT ![s] = ls]
    BY <1>8, <2>2
  <2>5. link' = [u \in Sentinel |-> link'[u]] /\ link'[s] = ls
        /\ \A u \in Sentinel : u # s => link'[u] = link[u]
    BY <2>1, <2>4
  <2> QED
    BY <2>1, <2>3, <2>5
<1>15. /\ elected' \subseteq [id : RunId, epoch : Epoch, counted : Epoch, forced : BOOLEAN]
       /\ ElectedByMajority'
  BY <1>8, <1>13, LeadersKept
<1>16. v.run <= events'
  BY <1>6, <1>7, <1>9 DEF Voted
<1>17. \A u \in Other(t) : v.peer[u].leader # Nil => <<u, v.peer[u].epoch, v.peer[u].leader>> \in cast'
  <2>1. v.peer = rt.peer
    BY <1>7 DEF Voted
  <2> QED
    BY <1>1, <1>2, <1>13, <2>1 DEF IInv, AnswersTrue
<1>18. CASE sen' = [sen EXCEPT ![t] = v]
  <2>1. Moves(t, v)
    BY <1>1, <1>2, <1>7, <1>11, <1>12, <1>16, <1>17, <1>18 DEF Moves
  <2> QED
    BY <1>2, <1>9, <1>14, <1>15, <2>1, MovesInv
<1>19. CASE sen' = [sen EXCEPT ![t] = v, ![s].peer[t] = ReceiveReply(@, v.s_down, leader, v.leader_epoch)]
  <2>1. PICK old : old = rs.peer[t]
    OBVIOUS
  <2>2. PICK p : p = ReceiveReply(old, v.s_down, leader, v.leader_epoch)
    OBVIOUS
  <2>3. old \in Peer
    BY <1>6, <2>1, GoodFields
  <2>4. p \in Peer /\ (p.leader # Nil => <<t, p.epoch, p.leader>> \in cast')
    <3>1. CASE leader = Nil
      <4>1. p = [old EXCEPT !.down = v.s_down]
        BY <2>2, <3>1 DEF ReceiveReply
      <4>2. p \in Peer /\ p.leader = old.leader /\ p.epoch = old.epoch
        BY <1>10, <2>3, <4>1 DEF Peer
      <4>3. old.leader # Nil => <<t, old.epoch, old.leader>> \in cast'
        BY <1>1, <1>2, <1>13, <2>1 DEF IInv, AnswersTrue
      <4> QED
        BY <4>2, <4>3
    <3>2. CASE leader # Nil
      <4>1. p = [down |-> v.s_down, leader |-> leader, epoch |-> v.leader_epoch]
        BY <2>2, <3>2 DEF ReceiveReply
      <4>2. leader = v.leader
        BY <1>5, <3>2
      <4> QED
        BY <1>10, <1>13, <4>1, <4>2 DEF Peer
    <3> QED
      BY <3>1, <3>2
  <2>5. PICK pe, w : pe = [rs.peer EXCEPT ![t] = p] /\ w = [rs EXCEPT !.peer = pe]
    OBVIOUS
  <2>6. /\ Good(s, w) /\ w.run = rs.run /\ w.leader = rs.leader /\ w.leader_epoch = rs.leader_epoch
        /\ w.peer[t] = p /\ \A u \in Other(s) \ {t} : w.peer[u] = rs.peer[u]
    <3>1. rs.peer \in [Other(s) -> Peer]
      BY <1>6, GoodFields
    <3>2. /\ pe \in [Other(s) -> Peer] /\ pe[t] = p
          /\ \A u \in Other(s) \ {t} : pe[u] = rs.peer[u]
      BY <2>4, <2>5, <3>1
    <3> QED
      BY <1>6, <2>5, <3>2 DEF Good
  <2>7. sen = [u \in Sentinel |-> sen[u]] /\ \A u \in Sentinel : Good(u, sen[u])
    BY DEF IInv, WellFormed
  <2>8. sen' = [sen EXCEPT ![t] = v, ![s] = w]
    BY <1>1, <1>2, <1>19, <2>1, <2>2, <2>5, <2>7
  <2>9. /\ sen' = [u \in Sentinel |-> sen'[u]] /\ sen'[t] = v /\ sen'[s] = w
        /\ \A u \in Sentinel : u # s /\ u # t => sen'[u] = sen[u]
    BY <1>2, <2>7, <2>8
  <2>10. \A u \in Sentinel \ {t} :
           /\ Good(u, sen'[u]) /\ sen'[u].run = sen[u].run
           /\ sen'[u].leader_epoch = sen[u].leader_epoch /\ sen'[u].leader = sen[u].leader
    BY <1>1, <2>6, <2>7, <2>9
  <2>11. ASSUME NEW u \in Sentinel, NEW x \in Other(u), sen'[u].peer[x].leader # Nil
         PROVE  <<x, sen'[u].peer[x].epoch, sen'[u].peer[x].leader>> \in cast'
    <3>1. \A y \in Other(u) : sen[u].peer[y].leader # Nil =>
                                <<y, sen[u].peer[y].epoch, sen[u].peer[y].leader>> \in cast'
      BY <1>13 DEF IInv, AnswersTrue
    <3>2. CASE u = t
      BY <1>17, <2>9, <2>11, <3>2
    <3>3. CASE u = s
      BY <1>1, <2>4, <2>6, <2>9, <2>11, <3>1, <3>3
    <3>4. CASE u # s /\ u # t
      BY <2>9, <2>11, <3>1, <3>4
    <3> QED
      BY <3>2, <3>3, <3>4
  <2>12. Changes(t, v)
    BY <1>1, <1>2, <1>7, <1>11, <1>12, <1>16, <2>9, <2>10, <2>11 DEF Changes
  <2> QED
    BY <1>2, <1>9, <1>14, <1>15, <2>12, ChangesInv
<1> QED
  BY <1>8, <1>18, <1>19

LEMMA RestartInv ==
  ASSUME IInv, NEW s \in Sentinel, Restart(s) PROVE IInv'
<1>1. PICK n, d : n = sen[s].run + 1 /\ d = disk[s]
  OBVIOUS
<1>2. PICK r : r = Started(s, n, d)
  OBVIOUS
<1>3. sen' = [sen EXCEPT ![s] = r]
  BY <1>1, <1>2 DEF Restart
<1>4. events' = events + 1 /\ events < MaxEvents
  BY DEF Restart, Exceptional
<1>5. n \in 0..MaxEvents /\ n <= events' /\ events' \in 0..MaxEvents /\ events <= events'
  <2>1. sen[s].run \in Nat /\ sen[s].run <= events /\ events \in Nat
    BY RecordOf, GoodFields, Facts
  <2> QED
    BY <1>1, <1>4, <2>1, Facts
<1>6. /\ d \in [current : Epoch, leader : Epoch] /\ d.leader <= d.current
      /\ d.leader = sen[s].leader_epoch
  BY <1>1 DEF IInv, WellFormed, VotesSaved
<1>7. /\ Good(s, r) /\ r.run = n /\ r.leader = Nil /\ r.leader_epoch = d.leader
      /\ \A t \in Other(s) : r.peer[t].leader = Nil
  BY <1>2, <1>5, <1>6, StartedGood
<1>8. Moves(s, r)
  BY <1>3, <1>5, <1>6, <1>7 DEF Moves, Restart
<1>9. /\ link' = [u \in Sentinel |-> link'[u]]
       /\ \A u \in Sentinel : link'[u] \in [Other(u) -> Questions \cup {None}]
  <2>1. \A u \in Sentinel : link[u] \in [Other(u) -> Questions \cup {None}]
    BY DEF IInv, WellFormed
  <2>2. link' = [u \in Sentinel |-> [t \in Other(u) |->
                   IF s \in {u, t} THEN None ELSE link[u][t]]]
    BY DEF Restart
  <2> QED
    BY <2>1, <2>2
<1>10. /\ elected' \subseteq [id : RunId, epoch : Epoch, counted : Epoch, forced : BOOLEAN]
       /\ ElectedByMajority'
  BY LeadersKept DEF Restart
<1> QED
  BY <1>5, <1>8, <1>9, <1>10, MovesInv

LEMMA NextInv == IInv /\ [Next]_vars => IInv'
<1> SUFFICES ASSUME IInv, [Next]_vars PROVE IInv'
  OBVIOUS
<1>1. CASE UNCHANGED vars
  BY <1>1 DEF vars, IInv, WellFormed, VotesSaved, VotesRise, AnswersTrue, OneVotePerEpoch,
              ElectedByMajority
<1>2. CASE Next
  BY <1>2, CheckSubjectivelyDownInv, HandleMasterInv, ForceFailoverInv, FailoverEndsInv,
     RestartInv, IsMasterDownByAddrInv, HearEpochInv DEF Next
<1> QED
  BY <1>1, <1>2

-----------------------------------------------------------------------------
(***************************************************************************)
(* What the election promises.                                             *)
(***************************************************************************)
(* The invariant holds in every reachable state: the votes on disk and in  *)
(* memory agree, rise with the epochs, and are what the others have heard. *)
THEOREM ElectionInvariant == Spec => []IInv
<1> QED
  BY InitInv, NextInv, PTL DEF Spec

LEMMA SafeWhenInvariant == IInv => ElectionSafe
<1> SUFFICES ASSUME IInv PROVE ElectionSafe
  OBVIOUS
<1>1. TypeOK
  <2>1. ASSUME NEW s \in Sentinel
        PROVE  /\ sen[s].current_epoch \in Epoch
               /\ sen[s].leader \in RunId \cup {Nil}
               /\ sen[s].leader_epoch \in 0..sen[s].current_epoch
               /\ sen[s].failover_epoch \in 0..sen[s].current_epoch
               /\ sen[s].state \in {"none", "wait_start", "select_slave"}
               /\ disk[s].current \in Epoch /\ disk[s].leader \in Epoch
    <3>1. disk[s].current \in Epoch /\ disk[s].leader \in Epoch
      BY DEF IInv, WellFormed
    <3>2. /\ sen[s].current_epoch \in Epoch /\ sen[s].leader \in RunId \cup {Nil}
          /\ sen[s].leader_epoch \in Epoch /\ sen[s].failover_epoch \in Epoch
          /\ sen[s].leader_epoch <= sen[s].current_epoch
          /\ sen[s].failover_epoch <= sen[s].current_epoch
          /\ sen[s].state \in {"none", "wait_start", "select_slave"}
      BY RecordOf, GoodFields
    <3> QED
      BY <3>1, <3>2, Facts DEF Epoch
  <2> QED
    BY <2>1 DEF TypeOK, IInv, WellFormed
<1>2. OneLeaderPerEpoch
  <2> SUFFICES ASSUME NEW e \in elected, NEW f \in elected,
                      ~e.forced /\ e.counted = e.epoch, ~f.forced /\ f.counted = f.epoch,
                      e.epoch = f.epoch
               PROVE  e.id = f.id
    BY DEF OneLeaderPerEpoch
  <2>1. Legitimate(e, cast) /\ Legitimate(f, cast)
    BY MajorityOf DEF IInv
  <2>2. \A v, w \in cast : v[1] = w[1] /\ v[2] = w[2] => v[3] = w[3]
    BY DEF IInv, OneVotePerEpoch
  <2> QED
    BY <2>1, <2>2, OneMajority DEF Legitimate
<1> QED
  BY <1>1, <1>2 DEF ElectionSafe, IInv

(* sentinelVoteLeader and sentinelGetLeader: in every reachable state, for *)
(* any number of Sentinels and any quorum, a Sentinel has voted once per   *)
(* epoch, a leader elected in its own epoch has a majority and a quorum of *)
(* those votes, and no epoch has two of them.                              *)
THEOREM ElectionIsSafe == Spec => []ElectionSafe
<1> QED
  BY ElectionInvariant, SafeWhenInvariant, PTL

-----------------------------------------------------------------------------
(* SlaveRole.  The records of a server.                                    *)
Servers ==
  [masterhost : Host \cup {Nil},
   repl_state : {"none", "connect", "connecting", "receive_pong", "transfer", "connected"},
   transfer_s : Nat, tmpfile : BOOLEAN, master : Nat, asap : BOOLEAN, cached : Host \cup {Nil},
   data : Nat, slave : BOOLEAN, slavedata : Nat, backlog : BOOLEAN, open : SUBSET Nat]

(* Freeing the client of the master closes its socket, leaves the link to  *)
(* be established again, and ends the slaves of a server that is a slave.  *)
LEMMA FreeMasterFields ==
  ASSUME NEW r \in Servers, NEW h \in Host \cup {Nil}, r.master # 0
  PROVE  LET f == Sr!FreeMaster(r, h)
         IN  /\ f \in Servers
             /\ f.masterhost = r.masterhost /\ f.repl_state = "connect" /\ f.transfer_s = r.transfer_s
             /\ f.tmpfile = r.tmpfile /\ f.master = 0 /\ f.cached = IF r.asap THEN r.cached ELSE h
             /\ f.slave = (r.slave /\ r.masterhost = Nil) /\ f.open = r.open \ {r.master}
<1> DEFINE closed == [r EXCEPT !.open = @ \ {r.master}]
           c == IF r.asap THEN closed ELSE [closed EXCEPT !.cached = h]
           g == [c EXCEPT !.master = 0, !.asap = FALSE, !.repl_state = "connect"]
           f == IF c.masterhost = Nil THEN g ELSE [g EXCEPT !.slave = FALSE]
<1>1. /\ c \in Servers
      /\ c.masterhost = r.masterhost /\ c.transfer_s = r.transfer_s /\ c.tmpfile = r.tmpfile
      /\ c.cached = (IF r.asap THEN r.cached ELSE h) /\ c.slave = r.slave /\ c.open = r.open \ {r.master}
  <2>1. CASE r.asap
    <3>1. c = closed
      BY <2>1
    <3> QED
      BY <2>1, <3>1 DEF Servers
  <2>2. CASE ~r.asap
    <3>1. c = [closed EXCEPT !.cached = h]
      BY <2>2
    <3> QED
      BY <2>2, <3>1 DEF Servers
  <2> QED
    BY <2>1, <2>2
<1>2. Sr!FreeMaster(r, h) = f
  BY DEF Sr!FreeMaster, Sr!MasterGone, Sr!DisconnectSlaves, Sr!NoFd
<1> HIDE DEF c
<1>3. /\ g \in Servers
      /\ g.masterhost = c.masterhost /\ g.repl_state = "connect" /\ g.transfer_s = c.transfer_s
      /\ g.tmpfile = c.tmpfile /\ g.master = 0 /\ g.cached = c.cached /\ g.slave = c.slave /\ g.open = c.open
  BY <1>1 DEF Servers
<1> HIDE DEF g
<1>4. /\ f \in Servers
      /\ f.masterhost = g.masterhost /\ f.repl_state = g.repl_state /\ f.transfer_s = g.transfer_s
      /\ f.tmpfile = g.tmpfile /\ f.master = g.master /\ f.cached = g.cached
      /\ f.slave = (g.slave /\ g.masterhost = Nil) /\ f.open = g.open
  <2>1. CASE c.masterhost = Nil
    BY <2>1, <1>3 DEF Servers
  <2>2. CASE c.masterhost # Nil
    BY <2>2, <1>3 DEF Servers
  <2> QED
    BY <2>1, <2>2
<1> HIDE DEF f
<1> QED
  BY <1>1, <1>2, <1>3, <1>4

(* Giving up the handshake closes its socket, in each of its phases.       *)
LEMMA CancelFields ==
  ASSUME NEW r \in Servers
  PROVE  LET f == Sr!CancelHandshake(r)
         IN  /\ f \in Servers
             /\ f.masterhost = r.masterhost /\ f.master = r.master /\ f.cached = r.cached /\ f.slave = r.slave
             /\ f.tmpfile = (r.tmpfile /\ r.repl_state # "transfer")
             /\ IF r.repl_state \in {"connecting", "receive_pong", "transfer"}
                THEN f.repl_state = "connect" /\ f.open = r.open \ {r.transfer_s}
                ELSE f.repl_state = r.repl_state /\ f.open = r.open
<1>1. CASE r.repl_state = "transfer"
  <2>1. Sr!CancelHandshake(r) = [r EXCEPT !.open = r.open \ {r.transfer_s}, !.tmpfile = FALSE, !.repl_state = "connect"]
    BY <1>1 DEF Sr!CancelHandshake, Sr!AbortSyncTransfer
  <2>2. r.open \ {r.transfer_s} \in SUBSET Nat
    BY DEF Servers
  <2>3. Sr!CancelHandshake(r) \in Servers
    BY <2>1, <2>2 DEF Servers
  <2> QED
    BY <1>1, <2>1, <2>3 DEF Servers
<1>2. CASE r.repl_state \in {"connecting", "receive_pong"}
  <2>1. Sr!CancelHandshake(r) = [r EXCEPT !.open = r.open \ {r.transfer_s}, !.transfer_s = 0, !.repl_state = "connect"]
    BY <1>2 DEF Sr!CancelHandshake, Sr!UndoConnect, Sr!NoFd
  <2>2. r.open \ {r.transfer_s} \in SUBSET Nat
    BY DEF Servers
  <2> DEFINE e == [r EXCEPT !.open = r.open \ {r.transfer_s}, !.transfer_s = 0]
  <2>e. e \in Servers
    BY <2>2 DEF Servers
  <2>d. Sr!CancelHandshake(r) = [e EXCEPT !.repl_state = "connect"]
    BY <2>1
  <2> HIDE DEF e
  <2>3. Sr!CancelHandshake(r) \in Servers
    BY <2>d, <2>e DEF Servers
  <2> QED
    BY <1>2, <2>1, <2>3 DEF Servers
<1>3. CASE r.repl_state \notin {"connecting", "receive_pong", "transfer"}
  <2>1. Sr!CancelHandshake(r) = r
    BY <1>3 DEF Sr!CancelHandshake
  <2> QED
    BY <1>3, <2>1 DEF Servers
<1> QED
  BY <1>1, <1>2, <1>3

LEMMA RoleStep == Sr!RoleInvariant /\ [Sr!Next]_(Sr!vars) => Sr!RoleInvariant'
<1> SUFFICES ASSUME Sr!RoleInvariant, [Sr!Next]_(Sr!vars) PROVE Sr!RoleInvariant'
  OBVIOUS
<1> DEFINE Links ==
      /\ Sr!StateMatches /\ Sr!NoSocketLeaks /\ Sr!NoSlavesWithoutMaster
      /\ Sr!Handshaking => server.transfer_s # 0
      /\ server.repl_state = "transfer" => server.cached = Nil
<1> USE DEF Sr!StateMatches, Sr!NoSocketLeaks, Sr!NoSlavesWithoutMaster, Sr!Handshaking, Sr!NoFd
<1>0. /\ Nil \notin Host /\ MaxSockets \in Nat /\ MaxSlaveof \in Nat
      /\ server \in Servers /\ sockets \in Nat /\ sets \in Nat /\ slaveofs \in Nat
      /\ Links
  BY RoleAssumption DEF Sr!SlaveRoleAssumption, Sr!RoleInvariant, Sr!TypeOK, Servers
<1>a. ASSUME server' \in Servers, sockets' \in Nat, sets' \in Nat, slaveofs' \in Nat, Links'
      PROVE  Sr!RoleInvariant'
  BY <1>a DEF Sr!RoleInvariant, Sr!TypeOK, Servers
<1>1. ASSUME NEW h \in Host, Sr!Slaveof(h) PROVE Sr!RoleInvariant'
  <2> DEFINE n == [server EXCEPT !.masterhost = h]
             f == Sr!FreeMaster(n, server.masterhost)
             d == [f EXCEPT !.slave = FALSE, !.cached = Nil, !.backlog = FALSE]
             k == Sr!CancelHandshake(d)
  <2>1. server' = [k EXCEPT !.repl_state = "connect"] /\ slaveofs' = slaveofs + 1 /\ UNCHANGED <<sockets, sets>>
    <3>1. server' = Sr!SetMaster(h) /\ slaveofs' = slaveofs + 1 /\ UNCHANGED <<sockets, sets>>
      BY <1>0, <1>1 DEF Sr!Slaveof
    <3>2. [[[f EXCEPT !.slave = FALSE] EXCEPT !.cached = Nil] EXCEPT !.backlog = FALSE] = d
      OBVIOUS
    <3> QED
      BY <3>1, <3>2 DEF Sr!SetMaster, Sr!DiscardCachedMaster, Sr!DisconnectSlaves
  <2>2. /\ n \in Servers /\ n.masterhost = h /\ n.master = server.master /\ n.open = server.open
        /\ n.repl_state = server.repl_state /\ n.transfer_s = server.transfer_s /\ n.tmpfile = server.tmpfile
    BY <1>0 DEF Servers
  <2>3. server.masterhost \in Host \cup {Nil}
    BY <1>0 DEF Servers
  <2> HIDE DEF n
  <2>4. /\ f \in Servers /\ f.masterhost = h /\ f.master = 0 /\ f.transfer_s = server.transfer_s
        /\ f.tmpfile = server.tmpfile
        /\ f.repl_state = (IF server.master = 0 THEN server.repl_state ELSE "connect")
        /\ f.open = (IF server.master = 0 THEN server.open ELSE server.open \ {server.master})
    <3>1. CASE n.master = 0
      BY <3>1, <2>2 DEF Sr!FreeMaster
    <3>2. CASE n.master # 0
      BY <3>2, <2>2, <2>3, FreeMasterFields
    <3> QED
      BY <3>1, <3>2
  <2> HIDE DEF f
  <2>5. /\ d \in Servers /\ d.masterhost = h /\ d.master = 0 /\ d.transfer_s = f.transfer_s /\ d.tmpfile = f.tmpfile
        /\ d.repl_state = f.repl_state /\ d.open = f.open /\ d.slave = FALSE /\ d.cached = Nil
    BY <2>4 DEF Servers
  <2> HIDE DEF d
  <2>6. /\ k \in Servers /\ k.masterhost = h /\ k.master = 0 /\ k.slave = FALSE /\ k.cached = Nil
        /\ k.tmpfile = FALSE /\ k.open = {}
    BY <1>0, <2>4, <2>5, CancelFields
  <2> HIDE DEF k
  <2>7. /\ server' \in Servers /\ server'.masterhost = h /\ server'.master = 0 /\ server'.slave = FALSE
        /\ server'.cached = Nil /\ server'.tmpfile = FALSE /\ server'.open = {} /\ server'.repl_state = "connect"
    BY <2>1, <2>6 DEF Servers
  <2> QED
    BY <1>0, <1>a, <2>1, <2>7
<1>2. ASSUME Sr!Slaveof(Nil) PROVE Sr!RoleInvariant'
  <2> DEFINE n == [server EXCEPT !.masterhost = Nil]
             b == IF n.master # 0 /\ ~n.slave THEN [n EXCEPT !.backlog = FALSE] ELSE n
             f == Sr!FreeMaster(b, server.masterhost)
             d == [f EXCEPT !.cached = Nil]
             k == Sr!CancelHandshake(d)
  <2>1. server' = [k EXCEPT !.repl_state = "none"] /\ slaveofs' = slaveofs + 1 /\ UNCHANGED <<sockets, sets>>
    BY <1>0, <1>2 DEF Sr!Slaveof, Sr!UnsetMaster, Sr!DiscardCachedMaster
  <2>2. /\ n \in Servers /\ n.masterhost = Nil /\ n.master = server.master /\ n.open = server.open
        /\ n.repl_state = server.repl_state /\ n.transfer_s = server.transfer_s /\ n.tmpfile = server.tmpfile
    BY <1>0 DEF Servers
  <2>3. server.masterhost \in Host \cup {Nil}
    BY <1>0 DEF Servers
  <2> HIDE DEF n
  <2>b. /\ b \in Servers /\ b.masterhost = Nil /\ b.master = server.master /\ b.open = server.open
        /\ b.repl_state = server.repl_state /\ b.transfer_s = server.transfer_s /\ b.tmpfile = server.tmpfile
    BY <2>2 DEF Servers
  <2> HIDE DEF b
  <2>4. /\ f \in Servers /\ f.masterhost = Nil /\ f.master = 0 /\ f.transfer_s = server.transfer_s
        /\ f.tmpfile = server.tmpfile
        /\ f.repl_state = (IF server.master = 0 THEN server.repl_state ELSE "connect")
        /\ f.open = (IF server.master = 0 THEN server.open ELSE server.open \ {server.master})
    <3>1. CASE b.master = 0
      BY <3>1, <2>b DEF Sr!FreeMaster
    <3>2. CASE b.master # 0
      BY <3>2, <2>b, <2>3, FreeMasterFields
    <3> QED
      BY <3>1, <3>2
  <2> HIDE DEF f
  <2>5. /\ d \in Servers /\ d.masterhost = Nil /\ d.master = 0 /\ d.transfer_s = f.transfer_s
        /\ d.tmpfile = f.tmpfile /\ d.repl_state = f.repl_state /\ d.open = f.open /\ d.cached = Nil
    BY <2>4 DEF Servers
  <2> HIDE DEF d
  <2>6. k \in Servers /\ k.masterhost = Nil /\ k.master = 0 /\ k.cached = Nil /\ k.tmpfile = FALSE /\ k.open = {}
    BY <1>0, <2>4, <2>5, CancelFields
  <2> HIDE DEF k
  <2>7. /\ server' \in Servers /\ server'.masterhost = Nil /\ server'.master = 0
        /\ server'.cached = Nil /\ server'.tmpfile = FALSE /\ server'.open = {} /\ server'.repl_state = "none"
    BY <2>1, <2>6 DEF Servers
  <2> QED
    BY <1>0, <1>a, <2>1, <2>7
<1>3. ASSUME Sr!CronConnects PROVE Sr!RoleInvariant'
  <2>n. sockets + 1 \in Nat /\ server.open \cup {sockets + 1} \in SUBSET Nat
    BY <1>0 DEF Servers
  <2>0. server' \in Servers
    BY <1>0, <1>3, <2>n DEF Sr!CronConnects, Servers
  <2>1. /\ server'.masterhost = server.masterhost /\ server'.repl_state = "connecting"
        /\ server'.transfer_s = sockets + 1 /\ server'.tmpfile = server.tmpfile
        /\ server'.master = server.master /\ server'.cached = server.cached
        /\ server'.slave = server.slave /\ server'.open = server.open \cup {sockets + 1}
    BY <1>0, <1>3 DEF Sr!CronConnects, Servers
  <2> QED
    BY <1>0, <1>3, <1>a, <2>0, <2>1 DEF Sr!CronConnects
<1>4. ASSUME Sr!CronTimesOut PROVE Sr!RoleInvariant'
  <2>0. server.masterhost \in Host \cup {Nil}
    BY <1>0 DEF Servers
  <2>1. CASE Sr!Handshaking /\ server' = Sr!CancelHandshake(server)
    <3>1. /\ server' \in Servers
          /\ server'.masterhost = server.masterhost /\ server'.repl_state = "connect" /\ server'.tmpfile = FALSE
          /\ server'.master = server.master /\ server'.cached = server.cached /\ server'.slave = server.slave
          /\ server'.open = {}
      BY <1>0, <2>1, CancelFields
    <3> QED
      BY <1>0, <1>4, <1>a, <2>1, <3>1 DEF Sr!CronTimesOut
  <2>2. CASE server.repl_state = "connected" /\ server' = Sr!FreeMaster(server, server.masterhost)
    <3>1. server.master # 0 /\ server.masterhost # Nil /\ ~server.tmpfile /\ server.open = {server.master}
      BY <1>0, <2>2
    <3>2. /\ server' \in Servers
          /\ server'.masterhost = server.masterhost /\ server'.repl_state = "connect"
          /\ server'.tmpfile = server.tmpfile /\ server'.master = 0
          /\ server'.slave = (server.slave /\ server.masterhost = Nil)
          /\ server'.open = server.open \ {server.master}
      BY <1>0, <2>0, <2>2, <3>1, FreeMasterFields
    <3> QED
      BY <1>0, <1>4, <1>a, <2>2, <3>1, <3>2 DEF Sr!CronTimesOut
  <2> QED
    BY <1>4, <2>1, <2>2 DEF Sr!CronTimesOut
<1>b. ASSUME server' = Sr!HandshakeFails(server) \/ server' = Sr!HandshakeFails(Sr!DiscardCachedMaster(server)),
             server.repl_state \in {"connecting", "receive_pong"}, UNCHANGED <<sockets, sets, slaveofs>>
      PROVE  Sr!RoleInvariant'
  <2> DEFINE d == Sr!DiscardCachedMaster(server)
  <2>1. /\ d \in Servers /\ d.masterhost = server.masterhost /\ d.tmpfile = server.tmpfile
        /\ d.master = server.master /\ d.slave = server.slave /\ d.open = server.open
        /\ d.transfer_s = server.transfer_s
    BY <1>0 DEF Sr!DiscardCachedMaster, Servers
  <2> HIDE DEF d
  <2>2. PICK e \in {server, d} : server' = Sr!HandshakeFails(e)
    BY <1>b DEF d
  <2>3. /\ e \in Servers /\ e.masterhost = server.masterhost /\ e.tmpfile = server.tmpfile
        /\ e.master = server.master /\ e.slave = server.slave /\ e.open = server.open
        /\ e.transfer_s = server.transfer_s
    BY <1>0, <2>1
  <2>4. e.open \ {e.transfer_s} \in SUBSET Nat
    BY <2>3 DEF Servers
  <2>5. server' \in Servers
    BY <2>2, <2>3, <2>4 DEF Sr!HandshakeFails, Servers
  <2>6. /\ server'.masterhost = server.masterhost /\ server'.repl_state = "connect"
        /\ server'.tmpfile = server.tmpfile /\ server'.master = server.master
        /\ server'.slave = server.slave /\ server'.open = server.open \ {server.transfer_s}
    BY <2>2, <2>3 DEF Sr!HandshakeFails, Servers
  <2> QED
    BY <1>0, <1>a, <1>b, <2>5, <2>6
<1>5. ASSUME Sr!Connected PROVE Sr!RoleInvariant'
  <2>1. CASE server' = [server EXCEPT !.repl_state = "receive_pong"]
    <3>1. /\ server' \in Servers
          /\ server'.masterhost = server.masterhost /\ server'.repl_state = "receive_pong"
          /\ server'.transfer_s = server.transfer_s /\ server'.tmpfile = server.tmpfile
          /\ server'.master = server.master /\ server'.cached = server.cached
          /\ server'.slave = server.slave /\ server'.open = server.open
      BY <1>0, <2>1 DEF Servers
    <3> QED
      BY <1>0, <1>5, <1>a, <3>1 DEF Sr!Connected
  <2> QED
    BY <1>5, <1>b, <2>1 DEF Sr!Connected
<1>6. ASSUME Sr!Handshakes PROVE Sr!RoleInvariant'
  <2>1. CASE server' = Sr!Resurrect(server)
    <3>1. /\ server' \in Servers
          /\ server'.masterhost = server.masterhost /\ server'.repl_state = "connected"
          /\ server'.transfer_s = server.transfer_s /\ server'.tmpfile = server.tmpfile
          /\ server'.master = server.transfer_s /\ server'.cached = Nil
          /\ server'.slave = server.slave /\ server'.open = server.open
      BY <1>0, <2>1 DEF Servers, Sr!Resurrect
    <3> QED
      BY <1>0, <1>6, <1>a, <3>1 DEF Sr!Handshakes
  <2>2. CASE server' = [Sr!DiscardCachedMaster(server) EXCEPT !.repl_state = "transfer", !.tmpfile = TRUE]
    <3>1. /\ server' \in Servers
          /\ server'.masterhost = server.masterhost /\ server'.repl_state = "transfer"
          /\ server'.transfer_s = server.transfer_s /\ server'.tmpfile = TRUE
          /\ server'.master = server.master /\ server'.cached = Nil
          /\ server'.slave = server.slave /\ server'.open = server.open
      BY <1>0, <2>2 DEF Servers, Sr!DiscardCachedMaster
    <3> QED
      BY <1>0, <1>6, <1>a, <3>1 DEF Sr!Handshakes
  <2> QED
    BY <1>6, <1>b, <2>1, <2>2 DEF Sr!Handshakes
<1>7. ASSUME Sr!Receives PROVE Sr!RoleInvariant'
  <2>0. sets' \in Nat /\ UNCHANGED <<sockets, slaveofs>> /\ server.repl_state = "transfer"
    BY <1>0, <1>7 DEF Sr!Receives
  <2>1. CASE \E n \in {server.data, sets + 1} : server' = [Sr!AbortSyncTransfer(server) EXCEPT !.data = n]
    <3>1. server.open \ {server.transfer_s} \in SUBSET Nat /\ server.data \in Nat /\ sets + 1 \in Nat
      BY <1>0 DEF Servers
    <3>a. Sr!AbortSyncTransfer(server) \in Servers
      BY <1>0, <3>1 DEF Servers, Sr!AbortSyncTransfer
    <3>2. server' \in Servers
      BY <2>1, <3>1, <3>a DEF Servers
    <3>3. /\ server'.masterhost = server.masterhost /\ server'.repl_state = "connect"
          /\ server'.tmpfile = FALSE /\ server'.master = server.master
          /\ server'.slave = server.slave /\ server'.open = server.open \ {server.transfer_s}
      BY <1>0, <2>1 DEF Servers, Sr!AbortSyncTransfer
    <3> QED
      BY <1>0, <1>a, <2>0, <3>2, <3>3
  <2>2. CASE server' = [server EXCEPT !.repl_state = "connected", !.master = server.transfer_s,
                                      !.tmpfile = FALSE, !.data = sets + 1]
    <3>1. server.transfer_s \in Nat /\ sets + 1 \in Nat
      BY <1>0 DEF Servers
    <3>2. server' \in Servers
      BY <1>0, <2>2, <3>1 DEF Servers
    <3>3. /\ server'.masterhost = server.masterhost /\ server'.repl_state = "connected"
          /\ server'.transfer_s = server.transfer_s /\ server'.tmpfile = FALSE
          /\ server'.master = server.transfer_s /\ server'.cached = server.cached
          /\ server'.slave = server.slave /\ server'.open = server.open
      BY <1>0, <2>2 DEF Servers
    <3> QED
      BY <1>0, <1>a, <2>0, <3>2, <3>3
  <2>3. Sr!AbortSyncTransfer(server) = [Sr!AbortSyncTransfer(server) EXCEPT !.data = server.data]
    BY <1>0 DEF Servers, Sr!AbortSyncTransfer
  <2> QED
    BY <1>7, <2>1, <2>2, <2>3 DEF Sr!Receives
<1>8. ASSUME Sr!MasterLost PROVE Sr!RoleInvariant'
  <2>0. server.master # 0 /\ UNCHANGED <<sockets, sets, slaveofs>> /\ server.masterhost \in Host \cup {Nil}
    BY <1>0, <1>8 DEF Sr!MasterLost, Servers
  <2>1. CASE server' = Sr!FreeMaster([server EXCEPT !.asap = FALSE], server.masterhost)
    <3> DEFINE n == [server EXCEPT !.asap = FALSE]
    <3>1. /\ n \in Servers /\ n.masterhost = server.masterhost /\ n.master = server.master /\ n.open = server.open
          /\ n.tmpfile = server.tmpfile
      BY <1>0 DEF Servers
    <3> HIDE DEF n
    <3>2. server' = Sr!FreeMaster(n, server.masterhost)
      BY <2>1 DEF n
    <3>3. /\ server' \in Servers
          /\ server'.masterhost = server.masterhost /\ server'.repl_state = "connect"
          /\ server'.tmpfile = server.tmpfile /\ server'.master = 0
          /\ server'.slave = (n.slave /\ server.masterhost = Nil) /\ server'.open = server.open \ {server.master}
      BY <2>0, <3>1, <3>2, FreeMasterFields
    <3>4. server.masterhost # Nil /\ ~server.tmpfile /\ server.open = {server.master}
      BY <1>0, <2>0
    <3> QED
      BY <1>0, <1>a, <2>0, <3>3, <3>4
  <2>2. CASE server' = [server EXCEPT !.asap = TRUE]
    <3>1. /\ server' \in Servers
          /\ server'.masterhost = server.masterhost /\ server'.repl_state = server.repl_state
          /\ server'.transfer_s = server.transfer_s /\ server'.tmpfile = server.tmpfile
          /\ server'.master = server.master /\ server'.cached = server.cached
          /\ server'.slave = server.slave /\ server'.open = server.open
      BY <1>0, <2>2 DEF Servers
    <3> QED
      BY <1>0, <1>a, <2>0, <3>1
  <2> QED
    BY <1>8, <2>1, <2>2 DEF Sr!MasterLost
<1>9. ASSUME Sr!SlaveComes \/ Sr!SlaveGoes PROVE Sr!RoleInvariant'
  <2>1. /\ server' \in Servers
        /\ server'.masterhost = server.masterhost /\ server'.repl_state = server.repl_state
        /\ server'.transfer_s = server.transfer_s /\ server'.tmpfile = server.tmpfile
        /\ server'.master = server.master /\ server'.cached = server.cached
        /\ server'.open = server.open
        /\ server'.slave => (server.masterhost = Nil \/ server.repl_state = "connected")
    <3>1. CASE server' = [server EXCEPT !.slave = TRUE]
      BY <1>0, <1>9, <3>1 DEF Sr!SlaveComes, Sr!SlaveGoes, Servers
    <3>2. CASE server' = [server EXCEPT !.slave = TRUE, !.slavedata = server.data, !.backlog = TRUE]
      <4>1. server.masterhost = Nil \/ server.repl_state = "connected" \/ ~server'.slave
        <5>1. CASE Sr!SlaveComes
          BY <5>1 DEF Sr!SlaveComes
        <5>2. CASE Sr!SlaveGoes
          BY <1>0, <5>2 DEF Sr!SlaveGoes, Servers
        <5> QED
          BY <1>9, <5>1, <5>2
      <4>2. server.data \in Nat
        BY <1>0 DEF Servers
      <4> QED
        BY <1>0, <3>2, <4>1, <4>2 DEF Servers
    <3>3. CASE server' = [server EXCEPT !.slave = FALSE]
      BY <1>0, <3>3 DEF Servers
    <3> QED
      BY <1>9, <3>1, <3>2, <3>3 DEF Sr!SlaveComes, Sr!SlaveGoes
  <2> QED
    BY <1>0, <1>9, <1>a, <2>1 DEF Sr!SlaveComes, Sr!SlaveGoes
<1>10. ASSUME UNCHANGED Sr!vars PROVE Sr!RoleInvariant'
  BY <1>0, <1>10, <1>a DEF Sr!vars
<1> QED
  BY <1>1, <1>2, <1>3, <1>4, <1>5, <1>6, <1>7, <1>8, <1>9, <1>10 DEF Sr!Next

(* The state of the link to the master matches what exists of it in every  *)
(* reachable state of a server that follows masters, for any masters and   *)
(* any number of connections and SLAVEOF commands: no socket is forgotten, *)
(* no master client outlives its link, and slaves of the server are gone   *)
(* while its own master is (replicationSetMaster, replicationUnsetMaster,  *)
(* freeClient, replicationCron, readSyncBulkPayload).                      *)
THEOREM LinkAlwaysMatches == SuiteSpec => []LinkMatches
<1>1. SuiteInit => LinkMatches
  <2>1. Sr!Init => Sr!RoleInvariant
    BY RoleAssumption
    DEF Sr!SlaveRoleAssumption, Sr!Init, Sr!RoleInvariant, Sr!TypeOK, Sr!StateMatches, Sr!NoSocketLeaks,
        Sr!NoSlavesWithoutMaster, Sr!Handshaking, Sr!NoFd
  <2> QED
    BY <2>1 DEF SuiteInit, LinkMatches
<1>2. LinkMatches /\ [SuiteNext]_allVars => LinkMatches'
  <2> SUFFICES ASSUME LinkMatches, [SuiteNext]_allVars, component' = "role" PROVE Sr!RoleInvariant'
    BY DEF LinkMatches
  <2>1. component = "role" /\ [Sr!Next]_(Sr!vars)
    BY DEF SuiteNext, allVars, role, Sr!vars
  <2> QED
    BY <2>1, RoleStep DEF LinkMatches
<1>3. QED
  BY <1>1, <1>2, PTL DEF SuiteSpec

-----------------------------------------------------------------------------
(* ScriptCache.  An EVALSHA is only sent of a script that is cached, so    *)
(* what is cached must be known; whatever starts a copy that knows nothing *)
(* empties the cache.                                                      *)

(* What the commands make of the scripts that are known.                   *)
LEMMA AfterCommand ==
  ASSUME NEW k, NEW x
  PROVE  /\ Ca!After(k, <<"eval", x>>) = k \cup {x} /\ Ca!After(k, <<"load", x>>) = k \cup {x}
         /\ Ca!After(k, <<"evalsha", x>>) = k /\ Ca!After(k, <<"flush">>) = {}
<1>1. /\ <<"eval", x>>[1] = "eval" /\ <<"load", x>>[1] = "load" /\ <<"evalsha", x>>[1] = "evalsha"
      /\ <<"flush">>[1] = "flush" /\ <<"eval", x>>[2] = x /\ <<"load", x>>[2] = x
  OBVIOUS
<1> QED BY <1>1 DEF Ca!After

(* A script that was not cached becomes the newest; the oldest one goes    *)
(* when the cache is full (replicationScriptCacheAdd).                     *)
LEMMA AddToCache ==
  ASSUME Ca!ScriptCacheAssumption, NEW x \in Script, NEW q \in Seq(Script), ~Ca!Exists(q, x),
         Len(q) <= CacheSize, Ca!IsInjective(q)
  PROVE  /\ Ca!Add(q, x) \in Seq(Script) /\ Len(Ca!Add(q, x)) <= CacheSize
         /\ Ca!IsInjective(Ca!Add(q, x)) /\ Ca!ToSet(Ca!Add(q, x)) \subseteq Ca!ToSet(q) \cup {x}
<1> DEFINE r == IF Len(q) = CacheSize THEN Ca!Front(q) ELSE q
<1>1. /\ r \in Seq(Script) /\ Len(r) \in Nat /\ Len(r) <= Len(q) /\ Len(r) + 1 <= CacheSize
      /\ \A i \in 1..Len(r) : r[i] = q[i]
  <2>1. Len(q) \in Nat /\ CacheSize \in Nat \ {0}
    BY DEF Ca!ScriptCacheAssumption
  <2>2. CASE Len(q) = CacheSize
    <3>1. /\ SubSeq(q, 1, Len(q) - 1) \in Seq(Script) /\ Len(SubSeq(q, 1, Len(q) - 1)) = Len(q) - 1
          /\ \A i \in 1..(Len(q) - 1) : SubSeq(q, 1, Len(q) - 1)[i] = q[i]
      BY <2>1, <2>2
    <3>2. r = SubSeq(q, 1, Len(q) - 1)
      BY <2>2 DEF Ca!Front
    <3> QED BY <2>1, <2>2, <3>1, <3>2
  <2>3. CASE Len(q) # CacheSize
    BY <2>1, <2>3
  <2> QED BY <2>2, <2>3
<1>2. Ca!Add(q, x) = <<x>> \o r
  BY DEF Ca!Add
<1> HIDE DEF r
<1>3. /\ Ca!Add(q, x) \in Seq(Script) /\ Len(Ca!Add(q, x)) = Len(r) + 1
      /\ Ca!Add(q, x)[1] = x /\ \A i \in 2..(Len(r) + 1) : Ca!Add(q, x)[i] = r[i - 1]
  BY <1>1, <1>2
<1>4. DOMAIN Ca!Add(q, x) = 1..(Len(r) + 1) /\ DOMAIN q = 1..Len(q)
  BY <1>3
<1>5. \A i \in 2..(Len(r) + 1) : i - 1 \in DOMAIN q /\ Ca!Add(q, x)[i] = q[i - 1] /\ q[i - 1] # x
  <2>1. ASSUME NEW i \in 2..(Len(r) + 1) PROVE i - 1 \in DOMAIN q /\ Ca!Add(q, x)[i] = q[i - 1]
    <3>1. i - 1 \in 1..Len(r) /\ i - 1 \in 1..Len(q)
      BY <1>1
    <3> QED BY <1>1, <1>3, <1>4, <3>1
  <2>2. \A j \in DOMAIN q : q[j] # x
    BY DEF Ca!Exists, Ca!ToSet
  <2> QED BY <2>1, <2>2
<1>6. ASSUME NEW i \in DOMAIN Ca!Add(q, x), NEW j \in DOMAIN Ca!Add(q, x), Ca!Add(q, x)[i] = Ca!Add(q, x)[j]
      PROVE  i = j
  <2>1. (i = 1 \/ i \in 2..(Len(r) + 1)) /\ (j = 1 \/ j \in 2..(Len(r) + 1))
    BY <1>1, <1>4
  <2>2. CASE i = 1 \/ j = 1
    BY <1>3, <1>5, <1>6, <2>1, <2>2
  <2>3. CASE i \in 2..(Len(r) + 1) /\ j \in 2..(Len(r) + 1)
    <3>1. i - 1 = j - 1
      BY <1>5, <1>6, <2>3 DEF Ca!IsInjective
    <3> QED BY <1>1, <2>3, <3>1
  <2> QED BY <2>1, <2>2, <2>3
<1>7. Ca!IsInjective(Ca!Add(q, x))
  BY <1>6 DEF Ca!IsInjective
<1>8. Ca!ToSet(Ca!Add(q, x)) \subseteq Ca!ToSet(q) \cup {x}
  <2>1. ASSUME NEW i \in DOMAIN Ca!Add(q, x) PROVE Ca!Add(q, x)[i] \in Ca!ToSet(q) \cup {x}
    <3>1. i = 1 \/ i \in 2..(Len(r) + 1)
      BY <1>1, <1>4
    <3> QED BY <1>3, <1>5, <3>1 DEF Ca!ToSet
  <2> QED BY <2>1 DEF Ca!ToSet
<1> QED BY <1>1, <1>3, <1>7, <1>8

(* An empty cache has nothing that anybody could not know.                 *)
LEMMA EmptyCache ==
  ASSUME Ca!ScriptCacheAssumption
  PROVE  <<>> \in Seq(Script) /\ Ca!ToSet(<<>>) = {} /\ Len(<<>>) <= CacheSize /\ Ca!IsInjective(<<>>)
BY DEF Ca!ScriptCacheAssumption, Ca!ToSet, Ca!IsInjective

(* What is propagated keeps the types, and after EVAL or SCRIPT LOAD       *)
(* everybody knows that script and what they knew before.                  *)
LEMMA PropagateTeaches ==
  ASSUME Ca!TypeOK, Ca!NothingMissing, NEW x \in Script, NEW op \in {"eval", "load"}, Ca!Propagate(<<op, x>>),
         repl' = repl
  PROVE  /\ known' \in [Pair -> SUBSET Script]
         /\ aof' \in [state : {"off", "wait", "on"}, file : SUBSET Script, new : SUBSET Script, child : BOOLEAN]
         /\ missing' = FALSE
         /\ Ca!Knows(x)' /\ \A y \in Script : Ca!Knows(y) => Ca!Knows(y)'
<1>1. ASSUME NEW k PROVE Ca!After(k, <<op, x>>) = k \cup {x}
  <2>1. CASE op = "eval"
    BY <2>1, AfterCommand
  <2>2. CASE op = "load"
    BY <2>2, AfterCommand
  <2> QED BY <2>1, <2>2
<1>2. <<op, x>>[1] # "evalsha"
  OBVIOUS
<1>3. /\ known' = [s \in Pair |-> IF s \in Ca!Fed THEN known[s] \cup {x} ELSE known[s]]
      /\ aof' = [aof EXCEPT !.file = IF aof.state = "on" THEN aof.file \cup {x} ELSE aof.file,
                            !.new = IF Ca!Rewriting THEN aof.new \cup {x} ELSE aof.new]
      /\ missing' = missing
  BY <1>1, <1>2 DEF Ca!Propagate, Ca!TypeOK
<1>4. /\ aof' \in [state : {"off", "wait", "on"}, file : SUBSET Script, new : SUBSET Script, child : BOOLEAN]
      /\ aof'.state = aof.state /\ aof'.child = aof.child
      /\ aof'.file = IF aof.state = "on" THEN aof.file \cup {x} ELSE aof.file
      /\ aof'.new = IF Ca!Rewriting THEN aof.new \cup {x} ELSE aof.new
  BY <1>3 DEF Ca!TypeOK
<1>5. Ca!Fed' = Ca!Fed /\ Ca!Rewriting' = Ca!Rewriting /\ Ca!Fed \subseteq Pair
  BY <1>4 DEF Ca!Fed, Ca!Rewriting
<1>6. known' \in [Pair -> SUBSET Script]
  BY <1>3 DEF Ca!TypeOK
<1>7. Ca!Knows(x)' /\ \A y \in Script : Ca!Knows(y) => Ca!Knows(y)'
  BY <1>3, <1>4, <1>5 DEF Ca!Knows
<1>8. missing' = FALSE
  BY <1>3 DEF Ca!NothingMissing, Ca!TypeOK
<1> QED BY <1>4, <1>6, <1>7, <1>8

(* Every step keeps the invariant.                                         *)
LEMMA StepKeepsCache ==
  ASSUME Ca!ScriptCacheAssumption, Ca!CacheInvariant, [Ca!Next]_(Ca!vars)
  PROVE  Ca!CacheInvariant'
<1>0. Ca!TypeOK /\ Ca!CacheIsKnown /\ Ca!NothingMissing
  BY DEF Ca!CacheInvariant
<1>a. ASSUME Ca!TypeOK', missing' = missing, fifo' = <<>> PROVE Ca!CacheInvariant'
  BY <1>0, <1>a, EmptyCache DEF Ca!CacheInvariant, Ca!CacheIsKnown, Ca!NothingMissing
<1>b. ASSUME Ca!TypeOK', missing' = missing, fifo' = fifo, scripts \subseteq scripts',
             \A x \in Script : Ca!Knows(x) => Ca!Knows(x)'
      PROVE Ca!CacheInvariant'
  <2>1. Ca!ToSet(fifo) \subseteq Script
    BY <1>0 DEF Ca!TypeOK, Ca!ToSet
  <2> QED BY <1>0, <1>b, <2>1 DEF Ca!CacheInvariant, Ca!CacheIsKnown, Ca!NothingMissing
<1>1. ASSUME NEW x \in Script, Ca!Load(x) PROVE Ca!CacheInvariant'
  <2>1. "load" \in {"eval", "load"} /\ Ca!Propagate(<<"load", x>>) /\ repl' = repl
    BY <1>1 DEF Ca!Load
  <2>2. /\ known' \in [Pair -> SUBSET Script] /\ missing' = FALSE
        /\ aof' \in [state : {"off", "wait", "on"}, file : SUBSET Script, new : SUBSET Script, child : BOOLEAN]
        /\ \A y \in Script : Ca!Knows(y) => Ca!Knows(y)'
    BY <1>0, <2>1, PropagateTeaches
  <2>3. Ca!TypeOK' /\ missing' = missing /\ fifo' = fifo /\ scripts \subseteq scripts'
    BY <1>0, <1>1, <2>2 DEF Ca!Load, Ca!TypeOK, Ca!NothingMissing
  <2> QED BY <1>b, <2>2, <2>3
<1>2. ASSUME NEW x \in Script, NEW dirty \in BOOLEAN, Ca!Eval(x, dirty) PROVE Ca!CacheInvariant'
  <2>1. CASE dirty
    <3>1. "eval" \in {"eval", "load"} /\ Ca!Propagate(<<"eval", x>>) /\ repl' = repl
      BY <1>2, <2>1 DEF Ca!Eval
    <3>2. /\ known' \in [Pair -> SUBSET Script] /\ missing' = FALSE
          /\ aof' \in [state : {"off", "wait", "on"}, file : SUBSET Script, new : SUBSET Script, child : BOOLEAN]
          /\ \A y \in Script : Ca!Knows(y) => Ca!Knows(y)'
      BY <1>0, <3>1, PropagateTeaches
    <3>3. Ca!TypeOK' /\ missing' = missing /\ fifo' = fifo /\ scripts \subseteq scripts'
      BY <1>0, <1>2, <3>2 DEF Ca!Eval, Ca!TypeOK, Ca!NothingMissing
    <3> QED BY <1>b, <3>2, <3>3
  <2>2. CASE ~dirty
    <3>1. UNCHANGED <<known, aof, missing, fifo, repl, child>> /\ scripts' = scripts \cup {x}
      BY <1>2, <2>2 DEF Ca!Eval, Ca!NotPropagated
    <3>2. Ca!TypeOK' /\ \A y \in Script : Ca!Knows(y) => Ca!Knows(y)'
      BY <1>0, <3>1 DEF Ca!TypeOK, Ca!Knows, Ca!Fed, Ca!Rewriting
    <3> QED BY <1>b, <3>1, <3>2
  <2> QED BY <2>1, <2>2
<1>3. ASSUME NEW x \in Script, NEW dirty \in BOOLEAN, Ca!Evalsha(x, dirty) PROVE Ca!CacheInvariant'
  <2>1. CASE Ca!Exists(fifo, x)
    <3>1. Ca!Knows(x)
      BY <1>0, <2>1 DEF Ca!CacheIsKnown, Ca!Exists
    <3>2. UNCHANGED <<scripts, fifo, repl, child>> /\ (Ca!Propagate(<<"evalsha", x>>) \/ Ca!NotPropagated)
      BY <1>3, <2>1 DEF Ca!Evalsha
    <3>3. UNCHANGED <<known, aof, missing>>
      <4>1. CASE Ca!NotPropagated
        BY <4>1 DEF Ca!NotPropagated
      <4>2. CASE Ca!Propagate(<<"evalsha", x>>)
        <5>0. <<"evalsha", x>>[1] = "evalsha" /\ <<"evalsha", x>>[2] = x
          OBVIOUS
        <5>1. \A k : Ca!After(k, <<"evalsha", x>>) = k
          BY AfterCommand
        <5>6. missing' = (missing \/ ~Ca!Knows(x))
          BY <4>2, <5>0 DEF Ca!Propagate
        <5>2. /\ \A s \in Pair : Ca!After(known[s], <<"evalsha", x>>) = known[s]
              /\ Ca!After(aof.file, <<"evalsha", x>>) = aof.file /\ Ca!After(aof.new, <<"evalsha", x>>) = aof.new
          BY <5>1
        <5>3. known' = known
          BY <1>0, <4>2, <5>2 DEF Ca!Propagate, Ca!TypeOK
        <5>4. aof' = aof
          <6>1. aof' = [aof EXCEPT !.file = aof.file, !.new = aof.new]
            BY <4>2, <5>2 DEF Ca!Propagate
          <6> QED BY <1>0, <6>1 DEF Ca!TypeOK
        <5>5. missing' = missing
          BY <1>0, <3>1, <5>6 DEF Ca!NothingMissing, Ca!TypeOK
        <5> QED BY <5>3, <5>4, <5>5
      <4> QED BY <3>2, <4>1, <4>2
    <3>4. Ca!TypeOK' /\ \A y \in Script : Ca!Knows(y) => Ca!Knows(y)'
      BY <1>0, <3>2, <3>3 DEF Ca!TypeOK, Ca!Knows, Ca!Fed, Ca!Rewriting
    <3> QED BY <1>b, <3>2, <3>3, <3>4
  <2>2. CASE ~Ca!Exists(fifo, x)
    <3>1. /\ "eval" \in {"eval", "load"} /\ Ca!Propagate(<<"eval", x>>) /\ fifo' = Ca!Add(fifo, x)
          /\ UNCHANGED <<scripts, repl, child>> /\ x \in scripts
      BY <1>3, <2>2 DEF Ca!Evalsha
    <3>2. /\ known' \in [Pair -> SUBSET Script] /\ missing' = FALSE
          /\ aof' \in [state : {"off", "wait", "on"}, file : SUBSET Script, new : SUBSET Script, child : BOOLEAN]
          /\ Ca!Knows(x)' /\ \A y \in Script : Ca!Knows(y) => Ca!Knows(y)'
      BY <1>0, <3>1, PropagateTeaches
    <3>3. /\ Ca!Add(fifo, x) \in Seq(Script) /\ Len(Ca!Add(fifo, x)) <= CacheSize
          /\ Ca!IsInjective(Ca!Add(fifo, x)) /\ Ca!ToSet(Ca!Add(fifo, x)) \subseteq Ca!ToSet(fifo) \cup {x}
      BY <1>0, <2>2, AddToCache DEF Ca!TypeOK, Ca!CacheIsKnown
    <3>4. Ca!TypeOK' /\ Ca!NothingMissing'
      BY <1>0, <3>1, <3>2, <3>3 DEF Ca!TypeOK, Ca!NothingMissing
    <3>5. Ca!ToSet(fifo) \subseteq Script
      BY <1>0 DEF Ca!TypeOK, Ca!ToSet
    <3>6. \A y \in Ca!ToSet(fifo') : y \in scripts' /\ Ca!Knows(y)'
      BY <1>0, <3>1, <3>2, <3>3, <3>5 DEF Ca!CacheIsKnown
    <3> QED BY <3>1, <3>3, <3>4, <3>6 DEF Ca!CacheInvariant, Ca!CacheIsKnown
  <2> QED BY <2>1, <2>2
<1>4. CASE Ca!Flush
  <2>1. /\ scripts' = {} /\ fifo' = <<>> /\ Ca!Propagate(<<"flush">>) /\ UNCHANGED <<repl, child>>
    BY <1>4 DEF Ca!Flush
  <2>2. \A k : Ca!After(k, <<"flush">>) = {}
    BY AfterCommand
  <2>3. /\ known' = [s \in Pair |-> IF s \in Ca!Fed THEN {} ELSE known[s]]
        /\ aof' = [aof EXCEPT !.file = IF aof.state = "on" THEN {} ELSE aof.file,
                              !.new = IF Ca!Rewriting THEN {} ELSE aof.new]
        /\ missing' = (missing \/ FALSE)
    BY <2>1, <2>2 DEF Ca!Propagate, Ca!TypeOK
  <2>4. missing' = missing
    BY <1>0, <2>3 DEF Ca!TypeOK
  <2>5. aof' \in [state : {"off", "wait", "on"}, file : SUBSET Script, new : SUBSET Script, child : BOOLEAN]
    BY <1>0, <2>3 DEF Ca!TypeOK
  <2>6. Ca!TypeOK'
    BY <1>0, <2>1, <2>3, <2>4, <2>5, EmptyCache DEF Ca!TypeOK
  <2> QED BY <1>a, <2>1, <2>4, <2>6
<1>c. ASSUME NEW r \in [Pair -> {"off", "start", "end", "online", "gone"}],
             NEW kind \in {"disk", "socket"}, Ca!StartBgsave(r, kind, TRUE), UNCHANGED <<scripts, aof, missing>>
      PROVE Ca!CacheInvariant'
  <2>1. Ca!TypeOK'
    BY <1>0, <1>c, EmptyCache DEF Ca!StartBgsave, Ca!TypeOK
  <2> QED BY <1>a, <1>c, <2>1 DEF Ca!StartBgsave
<1>e. Ca!Forks = {TRUE}
  BY DEF Ca!Forks
<1>f. ASSUME NEW r \in [Pair -> {"off", "start", "end", "online", "gone"}]
      PROVE Ca!AllWait(r) \in [Pair -> {"off", "start", "end", "online", "gone"}]
  BY DEF Ca!AllWait
<1>d. ASSUME UNCHANGED <<scripts, fifo, known, aof, missing>>, child' \in {"none", "plain", "disk", "socket"},
             repl' \in [Pair -> {"off", "start", "end", "online", "gone"}],
             \A s \in Pair : repl'[s] \in {"end", "online", "gone"} => repl[s] \in {"end", "online", "gone"}
      PROVE Ca!CacheInvariant'
  <2>1. Ca!TypeOK' /\ Ca!Fed' \subseteq Ca!Fed
    BY <1>0, <1>d DEF Ca!TypeOK, Ca!Fed
  <2>2. \A y \in Script : Ca!Knows(y) => Ca!Knows(y)'
    BY <1>d, <2>1 DEF Ca!Knows, Ca!Rewriting
  <2> QED BY <1>b, <1>d, <2>1, <2>2
<1>5. CASE Ca!CronStart
  <2>1. PICK kind \in {"disk", "socket"} : Ca!StartBgsave(Ca!AllWait(repl), kind, TRUE)
    BY <1>5, <1>e DEF Ca!CronStart
  <2>2. Ca!AllWait(repl) \in [Pair -> {"off", "start", "end", "online", "gone"}]
    BY <1>0, <1>f DEF Ca!TypeOK
  <2> QED BY <1>5, <1>c, <2>1, <2>2 DEF Ca!CronStart
<1>6. CASE Ca!CronFlush
  <2>1. Ca!TypeOK'
    BY <1>0, <1>6, EmptyCache DEF Ca!CronFlush, Ca!TypeOK
  <2> QED BY <1>6, <1>a, <2>1 DEF Ca!CronFlush
<1>7. CASE Ca!PlainBgsave
  BY <1>0, <1>7, <1>d DEF Ca!PlainBgsave, Ca!TypeOK
<1>8. CASE Ca!ChildDone
  <2>1. PICK ok \in BOOLEAN :
          LET r == [s \in Pair |-> IF repl[s] # "end" THEN repl[s] ELSE IF ok THEN "online" ELSE "off"]
          IN  IF \E s \in Pair : r[s] = "start"
              THEN \E kind \in {"disk", "socket"} : Ca!StartBgsave(Ca!AllWait(r), kind, TRUE)
              ELSE child' = "none" /\ repl' = r /\ UNCHANGED <<fifo, known>>
    BY <1>8, <1>e DEF Ca!ChildDone
  <2> DEFINE r == [s \in Pair |-> IF repl[s] # "end" THEN repl[s] ELSE IF ok THEN "online" ELSE "off"]
  <2>2. /\ r \in [Pair -> {"off", "start", "end", "online", "gone"}]
        /\ \A s \in Pair : r[s] \in {"end", "online", "gone"} => repl[s] \in {"end", "online", "gone"}
    BY <1>0 DEF Ca!TypeOK
  <2>3. \/ \E kind \in {"disk", "socket"} : Ca!StartBgsave(Ca!AllWait(r), kind, TRUE)
        \/ child' = "none" /\ repl' = r /\ UNCHANGED <<fifo, known>>
    BY <2>1
  <2>4. UNCHANGED <<scripts, aof, missing>>
    BY <1>8 DEF Ca!ChildDone
  <2> HIDE DEF r
  <2>5. CASE \E kind \in {"disk", "socket"} : Ca!StartBgsave(Ca!AllWait(r), kind, TRUE)
    BY <1>c, <1>f, <2>2, <2>4, <2>5
  <2>6. CASE child' = "none" /\ repl' = r /\ UNCHANGED <<fifo, known>>
    BY <1>d, <2>2, <2>4, <2>6
  <2> QED BY <2>3, <2>5, <2>6
<1>9. ASSUME NEW s \in Pair, Ca!Sync(s) PROVE Ca!CacheInvariant'
  <2> DEFINE waits == [repl EXCEPT ![s] = "start"]
             others == {t \in Pair : repl[t] = "end"}
  <2>1. /\ waits \in [Pair -> {"off", "start", "end", "online", "gone"}]
        /\ \A t \in Pair : waits[t] \in {"end", "online", "gone"} => repl[t] \in {"end", "online", "gone"}
    BY <1>0 DEF Ca!TypeOK
  <2>2. CASE /\ \E t \in others : known' = [known EXCEPT ![s] = known[t]]
             /\ repl' = [repl EXCEPT ![s] = "end"] /\ UNCHANGED <<fifo, child, scripts, aof, missing>>
    <3>1. PICK t \in Pair : repl[t] = "end" /\ known' = [known EXCEPT ![s] = known[t]]
      BY <2>2
    <3>2. Ca!TypeOK'
      BY <1>0, <2>2, <3>1 DEF Ca!TypeOK
    <3>3. t \in Ca!Fed /\ \A u \in Ca!Fed' : u = s \/ u \in Ca!Fed
      BY <1>0, <2>2, <3>1 DEF Ca!Fed, Ca!TypeOK
    <3>4. ASSUME NEW y \in Script, Ca!Knows(y) PROVE Ca!Knows(y)'
      BY <1>0, <1>9, <2>2, <3>1, <3>3, <3>4 DEF Ca!Knows, Ca!Rewriting, Ca!TypeOK, Ca!Fed
    <3> QED BY <1>b, <2>2, <3>2, <3>4
  <2>3. CASE repl' = waits /\ UNCHANGED <<fifo, known, child, scripts, aof, missing>>
    BY <1>0, <1>d, <2>1, <2>3 DEF Ca!TypeOK
  <2>4. CASE Ca!StartBgsave([repl EXCEPT ![s] = "end"], "disk", TRUE) /\ UNCHANGED <<scripts, aof, missing>>
    <3>1. [repl EXCEPT ![s] = "end"] \in [Pair -> {"off", "start", "end", "online", "gone"}]
      BY <1>0 DEF Ca!TypeOK
    <3> QED BY <1>c, <2>4, <3>1
  <2> QED BY <1>9, <2>2, <2>3, <2>4 DEF Ca!Sync
<1>10. ASSUME NEW s \in Pair, Ca!Disconnect(s) \/ Ca!Psync(s) \/ Ca!BacklogLost(s) PROVE Ca!CacheInvariant'
  BY <1>0, <1>10, <1>d DEF Ca!Disconnect, Ca!Psync, Ca!BacklogLost, Ca!TypeOK
<1>11. ASSUME NEW state \in {"off", "wait", "on"}, Ca!RewriteStart(state) PROVE Ca!CacheInvariant'
  <2>1. aof' \in [state : {"off", "wait", "on"}, file : SUBSET Script, new : SUBSET Script, child : BOOLEAN]
    BY <1>0, <1>11 DEF Ca!RewriteStart, Ca!TypeOK
  <2>2. Ca!TypeOK'
    BY <1>0, <1>11, <2>1, EmptyCache DEF Ca!RewriteStart, Ca!TypeOK
  <2> QED BY <1>11, <1>a, <2>2 DEF Ca!RewriteStart
<1>12. ASSUME NEW ok \in BOOLEAN, Ca!RewriteDone(ok) PROVE Ca!CacheInvariant'
  <2>1. /\ aof' \in [state : {"off", "wait", "on"}, file : SUBSET Script, new : SUBSET Script, child : BOOLEAN]
        /\ aof'.child = FALSE /\ aof.child
        /\ \/ aof.state # "off" /\ aof'.file = aof.new
           \/ aof'.state = aof.state /\ aof'.file = aof.file
    BY <1>0, <1>12 DEF Ca!RewriteDone, Ca!TypeOK
  <2>2. Ca!TypeOK'
    BY <1>0, <1>12, <2>1 DEF Ca!RewriteDone, Ca!TypeOK
  <2>3. Ca!Fed' = Ca!Fed /\ ~Ca!Rewriting'
    BY <1>12, <2>1 DEF Ca!RewriteDone, Ca!Fed, Ca!Rewriting
  <2>4. \A y \in Script : Ca!Knows(y) => Ca!Knows(y)'
    BY <1>12, <2>1, <2>3 DEF Ca!Knows, Ca!Rewriting, Ca!RewriteDone
  <2> QED BY <1>12, <1>b, <2>2, <2>4 DEF Ca!RewriteDone
<1>13. CASE Ca!AofOff
  <2>1. /\ aof' \in [state : {"off", "wait", "on"}, file : SUBSET Script, new : SUBSET Script, child : BOOLEAN]
        /\ aof'.state = "off"
    BY <1>0, <1>13 DEF Ca!AofOff, Ca!TypeOK
  <2>2. Ca!TypeOK'
    BY <1>0, <1>13, <2>1 DEF Ca!AofOff, Ca!TypeOK
  <2>3. Ca!Fed' = Ca!Fed /\ ~Ca!Rewriting'
    BY <1>13, <2>1 DEF Ca!AofOff, Ca!Fed, Ca!Rewriting
  <2>4. \A y \in Script : Ca!Knows(y) => Ca!Knows(y)'
    BY <1>13, <2>1, <2>3 DEF Ca!Knows, Ca!AofOff
  <2> QED BY <1>13, <1>b, <2>2, <2>4 DEF Ca!AofOff
<1>14. CASE UNCHANGED Ca!vars
  BY <1>0, <1>14, <1>d DEF Ca!vars, Ca!TypeOK
<1>15. \A state \in IF aof.state = "off" THEN {"off", "wait"} ELSE {aof.state} : state \in {"off", "wait", "on"}
  BY <1>0 DEF Ca!TypeOK
<1>16. CASE \E state \in IF aof.state = "off" THEN {"off", "wait"} ELSE {aof.state} : Ca!RewriteStart(state)
  BY <1>11, <1>15, <1>16
<1>17. CASE Ca!Next
  BY <1>1, <1>2, <1>3, <1>4, <1>5, <1>6, <1>7, <1>8, <1>9, <1>10, <1>12, <1>13, <1>16, <1>17 DEF Ca!Next
<1> QED BY <1>14, <1>17

(* For any scripts, slaves and size of the cache, where no fork fails      *)
(* after slaves were set to wait for its end (ForkFails is FALSE): nobody  *)
(* is sent an EVALSHA of a script that it does not know, and the cache     *)
(* holds only scripts that all who are fed know, each once                 *)
(* (evalShaCommand, startBgsaveForReplication,                             *)
(* replicationScriptCacheAdd, replicationScriptCacheFlush).                *)
THEOREM ScriptsAreKnown == SuiteSpec => []ScriptsKnown
<1>0. Ca!ScriptCacheAssumption
  BY CacheAssumption
<1>1. SuiteInit => ScriptsKnown
  <2> SUFFICES ASSUME SuiteInit, component = "scripts" PROVE Ca!CacheInvariant
    BY DEF ScriptsKnown
  <2>0. Ca!Init
    BY DEF SuiteInit
  <2>1. Ca!TypeOK
    BY <1>0, <2>0, EmptyCache DEF Ca!Init, Ca!TypeOK
  <2> QED
    BY <1>0, <2>0, <2>1, EmptyCache DEF Ca!Init, Ca!CacheInvariant, Ca!CacheIsKnown, Ca!NothingMissing
<1>2. ScriptsKnown /\ [SuiteNext]_allVars => ScriptsKnown'
  <2> SUFFICES ASSUME ScriptsKnown, [SuiteNext]_allVars, component' = "scripts" PROVE Ca!CacheInvariant'
    BY DEF ScriptsKnown
  <2>1. component = "scripts" /\ [Ca!Next]_(Ca!vars)
    BY DEF SuiteNext, allVars, cache, Ca!vars
  <2> QED
    BY <1>0, <2>1, StepKeepsCache DEF ScriptsKnown
<1>3. QED
  BY <1>1, <1>2, PTL DEF SuiteSpec
=============================================================================

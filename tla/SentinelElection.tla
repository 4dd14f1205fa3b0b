-------------------------- MODULE SentinelElection --------------------------
(***************************************************************************)
(* Redis Sentinel (sentinel.c): how the Sentinels of one master agree that *)
(* it is down and elect the one that will fail it over.  Every Sentinel    *)
(* asks the others with SENTINEL is-master-down-by-addr; the same question *)
(* asks for a vote when a failover has been started.                       *)
(*                                                                         *)
(* Time is abstract: a Sentinel may find at any tick that a period is over *)
(* or not.  A link carries one question at a time.  The configuration file *)
(* survives a crash; the run id does not.                                  *)
(***************************************************************************)
EXTENDS Integers, FiniteSets, FiniteSetsExt

CONSTANTS
  Sentinel,   \* the addresses of the Sentinels, all known to each other
  Cut,        \* the Sentinels that have lost the master; the others
              \* still reach it and only vote
  Quorum,     \* master->quorum
  MaxEpoch,   \* bound on current_epoch
  MaxEvents,  \* bound on the exceptional events
  Kinds,      \* the kinds of exceptional events
  Nil         \* no run id: NULL, or "*" in a message

ASSUME ElectionAssumption ==
  /\ IsFiniteSet(Sentinel) /\ Cut \subseteq Sentinel
  /\ Quorum \in 1..Cardinality(Sentinel)
  /\ MaxEpoch \in Nat /\ MaxEvents \in Nat
  /\ Kinds \subseteq {"restart", "failover", "s_down", "lost", "outdated"}
  /\ Nil \notin Sentinel \X (0..MaxEvents)

VARIABLES
  sen,       \* the state of every Sentinel process
  disk,      \* the epochs in its configuration file
  link,      \* link[s][t]: the question of s to t
  cast,      \* history: every vote ever given
  elected,   \* history: every "+elected-leader"
  events     \* the exceptional events so far

vars == <<sen, disk, link, cast, elected, events>>

Other(s) == Sentinel \ {s}
RunId    == Sentinel \X (0..MaxEvents)
Epoch    == 0..MaxEpoch
None     == [epoch |-> 0, runid |-> <<>>]

-----------------------------------------------------------------------------
(* What a process starts with: the epochs of the file, and nothing heard. *)
Started(s, run, epochs) ==
  [run |-> run, current_epoch |-> epochs.current, leader |-> Nil,
   leader_epoch |-> epochs.leader, failover_epoch |-> 0, state |-> "none",
   forced |-> FALSE, s_down |-> FALSE, o_down |-> FALSE,
   peer |-> [t \in Other(s) |-> [down |-> FALSE, leader |-> Nil, epoch |-> 0]]]

MyId(s, r) == <<s, r.run>>

\* Faulty variant: a vote already given in this epoch is given again.
VoteLeaderAgain(r, req_epoch, req_runid) ==
  LET e == Max({r.current_epoch, req_epoch})
  IN  IF r.leader_epoch <= req_epoch /\ e <= req_epoch
      THEN [r EXCEPT !.current_epoch = e, !.leader = req_runid,
                     !.leader_epoch = e]
      ELSE [r EXCEPT !.current_epoch = e]

(* sentinelVoteLeader *)
VoteLeader(r, req_epoch, req_runid) ==
  LET e == Max({r.current_epoch, req_epoch})
  IN  IF r.leader_epoch < req_epoch /\ e <= req_epoch
      THEN [r EXCEPT !.current_epoch = e, !.leader = req_runid,
                     !.leader_epoch = e]
      ELSE [r EXCEPT !.current_epoch = e]

(* Quorum of Sentinels that call the master down, this one included. *)
CheckObjectivelyDown(r) ==
  LET quorum == 1 + Cardinality({t \in DOMAIN r.peer : r.peer[t].down})
  IN  [r EXCEPT !.o_down = r.s_down /\ quorum >= Quorum]

StartFailover(r) ==
  [r EXCEPT !.state = "wait_start", !.current_epoch = @ + 1,
            !.failover_epoch = r.current_epoch + 1]

(* over: the last attempt is longer ago than twice the failover timeout *)
FailoverNeeded(r, over) ==
  r.o_down /\ r.state = "none" /\ over /\ r.current_epoch < MaxEpoch

-----------------------------------------------------------------------------
(***************************************************************************)
(* sentinelGetLeader.  The votes of the others count when they are of the  *)
(* current epoch, one's own when it is of the epoch asked for.  Among      *)
(* equals the winner depends on the order of the dictionary.               *)
(***************************************************************************)
PeerVotes(r, id) ==
  Cardinality({t \in DOMAIN r.peer :
                 r.peer[t].leader = id /\ r.peer[t].epoch = r.current_epoch})

FirstOfPeers(r) ==
  LET named == {r.peer[t].leader : t \in DOMAIN r.peer} \ {Nil}
  IN  {id \in named : /\ PeerVotes(r, id) > 0
                      /\ \A j \in named : PeerVotes(r, j) <= PeerVotes(r, id)}

(* The vote given while counting: to the winner so far, or to oneself. *)
OwnVote(s, r, winner) ==
  VoteLeader(r, r.failover_epoch, IF winner = Nil THEN MyId(s, r) ELSE winner)

(* v: r after its own vote; winner: the first among the others, or Nil *)
IsLeader(s, r, v, winner) ==
  LET own(id) == IF v.leader = id /\ v.leader_epoch = r.failover_epoch THEN 1 ELSE 0
      votes(id) == PeerVotes(r, id) + own(id)
      first == IF winner = Nil THEN 0 ELSE PeerVotes(r, winner)
      me    == MyId(s, r)
      wins  == IF v.leader # Nil /\ votes(v.leader) > first /\ own(v.leader) = 1
               THEN v.leader = me
               ELSE winner = me
  IN  /\ wins
      /\ votes(me) >= Cardinality(Sentinel) \div 2 + 1
      /\ votes(me) >= Quorum

(* sentinelFailoverWaitStart; late: the election has timed out *)
WaitStart(s, r, winner, late) ==
  LET v == OwnVote(s, r, winner)
  IN  IF IsLeader(s, r, v, winner) \/ r.forced
      THEN [v EXCEPT !.state = "select_slave"]
      ELSE IF late THEN [v EXCEPT !.state = "none", !.forced = FALSE] ELSE v

(* The answers that are too old to count are forgotten, each by its own age. *)
Forget(r, stale) ==
  [r EXCEPT !.peer = [t \in DOMAIN r.peer |->
     IF t \in stale THEN [r.peer[t] EXCEPT !.down = FALSE, !.leader = Nil,
                                        !.epoch = 0]
                    ELSE r.peer[t]]]

Question(s, r) ==
  [epoch |-> r.current_epoch,
   runid |-> IF r.state = "none" THEN Nil ELSE MyId(s, r)]

(* sentinelAskMasterStateToOtherSentinels: the links that are free *)
Ask(s, r, links) ==
  [t \in Other(s) |->
     IF r.s_down /\ links[t] = None THEN Question(s, r) ELSE links[t]]

Save(s, r) == disk' = [disk EXCEPT ![s] = [current |-> r.current_epoch,
                                           leader  |-> r.leader_epoch]]

-----------------------------------------------------------------------------
Init ==
  /\ disk = [s \in Sentinel |-> [current |-> 0, leader |-> 0]]
  /\ sen = [s \in Sentinel |->
              [Started(s, 0, disk[s]) EXCEPT !.s_down = s \in Cut]]
  /\ link = [s \in Sentinel |-> [t \in Other(s) |-> None]]
  /\ cast = {}
  /\ elected = {}
  /\ events = 0

Exceptional(kind) ==
  kind \in Kinds /\ events < MaxEvents /\ events' = events + 1

(* sentinelCheckSubjectivelyDown, in the module SentinelLink. *)
CheckSubjectivelyDown(s) ==
  /\ s \in Cut
  /\ Exceptional("s_down")
  /\ sen' = [sen EXCEPT ![s].s_down = ~@]
  /\ UNCHANGED <<disk, link, cast, elected>>

(* What the timer makes of the master's record r, one result for every     *)
(* winner there may be among the others.  elapsed: the delay before the    *)
(* next attempt is over, or the time for the election.                     *)
Handled(s, r, elapsed) ==
  LET seen    == CheckObjectivelyDown(r)
      starts  == FailoverNeeded(seen, elapsed)
      begun   == IF starts THEN StartFailover(seen) ELSE seen
      winners == FirstOfPeers(begun)
      late    == elapsed /\ ~starts
  IN  {[starts |-> starts, begun |-> begun,
        voted |-> IF begun.state = "wait_start" THEN WaitStart(s, begun, winner, late) ELSE begun] :
         winner \in IF winners = {} THEN {Nil} ELSE winners}

(* The part of the timer that looks after the master: a failover that is   *)
(* started asks at once; the answers in stale are forgotten.               *)
HandleMaster(s) ==
  \E elapsed \in BOOLEAN, stale \in SUBSET Other(s) : \E h \in Handled(s, sen[s], elapsed) :
    LET after == Forget(h.voted, stale)
        asked == Ask(s, after, IF h.starts THEN Ask(s, h.begun, link[s]) ELSE link[s])
        votes == after.leader_epoch # sen[s].leader_epoch
        wins  == h.voted.state = "select_slave" /\ h.begun.state = "wait_start"
    IN  /\ after # sen[s] \/ asked # link[s]
        /\ sen' = [sen EXCEPT ![s] = after]
        /\ link' = [link EXCEPT ![s] = asked]
        /\ IF votes THEN Save(s, after) ELSE UNCHANGED disk
        /\ cast' = IF votes THEN cast \cup {<<s, after.leader_epoch, after.leader>>} ELSE cast
        /\ elected' =
             IF wins
             THEN elected \cup {[id |-> MyId(s, h.begun), epoch |-> h.begun.failover_epoch,
                                counted |-> h.begun.current_epoch, forced |-> h.begun.forced]}
             ELSE elected
        /\ IF stale = {} THEN UNCHANGED events ELSE Exceptional("outdated")

(* SENTINEL failover: a failover that needs no agreement. *)
ForceFailover(s) ==
  /\ sen[s].state = "none" /\ sen[s].current_epoch < MaxEpoch
  /\ Exceptional("failover")
  /\ sen' = [sen EXCEPT ![s] = [StartFailover(@) EXCEPT !.forced = TRUE]]
  /\ UNCHANGED <<disk, link, cast, elected>>

(* The failover itself (module SentinelFailover) gives up, or succeeds and *)
(* resets the master under its new address.                                *)
FailoverEnds(s) ==
  /\ sen[s].state = "select_slave"
  /\ \E done \in BOOLEAN :
       sen' = [sen EXCEPT ![s] =
         IF done THEN [@ EXCEPT !.state = "none", !.forced = FALSE,
                                !.leader = Nil, !.s_down = FALSE,
                                !.o_down = FALSE]
                 ELSE [@ EXCEPT !.state = "none", !.forced = FALSE]]
  /\ UNCHANGED <<disk, link, cast, elected, events>>

(* sentinelReceiveIsMasterDownReply *)
ReceiveReply(p, down, leader, epoch) ==
  IF leader = Nil THEN [p EXCEPT !.down = down]
  ELSE [down |-> down, leader |-> leader, epoch |-> epoch]

(***************************************************************************)
(* t answers the question of s.  The vote is saved before the answer is    *)
(* sent.  The answer arrives or is lost; one that comes late is one that   *)
(* is lost, as t gives the same vote when it is asked again.               *)
(***************************************************************************)
IsMasterDownByAddr(s, t) ==
  /\ link[s][t] # None
  /\ LET q == link[s][t]
         v == IF q.runid = Nil THEN sen[t] ELSE VoteLeader(sen[t], q.epoch, q.runid)
         leader == IF q.runid = Nil THEN Nil ELSE v.leader
     IN  /\ \/ /\ sen' = [sen EXCEPT ![t] = v, ![s].peer[t] =
                            ReceiveReply(@, v.s_down, leader, v.leader_epoch)]
               /\ UNCHANGED events
            \/ sen' = [sen EXCEPT ![t] = v] /\ Exceptional("lost")
         /\ IF v # sen[t] THEN Save(t, v) ELSE UNCHANGED disk
         /\ cast' = IF v.leader # sen[t].leader \/ v.leader_epoch # sen[t].leader_epoch
                    THEN cast \cup {<<t, v.leader_epoch, v.leader>>} ELSE cast
  /\ link' = [link EXCEPT ![s][t] = None]
  /\ UNCHANGED elected

(* current_epoch of another Sentinel, as its hello messages carry it *)
HearEpoch(s, t) ==
  /\ sen[t].current_epoch > sen[s].current_epoch
  /\ sen' = [sen EXCEPT ![s].current_epoch = sen[t].current_epoch]
  /\ Save(s, [sen[s] EXCEPT !.current_epoch = sen[t].current_epoch])
  /\ UNCHANGED <<link, cast, elected, events>>

Restart(s) ==
  /\ Exceptional("restart")
  /\ sen' = [sen EXCEPT ![s] = Started(s, @.run + 1, disk[s])]
  /\ link' = [u \in Sentinel |-> [t \in Other(u) |->
                IF s \in {u, t} THEN None ELSE link[u][t]]]
  /\ UNCHANGED <<disk, cast, elected>>

Next ==
  \E s \in Sentinel :
    \/ CheckSubjectivelyDown(s)
    \/ HandleMaster(s)
    \/ ForceFailover(s)
    \/ FailoverEnds(s)
    \/ Restart(s)
    \/ \E t \in Other(s) :
         \/ IsMasterDownByAddr(s, t)
         \/ HearEpoch(s, t)

Spec == Init /\ [][Next]_vars

-----------------------------------------------------------------------------
(* Every Sentinel keeps well-formed state, and no vote is of the future. *)
TypeOK ==
  /\ \A s \in Sentinel :
       /\ sen[s].current_epoch \in Epoch
       /\ sen[s].leader \in RunId \cup {Nil}
       /\ sen[s].leader_epoch \in 0..sen[s].current_epoch
       /\ sen[s].failover_epoch \in 0..sen[s].current_epoch
       /\ sen[s].state \in {"none", "wait_start", "select_slave"}
       /\ disk[s].current \in Epoch /\ disk[s].leader \in Epoch
  /\ cast \subseteq Sentinel \X Epoch \X RunId

(* sentinelVoteLeader: a Sentinel gives one vote per epoch, whatever it is *)
(* asked meanwhile and however often it is restarted.                      *)
OneVotePerEpoch ==
  \A v, w \in cast : v[1] = w[1] /\ v[2] = w[2] => v[3] = w[3]

(* A leader whose epoch has not moved since it stood for election is       *)
(* elected by a majority that has given its votes in that very epoch, and  *)
(* by a quorum at least.                                                   *)
ElectedByMajority ==
  \A e \in elected :
    ~e.forced /\ e.counted = e.epoch =>
      LET voters == {s \in Sentinel : <<s, e.epoch, e.id>> \in cast}
      IN  2 * Cardinality(voters) > Cardinality(Sentinel)
          /\ Cardinality(voters) >= Quorum

(* The point of the epochs: two such leaders never share one. *)
OneLeaderPerEpoch ==
  \A e, f \in elected :
    (/\ ~e.forced /\ e.counted = e.epoch
     /\ ~f.forced /\ f.counted = f.epoch
     /\ e.epoch = f.epoch) => e.id = f.id

(* A Sentinel votes once per epoch, whatever it is asked and however often *)
(* it is restarted; of the leaders that no SENTINEL FAILOVER has forced    *)
(* and whose votes were counted in the epoch of their failover, each has   *)
(* the votes of a majority and no two lead the same epoch                  *)
(* (sentinelVoteLeader, sentinelGetLeader).                                *)
ElectionSafe ==
  TypeOK /\ OneVotePerEpoch /\ ElectedByMajority /\ OneLeaderPerEpoch

(* The comment of sentinelGetLeader: to be a leader for a given epoch a    *)
(* majority must have reported it as leader for the same epoch.            *)
MajorityForTheSameEpoch ==
  \A e \in elected :
    ~e.forced =>
      2 * Cardinality({s \in Sentinel : <<s, e.epoch, e.id>> \in cast})
        > Cardinality(Sentinel)
=============================================================================

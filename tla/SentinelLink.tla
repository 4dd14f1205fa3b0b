---------------------------- MODULE SentinelLink ----------------------------
(***************************************************************************)
(* How a Sentinel watches one master or slave (sentinel.c): its two links, *)
(* PING and the time of the answers, the subjective down state and the     *)
(* tilt mode that protects it from jumps of the clock.                     *)
(*                                                                         *)
(* Time advances in ticks of a second; the timer runs once per tick.  What *)
(* the code keeps as points in time is kept as ages, up to MaxAge.  The    *)
(* greetings of a new link are answered at once, the answers to PING and   *)
(* INFO come in any order, and PUBLISH, which waits for both, is left out. *)
(***************************************************************************)
EXTENDS Integers

CONSTANTS
  down_after_period,
  PING_PERIOD,
  INFO_PERIOD,
  MIN_LINK_RECONNECT_PERIOD,
  PUBLISH_SILENCE,       \* SENTINEL_PUBLISH_PERIOD*3
  TILT_PERIOD,
  MAX_PENDING_COMMANDS,
  AnswerTime,            \* a reachable instance answers within this time
  MaxAge,                \* ages are counted up to here
  MaxTrouble,            \* bound on the failures of the instance or its links
  MaxJumps               \* bound on the jumps of the clock

LinkAssumption ==
  /\ \A c \in {down_after_period, PING_PERIOD, INFO_PERIOD, MIN_LINK_RECONNECT_PERIOD,
               PUBLISH_SILENCE, TILT_PERIOD, MAX_PENDING_COMMANDS, AnswerTime} :
       c \in Nat \ {0}
  /\ MaxAge \in Nat /\ MaxAge > down_after_period
  /\ MaxAge > MIN_LINK_RECONNECT_PERIOD /\ MaxAge > PUBLISH_SILENCE /\ MaxAge > INFO_PERIOD
  /\ AnswerTime < down_after_period
  /\ MaxTrouble \in Nat /\ MaxJumps \in Nat

VARIABLES
  ri,       \* the state of the instance in the Sentinel
  tilt,     \* ticks that tilt mode still lasts
  ran,      \* the timer has run in this tick
  alive,    \* the instance answers
  trouble,  \* how often it, or a link to it, has failed
  jumps

vars == <<ri, tilt, ran, alive, trouble, jumps>>

Age  == 0..MaxAge
Never == MaxAge + 1      \* last_ping_time is 0: no PING waits for an answer

Init ==
  /\ ri = [cc |-> FALSE, pc |-> FALSE, disconnected |-> TRUE, pings |-> 0, infos |-> 0,
           ping |-> 0, pong |-> 0, info |-> MaxAge, ccAge |-> 0, pcAge |-> 0, activity |-> 0,
           s_down |-> FALSE]
  /\ tilt = 0 /\ ran = FALSE /\ alive = TRUE /\ trouble = 0 /\ jumps = 0

(* A link may fail at any time while the instance is down, and every other *)
(* failure counts as trouble.                                              *)
Fails(failure) ==
  /\ (failure /\ alive) => trouble < MaxTrouble
  /\ trouble' = IF failure /\ alive THEN trouble + 1 ELSE trouble

-----------------------------------------------------------------------------
\* Faulty variant: every PING restarts the clock of the down state.
SendPingResetting(r) == [r EXCEPT !.pings = @ + 1, !.ping = 0]

SendPing(r) ==
  [r EXCEPT !.pings = @ + 1, !.ping = IF @ = Never THEN 0 ELSE @]

KillCommandLink(r) ==
  [r EXCEPT !.cc = FALSE, !.pings = 0, !.infos = 0, !.disconnected = TRUE]
KillPubSubLink(r)  == [r EXCEPT !.pc = FALSE, !.disconnected = TRUE]

(* sentinelReconnectInstance; okc, okp: the connection could be started *)
Reconnect(r, okc, okp) ==
  LET c == IF ~r.cc /\ okc THEN SendPing([r EXCEPT !.cc = TRUE, !.ccAge = 0]) ELSE r
      p == IF ~r.pc /\ okp THEN [c EXCEPT !.pc = TRUE, !.pcAge = 0] ELSE c
  IN  IF ~r.disconnected THEN r
      ELSE [p EXCEPT !.disconnected = ~(p.cc /\ p.pc)]

(* sentinelSendPeriodicCommands: INFO when it is due, and only else PING *)
SendPeriodicCommands(r) ==
  IF r.disconnected \/ r.pings + r.infos >= MAX_PENDING_COMMANDS THEN r
  ELSE IF r.info > INFO_PERIOD THEN [r EXCEPT !.infos = @ + 1]
  ELSE IF r.pong > PING_PERIOD THEN SendPing(r) ELSE r

(* sentinelCheckSubjectivelyDown *)
Stuck(r) ==
  /\ r.cc /\ r.ccAge > MIN_LINK_RECONNECT_PERIOD /\ r.ping # Never
  /\ r.ping > down_after_period \div 2 /\ r.pong > down_after_period \div 2

Silent(r) ==
  r.pc /\ r.pcAge > MIN_LINK_RECONNECT_PERIOD /\ r.activity > PUBLISH_SILENCE

CheckSubjectivelyDown(r) ==
  LET c == IF Stuck(r) THEN KillCommandLink(r) ELSE r
      p == IF Silent(c) THEN KillPubSubLink(c) ELSE c
  IN  [p EXCEPT !.s_down = r.ping # Never /\ r.ping > down_after_period]

Judges == tilt = 0

(* sentinelHandleRedisInstance *)
Timer ==
  /\ ~ran /\ ran' = TRUE
  /\ \E okc, okp \in BOOLEAN :
       LET r == SendPeriodicCommands(Reconnect(ri, okc, okp))
       IN  /\ Fails(~okc \/ ~okp)
           /\ ri' = IF Judges THEN CheckSubjectivelyDown(r) ELSE r
  /\ UNCHANGED <<tilt, alive, jumps>>

-----------------------------------------------------------------------------
(* sentinelPingReplyCallback: an answer that shows the instance is there,  *)
(* or one that does not (BUSY, an error).                                  *)
PingReply ==
  /\ ri.cc /\ ri.pings > 0 /\ alive
  /\ \E good \in BOOLEAN :
       /\ Fails(~good)
       /\ ri' = [ri EXCEPT !.pings = @ - 1, !.pong = 0,
                           !.ping = IF good THEN Never ELSE @]
  /\ UNCHANGED <<tilt, ran, alive, jumps>>

(* sentinelInfoReplyCallback; what INFO tells is in SentinelFailover *)
InfoReply ==
  /\ ri.cc /\ ri.infos > 0 /\ alive
  /\ \E good \in BOOLEAN :
       /\ Fails(~good)
       /\ ri' = [ri EXCEPT !.infos = @ - 1, !.info = IF good THEN 0 ELSE @]
  /\ UNCHANGED <<tilt, ran, alive, jumps>>

(* A hello message arrives: sentinelReceiveHelloMessages *)
Hello ==
  /\ ri.pc /\ alive /\ ri.activity > 0
  /\ ri' = [ri EXCEPT !.activity = 0]
  /\ UNCHANGED <<tilt, ran, alive, trouble, jumps>>

(* sentinelDisconnectCallback: answers under way are gone, and counted off *)
LinkDown ==
  /\ Fails(TRUE)
  /\ \/ ri.cc /\ ri' = KillCommandLink(ri)
     \/ ri.pc /\ ri' = KillPubSubLink(ri)
  /\ UNCHANGED <<tilt, ran, alive, jumps>>

InstanceFails ==
  /\ alive /\ trouble < MaxTrouble
  /\ alive' = FALSE /\ trouble' = trouble + 1
  /\ UNCHANGED <<ri, tilt, ran, jumps>>

InstanceReturns ==
  /\ ~alive /\ alive' = TRUE
  /\ UNCHANGED <<ri, tilt, ran, trouble, jumps>>

-----------------------------------------------------------------------------
Older(a, d) == IF a = Never THEN a ELSE IF a + d > MaxAge THEN MaxAge ELSE a + d

Aged(d) == [ri EXCEPT !.ping = Older(@, d), !.pong = Older(@, d),
                      !.info = Older(@, d),
                      !.ccAge = Older(@, d), !.pcAge = Older(@, d),
                      !.activity = Older(@, d)]

(* A reachable instance answers in time, and hello messages keep coming. *)
Prompt ==
  /\ (alive /\ ri.cc /\ ri.pings > 0 /\ ri.ping # Never) => ri.ping < AnswerTime
  /\ (alive /\ ri.pc) => ri.activity < PUBLISH_SILENCE

Tick ==
  /\ ran /\ Prompt
  /\ ran' = FALSE
  /\ ri' = Aged(1)
  /\ tilt' = IF tilt > 0 THEN tilt - 1 ELSE 0
  /\ UNCHANGED <<alive, trouble, jumps>>

(* sentinelCheckTiltCondition: the process was stopped, or the clock set *)
ClockJumps ==
  /\ ran /\ jumps < MaxJumps /\ jumps' = jumps + 1
  /\ ran' = FALSE
  /\ ri' = Aged(MaxAge)
  /\ tilt' = TILT_PERIOD
  /\ UNCHANGED <<alive, trouble>>

Next ==
  \/ Timer \/ PingReply \/ InfoReply \/ Hello \/ LinkDown \/ InstanceFails
  \/ InstanceReturns \/ Tick \/ ClockJumps

(* Starting a connection, which does not wait for the peer, works now and  *)
(* then, also when nobody answers.                                         *)
BothLinksUp == Timer /\ ri'.cc /\ ri'.pc

(* Time passes, the timer runs, and what is reachable answers. *)
Spec ==
  /\ Init /\ [][Next]_vars
  /\ WF_vars(Timer) /\ WF_vars(Tick) /\ WF_vars(PingReply) /\ WF_vars(InfoReply)
  /\ WF_vars(Hello) /\ SF_vars(BothLinksUp)

-----------------------------------------------------------------------------
(* Types of the instance, the clock and the counters. *)
TypeOK ==
  /\ ri \in [cc : BOOLEAN, pc : BOOLEAN, disconnected : BOOLEAN,
             pings : 0..MAX_PENDING_COMMANDS, infos : 0..MAX_PENDING_COMMANDS,
             ping : Age \cup {Never}, pong : Age, info : Age, ccAge : Age, pcAge : Age, activity : Age,
             s_down : BOOLEAN]
  /\ tilt \in 0..TILT_PERIOD /\ ran \in BOOLEAN /\ alive \in BOOLEAN
  /\ trouble \in Nat /\ jumps \in Nat

(* Commands are sent on the link of an instance that is not flagged        *)
(* SRI_DISCONNECTED without looking: then both links exist.                *)
ConnectedHasLinks == ~ri.disconnected => ri.cc /\ ri.pc

(* An instance that has never failed, on links that never failed, is never *)
(* called down, even if the Sentinel was stopped or its clock was set.     *)
NoFalseAlarm == ri.s_down => trouble > 0

(* What makes them hold: a PING is waited for with the command link up, or *)
(* from the timer that killed a slow link to the next, which opens one; so *)
(* the clock of the down state is at most a tick beyond the answer time    *)
(* whenever the timer judges by it.                                        *)
InTime ==
  ri.ping # Never =>
    /\ ri.cc => ri.pings > 0
    /\ ran /\ ~ri.cc => ri.ping <= AnswerTime
    /\ ~ran /\ tilt = 0 => ri.ping <= AnswerTime + (IF ri.cc THEN 0 ELSE 1)

LinkInvariant ==
  /\ TypeOK /\ ConnectedHasLinks /\ NoFalseAlarm
  /\ ~ri.cc => ri.pings = 0 /\ ri.infos = 0
  /\ trouble = 0 => alive /\ InTime

(* What has to follow when an instance stops answering a PING: it is       *)
(* called down, or answers again (sentinelCheckSubjectivelyDown).          *)
Unanswered == ~alive /\ ri.ping # Never
Noticed == ri.s_down \/ alive

(* It has stopped answering after the last PING and before INFO was due.   *)
(* INFO is sent in place of every further PING, so that while the link is  *)
(* there nobody notices (sentinel.c:2367).                                 *)
Overlooked == ri.cc /\ ri.ping = Never /\ ri.info > INFO_PERIOD

(* What has to happen again and again: an instance that answers is not     *)
(* called down (sentinelPingReplyCallback).                                *)
Welcome == ~ri.s_down \/ ~alive
=============================================================================

-------------------------- MODULE SentinelFailover --------------------------
(***************************************************************************)
(* The failover that an elected Sentinel carries out (sentinel.c): choose  *)
(* a slave, promote it, point the other slaves at it, and take its address *)
(* for the master's.  It is driven by the timer and by the INFO output of  *)
(* the instances; commands take their effect later or are lost with the    *)
(* link.  Meanwhile other Sentinels may announce newer configurations and  *)
(* the operator may reset the master.                                      *)
(*                                                                         *)
(* A period may be found over, or not yet, at any tick.  Tilt mode, which  *)
(* only suspends these steps, belongs to SentinelLink.                     *)
(***************************************************************************)
EXTENDS Integers, FiniteSets, FiniteSetsExt

CONSTANTS
  Instance,       \* addresses of the Redis instances
  FirstMaster,    \* the master at the start; the others replicate it
  Preference,     \* rank of an instance for promotion: priority, offset, run id
  parallel_syncs,
  MaxElected,     \* bound on the epochs this Sentinel is elected in
  MaxEpoch,       \* bound on the epochs others announce
  NoOne,          \* what a master replicates
  Nil             \* no instance, no command

FailoverAssumption ==
  /\ FirstMaster \in Instance
  /\ Preference \in [Instance -> Nat]
  /\ \A i, j \in Instance : Preference[i] = Preference[j] => i = j
  /\ parallel_syncs \in Nat \ {0} /\ MaxEpoch \in Nat /\ MaxElected \in 0..MaxEpoch
  /\ {NoOne, Nil} \cap Instance = {} /\ NoOne # Nil

VARIABLES
  addr,        \* master->addr
  state,       \* master->failover_state
  promoted,    \* master->promoted_slave
  epoch,       \* master->config_epoch, failover_epoch and current_epoch
  slaves,      \* master->slaves: the flags of every slave known
  replicates,  \* the instances themselves: whom each replicates
  command      \* the last SLAVEOF sent to an instance and not yet executed

vars == <<addr, state, promoted, epoch, slaves, replicates, command>>

Slave == [s_down : BOOLEAN, disconnected : BOOLEAN, promoted : BOOLEAN,
          reconf : SUBSET {"sent", "inprog", "done"}]   \* SRI_RECONF_...
NewSlave == [s_down |-> FALSE, disconnected |-> TRUE, promoted |-> FALSE,
             reconf |-> {}]
States == {"none", "select_slave", "send_slaveof_noone", "wait_promotion",
           "reconf_slaves"}

Known == DOMAIN slaves

(* sentinelGetCurrentMasterAddress *)
CurrentMaster ==
  IF promoted # Nil /\ state = "reconf_slaves" THEN promoted ELSE addr

Init ==
  /\ addr = FirstMaster
  /\ state = "none"
  /\ promoted = Nil
  /\ epoch = [config |-> 0, failover |-> 0, current |-> 0]
  /\ slaves = [i \in Instance \ {FirstMaster} |->
                 [NewSlave EXCEPT !.disconnected = FALSE]]
  /\ replicates = [i \in Instance |->
                     IF i = FirstMaster THEN NoOne ELSE FirstMaster]
  /\ command = [i \in Instance |-> Nil]

-----------------------------------------------------------------------------
(* The election (module SentinelElection) has been won. *)
Elected ==
  /\ state = "none" /\ epoch.current < MaxElected
  /\ state' = "select_slave"
  /\ epoch' = [epoch EXCEPT !.current = @ + 1, !.failover = epoch.current + 1]
  /\ UNCHANGED <<addr, promoted, slaves, replicates, command>>

\* Faulty variant: the flag of the promoted slave is not taken back.
AbortKeepingFlag ==
  /\ state' = "none" /\ promoted' = Nil
  /\ UNCHANGED <<addr, epoch, slaves, replicates, command>>

(* sentinelAbortFailover *)
Abort ==
  /\ state' = "none" /\ promoted' = Nil
  /\ slaves' = [i \in Known |->
                  IF i = promoted THEN [slaves[i] EXCEPT !.promoted = FALSE]
                                  ELSE slaves[i]]
  /\ UNCHANGED <<addr, epoch, replicates, command>>

(* sentinelSelectSlave: unusable slaves are out, and so are those whose    *)
(* last PING, INFO or master link is too old, which only the clock knows.  *)
Usable == {i \in Known : ~slaves[i].s_down /\ ~slaves[i].disconnected
                         /\ Preference[i] > 0}

SelectSlave ==
  /\ state = "select_slave"
  /\ \E recent \in SUBSET Usable :
       \/ /\ recent = {}
          /\ Abort
       \/ /\ recent # {}
          /\ LET best == CHOOSE i \in recent :
                           \A j \in recent : Preference[i] <= Preference[j]
             IN  /\ promoted' = best
                 /\ slaves' = [slaves EXCEPT ![best].promoted = TRUE]
          /\ state' = "send_slaveof_noone"
          /\ UNCHANGED <<addr, epoch, replicates, command>>

SendSlaveOfNoOne ==
  /\ state = "send_slaveof_noone"
  /\ \/ slaves[promoted].disconnected /\ Abort        \* timeout
     \/ /\ ~slaves[promoted].disconnected
        /\ command' = [command EXCEPT ![promoted] = NoOne]
        /\ state' = "wait_promotion"
        /\ UNCHANGED <<addr, promoted, epoch, slaves, replicates>>

\* Faulty variant: the promotion is waited for without a timeout.
WaitPromotionForever ==
  state = "wait_promotion" /\ UNCHANGED vars

WaitPromotionTimeout ==
  /\ state = "wait_promotion"
  /\ Abort

-----------------------------------------------------------------------------
(* sentinelResetMasterAndChangeAddress: the slaves and the old master, as  *)
(* new instances, under the new address.                                   *)
ChangeAddress(new, known) ==
  /\ addr' = new
  /\ slaves' = [i \in (known \cup {addr}) \ {new} |-> NewSlave]
  /\ state' = "none" /\ promoted' = Nil

Busy(s) == {i \in DOMAIN s : s[i].reconf \cap {"sent", "inprog"} # {}}

(***************************************************************************)
(* The loop of sentinelFailoverReconfNextSlave over the slaves, in any     *)
(* order and while there is room.  A slave that takes too long (expired)   *)
(* is marked as done, and told once more if its link is up.                *)
(***************************************************************************)
Waiting(expired) ==
  {i \in Known : /\ ~slaves[i].promoted /\ ~slaves[i].disconnected
                 /\ slaves[i].reconf = {} \/ i \in expired}

Room == parallel_syncs - Cardinality(Busy(slaves))

Told(expired) ==
  IF Room <= 0 THEN {{}}
  ELSE {t \in SUBSET Waiting(expired) :
          Cardinality(t) = Min({Cardinality(Waiting(expired)), Room})}

(* Expired slaves without a link that the loop has come to. *)
GivenUp(expired, told) ==
  LET lost == {i \in expired : slaves[i].disconnected}
  IN  IF Room <= 0 THEN {{}}
      ELSE IF Cardinality(told) < Room THEN {lost} ELSE SUBSET lost

Reconf(expired, told, lost) ==
  [i \in Known |->
     IF i \in told
     THEN [slaves[i] EXCEPT !.reconf = IF i \in expired THEN {"done", "sent"}
                                                        ELSE {"sent"}]
     ELSE IF i \in lost THEN [slaves[i] EXCEPT !.reconf = {"done"}]
     ELSE slaves[i]]

(* The slaves that sentinelFailoverDetectEnd still waits for. *)
NotReconfigured(s) ==
  {i \in DOMAIN s : ~s[i].promoted /\ "done" \notin s[i].reconf /\ ~s[i].s_down}

(* The slaves that get the last, best effort SLAVEOF. *)
BestEffort(s) ==
  {i \in DOMAIN s : s[i].reconf \cap {"sent", "done"} = {} /\ ~s[i].disconnected}

(* One tick: sentinelFailoverReconfNextSlave, sentinelFailoverDetectEnd    *)
(* and the switch that follows at the end of the same tick.  elapsed: the  *)
(* failover as a whole has timed out.                                      *)
ReconfNextSlave ==
  /\ state = "reconf_slaves"
  /\ \E expired \in SUBSET {i \in Known : slaves[i].reconf = {"sent"}},
       elapsed \in BOOLEAN :
     \E told \in Told(expired) : \E lost \in GivenUp(expired, told) :
       LET s     == Reconf(expired, told, lost)
           ended == /\ ~slaves[promoted].s_down
                    /\ NotReconfigured(s) = {} \/ elapsed
           best  == IF ended /\ elapsed THEN BestEffort(s) ELSE {}
       IN  /\ command' = [i \in Instance |->
                            IF i \in told \cup best THEN promoted ELSE command[i]]
           /\ IF ended THEN ChangeAddress(promoted, Known)
              ELSE slaves' = s /\ UNCHANGED <<addr, state, promoted>>
  /\ UNCHANGED <<epoch, replicates>>

-----------------------------------------------------------------------------
(***************************************************************************)
(* sentinelRefreshInstanceInfo of a slave.  It reports what it replicates  *)
(* and whether that link is up; settled: the master has looked sane, and   *)
(* the slave unchanged and not down, for long enough.                      *)
(***************************************************************************)
PromotionSeen(i) ==
  replicates[i] = NoOne /\ slaves[i].promoted /\ state = "wait_promotion"

InfoOfMasterRole(i, settled) ==
  /\ replicates[i] = NoOne
  /\ IF PromotionSeen(i)
     THEN /\ epoch' = [epoch EXCEPT !.config = epoch.failover]
          /\ state' = "reconf_slaves"
          /\ UNCHANGED command
     ELSE /\ command' = IF ~slaves[i].promoted /\ settled
                        THEN [command EXCEPT ![i] = addr] ELSE command
          /\ UNCHANGED <<epoch, state>>
  /\ UNCHANGED slaves

(* host: the slave has the promoted one for master; up: in sync with it *)
Reconfigured(f, host, up) ==
  LET g == IF "sent" \in f.reconf /\ host
           THEN (f.reconf \ {"sent"}) \cup {"inprog"} ELSE f.reconf
  IN  [f EXCEPT !.reconf = IF "inprog" \in g /\ up
                           THEN (g \ {"inprog"}) \cup {"done"} ELSE g]

InfoOfSlaveRole(i, settled, up) ==
  /\ replicates[i] # NoOne
  /\ command' = IF replicates[i] # addr /\ settled
                THEN [command EXCEPT ![i] = addr] ELSE command
  /\ slaves' = [slaves EXCEPT ![i] = Reconfigured(@, replicates[i] = promoted, up)]
  /\ UNCHANGED <<epoch, state>>

InfoOfSlave(i) ==
  /\ i \in Known /\ ~slaves[i].disconnected
  /\ \E settled, up \in BOOLEAN :
       InfoOfMasterRole(i, settled) \/ InfoOfSlaveRole(i, settled, up)
  /\ UNCHANGED <<addr, promoted, replicates>>

(* INFO of the master lists its slaves; those not known are added. *)
InfoOfMaster ==
  /\ \E i \in Instance \ (Known \cup {addr}) : replicates[i] = addr
  /\ slaves' = [i \in Known \cup {j \in Instance \ {addr} : replicates[j] = addr} |->
                  IF i \in Known THEN slaves[i] ELSE NewSlave]
  /\ UNCHANGED <<addr, state, promoted, epoch, replicates, command>>

-----------------------------------------------------------------------------
(* sentinelProcessHelloMessage: another Sentinel announces the master of    *)
(* its configuration, of epoch e.  A newer one counts, and if the master   *)
(* is another the failover under way is given up for it.  It may be of the *)
(* epoch of that failover: an epoch can have two leaders, see              *)
(* SentinelElection, and SENTINEL failover takes one without an election.  *)
\* Faulty variant: an old configuration is taken over as well.
HelloOfAnyAge(new, e) ==
  /\ new # addr
  /\ ChangeAddress(new, Known)
  /\ epoch' = [epoch EXCEPT !.config = e, !.current = Max({@, e})]
  /\ UNCHANGED <<replicates, command>>

Hello(new, e) ==
  /\ e > epoch.config
  /\ IF new # addr THEN ChangeAddress(new, Known)
     ELSE UNCHANGED <<addr, slaves, state, promoted>>
  /\ epoch' = [epoch EXCEPT !.config = e, !.current = Max({@, e})]
  /\ UNCHANGED <<replicates, command>>

(* SENTINEL reset: sentinelResetMaster *)
ResetMaster ==
  /\ slaves' = [i \in {} |-> NewSlave]
  /\ state' = "none" /\ promoted' = Nil
  /\ UNCHANGED <<addr, epoch, replicates, command>>

(* The links and the judgement of the slaves change (module SentinelLink); *)
(* a command still on the link is lost with it.                            *)
LinkChanges(i) ==
  /\ i \in Known
  /\ \/ /\ slaves' = [slaves EXCEPT ![i].disconnected = ~@]
        /\ command' = [command EXCEPT ![i] = Nil]
     \/ /\ slaves' = [slaves EXCEPT ![i].s_down = ~@]
        /\ UNCHANGED command
  /\ UNCHANGED <<addr, state, promoted, epoch, replicates>>

(* The instance executes the SLAVEOF it has been sent. *)
Execute(i) ==
  /\ command[i] # Nil
  /\ replicates' = [replicates EXCEPT ![i] = command[i]]
  /\ command' = [command EXCEPT ![i] = Nil]
  /\ UNCHANGED <<addr, state, promoted, epoch, slaves>>

Tick == SelectSlave \/ SendSlaveOfNoOne \/ WaitPromotionTimeout \/ ReconfNextSlave

Next ==
  \/ Elected \/ Tick \/ InfoOfMaster \/ ResetMaster
  \/ \E i \in Instance : InfoOfSlave(i) \/ LinkChanges(i) \/ Execute(i)
  \/ \E i \in Instance, e \in 1..MaxEpoch : Hello(i, e)

(* The timer runs ten times a second, and every period ends: these are     *)
(* taken in the end.                                                       *)
TimeoutPasses == SelectSlave \/ SendSlaveOfNoOne \/ WaitPromotionTimeout
FailoverTimesOut == ReconfNextSlave /\ state' = "none"

Spec == Init /\ [][Next]_vars /\ WF_vars(TimeoutPasses) /\ WF_vars(FailoverTimesOut)

-----------------------------------------------------------------------------
(* Types; the master is never among its own slaves. *)
TypeOK ==
  /\ addr \in Instance /\ state \in States
  /\ promoted \in Known \cup {Nil}
  /\ epoch \in [config : 0..MaxEpoch, failover : 0..MaxEpoch, current : 0..MaxEpoch]
  /\ Known \subseteq Instance \ {addr} /\ slaves \in [Known -> Slave]
  /\ replicates \in [Instance -> Instance \cup {NoOne}]
  /\ command \in [Instance -> Instance \cup {NoOne, Nil}]

(* The flag SRI_PROMOTED of a slave and the pointer promoted_slave agree,  *)
(* and exist exactly in the steps that use them, whatever aborts or resets *)
(* came between.                                                           *)
OnePromoted ==
  /\ {i \in Known : slaves[i].promoted} = {promoted} \ {Nil}
  /\ promoted # Nil <=> state \in {"send_slaveof_noone", "wait_promotion",
                                   "reconf_slaves"}

(* sentinelRefreshInstanceInfo reads promoted_slave->addr of every slave   *)
(* that is being reconfigured: then there is one.                          *)
ReconfiguredToSomeone == Busy(slaves) # {} => promoted # Nil

(* What makes them hold: slaves are reconfigured in the last step only,    *)
(* which leaves no flag of it behind.                                      *)
FailoverInvariant ==
  /\ TypeOK /\ OnePromoted /\ ReconfiguredToSomeone
  /\ Busy(slaves) # {} => state = "reconf_slaves"
  /\ epoch.config <= epoch.current /\ epoch.failover <= epoch.current

(* A configuration for the same address, of the epoch of the failover or a *)
(* later one, has come in while the promotion was waited for.  It does not *)
(* stop the failover, and when the promotion is seen config_epoch is set   *)
(* to failover_epoch all the same.                                         *)
Overtaken == state = "wait_promotion" /\ epoch.config >= epoch.failover

(* The operator's reset takes the address back that a failover which has   *)
(* promoted its slave announces already.                                   *)
TakenBack == state = "reconf_slaves" /\ slaves' = [i \in {} |-> NewSlave]

(* The address announced to clients and to the other Sentinels changes     *)
(* only together with a newer configuration epoch, or the other Sentinels  *)
(* would not follow; but for a reset and for a failover overtaken.         *)
AnnouncedByEpoch ==
  CurrentMaster' # CurrentMaster =>
    epoch'.config > epoch.config \/ TakenBack \/ Overtaken

(* The configuration epoch never goes back, but for a failover overtaken   *)
(* by a later epoch.                                                       *)
EpochGrows == epoch'.config >= epoch.config \/ (Overtaken /\ epoch.config > epoch.failover)

(* A failover is under way, and how it may end: with or without success,   *)
(* unless the slave it has promoted is down.                               *)
UnderWay == state # "none"
Over == state = "none" \/ (promoted # Nil /\ slaves[promoted].s_down)
=============================================================================

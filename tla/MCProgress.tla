----------------------------- MODULE MCProgress -----------------------------
(***************************************************************************)
(* The parts of Redis of which something must happen in the end, side by   *)
(* side: the failover, the link of a Sentinel to an instance, snapshots,   *)
(* background threads and the event loop.  A behaviour is one of the       *)
(* component that Init chooses, and the variables of the others rest.      *)
(***************************************************************************)
EXTENDS Integers, TLC

CONSTANTS
  Components,  \* the components of a run
  Off,         \* the value of a variable that rests
  Instance, FirstMaster, Preference, parallel_syncs, MaxElected, MaxEpoch, NoOne, Nil,   \* of SentinelFailover
  down_after_period, PING_PERIOD, INFO_PERIOD, MIN_LINK_RECONNECT_PERIOD, PUBLISH_SILENCE, TILT_PERIOD,
  MAX_PENDING_COMMANDS, AnswerTime, MaxAge, MaxTrouble, MaxJumps,                        \* of SentinelLink
  Changes, MaxChanges, MaxCommands, MaxErrors, MaxCrashes, DebugCommands, DebugErrors,   \* of Snapshots
  Type, MaxJobs,                                                                         \* of BackgroundJobs
  MaxFd, SetSizes                                                                        \* of EventLoop

VARIABLES
  component,
  addr, state, promoted, epoch, slaves, replicates, command,   \* SentinelFailover
  ri, tilt, ran, alive, trouble, jumps,                        \* SentinelLink
  power, data, srv, child, tmp, disk, count,                   \* Snapshots
  mutex, jobs, pending, bio, main, created, done, seen,        \* BackgroundJobs
  kind, mask, kernel, maxfd, setsize, avail, fired, stage, rfired, moved, call   \* EventLoop

failover == <<addr, state, promoted, epoch, slaves, replicates, command>>
link == <<ri, tilt, ran, alive, trouble, jumps>>
snapshots == <<power, data, srv, child, tmp, disk, count>>
threads == <<mutex, jobs, pending, bio, main, created, done, seen>>
loop == <<kind, mask, kernel, maxfd, setsize, avail, fired, stage, rfired, moved, call>>
allVars == <<component, failover, link, snapshots, threads, loop>>

-----------------------------------------------------------------------------
Fo == INSTANCE SentinelFailover
Li == INSTANCE SentinelLink

(* Without DEBUG RELOAD, which counts the changes from 0 while a child     *)
(* saves older ones, and with it                                           *)
Sn == INSTANCE Snapshots WITH Debug <- FALSE
De == INSTANCE Snapshots WITH Debug <- TRUE, MaxCommands <- DebugCommands, MaxErrors <- DebugErrors

Bj == INSTANCE BackgroundJobs

(* The array of events does not move when it is resized *)
Ev == INSTANCE EventLoop WITH Moves <- FALSE

ASSUME FailoverAssumption == Fo!FailoverAssumption
ASSUME LinkAssumption == Li!LinkAssumption
ASSUME SnapshotsAssumption == Sn!SnapshotsAssumption /\ De!SnapshotsAssumption
ASSUME ThreadsAssumption == Bj!BackgroundJobsAssumption
ASSUME LoopAssumption == Ev!EventLoopAssumption

(* The instances of a run in the order of their numbers *)
Ranks == <<3, 1, 2>>

-----------------------------------------------------------------------------
Init ==
  /\ component \in Components
  /\ IF component = "failover" THEN Fo!Init ELSE
       /\ addr = Off /\ state = Off /\ promoted = Off /\ epoch = Off /\ slaves = Off
       /\ replicates = Off /\ command = Off
  /\ IF component = "link" THEN Li!Init ELSE
       ri = Off /\ tilt = Off /\ ran = Off /\ alive = Off /\ trouble = Off /\ jumps = Off
  /\ IF component \in {"snapshots", "debug"} THEN Sn!Init ELSE
       power = Off /\ data = Off /\ srv = Off /\ child = Off /\ tmp = Off /\ disk = Off /\ count = Off
  /\ IF component = "threads" THEN Bj!Init ELSE
       /\ mutex = Off /\ jobs = Off /\ pending = Off /\ bio = Off /\ main = Off
       /\ created = Off /\ done = Off /\ seen = Off
  /\ IF component = "loop" THEN Ev!Init ELSE
       /\ kind = Off /\ mask = Off /\ kernel = Off /\ maxfd = Off /\ setsize = Off /\ avail = Off
       /\ fired = Off /\ stage = Off /\ rfired = Off /\ moved = Off /\ call = Off

Next ==
  \/ component = "failover" /\ Fo!Next /\ UNCHANGED <<component, link, snapshots, threads, loop>>
  \/ component = "link" /\ Li!Next /\ UNCHANGED <<component, failover, snapshots, threads, loop>>
  \/ component = "snapshots" /\ Sn!Next /\ UNCHANGED <<component, failover, link, threads, loop>>
  \/ component = "debug" /\ De!Next /\ UNCHANGED <<component, failover, link, threads, loop>>
  \/ component = "threads" /\ Bj!Next /\ UNCHANGED <<component, failover, link, snapshots, loop>>
  \/ component = "loop" /\ Ev!Next /\ UNCHANGED <<component, failover, link, snapshots, threads>>

(* The fairness of the components, each where it applies *)
FailoverFair ==
  /\ WF_failover(component = "failover" /\ Fo!TimeoutPasses)
  /\ WF_failover(component = "failover" /\ Fo!FailoverTimesOut)

LinkFair ==
  /\ WF_link(component = "link" /\ Li!Timer) /\ WF_link(component = "link" /\ Li!Tick)
  /\ WF_link(component = "link" /\ Li!PingReply) /\ WF_link(component = "link" /\ Li!InfoReply)
  /\ WF_link(component = "link" /\ Li!Hello)
  /\ SF_link(component = "link" /\ Li!BothLinksUp)

DebugFair ==
  /\ WF_snapshots(component = "debug" /\ De!Cron) /\ WF_snapshots(component = "debug" /\ De!CronExits)
  /\ WF_snapshots(component = "debug" /\ De!Late) /\ WF_snapshots(component = "debug" /\ De!Retry)
  /\ WF_snapshots(component = "debug" /\ De!Child)
  /\ WF_snapshots(component = "debug" /\ De!KilledChildDies)
  /\ WF_snapshots(component = "debug" /\ De!AofChild)

ThreadsFair ==
  \A t \in Type :
    /\ WF_threads(component = "threads" /\ Bj!Main(t)) /\ WF_threads(component = "threads" /\ Bj!Check(t))
    /\ WF_threads(component = "threads" /\ Bj!Work(t))
    /\ WF_threads(component = "threads" /\ Bj!TakesMutex(t))

LoopFair == WF_loop(component = "loop" /\ Ev!Step)

Spec == Init /\ [][Next]_allVars /\ FailoverFair /\ LinkFair /\ DebugFair /\ ThreadsFair /\ LoopFair

-----------------------------------------------------------------------------
(* A failover that has started ends, with or without success and whatever  *)
(* is lost on the way, unless the slave it has promoted is down            *)
(* (sentinelFailoverStateMachine and its timeouts).                        *)
FailoverEnds == (component = "failover" /\ Fo!UnderWay) ~> (component = "failover" => Fo!Over)

(* An instance that leaves a PING unanswered is called down, also if the   *)
(* links to it are established again and again or the clock jumps; one     *)
(* that stops answering otherwise is either called down as well or is      *)
(* overlooked, because INFO is due and keeps PINGs from being sent; one    *)
(* that answers does not stay down (sentinelCheckSubjectivelyDown,         *)
(* sentinelSendPeriodicCommands, sentinelReconnectInstance).               *)
DeathIsNoticed ==
  /\ (component = "link" /\ Li!Unanswered) ~> (component = "link" => Li!Noticed)
  /\ (component = "link" /\ ~alive) ~> (component = "link" => Li!Noticed \/ Li!Overlooked)
  /\ []<>(component = "link" => Li!Welcome)

(* What was left for later is done: changes get into a snapshot in spite   *)
(* of failures (serverCron), jobs of the threads are carried out           *)
(* (bioProcessBackgroundJobs), and who has sent something is read from     *)
(* (aeProcessEvents).                                                      *)
LeftIsDone ==
  /\ (component = "debug" /\ De!ToSave) ~> (component = "debug" => De!HasSaved)
  /\ (component = "threads" /\ Bj!AllCreated) ~> (component = "threads" => Bj!AllDone)
  /\ \A fd \in Ev!Fd : (component = "loop" /\ Ev!HasSent(fd)) ~> (component = "loop" => ~Ev!HasSent(fd))

(* No component gets into a state its next step cannot stand: flags and    *)
(* pointers of the failover and of the links agree, no live instance is    *)
(* called down before something failed, no change is missing from the      *)
(* count of those to save, no snapshot is renamed before it is on disk, no *)
(* job is taken for done that is not or slept over, and a handler runs     *)
(* only for a descriptor that is open and an event registered for it now.  *)
(* (The descriptor may have got a new owner in the same pass, who then     *)
(* gets the event of the old one; snapshots are without DEBUG RELOAD; the  *)
(* array of events stays in place when it is resized.)                     *)
Consistent ==
  /\ component = "failover" => Fo!FailoverInvariant
  /\ component = "link" => Li!LinkInvariant
  /\ component = "snapshots" => Sn!SnapshotsInvariant /\ Sn!NothingForgotten /\ Sn!ShutdownSaves /\ Sn!WholeDump /\ Sn!NoTempLeft
  /\ component = "threads" => Bj!JobsInvariant /\ Bj!InOrder /\ Bj!CountsQueue
  /\ component = "loop" => Ev!LoopInvariant /\ Ev!CallsRegistered /\ Ev!OneHandlerOnce /\ Ev!KernelAgrees /\ Ev!MaxFdExact

(* What was agreed on is not taken back.  The address of the master        *)
(* changes only with a newer configuration epoch, and that epoch never     *)
(* decreases (sentinelProcessHelloMessage), but in two cases: an operator  *)
(* resets a master whose failover has promoted its slave (TakenBack), or   *)
(* the promotion is seen of a failover that a configuration of its epoch   *)
(* or a later one for the old address has overtaken (Overtaken).  No       *)
(* snapshot is replaced by an older one, but by a crash (rdbSave).         *)
NeverBack ==
  [][/\ component = "failover" => Fo!AnnouncedByEpoch /\ Fo!EpochGrows
     /\ component = "snapshots" => Sn!NeverOlder]_allVars
=============================================================================

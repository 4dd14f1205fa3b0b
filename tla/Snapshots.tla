----------------------------- MODULE Snapshots ------------------------------
(***************************************************************************)
(* Snapshots on disk (rdb.c, redis.c: serverCron and prepareForShutdown,   *)
(* db.c: FLUSHALL): the server counts the changes since the last snapshot, *)
(* forks a child that writes a temporary file and renames it, learns of    *)
(* its end at some later time, saves by itself in SAVE, FLUSHALL and       *)
(* SHUTDOWN, and loads the file when it starts.                            *)
(*                                                                         *)
(* A data set is the number of changes that made it.  The append only file *)
(* is off; its child counts, since the two kinds of children wait for each *)
(* other.  A crash is one of the machine: no child survives it.            *)
(***************************************************************************)
EXTENDS Integers, FiniteSets

CONSTANTS
  Changes,      \* changes of the one save point
  Debug,        \* whether DEBUG RELOAD is used
  MaxChanges,   \* bound on the changes
  MaxCommands,  \* bound on the commands of an administrator
  MaxErrors,    \* bound on failing writes and forks and on killed children
  MaxCrashes    \* bound on the crashes

SnapshotsAssumption ==
  /\ Changes \in Nat \ {0} /\ Debug \in BOOLEAN
  /\ MaxChanges \in Nat /\ MaxCommands \in Nat /\ MaxErrors \in Nat /\ MaxCrashes \in Nat

VARIABLES
  power,  \* "up", "saved": SHUTDOWN has saved, "gone": SHUTDOWN NOSAVE or a crash
  data,   \* the data set
  srv,    \* the server's variables
  child,  \* the process that writes a snapshot
  tmp,    \* its temporary file: "none", "partial", "complete" or "synced"
  disk,   \* the snapshot, and the one before, which a crash can bring back
  count   \* commands, errors and crashes so far

vars == <<power, data, srv, child, tmp, disk, count>>

-----------------------------------------------------------------------------
NoChild == [state |-> "none", snap |-> 0, signal |-> FALSE]

(* The file that a rename makes of a temporary file *)
FileOf(v, t) == [v |-> v, whole |-> t # "partial", synced |-> t = "synced"]
File(v) == FileOf(v, "synced")

(* initServerConfig, initServer.  late: more than the seconds of the save  *)
(* point since lastsave; retry: more than REDIS_BGSAVE_RETRY_DELAY since   *)
(* lastbgsave_try.                                                         *)
Started ==
  [dirty |-> 0, before |-> 0, ok |-> TRUE, late |-> FALSE, retry |-> TRUE,
   rdb |-> "none", aof |-> "none", scheduled |-> FALSE, asap |-> FALSE]

Init ==
  /\ power = "up" /\ data = 0 /\ srv = Started /\ child = NoChild /\ tmp = "none"
  /\ disk = [dump |-> File(0), old |-> File(0)]
  /\ count = [commands |-> 0, errors |-> 0, crashes |-> 0]

(* What a handler changes is threaded through its steps as a record; a step that may fail gives the set of *)
(* its outcomes. *)
State == [srv |-> srv, child |-> child, tmp |-> tmp, disk |-> disk, errors |-> count.errors]

Become(S) ==
  /\ srv' = S.srv /\ child' = S.child /\ tmp' = S.tmp /\ disk' = S.disk
  /\ count' = [count EXCEPT !.errors = S.errors]

Command(S) ==
  /\ count.commands < MaxCommands
  /\ srv' = S.srv /\ child' = S.child /\ tmp' = S.tmp /\ disk' = S.disk
  /\ count' = [count EXCEPT !.errors = S.errors, !.commands = @ + 1]

Error(S) == {T \in {[S EXCEPT !.errors = @ + 1]} : T.errors <= MaxErrors}

Renamed(d, f) == [dump |-> f, old |-> d.dump]

(* rdbSave in the server itself, which writes, syncs and then renames *)
Saved(S, v) == [S EXCEPT !.disk = Renamed(@, File(v)), !.srv.dirty = 0, !.srv.late = FALSE, !.srv.ok = TRUE]

(* rdbSaveBackground; the fork may fail *)
Forked(S) ==
  LET S1 == [S EXCEPT !.srv.before = S.srv.dirty, !.srv.retry = FALSE]
  IN  {[S1 EXCEPT !.srv.rdb = "disk", !.child = [NoChild EXCEPT !.state = "start", !.snap = data]]}
        \cup Error([S1 EXCEPT !.srv.ok = FALSE])

(* rdbSaveToSlavesSockets; a failed fork is not a failed snapshot *)
ForkedSocket(S) ==
  {[S EXCEPT !.srv.rdb = "socket", !.child = [NoChild EXCEPT !.state = "sending", !.snap = data]]} \cup Error(S)

(* rewriteAppendOnlyFileBackground *)
ForkedAof(S) == {[S EXCEPT !.srv.aof = "running", !.srv.scheduled = FALSE]} \cup Error(S)

Running == {"start", "writing", "flushed", "written", "renamed", "sending"}

(* kill(SIGUSR1) and rdbRemoveTempFile.  The child may be in the middle of one operation on the disk, which *)
(* is still done; it may also have ended, and only the end is not known yet. *)
Killed(S) ==
  IF S.srv.rdb = "none" THEN S ELSE [S EXCEPT !.child.signal = S.child.state \in Running, !.tmp = "none"]

-----------------------------------------------------------------------------
(* The child: rdbSave with its steps on the disk, and the end of the process. *)
Ends(S, state) == [S EXCEPT !.child.state = IF S.child.signal THEN "signalled" ELSE state]

Open(S) == {Ends([S EXCEPT !.tmp = "partial"], "writing")}

(* To write the rest, and to sync, after which the file has the contents t *)
WriteTo(S, t, state) ==
  {Ends([S EXCEPT !.tmp = IF @ = "none" THEN "none" ELSE t], state)}
    \cup {Ends([T EXCEPT !.tmp = "none"], "exit1") : T \in Error(S)}
Flush(S) == WriteTo(S, "complete", "flushed")
Sync(S)  == WriteTo(S, "synced", "written")

Rename(S) ==
  IF S.tmp = "none" THEN {Ends(S, "exit1")}
  ELSE {Ends([S EXCEPT !.tmp = "none", !.disk = Renamed(@, FileOf(S.child.snap, S.tmp))], "renamed")}
         \cup {Ends([T EXCEPT !.tmp = "none"], "exit1") : T \in Error(S)}

Child ==
  /\ \/ child.state = "start" /\ \E S \in Open(State) : Become(S)
     \/ child.state = "writing" /\ \E S \in Flush(State) : Become(S)
     \/ child.state = "flushed" /\ \E S \in Sync(State) : Become(S)
     \/ child.state = "written" /\ \E S \in Rename(State) : Become(S)
     \/ child.state = "renamed" /\ Become(Ends(State, "exit0"))
     \/ child.state = "sending" /\ Become(Ends(State, "exit0"))
     \/ child.state = "sending" /\ \E S \in Error(State) : Become(Ends(S, "exit1"))
  /\ UNCHANGED <<power, data>>

Dies ==
  /\ child.state \in Running
  /\ \/ child.signal /\ Become([State EXCEPT !.child.state = "signalled"])
     \/ \E S \in Error(State) : Become([S EXCEPT !.child.state = "killed"])   \* by the kernel
  /\ UNCHANGED <<power, data>>

AofChild ==
  /\ srv.aof = "running"
  /\ srv' = [srv EXCEPT !.aof = "ended"]
  /\ UNCHANGED <<power, data, child, tmp, disk, count>>

-----------------------------------------------------------------------------
(* backgroundSaveDoneHandlerDisk *)
DoneDisk(S) ==
  LET T == [S EXCEPT !.srv.rdb = "none", !.child = NoChild]
  IN  IF S.child.state = "exit0"
      THEN [T EXCEPT !.srv.dirty = @ - S.srv.before, !.srv.late = FALSE, !.srv.ok = TRUE]
      ELSE IF S.child.state = "exit1" THEN [T EXCEPT !.srv.ok = FALSE]
      ELSE IF S.child.state = "signalled" THEN [T EXCEPT !.tmp = "none"]
      ELSE [T EXCEPT !.tmp = "none", !.srv.ok = FALSE]   \* killed

(* backgroundSaveDoneHandlerSocket, whose messages to the slaves are in Replication *)
DoneSocket(S) == [S EXCEPT !.srv.rdb = "none", !.child = NoChild]

(* backgroundSaveDoneHandler *)
Done(S) == IF S.srv.rdb = "disk" THEN DoneDisk(S) ELSE DoneSocket(S)

NoChildren(S) == S.srv.rdb = "none" /\ S.srv.aof = "none"

(* serverCron: a rewrite that waited *)
CronRewrite(S) == IF NoChildren(S) /\ S.srv.scheduled THEN ForkedAof(S) ELSE {S}

(* serverCron: wait3, or the save point *)
CronChildren(S) ==
  IF ~NoChildren(S) THEN
    LET ended == (IF S.srv.rdb # "none" /\ S.child.state \notin Running THEN {Done(S)} ELSE {})
                   \cup (IF S.srv.aof = "ended" THEN {[S EXCEPT !.srv.aof = "none"]} ELSE {})
    IN  IF ended = {} THEN {S} ELSE ended
  ELSE IF S.srv.dirty >= Changes /\ S.srv.late /\ (S.srv.retry \/ S.srv.ok) THEN Forked(S)
  ELSE {S}

(* prepareForShutdown, with a save or without one; exits: the states in which the server exits, stays: in *)
(* which it goes on *)
Exits(S, save) == IF save THEN {Saved(Killed(S), data)} ELSE {Killed(S)}
Stays(S, save) == IF save THEN Error(Killed(S)) ELSE {}

(* serverCron: SIGTERM was received *)
Cron ==
  /\ power = "up"
  /\ \E S0 \in IF srv.asap THEN {[T EXCEPT !.srv.asap = FALSE] : T \in Stays(State, TRUE)} ELSE {State} :
     \E S1 \in CronRewrite(S0) : \E S2 \in CronChildren(S1) : Become(S2)
  /\ UNCHANGED <<power, data>>

CronExits ==
  /\ power = "up" /\ srv.asap
  /\ \E S \in Exits(State, TRUE) : Become(S)
  /\ power' = "saved" /\ UNCHANGED data

Late  == power = "up" /\ srv' = [srv EXCEPT !.late = TRUE] /\ UNCHANGED <<power, data, child, tmp, disk, count>>
Retry == power = "up" /\ srv' = [srv EXCEPT !.retry = TRUE] /\ UNCHANGED <<power, data, child, tmp, disk, count>>

-----------------------------------------------------------------------------
(* Commands.  A write is refused after a failed snapshot (stop-writes-on-bgsave-error). *)
Write ==
  /\ power = "up" /\ srv.ok /\ data < MaxChanges
  /\ data' = data + 1 /\ srv' = [srv EXCEPT !.dirty = @ + 1]
  /\ UNCHANGED <<power, child, tmp, disk, count>>

(* flushallCommand; the changes go on counting, for the propagation.  removed: whether there was a key *)
Flushall ==
  /\ power = "up" /\ srv.ok /\ data < MaxChanges
  /\ data' = data + 1
  /\ \E removed \in {0, 1} :
       LET S == [Killed(State) EXCEPT !.srv.dirty = @ + removed]
       IN  \E T \in {Saved(S, data + 1)} \cup Error(S) : Command([T EXCEPT !.srv.dirty = S.srv.dirty + 1])
  /\ UNCHANGED power

(* saveCommand *)
Save ==
  /\ power = "up" /\ srv.rdb = "none"
  /\ \E S \in {Saved(State, data)} \cup Error(State) : Command(S)
  /\ UNCHANGED <<power, data>>

(* bgsaveCommand; and startBgsaveForReplication of a SYNC, which does not look at the other child *)
Bgsave ==
  /\ power = "up" /\ srv.rdb = "none"
  /\ \E S \in Forked(State) : Command(S)
  /\ UNCHANGED <<power, data>>

(* replicationCron, with repl-diskless-sync *)
BgsaveSocket ==
  /\ power = "up" /\ NoChildren(State)
  /\ \E S \in ForkedSocket(State) : Command(S)
  /\ UNCHANGED <<power, data>>

(* bgrewriteaofCommand *)
Bgrewriteaof ==
  /\ power = "up" /\ srv.aof = "none"
  /\ \E S \in IF srv.rdb # "none" THEN {[State EXCEPT !.srv.scheduled = TRUE]} ELSE ForkedAof(State) : Command(S)
  /\ UNCHANGED <<power, data>>

(* shutdownCommand *)
Shutdown ==
  /\ power = "up"
  /\ \E save \in BOOLEAN :
       \/ \E S \in Exits(State, save) : Command(S) /\ power' = IF save THEN "saved" ELSE "gone"
       \/ \E S \in Stays(State, save) : Command(S) /\ UNCHANGED power
  /\ UNCHANGED data

(* sigShutdownHandler *)
Sigterm == power = "up" /\ Command([State EXCEPT !.srv.asap = TRUE]) /\ UNCHANGED <<power, data>>

(* DEBUG RELOAD; what is loaded is what was saved *)
Reload ==
  /\ power = "up" /\ Debug
  /\ \E S \in {Saved(State, data)} \cup Error(State) : Command(S)
  /\ UNCHANGED <<power, data>>

(* The machine stops.  What was written and not synced may be lost, a rename too. *)
Crash ==
  /\ power = "up" /\ count.crashes < MaxCrashes
  /\ power' = "gone" /\ child' = NoChild
  /\ \E f \in {disk.dump, disk.old} : disk' = [dump |-> [f EXCEPT !.whole = f.synced], old |-> disk.old]
  /\ count' = [count EXCEPT !.crashes = @ + 1]
  /\ UNCHANGED <<data, srv, tmp>>

(* main, loadDataFromDisk; a temporary file that is left has the number of another process *)
Start ==
  /\ power # "up" /\ child.state \notin Running /\ disk.dump.whole
  /\ power' = "up" /\ data' = disk.dump.v /\ srv' = Started /\ child' = NoChild /\ tmp' = "none"
  /\ UNCHANGED <<disk, count>>

Next ==
  \/ Child \/ Dies \/ AofChild \/ Cron \/ CronExits \/ Late \/ Retry
  \/ Write \/ Flushall \/ Save \/ Bgsave \/ BgsaveSocket \/ Bgrewriteaof
  \/ Shutdown \/ Sigterm \/ Reload \/ Crash \/ Start

KilledChildDies == child.signal /\ Dies

(* The timer of serverCron fires again and again, time goes on, children are scheduled *)
Spec ==
  /\ Init /\ [][Next]_vars
  /\ WF_vars(Cron) /\ WF_vars(CronExits) /\ WF_vars(Late) /\ WF_vars(Retry)
  /\ WF_vars(Child) /\ WF_vars(KilledChildDies) /\ WF_vars(AofChild)

-----------------------------------------------------------------------------
(* The changes that are not in the snapshot are counted, so that the save  *)
(* points see them, with changes, snapshots and FLUSHALL made while a      *)
(* child saves (rdb.c:1246).                                               *)
NothingForgotten == power = "up" => srv.dirty >= data - disk.dump.v /\ srv.dirty >= 0

(* A snapshot is never replaced by an older one, whatever a child that is  *)
(* being killed still does (redis.c:2197).                                 *)
NeverOlder == count'.crashes = count.crashes => disk'.dump.v >= disk.dump.v

(* When SHUTDOWN ends the server the last change is in the snapshot, and   *)
(* stays in it.                                                            *)
ShutdownSaves == power = "saved" => disk.dump.v = data

(* Whenever the machine stops there is a complete snapshot: what is        *)
(* renamed is on the disk with all of its contents, also if the child was  *)
(* killed or its file removed in between (rdb.c:741).                      *)
WholeDump == disk.dump.whole /\ disk.dump.synced

(* No temporary file is left when no child is known.                       *)
NoTempLeft == power = "up" /\ srv.rdb = "none" => tmp = "none"

(* What makes them hold, without DEBUG RELOAD.  A temporary file is there  *)
(* only before the rename or of a child that died, and is synced before    *)
(* the rename; no child that was told to stop has one to rename; any other *)
(* writes a newer snapshot than the one on disk.                           *)
Files == [v : Nat, whole : {TRUE}, synced : {TRUE}]
Servers ==
  [dirty : Nat, before : Nat, ok : BOOLEAN, late : BOOLEAN, retry : BOOLEAN,
   rdb : {"none", "disk", "socket"}, aof : {"none", "running", "ended"},
   scheduled : BOOLEAN, asap : BOOLEAN]
Children ==
  [state : Running \cup {"none", "exit0", "exit1", "signalled", "killed"}, snap : Nat, signal : BOOLEAN]
States ==
  [srv : Servers, child : Children, tmp : {"none", "partial", "complete", "synced"},
   disk : [dump : Files, old : Files], errors : Nat]

Harmless(S) ==
  /\ S.child.state \in {"renamed", "exit0", "exit1", "sending"} => S.tmp = "none"
  /\ S.child.state = "written" => S.tmp \in {"none", "synced"}
  /\ S.child.signal /\ S.child.state = "written" => S.tmp = "none"
  /\ ~S.child.signal /\ S.child.state \in {"start", "writing", "flushed", "written"} => S.disk.dump.v <= S.child.snap

(* A server that is up knows its child, and the changes since the fork are *)
(* those since the count it has kept from then.                            *)
Watched(S, d) ==
  /\ S.disk.dump.v <= d /\ S.srv.dirty >= d - S.disk.dump.v
  /\ S.srv.rdb = "none" <=> S.child.state = "none"
  /\ S.srv.rdb \in {"none", "socket"} => S.tmp = "none"
  /\ S.srv.rdb = "socket" => S.child.state \in {"sending", "exit0", "exit1", "signalled", "killed"}
  /\ S.srv.rdb = "disk" =>
       /\ S.child.state # "sending" /\ S.child.snap <= d
       /\ S.srv.dirty - S.srv.before >= d - S.child.snap
       /\ S.child.state \in {"renamed", "exit0"} => S.child.snap <= S.disk.dump.v

SnapshotsInvariant ==
  /\ power \in {"up", "saved", "gone"} /\ data \in Nat
  /\ count \in [commands : Nat, errors : Nat, crashes : Nat]
  /\ State \in States /\ Harmless(State)
  /\ power = "up" => Watched(State, data)
  /\ power # "up" => (child.state \in Running => child.signal)
  /\ power = "saved" => disk.dump.v = data

(* As many changes as the save point has are saved sometime (redis.conf:   *)
(* 126), with failures, killed children and rewrites of the append only    *)
(* file in between.                                                        *)
ToSave == power = "up" /\ srv.dirty >= Changes
HasSaved == power # "up" \/ srv.dirty < Changes
=============================================================================

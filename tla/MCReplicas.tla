----------------------------- MODULE MCReplicas -----------------------------
(***************************************************************************)
(* Redis over several machines and across crashes, side by side: the       *)
(* election of Sentinels, a master and its slaves, the role of a slave,    *)
(* the append only file, and the script cache.  A behaviour is one of the  *)
(* component that SuiteInit chooses, and the variables of the others rest. *)
(* The election is the module itself, with its constants from the          *)
(* configuration: three Sentinels, one exceptional event of any kind.      *)
(***************************************************************************)
EXTENDS SentinelElection, TLC

CONSTANTS
  Components,  \* the components of a run
  Off,         \* the value of a variable that rests
  Pair,        \* the slaves; interchangeable, as are the Sentinels in Cut
  Host, MaxSockets, MaxSlaveof,   \* of SlaveRole
  Script, CacheSize               \* of ScriptCache

VARIABLES
  component,
  mas, cls, sla, items, forks, drops, turns,        \* Replication
  server, sockets, sets, slaveofs,                  \* SlaveRole
  hist, log, file, synced, bio, durable, count,     \* AppendOnlyFile
  scripts, fifo, repl, known, child, aof, missing   \* ScriptCache

replication == <<mas, cls, sla, items, forks, drops, turns>>
role == <<server, sockets, sets, slaveofs>>
appendOnly == <<hist, log, file, synced, bio, durable, count>>
cache == <<scripts, fifo, repl, known, child, aof, missing>>
allVars == <<component, vars, replication, role, appendOnly, cache>>

-----------------------------------------------------------------------------
(* Saves for one slave, with backlogs that are too short and long enough;  *)
(* saves to disk that slaves share; saves to the sockets of the slaves.    *)
(* The last two lose no connections: a slave that waited for the start of  *)
(* a save has an offset that is too low, and would continue from it.       *)
One == INSTANCE Replication
         WITH m <- mas, c <- cls, sl <- sla, events <- turns, Slave <- Pair, DB <- {0, 1}, BacklogSize <- {1, 3}, diskless_sync <- FALSE, SyncDuringSave <- FALSE,
              MaxItems <- 2, MaxForkFailures <- 1, MaxDrops <- 2, MaxEvents <- 1
Shared == INSTANCE Replication
            WITH m <- mas, c <- cls, sl <- sla, events <- turns, Slave <- Pair, DB <- {0, 1}, BacklogSize <- {2}, diskless_sync <- FALSE, SyncDuringSave <- TRUE,
                 MaxItems <- 3, MaxForkFailures <- 0, MaxDrops <- 0, MaxEvents <- 2
Diskless == INSTANCE Replication
              WITH m <- mas, c <- cls, sl <- sla, events <- turns, Slave <- Pair, DB <- {0, 1}, BacklogSize <- {2}, diskless_sync <- TRUE, SyncDuringSave <- FALSE,
                   MaxItems <- 2, MaxForkFailures <- 0, MaxDrops <- 0, MaxEvents <- 1

Sr == INSTANCE SlaveRole WITH s <- server, NoHost <- Nil

(* Both ways to sync the file, and transactions *)
Always == INSTANCE AppendOnlyFile
            WITH aof <- log, DB <- {0, 1}, aof_fsync <- "always", Transactions <- FALSE, Administrator <- TRUE,
                 MaxUnits <- 3, MaxRewrites <- 1, MaxErrors <- 1, MaxCrashes <- 1
Everysec == INSTANCE AppendOnlyFile
              WITH aof <- log, DB <- {0, 1}, aof_fsync <- "everysec", Transactions <- FALSE, Administrator <- FALSE,
                   MaxUnits <- 3, MaxRewrites <- 1, MaxErrors <- 2, MaxCrashes <- 1
Multi == INSTANCE AppendOnlyFile
           WITH aof <- log, DB <- {0, 1}, aof_fsync <- "everysec", Transactions <- TRUE, Administrator <- FALSE,
                MaxUnits <- 2, MaxRewrites <- 1, MaxErrors <- 1, MaxCrashes <- 0

Ca == INSTANCE ScriptCache WITH Slave <- Pair, ForkFails <- FALSE

ASSUME RoleAssumption == Sr!SlaveRoleAssumption
ASSUME CacheAssumption == Ca!ScriptCacheAssumption
ASSUME One!ReplicationAssumption /\ Shared!ReplicationAssumption /\ Diskless!ReplicationAssumption
ASSUME Always!AofAssumption /\ Everysec!AofAssumption /\ Multi!AofAssumption

-----------------------------------------------------------------------------
SuiteInit ==
  /\ component \in Components
  /\ Init
  /\ \/ component = "one" /\ One!Init
     \/ component = "shared" /\ Shared!Init
     \/ component = "diskless" /\ Diskless!Init
     \/ /\ component \notin {"one", "shared", "diskless"}
        /\ mas = Off /\ cls = Off /\ sla = Off /\ items = Off /\ forks = Off /\ drops = Off /\ turns = Off
  /\ IF component = "role" THEN Sr!Init ELSE server = Off /\ sockets = Off /\ sets = Off /\ slaveofs = Off
  /\ \/ component = "always" /\ Always!Init
     \/ component = "everysec" /\ Everysec!Init
     \/ component = "multi" /\ Multi!Init
     \/ /\ component \notin {"always", "everysec", "multi"}
        /\ hist = Off /\ log = Off /\ file = Off /\ synced = Off /\ bio = Off /\ durable = Off /\ count = Off
  /\ IF component = "scripts" THEN Ca!Init ELSE
       /\ scripts = Off /\ fifo = Off /\ repl = Off /\ known = Off /\ child = Off /\ aof = Off /\ missing = Off

SuiteNext ==
  \/ component = "election" /\ Next /\ UNCHANGED <<component, replication, role, appendOnly, cache>>
  \/ component = "one" /\ One!Next /\ UNCHANGED <<component, vars, role, appendOnly, cache>>
  \/ component = "shared" /\ Shared!Next /\ UNCHANGED <<component, vars, role, appendOnly, cache>>
  \/ component = "diskless" /\ Diskless!Next /\ UNCHANGED <<component, vars, role, appendOnly, cache>>
  \/ component = "role" /\ Sr!Next /\ UNCHANGED <<component, vars, replication, appendOnly, cache>>
  \/ component = "always" /\ Always!Next /\ UNCHANGED <<component, vars, replication, role, cache>>
  \/ component = "everysec" /\ Everysec!Next /\ UNCHANGED <<component, vars, replication, role, cache>>
  \/ component = "multi" /\ Multi!Next /\ UNCHANGED <<component, vars, replication, role, cache>>
  \/ component = "scripts" /\ Ca!Next /\ UNCHANGED <<component, vars, replication, role, appendOnly>>
  \/ component # "scripts" /\ UNCHANGED allVars   \* the bounds of the others may be reached

SuiteSpec == SuiteInit /\ [][SuiteNext]_allVars

Symmetry == Permutations(Pair)

-----------------------------------------------------------------------------
(* What a slave has or is about to load, with all that is queued for it,   *)
(* is the data of the master, and the offsets they count agree, whatever   *)
(* connections, backlog, saves and restarts did before (syncCommand,       *)
(* masterTryPartialResynchronization, updateSlavesWaitingBgsave).          *)
SlavesConverge ==
  /\ component = "one" => One!TypeOK /\ One!SlavesConverge /\ One!OffsetsAgree
  /\ component = "shared" => Shared!TypeOK /\ Shared!SlavesConverge /\ Shared!WaitingHasChild
  /\ component = "diskless" => Diskless!TypeOK /\ Diskless!SlavesConverge

(* The state of the link to the master matches what exists of it, no       *)
(* socket is forgotten, and slaves of the server are gone while its own    *)
(* master is (replicationSetMaster, replicationUnsetMaster,                *)
(* cancelReplicationHandshake).                                            *)
LinkMatches == component = "role" => Sr!RoleInvariant

(* Whatever a crash leaves of the append only file gives a past state of   *)
(* the data set, with every acknowledged command if the policy is always,  *)
(* but for a machine that stops between the rename and the sync of a       *)
(* rewritten file, which may lose those executed since the rewrite began;  *)
(* and a server that is killed loses nothing that was flushed              *)
(* (flushAppendOnlyFile, backgroundRewriteDoneHandler,                     *)
(* loadAppendOnlyFile).                                                    *)
CrashLeavesAPast ==
  /\ component = "always" => Always!CrashLeavesAPast /\ Always!AcknowledgedSurvives
  /\ component = "everysec" => Everysec!CrashLeavesAPast /\ Everysec!KillLosesNothing
  /\ component = "multi" => Multi!CrashLeavesAPast /\ Multi!KillLosesNothing

(* No slave and no append only file gets an EVALSHA of a script it does    *)
(* not know, although slaves come, go and come back while snapshots and    *)
(* rewrites start and end; where no fork fails after slaves were set to    *)
(* wait for its end (evalShaCommand, startBgsaveForReplication,            *)
(* replicationScriptCacheFlush).                                           *)
ScriptsKnown == component = "scripts" => Ca!CacheInvariant
=============================================================================

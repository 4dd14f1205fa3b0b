--------------------------- MODULE AppendOnlyFile ---------------------------
(***************************************************************************)
(* The append only file (aof.c): commands go to a buffer, the buffer to    *)
(* the file, a thread or the server itself syncs it to disk, a child       *)
(* rewrites it in the background while the commands executed meanwhile are *)
(* kept for the new file, and a crash leaves some prefix of the file.      *)
(*                                                                         *)
(* An item is a SELECT, a write, a MULTI or an EXEC; it takes two bytes,   *)
(* so that writes and crashes can cut it.  The data set is, for every      *)
(* database, the sequence of the writes made to it.                        *)
(***************************************************************************)
EXTENDS Integers, Sequences, FiniteSets, SequencesExt

CONSTANTS
  DB,            \* the databases
  aof_fsync,     \* "always" or "everysec"
  Transactions,  \* whether clients use MULTI
  Administrator, \* whether AOF is switched off and on with CONFIG SET
  MaxUnits,      \* bound on the commands and transactions
  MaxRewrites,   \* bound on the rewrites
  MaxErrors,     \* bound on writes and rewrites that fail
  MaxCrashes     \* bound on the crashes

AofAssumption ==
  /\ aof_fsync \in {"always", "everysec"}
  /\ Transactions \in BOOLEAN /\ Administrator \in BOOLEAN
  /\ MaxUnits \in Nat /\ MaxRewrites \in Nat /\ MaxErrors \in Nat /\ MaxCrashes \in Nat

VARIABLES
  hist,    \* the units executed: each the sequence of its writes
  aof,     \* the server's AOF state
  file,    \* the bytes of the file
  synced,  \* how many of them are on the disk
  bio,     \* a sync is under way in the background
  durable, \* how many units were acknowledged with the file synced
  count    \* rewrites, errors and crashes so far

vars == <<hist, aof, file, synced, bio, durable, count>>

NoDB == -1
Item(type, arg) == [type |-> type, arg |-> arg]

(* The two bytes of an item, and back. *)
Bytes(its) == [i \in 1..(2 * Len(its)) |-> <<its[(i + 1) \div 2], i % 2>>]
Items(bs)  == [i \in 1..(Len(bs) \div 2) |-> bs[2 * i][1]]

Prefix(q, n) == SubSeq(q, 1, n)

-----------------------------------------------------------------------------
(* What a file says: loadAppendOnlyFile with the fake client. *)
Apply(v, w) == [v EXCEPT !.data[v.db] = Append(@, w)]

Execute(v, it) ==
  CASE it.type = "select" -> [v EXCEPT !.db = it.arg]
    [] it.type = "write" /\ ~v.multi -> Apply(v, it.arg)
    [] it.type = "write" /\ v.multi  -> [v EXCEPT !.queue = Append(@, it.arg)]
    [] it.type = "multi" -> [v EXCEPT !.multi = TRUE]
    [] it.type = "exec"  -> [FoldLeft(Apply, v, v.queue) EXCEPT !.multi = FALSE, !.queue = <<>>]

Empty == [d \in DB |-> <<>>]

Load(bs) ==
  FoldLeft(Execute, [db |-> 0, data |-> Empty, multi |-> FALSE, queue |-> <<>>], Items(bs)).data

(* What is left of the file after loading: the end that is not a complete  *)
(* command is cut off (aof_load_truncated).                                *)
ValidUpTo(bs) == Prefix(bs, 2 * (Len(bs) \div 2))

(* The data set after the units of h. *)
State(h) ==
  [d \in DB |-> LET own(w) == w[1] = d
                    ws == SelectSeq(FlattenSeq(h), own)
                IN  [i \in 1..Len(ws) |-> ws[i][2]]]

(* rewriteAppendOnlyFile: the data set, database by database *)
Snapshot(h) ==
  LET part(d) == IF State(h)[d] = <<>> THEN <<>>
                 ELSE <<Item("select", d)>>
                      \o [i \in 1..Len(State(h)[d]) |-> Item("write", State(h)[d][i])]
  IN  FlattenSeq([i \in 1..Cardinality(DB) |-> part(i - 1)])

(* The server's AOF state when it starts with appendonly yes: forked is the *)
(* number of units in the child's snapshot, renamed is true between the     *)
(* rename and the sync of backgroundRewriteDoneHandler.                     *)
Started ==
  [state |-> "on", buf |-> <<>>, selected_db |-> NoDB, child |-> FALSE, snapshot |-> <<>>, forked |-> 0,
   rewrite_buf |-> <<>>, renamed |-> FALSE, scheduled |-> FALSE, ok |-> TRUE]

Init ==
  /\ hist = <<>> /\ file = <<>> /\ synced = 0 /\ bio = FALSE /\ durable = 0
  /\ aof = Started
  /\ count = [rewrites |-> 0, errors |-> 0, crashes |-> 0]

MayFail(failed) ==
  IF failed THEN count.errors < MaxErrors /\ count' = [count EXCEPT !.errors = @ + 1]
  ELSE count' = count

(* The server is single threaded: inside the handler it does nothing else *)
Looping == ~aof.renamed

-----------------------------------------------------------------------------
(* feedAppendOnlyFile, for each command of the unit; MULTI and EXEC frame  *)
(* a transaction.  A write is refused while the file cannot be written     *)
(* (processCommand).                                                       *)
FedBuffer(a, bs) == IF a.state = "on" THEN a.buf \o bs ELSE a.buf

FedRewriteBuffer(a, bs) == IF a.child THEN a.rewrite_buf \o bs ELSE a.rewrite_buf

Feed(a, d, its) ==
  LET sel == IF a.selected_db = d THEN <<>> ELSE <<Item("select", d)>>
      bs  == Bytes(sel \o its)
  IN  [a EXCEPT !.selected_db = d, !.buf = FedBuffer(a, bs),
                !.rewrite_buf = FedRewriteBuffer(a, bs)]

ExecuteUnit(d, n) ==
  LET id(i) == 10 * Len(hist) + i
      ws == [i \in 1..n |-> Item("write", id(i))]
  IN  /\ Looping /\ Len(hist) < MaxUnits /\ aof.ok
      /\ n > 1 => Transactions
      /\ hist' = Append(hist, [i \in 1..n |-> <<d, id(i)>>])
      \* propagation is skipped when AOF is off
      /\ aof' = IF aof.state = "off" THEN aof
                ELSE Feed(aof, d, IF n = 1 THEN ws
                                  ELSE <<Item("multi", 0)>> \o ws \o <<Item("exec", 0)>>)
      /\ UNCHANGED <<file, synced, bio, durable, count>>

(* flushAppendOnlyFile.  After a complete write the buffer is empty; after *)
(* one cut short the file is truncated to its old length, or, when even    *)
(* that fails, keeps what was written and the buffer the rest.             *)
CutShort(n) == [file |-> file \o Prefix(aof.buf, n),
                buf  |-> SubSeq(aof.buf, n + 1, Len(aof.buf))]

(* beforeSleep: the buffer is flushed before replies go out.  With         *)
(* everysec a running sync may postpone it, and a sync is started in the   *)
(* background; with always the server syncs itself.                        *)
FlushAll ==
  /\ Looping /\ aof.buf # <<>>
  /\ file' = file \o aof.buf
  /\ aof' = [aof EXCEPT !.buf = <<>>, !.ok = TRUE]
  /\ IF aof_fsync = "always"
     THEN /\ synced' = Len(file')
          /\ durable' = IF aof.state = "on" THEN Len(hist) ELSE durable
          /\ UNCHANGED bio
     ELSE /\ bio' \in {bio, TRUE}
          /\ UNCHANGED <<synced, durable>>
  /\ UNCHANGED <<hist, count>>

FlushShort ==
  /\ aof_fsync = "everysec"   \* with always the server exits: Crash
  /\ Looping /\ aof.buf # <<>> /\ MayFail(TRUE)
  /\ \/ file' = file /\ aof' = [aof EXCEPT !.ok = FALSE]
     \/ \E n \in 1..(Len(aof.buf) - 1) :
          /\ file' = CutShort(n).file
          /\ aof' = [aof EXCEPT !.ok = FALSE, !.buf = CutShort(n).buf]
  /\ UNCHANGED <<hist, synced, bio, durable>>

(* The background thread: aof_background_fsync, of the file whose          *)
(* descriptor it was given                                                 *)
BackgroundFsync ==
  /\ bio /\ bio' = FALSE
  /\ synced' = IF aof.renamed THEN synced ELSE Len(file)
  /\ UNCHANGED <<hist, aof, file, durable, count>>

-----------------------------------------------------------------------------
(* rewriteAppendOnlyFileBackground *)
StartRewriteOf(a) ==
  [a EXCEPT !.child = TRUE, !.snapshot = Bytes(Snapshot(hist)), !.forked = Len(hist),
            !.rewrite_buf = <<>>, !.scheduled = FALSE, !.selected_db = NoDB]

(* bgrewriteaofCommand, or serverCron when it is scheduled or the file has *)
(* grown enough.                                                           *)
Rewrite ==
  /\ ~aof.child
  /\ \/ aof.scheduled /\ UNCHANGED count
     \/ /\ count.rewrites < MaxRewrites
        /\ count' = [count EXCEPT !.rewrites = @ + 1]
  /\ aof' = StartRewriteOf(aof)
  /\ UNCHANGED <<hist, file, synced, bio, durable>>

(* backgroundRewriteDoneHandler *)
\* Faulty variant: the new file replaces the old one without the differences.
NewFileWithoutDiff == aof.snapshot

NewFile == aof.snapshot \o aof.rewrite_buf

(* cleanup of backgroundRewriteDoneHandler *)
Childless(a) == [a EXCEPT !.child = FALSE, !.snapshot = <<>>, !.forked = 0, !.rewrite_buf = <<>>, !.renamed = FALSE]

RewriteFails ==
  /\ Looping /\ aof.child /\ MayFail(TRUE)
  /\ aof' = [Childless(aof) EXCEPT !.scheduled = @ \/ aof.state = "wait_rewrite"]
  /\ UNCHANGED <<hist, file, synced, bio, durable>>

(* Up to the rename: the child has synced its part, the differences are    *)
(* written.  Without AOF that is all.                                      *)
Rename ==
  /\ Looping /\ aof.child
  /\ file' = NewFile /\ synced' = Len(aof.snapshot)
  /\ aof' = IF aof.state = "off" THEN Childless(aof) ELSE [aof EXCEPT !.renamed = TRUE]
  /\ UNCHANGED <<hist, bio, durable, count>>

(* With AOF the new file is synced, or handed to the thread that syncs it *)
RewriteEnds ==
  /\ aof.renamed
  /\ aof' = [Childless(aof) EXCEPT !.buf = <<>>, !.selected_db = NoDB, !.state = "on"]
  /\ IF aof_fsync = "always"
     THEN synced' = Len(file) /\ durable' = Len(hist) /\ UNCHANGED bio
     ELSE bio' = TRUE /\ UNCHANGED <<synced, durable>>
  /\ UNCHANGED <<hist, file, count>>

(* stopAppendOnly and startAppendOnly, by CONFIG SET appendonly *)
StopAppendOnly ==
  /\ Looping /\ Administrator /\ aof.state # "off" /\ aof.ok
  /\ file' = file \o aof.buf /\ synced' = Len(file')
  /\ aof' = [Childless(aof) EXCEPT !.state = "off", !.buf = <<>>, !.selected_db = NoDB]
  /\ UNCHANGED <<hist, bio, durable, count>>

StartAppendOnly ==
  /\ aof.state = "off" /\ ~aof.child
  /\ aof' = [StartRewriteOf(aof) EXCEPT !.state = "wait_rewrite"]
  /\ UNCHANGED <<hist, file, synced, bio, durable, count>>

-----------------------------------------------------------------------------
(* What is not in the file yet: the new file has the buffer already *)
Unwritten == IF aof.renamed THEN <<>> ELSE aof.buf

(* What a crash may leave of the file, also in the middle of a write of    *)
(* the buffer, and what the server finds in it.                            *)
Left == {Prefix(file \o Unwritten, n) : n \in synced..Len(file \o Unwritten)}

Recovered(bs) == {k \in 0..Len(hist) : State(Prefix(hist, k)) = Load(bs)}

(* The server, or the machine, stops and starts again with appendonly yes. *)
Crash ==
  /\ count.crashes < MaxCrashes /\ count' = [count EXCEPT !.crashes = @ + 1]
  /\ \E bs \in Left : \E k \in Recovered(bs) :
       /\ file' = ValidUpTo(bs) /\ synced' = Len(file')
       /\ hist' = Prefix(hist, k) /\ durable' = k
  /\ bio' = FALSE
  /\ aof' = Started

Next ==
  \/ \E d \in DB, n \in 1..2 : ExecuteUnit(d, n)
  \/ FlushAll \/ FlushShort \/ BackgroundFsync
  \/ Rewrite \/ RewriteFails \/ Rename \/ RewriteEnds \/ StopAppendOnly \/ StartAppendOnly \/ Crash

Spec == Init /\ [][Next]_vars

-----------------------------------------------------------------------------
(* Whatever a crash leaves of the file, loading it gives the data set as   *)
(* it was after some of the units, in order and whole: no write is missing *)
(* in the middle, doubled, in another database or half a transaction.      *)
CrashLeavesAPast == \A bs \in Left : Recovered(bs) # {}

(* With always, that past includes every unit whose reply may have been    *)
(* sent, also across a rewrite; except between the rename of a new file    *)
(* and its sync, when a machine that stops may lose what was executed      *)
(* since the rewrite began (aof.c:1248-1267), and no more than that.       *)
AcknowledgedSurvives ==
  \A bs \in Left : \E k \in Recovered(bs) : k >= IF aof.renamed /\ aof.forked < durable THEN aof.forked ELSE durable

(* A server that is killed with its buffer flushed, or with a new file in  *)
(* place, loses nothing.                                                   *)
KillLosesNothing == aof.state = "on" /\ Unwritten = <<>> => Len(hist) \in Recovered(file)
=============================================================================

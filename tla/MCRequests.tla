----------------------------- MODULE MCRequests -----------------------------
(***************************************************************************)
(* What Redis does with the requests of its clients, side by side: a       *)
(* behaviour is one of the component that Init chooses, and the variables  *)
(* of the others rest.  The sets of clients are interchangeable.  The      *)
(* module extends Transactions, whose theorems are about the same          *)
(* definitions; its variables rest in their initial values.                *)
(***************************************************************************)
EXTENDS Transactions, TLC

CONSTANTS
  Components,  \* the components of a run
  Off,         \* the value of a variable that rests
  NoOne,       \* no client, or no key
  Trio,        \* the clients of BlockingLists, Scripting and Clients
  MaxErrors,   \* of Scripting; MaxWrites and MaxRefused are those of Transactions too
  BufSize, Chunk, Overhead, MinReply, MaxReply, MaxBytes, Hard, Soft, SoftSeconds, MaxTime, ReplStates  \* of ReplyBuffers

VARIABLES
  component,
  reqs, net, querybuf, pos, reqtype, multibulklen, bulklen, argv, closing, blocked, executed,  \* QueryParser
  lists, copy, steps,                                                       \* BlockingLists
  up, conn, out, readable, lua, data, last, count,                        \* Scripting
  replstate, buf, list, sentlen, replyBytes, handler, softReached, clock, flag, deferred, stream, sent,  \* ReplyBuffers
  flags, status, clients, slaves, monitors, toClose, unblocked, waiting, master, cached, masterhost, kill,  \* Clients
  channels, patterns, serverChannels, serverPatterns, mode, notify, delivered   \* PubSub

parser == <<reqs, net, querybuf, pos, reqtype, multibulklen, bulklen, argv, closing, blocked, executed>>
blocking == <<lists, copy, steps>>
scripting == <<up, conn, out, readable, lua, data, last, count>>
replies ==
  <<replstate, buf, list, sentlen, replyBytes, handler, softReached, clock, flag, deferred, stream, sent>>
lives ==
  <<flags, status, clients, slaves, monitors, toClose, unblocked, waiting, master, cached, masterhost, kill>>
pubsub == <<channels, patterns, serverChannels, serverPatterns, mode, notify, delivered>>
allVars == <<component, parser, vars, blocking, scripting, replies, lives, pubsub>>

-----------------------------------------------------------------------------
(* Pipelines of two or three requests: commands of one and two arguments,  *)
(* one of them binary, one of them big, one that blocks; empty requests;   *)
(* errors; lines beyond the limit                                          *)
CRLF == <<"CR", "LF">>
Req(form, args) == [form |-> form, args |-> args, error |-> FALSE]
Raw(s, error) == [form |-> "raw", args |-> <<s>>, error |-> error]

Good == {
  Req("inline", << <<"a">>, <<"b", "c">> >>),
  Req("bulk", << <<"a">>, <<"CR", "LF">> >>),
  Req("bulk", << <<"B">>, <<>> >>),
  Req("bulk", << <<"a", "b", "c">> >>)}
Empty == {Raw(CRLF, FALSE), Raw(<<"*", "0">> \o CRLF, FALSE), Raw(<<"*", "-1">> \o CRLF, FALSE)}
Bad == {
  Raw(<<"*", "x">> \o CRLF, TRUE), Raw(<<"*", "1">> \o CRLF \o <<"x">> \o CRLF, TRUE),
  Raw(<<"*", "1">> \o CRLF \o <<"$", "-1">> \o CRLF, TRUE), Raw(<<"a", "QUOTE">> \o CRLF, TRUE)}
TooLong == {
  Raw([i \in 1..66 |-> "a"], TRUE), Raw([i \in 1..60 |-> IF i = 1 THEN "*" ELSE "1"], TRUE),
  Raw(<<"*", "1">> \o CRLF \o [i \in 1..66 |-> IF i = 1 THEN "$" ELSE "1"], TRUE)}

Qp == INSTANCE QueryParser
        WITH Inputs <- {<<a, b, c>> : a \in Good \cup Empty, b \in Good \cup Bad, c \in Good}
                         \cup {<<a, b>> : a \in Good, b \in TooLong},
             ReadSizes <- {1, 3, 16}, InlineMax <- 48, BigArg <- 3

(* Transactions: what FLUSHDB does stands for DEL too *)
TxCommands ==
  {[op |-> "set", key |-> "k1"], [op |-> "get", key |-> "k2"], [op |-> "flushdb", key |-> "k1"]}

(* Chains of BRPOPLPUSH over two keys, a target that is a string, EXEC of two commands *)
Cm(o, k) == [op |-> o, key |-> k]
Bl == INSTANCE BlockingLists
        WITH w <- lists, rep <- copy, None <- NoOne, Client <- Trio, Key <- {"a", "b"},
             Pops <- {[keys |-> <<"a", "b">>, target |-> NoOne, head |-> TRUE],
                      [keys |-> <<"b">>, target |-> NoOne, head |-> FALSE],
                      [keys |-> <<"a">>, target |-> "b", head |-> FALSE]},
             Cmds <- {<<Cm("rpush", "a")>>, <<Cm("rpush", "b")>>, <<Cm("set", "b")>>, <<Cm("del", "b")>>,
                      <<[op |-> "rename", key |-> "a", to |-> "b"]>>, <<Cm("rpush", "a"), Cm("lpush", "a")>>,
                      <<Cm("rpush", "a"), Cm("rpush", "b")>>, <<Cm("rpush", "a"), Cm("del", "a")>>},
             MaxPush <- 4, MaxSteps <- 4

Lua == INSTANCE Scripting
         WITH Client <- Trio, Pcall <- FALSE, Pipelining <- FALSE

(* Buffers of a few bytes, limits within their reach, no empty replies *)
Rb == INSTANCE ReplyBuffers WITH now <- clock

Cs == INSTANCE Clients WITH None <- NoOne, Client <- Trio, MaxClients <- 2, KillsMaster <- FALSE,
                             BlocksAgain <- FALSE

(* A pattern that matches both channels, one that matches the keyevent channel *)
KeyChannel == "__keyspace@0__:key"
EventChannel == "__keyevent@0__:del"
Ps == INSTANCE PubSub
        WITH flag <- mode, out <- delivered, Client <- Client, Pattern <- {"__key*", "__keyevent*"},
             Matches <- [p \in {"__key*", "__keyevent*"} |->
                           IF p = "__key*" THEN {KeyChannel, EventChannel} ELSE {EventChannel}],
             ClassOrder <- <<"g", "x">>, Strings <- {<<"A", "K", "E">>, <<"x", "E">>, <<"g", "x">>, <<"K", "other">>},
             Transaction <- {<<[op |-> "subscribe", args |-> <<KeyChannel>>], [op |-> "unsubscribe", args |-> <<>>],
                               [op |-> "publish", args |-> <<KeyChannel>>]>>}

ASSUME Bl!BlockingAssumption
ASSUME ScriptsAssumption == Lua!ScriptingAssumption
ASSUME BuffersAssumption == Rb!ReplyBuffersAssumption /\ MinReply > 0
ASSUME Cs!ClientsAssumption /\ Ps!PubSubAssumption

-----------------------------------------------------------------------------
SuiteInit ==
  /\ component \in Components
  /\ IF component = "parser" THEN Qp!Init ELSE
       /\ reqs = Off /\ net = Off /\ querybuf = Off /\ pos = Off /\ reqtype = Off /\ multibulklen = Off
       /\ bulklen = Off /\ argv = Off /\ closing = Off /\ blocked = Off /\ executed = Off
  /\ Init
  /\ IF component = "blocking" THEN Bl!Init ELSE lists = Off /\ copy = Off /\ steps = Off
  /\ IF component = "scripting" THEN Lua!Init ELSE
       /\ up = Off /\ conn = Off /\ out = Off /\ readable = Off /\ lua = Off /\ data = Off /\ last = Off
       /\ count = Off
  /\ IF component = "replies" THEN Rb!Init ELSE
       /\ replstate = Off /\ buf = Off /\ list = Off /\ sentlen = Off /\ replyBytes = Off /\ handler = Off
       /\ softReached = Off /\ clock = Off /\ flag = Off /\ deferred = Off /\ stream = Off /\ sent = Off
  /\ IF component = "clients" THEN Cs!Init ELSE
       /\ flags = Off /\ status = Off /\ clients = Off /\ slaves = Off /\ monitors = Off /\ toClose = Off
       /\ unblocked = Off /\ waiting = Off /\ master = Off /\ cached = Off /\ masterhost = Off /\ kill = Off
  /\ IF component = "pubsub" THEN Ps!Init ELSE
       /\ channels = Off /\ patterns = Off /\ serverChannels = Off /\ serverPatterns = Off /\ mode = Off
       /\ notify = Off /\ delivered = Off

SuiteNext ==
  \/ component = "parser" /\ Qp!Next
     /\ UNCHANGED <<component, vars, blocking, scripting, replies, lives, pubsub>>
  \/ component = "transactions" /\ Next
     /\ UNCHANGED <<component, parser, blocking, scripting, replies, lives, pubsub>>
  \/ component = "blocking" /\ Bl!Next
     /\ UNCHANGED <<component, parser, vars, scripting, replies, lives, pubsub>>
  \/ component = "scripting" /\ Lua!Next
     /\ UNCHANGED <<component, parser, vars, blocking, replies, lives, pubsub>>
  \/ component = "replies" /\ Rb!Next
     /\ UNCHANGED <<component, parser, vars, blocking, scripting, lives, pubsub>>
  \/ component = "clients" /\ Cs!Next
     /\ UNCHANGED <<component, parser, vars, blocking, scripting, replies, pubsub>>
  \/ component = "pubsub" /\ Ps!Next
     /\ UNCHANGED <<component, parser, vars, blocking, scripting, replies, lives>>
  \/ component \in {"parser", "scripting", "replies"}  \* input, server or client may come to an end
     /\ UNCHANGED allVars

SuiteSpec == SuiteInit /\ [][SuiteNext]_allVars

Symmetry == Permutations(Client) \cup Permutations(Trio)

(* No step and no invariant reads what the last step of PubSub delivered:  *)
(* it is for ServedFairly, which TLC checks on every step.                 *)
View ==
  <<component, parser, vars, blocking, scripting, replies, lives,
    channels, patterns, serverChannels, serverPatterns, mode, notify>>

-----------------------------------------------------------------------------
(* In whatever fragments a pipeline arrives, the commands that are         *)
(* executed are those sent before the first error, with their arguments    *)
(* and in their order; and once all has been read none is missing          *)
(* (processInputBuffer, readQueryFromClient).                              *)
ExecutedAsSent == component = "parser" => Qp!ExecutedAsSent /\ Qp!AllExecuted

(* Between commands no client waits for a list that is there, the queues   *)
(* are exact, no element is lost or given twice, and a slave has the same  *)
(* lists (handleClientsBlockedOnLists, serveClientBlockedOnList).          *)
NoLostWakeup ==
  component = "blocking" => Bl!NoLostWakeup /\ Bl!QueuesAgree /\ Bl!ElementsKept /\ Bl!SlaveFollows

(* A script that is stopped has written nothing, its client is still there *)
(* when it ends, and is read again (luaMaskCountHook, evalGenericCommand). *)
ScriptsStopCleanly ==
  component = "scripting" =>
    Lua!ScriptInvariant /\ Lua!StoppedWroteNothing /\ Lua!CallerThere /\ Lua!ReadAgain

(* Replies leave in the order in which they were made, through the buffer  *)
(* or the list; the handler that sends them is there; nobody writes into a *)
(* shared object; the memory is accounted for and a client beyond the hard *)
(* limit is closed (addReply, sendReplyToClient,                           *)
(* asyncCloseClientOnOutputBufferLimitReached).                            *)
RepliesInOrder ==
  component = "replies" =>
    Rb!BuffersInvariant /\ Rb!InOrder /\ Rb!ReplyIsScheduled /\ Rb!SharedUntouched /\ Rb!BytesAccounted /\ Rb!HardCloses

(* The lists of the server hold exactly the clients they are about, no     *)
(* loop over them keeps a client that was freed, and every subscription is *)
(* known on both sides (freeClient, clientCommand,                         *)
(* pubsubUnsubscribeChannel); where no client just served blocks again in  *)
(* the same turn of the event loop, and CLIENT KILL does not name the      *)
(* master.                                                                 *)
ListsExact ==
  /\ component = "clients" =>
       Cs!ListsExact /\ Cs!CachedIsQuiet /\ Cs!NoOrphanSlaves /\ Cs!IteratorValid /\ Cs!KillerStays
  /\ component = "pubsub" => Ps!Agree /\ Ps!ModeIsSubscribed

(* Nobody overtakes a client that waits for a list; a message reaches each *)
(* subscription once; key events are announced as configured, also after   *)
(* CONFIG REWRITE (handleClientsBlockedOnLists, pubsubPublishMessage,      *)
(* notifyKeyspaceEvent).                                                   *)
ServedFairly ==
  [][/\ component = "blocking" => Bl!FirstComeFirstServed
     /\ component = "pubsub" => Ps!ReachesSubscribers /\ Ps!AnnouncedAsConfigured /\ Ps!RewriteKeepsClasses]_allVars
=============================================================================

------------------------------- MODULE PubSub -------------------------------
(***************************************************************************)
(* Publish and subscribe (pubsub.c) and the keyspace notifications built   *)
(* on it (notify.c).  Every subscription is kept twice: with the client    *)
(* that holds it, and with the server, where PUBLISH looks for receivers.  *)
(* The two channels are the keyspace channel of a key and the keyevent     *)
(* channel of an event; clients publish to them as to any other channel.   *)
(***************************************************************************)
EXTENDS Integers, Sequences, FiniteSets, SequencesExt, FiniteSetsExt, TLC

CONSTANTS
  Client,
  KeyChannel, EventChannel,  \* __keyspace@0__:key and __keyevent@0__:event
  Pattern,
  Matches,       \* stringmatchlen: the channels every pattern matches
  ClassOrder,    \* the letters of the event classes, in the order of keyspaceEventsFlagsToString
  Strings,       \* values given to notify-keyspace-events
  Transaction    \* sequences of commands that clients run with MULTI and EXEC

Channel == {KeyChannel, EventChannel}
Class == ToSet(ClassOrder)

PubSubAssumption ==
  /\ KeyChannel # EventChannel
  /\ Matches \in [Pattern -> SUBSET Channel]
  /\ Class \cap {"A", "K", "E", "other"} = {}
  /\ \A str \in Strings : ToSet(str) \subseteq Class \cup {"A", "K", "E", "other"}

VARIABLES
  channels,        \* c->pubsub_channels
  patterns,        \* c->pubsub_patterns
  serverChannels,  \* server.pubsub_channels: a list of clients for every channel somebody listens to
  serverPatterns,  \* server.pubsub_patterns
  flag,            \* REDIS_PUBSUB
  notify,          \* server.notify_keyspace_events
  out              \* what the last step appended to the buffers of the clients

vars == <<channels, patterns, serverChannels, serverPatterns, flag, notify, out>>

Init ==
  /\ channels = [c \in Client |-> {}] /\ patterns = [c \in Client |-> <<>>]
  /\ serverChannels = <<>> /\ serverPatterns = <<>>
  /\ flag = [c \in Client |-> FALSE] /\ notify = {}
  /\ out = [c \in Client |-> <<>>]

-----------------------------------------------------------------------------
(* The state as a record that the functions thread, with empty outputs *)
State == [channels |-> channels, patterns |-> patterns, sc |-> serverChannels, sp |-> serverPatterns,
          flag |-> flag, out |-> [c \in Client |-> <<>>]]

Store(S) ==
  /\ channels' = S.channels /\ patterns' = S.patterns /\ flag' = S.flag /\ out' = S.out
  /\ serverChannels' = S.sc /\ serverPatterns' = S.sp

(* clientSubscriptionsCount *)
Count(S, c) == Cardinality(S.channels[c]) + Len(S.patterns[c])

AddReply(S, c, kind, what, n) == [S EXCEPT !.out[c] = Append(@, [kind |-> kind, what |-> what, n |-> n])]

\* The reply that ends a subscription or its removal counts what is left.
Notified(S, c, kind, what) == AddReply(S, c, kind, what, Count(S, c))

WithoutFirst(s, e) == IF \E i \in DOMAIN s : s[i] = e THEN RemoveFirst(s, e) ELSE s
Without(f, x) == [y \in DOMAIN f \ {x} |-> f[y]]

(* pubsubSubscribeChannel *)
SubscribeChannel(S, c, ch) ==
  LET s1 == IF ch \in S.channels[c] THEN S
            ELSE [S EXCEPT !.channels[c] = @ \cup {ch},
                           !.sc = (ch :> Append(IF ch \in DOMAIN S.sc THEN S.sc[ch] ELSE <<>>, c)) @@ @]
  IN  Notified(s1, c, "subscribe", ch)

(* pubsubUnsubscribeChannel: the list goes with its last client *)
UnsubscribeChannel(S, c, ch, tell) ==
  LET left == WithoutFirst(S.sc[ch], c)
      s1 == IF ch \notin S.channels[c] THEN S
            ELSE [S EXCEPT !.channels[c] = @ \ {ch},
                           !.sc = IF left = <<>> THEN Without(@, ch) ELSE [@ EXCEPT ![ch] = left]]
  IN  IF tell THEN Notified(s1, c, "unsubscribe", ch) ELSE s1

(* pubsubSubscribePattern *)
SubscribePattern(S, c, p) ==
  LET s1 == IF p \in ToSet(S.patterns[c]) THEN S
            ELSE [S EXCEPT !.patterns[c] = Append(@, p), !.sp = Append(@, [client |-> c, pattern |-> p])]
  IN  Notified(s1, c, "psubscribe", p)

(* pubsubUnsubscribePattern; listMatchPubsubPattern finds the entry of this client *)
UnsubscribePattern(S, c, p, tell) ==
  LET s1 == IF p \notin ToSet(S.patterns[c]) THEN S
            ELSE [S EXCEPT !.patterns[c] = WithoutFirst(@, p),
                           !.sp = WithoutFirst(@, [client |-> c, pattern |-> p])]
  IN  IF tell THEN Notified(s1, c, "punsubscribe", p) ELSE s1

(* pubsubUnsubscribeAllChannels: in the order of the iterator, whatever it is *)
UnsubscribeAllChannels(S, c, tell) ==
  LET s1 == FoldLeft(LAMBDA T, ch : UnsubscribeChannel(T, c, ch, tell), S, SetToSeq(S.channels[c]))
  IN  IF tell /\ S.channels[c] = {} THEN Notified(s1, c, "unsubscribe", "nil") ELSE s1

(* pubsubUnsubscribeAllPatterns *)
UnsubscribeAllPatterns(S, c, tell) ==
  LET s1 == FoldLeft(LAMBDA T, p : UnsubscribePattern(T, c, p, tell), S, S.patterns[c])
  IN  IF tell /\ S.patterns[c] = <<>> THEN Notified(s1, c, "punsubscribe", "nil") ELSE s1

(* pubsubPublishMessage: the listeners of the channel, then the patterns *)
PublishMessage(S, ch) ==
  LET direct == IF ch \in DOMAIN S.sc THEN S.sc[ch] ELSE <<>>
      viaPattern == SelectSeq(S.sp, LAMBDA e : ch \in Matches[e.pattern])
      s1 == FoldLeft(LAMBDA T, c : AddReply(T, c, "message", ch, 0), S, direct)
      s2 == FoldLeft(LAMBDA T, e : AddReply(T, e.client, "pmessage", ch, 0), s1, viaPattern)
  IN  [state |-> s2, receivers |-> Len(direct) + Len(viaPattern)]

-----------------------------------------------------------------------------
(* Commands: [op, args], with at most two arguments *)
ArgsOf(S) == {<<x>> : x \in S} \cup (S \X S)

Command ==
  [op : {"subscribe"}, args : ArgsOf(Channel)] \cup [op : {"unsubscribe"}, args : {<<>>} \cup ArgsOf(Channel)]
    \cup [op : {"psubscribe"}, args : ArgsOf(Pattern)] \cup [op : {"punsubscribe"}, args : {<<>>} \cup ArgsOf(Pattern)]
    \cup [op : {"publish"}, args : {<<ch>> : ch \in Channel}] \cup [op : {"numsub"}, args : {<<ch>> : ch \in Channel}]

\* subscribeCommand
Subscribe(S, c, args) ==
  [FoldLeft(LAMBDA T, ch : SubscribeChannel(T, c, ch), S, args) EXCEPT !.flag[c] = TRUE]

\* psubscribeCommand
Psubscribe(S, c, args) ==
  [FoldLeft(LAMBDA T, p : SubscribePattern(T, c, p), S, args) EXCEPT !.flag[c] = TRUE]

\* The flag goes with the last subscription of either kind.
Left(S, c) == IF Count(S, c) = 0 THEN [S EXCEPT !.flag[c] = FALSE] ELSE S

\* unsubscribeCommand
Unsubscribe(S, c, args) ==
  Left(IF args = <<>> THEN UnsubscribeAllChannels(S, c, TRUE)
       ELSE FoldLeft(LAMBDA T, ch : UnsubscribeChannel(T, c, ch, TRUE), S, args), c)

\* punsubscribeCommand
Punsubscribe(S, c, args) ==
  Left(IF args = <<>> THEN UnsubscribeAllPatterns(S, c, TRUE)
       ELSE FoldLeft(LAMBDA T, p : UnsubscribePattern(T, c, p, TRUE), S, args), c)

\* publishCommand
Publish(S, c, args) ==
  LET r == PublishMessage(S, args[1]) IN AddReply(r.state, c, "receivers", args[1], r.receivers)

\* pubsubCommand, NUMSUB of one channel; a command like any other that is not about one's own subscriptions
Numsub(S, c, args) ==
  AddReply(S, c, "numsub", args[1], IF args[1] \in DOMAIN S.sc THEN Len(S.sc[args[1]]) ELSE 0)

Run(S, c, cmd) ==
  CASE cmd.op = "subscribe"    -> Subscribe(S, c, cmd.args)
    [] cmd.op = "unsubscribe"  -> Unsubscribe(S, c, cmd.args)
    [] cmd.op = "psubscribe"   -> Psubscribe(S, c, cmd.args)
    [] cmd.op = "punsubscribe" -> Punsubscribe(S, c, cmd.args)
    [] cmd.op = "publish"      -> Publish(S, c, cmd.args)
    [] cmd.op = "numsub"       -> Numsub(S, c, cmd.args)

(* processCommand: what a client in Pub/Sub mode may not send is refused *)
Allowed(c, cmd) == flag[c] => cmd.op \in {"subscribe", "unsubscribe", "psubscribe", "punsubscribe"}

Execute(c) ==
  /\ \E cmd \in Command : Allowed(c, cmd) /\ Store(Run(State, c, cmd))
  /\ UNCHANGED notify

(* EXEC: all the commands were queued before the first of them runs *)
Exec(c) ==
  /\ \E t \in Transaction :
       /\ \A i \in DOMAIN t : Allowed(c, t[i])
       /\ Store(FoldLeft(LAMBDA S, cmd : Run(S, c, cmd), State, t))
  /\ UNCHANGED notify

(* freeClient: no replies; the client of the same name is a new one *)
Disconnect(c) ==
  /\ Store([UnsubscribeAllPatterns(UnsubscribeAllChannels(State, c, FALSE), c, FALSE) EXCEPT !.flag[c] = FALSE])
  /\ UNCHANGED notify

-----------------------------------------------------------------------------
(* keyspaceEventsStringToFlags: the letter "other" stands for all that have no meaning *)
StringToFlags(str) ==
  IF "other" \in ToSet(str) THEN [ok |-> FALSE, flags |-> {}]
  ELSE [ok |-> TRUE, flags |-> (ToSet(str) \ {"A"}) \cup (IF "A" \in ToSet(str) THEN Class ELSE {})]

(* keyspaceEventsFlagsToString *)
FlagsToString(flags) ==
  (IF Class \subseteq flags THEN <<"A">> ELSE SelectSeq(ClassOrder, LAMBDA x : x \in flags))
    \o SelectSeq(<<"K", "E">>, LAMBDA x : x \in flags)

(* CONFIG SET notify-keyspace-events *)
ConfigSet ==
  /\ \E str \in Strings :
       LET r == StringToFlags(str) IN notify' = IF r.ok THEN r.flags ELSE notify
  /\ out' = [c \in Client |-> <<>>]
  /\ UNCHANGED <<channels, patterns, serverChannels, serverPatterns, flag>>

(* CONFIG REWRITE and a restart with the rewritten file *)
Restart ==
  /\ notify' = StringToFlags(FlagsToString(notify)).flags
  /\ channels' = [c \in Client |-> {}] /\ patterns' = [c \in Client |-> <<>>]
  /\ serverChannels' = <<>> /\ serverPatterns' = <<>>
  /\ flag' = [c \in Client |-> FALSE] /\ out' = [c \in Client |-> <<>>]

(* notifyKeyspaceEvent *)
Notify(S, type) ==
  LET s1 == IF "K" \in notify THEN PublishMessage(S, KeyChannel).state ELSE S
      s2 == IF "E" \in notify THEN PublishMessage(s1, EventChannel).state ELSE s1
  IN  IF type \in notify THEN s2 ELSE S

(* A command of some other client changes the key *)
Event(type) == Store(Notify(State, type)) /\ UNCHANGED notify

Next ==
  \/ \E c \in Client : Execute(c) \/ Exec(c) \/ Disconnect(c)
  \/ \E type \in Class : Event(type)
  \/ ConfigSet \/ Restart

Spec == Init /\ [][Next]_vars

-----------------------------------------------------------------------------
Occurrences(s, e) == Cardinality({i \in DOMAIN s : s[i] = e})

(* What a client holds the server holds for it, once, and nothing more; no *)
(* channel without clients stays (pubsub.c:101, 104 assert one direction). *)
Agree ==
  /\ \A ch \in Channel : ch \in DOMAIN serverChannels <=> \E c \in Client : ch \in channels[c]
  /\ \A ch \in DOMAIN serverChannels, c \in Client :
       Occurrences(serverChannels[ch], c) = IF ch \in channels[c] THEN 1 ELSE 0
  /\ \A c \in Client, p \in Pattern :
       /\ Occurrences(serverPatterns, [client |-> c, pattern |-> p]) = Occurrences(patterns[c], p)
       /\ Occurrences(patterns[c], p) <= 1

(* A client is in Pub/Sub mode exactly while it has a subscription of one  *)
(* of the two kinds, however it came to it (pubsub.c:282, 294).            *)
ModeIsSubscribed == \A c \in Client : flag[c] <=> channels[c] # {} \/ patterns[c] # <<>>

Got(c, kinds) == Len(SelectSeq(out'[c], LAMBDA r : r.kind \in kinds))
Meant(c, ch) == (IF ch \in channels[c] THEN 1 ELSE 0) + Cardinality({p \in ToSet(patterns[c]) : ch \in Matches[p]})

\* The step is a PUBLISH of c, not in a transaction.
IsPublish(c, ch) ==
  /\ out'[c] # <<>> /\ Last(out'[c]).kind = "receivers" /\ Last(out'[c]).what = ch
  /\ Got(c, {"subscribe", "psubscribe", "unsubscribe", "punsubscribe", "numsub"}) = 0

(* A published message reaches every client once for each of its own       *)
(* subscriptions that covers the channel, and the reply counts these       *)
(* (pubsub.c:225).                                                         *)
ReachesSubscribers ==
  \A c \in Client, ch \in Channel :
    IsPublish(c, ch) =>
      /\ \A d \in Client : Got(d, {"message", "pmessage"}) = Meant(d, ch)
      /\ Last(out'[c]).n = MapThenSumSet(LAMBDA d : Meant(d, ch), Client)

(* A change of a key is announced if its class and K, or its class and E,  *)
(* are switched on, and only then (redis.conf: "if you don't specify at    *)
(* least one of K or E, no events will be delivered").                     *)
AnnouncedAsConfigured ==
  \A type \in Class : UNCHANGED <<notify, channels, patterns>> /\ Event(type) =>
    \A d \in Client : Got(d, {"message", "pmessage"}) =
      IF type \notin notify THEN 0
      ELSE (IF "K" \in notify THEN Meant(d, KeyChannel) ELSE 0)
             + (IF "E" \in notify THEN Meant(d, EventChannel) ELSE 0)

(* A rewritten configuration means what the running one meant, as the      *)
(* comment of keyspaceEventsFlagsToString says (notify.c:63).              *)
RewriteKeepsClasses == Restart => notify' = notify
=============================================================================

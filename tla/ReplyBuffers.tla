---------------------------- MODULE ReplyBuffers ----------------------------
(***************************************************************************)
(* The output buffers of one client (networking.c): a fixed buffer, then a *)
(* list of objects, that commands append to and the write handler drains,  *)
(* and the limits above which the client is closed.  A byte is the number  *)
(* of its place in the stream, 0 for those of an object that is shared.    *)
(***************************************************************************)
EXTENDS Integers, Sequences, FiniteSets, SequencesExt

CONSTANTS
  BufSize, Chunk,     \* sizes of c->buf and of REDIS_REPLY_CHUNK_BYTES
  Overhead,           \* what an object takes besides its bytes
  MinReply, MaxReply, \* sizes of what commands append
  MaxBytes,           \* bound on the bytes of the stream
  Hard, Soft, SoftSeconds,  \* client-output-buffer-limit of the client's class, 0 for no limit
  MaxTime,
  ReplStates          \* REDIS_REPL_* of the client at first

ReplyBuffersAssumption ==
  /\ {BufSize, Chunk, MaxReply} \subseteq Nat \ {0}
  /\ {Overhead, MinReply, MaxBytes, Hard, Soft, SoftSeconds, MaxTime} \subseteq Nat
  /\ ReplStates \subseteq {"none", "wait_bgsave", "online"}

None == -1
NullPtr == <<None>>       \* the node of a length that is not known yet
SharedObject == <<0, 0>>

VARIABLES
  replstate,
  buf, list,        \* c->buf up to bufpos, c->reply; a node is [ptr, shared]
  sentlen, replyBytes,
  handler,          \* sendReplyToClient is installed
  softReached,      \* obuf_soft_limit_reached_time, None for 0
  now,
  flag,             \* none, CLOSE_AFTER_REPLY, CLOSE_ASAP, or freed
  deferred,         \* place in the stream of a deferred length, None without
  stream,           \* all that was appended, in order
  sent              \* all that the socket has taken

vars == <<replstate, buf, list, sentlen, replyBytes, handler, softReached, now, flag, deferred, stream, sent>>

Init ==
  /\ replstate \in ReplStates
  /\ buf = <<>> /\ list = <<>> /\ sentlen = 0 /\ replyBytes = 0
  /\ handler = FALSE /\ softReached = None /\ now = 1 /\ flag = "none" /\ deferred = None
  /\ stream = <<>> /\ sent = <<>>

-----------------------------------------------------------------------------
MemOf(ptr) == IF ptr = NullPtr THEN 0 ELSE Overhead + Len(ptr)
Node(ptr, shared) == [ptr |-> ptr, shared |-> shared]

(* The buffers as one record that the functions thread *)
State == [buf |-> buf, list |-> list, bytes |-> replyBytes]

(* prepareClientToWrite: whether it installs the handler *)
Prepare == buf = <<>> /\ list = <<>> /\ replstate \in {"none", "online"}

\* Faulty variant: bytes that fit into the buffer go there behind the list's back.
ToBufferAnyway(st, s) ==
  IF Len(s) > BufSize - Len(st.buf) THEN [ok |-> FALSE, st |-> st]
  ELSE [ok |-> TRUE, st |-> [st EXCEPT !.buf = @ \o s]]

(* _addReplyToBuffer *)
ToBuffer(st, s) ==
  IF st.list # <<>> \/ Len(s) > BufSize - Len(st.buf) THEN [ok |-> FALSE, st |-> st]
  ELSE [ok |-> TRUE, st |-> [st EXCEPT !.buf = @ \o s]]

(* _addReplyObjectToList, _addReplySdsToList, _addReplyStringToList: the   *)
(* tail takes what fits a chunk, after dupLastObjectIfNeeded               *)
ToList(st, s, shared) ==
  LET last == st.list[Len(st.list)]
  IN  IF st.list # <<>> /\ last.ptr # NullPtr /\ Len(last.ptr) + Len(s) <= Chunk
      THEN [st EXCEPT !.list[Len(st.list)] = Node(last.ptr \o s, FALSE),
                      !.bytes = @ - MemOf(last.ptr) + MemOf(last.ptr \o s)]
      ELSE [st EXCEPT !.list = Append(@, Node(s, shared)), !.bytes = @ + MemOf(s)]

(* getClientOutputBufferMemoryUsage *)
UsageOf(st) == st.bytes + Len(st.list)
Usage == UsageOf(State)

(* A limit of 0 is none *)
Reached(limit, used) == limit > 0 /\ used >= limit

(* checkClientOutputBufferLimits: what it answers and what it remembers *)
Limits(st) ==
  LET soft == Reached(Soft, UsageOf(st))
  IN  [over |-> Reached(Hard, UsageOf(st)) \/ (soft /\ softReached # None /\ now - softReached > SoftSeconds),
       soft |-> IF ~soft THEN None ELSE IF softReached = None THEN now ELSE softReached]

(* asyncCloseClientOnOutputBufferLimitReached, where the code calls it *)
AsyncClose(st, checked) ==
  IF ~checked \/ st.bytes = 0 \/ flag = "close_asap" THEN UNCHANGED <<softReached, flag>>
  ELSE /\ softReached' = Limits(st).soft
       /\ flag' = IF Limits(st).over THEN "close_asap" ELSE flag

Store(st) ==
  /\ buf' = st.buf /\ list' = st.list /\ replyBytes' = st.bytes

-----------------------------------------------------------------------------
(* addReply, addReplySds, addReplyString of the bytes s *)
AddReply(s, shared) ==
  LET b == ToBuffer(State, s)
      st == IF b.ok THEN b.st ELSE ToList(State, s, shared)
  IN  /\ flag # "freed" /\ Len(stream) + Len(s) <= MaxBytes
      /\ handler' = (handler \/ Prepare)
      /\ IF flag = "close_after_reply" THEN UNCHANGED <<buf, list, replyBytes, stream, softReached, flag>>
         ELSE /\ Store(st) /\ AsyncClose(st, ~b.ok)
              /\ stream' = stream \o s
      /\ UNCHANGED <<replstate, sentlen, now, deferred, sent>>

AddOwn(n) == AddReply([i \in 1..n |-> Len(stream) + i], FALSE)
AddShared == AddReply(SharedObject, TRUE)

(* addDeferredMultiBulkLength *)
AddDeferred ==
  /\ flag \in {"none", "close_asap"} /\ deferred = None /\ Len(stream) < MaxBytes
  /\ handler' = (handler \/ Prepare)
  /\ Store([State EXCEPT !.list = Append(@, Node(NullPtr, FALSE))])
  /\ deferred' = Len(stream) + 1 /\ stream' = Append(stream, Len(stream) + 1)
  /\ UNCHANGED <<replstate, sentlen, softReached, now, flag, sent>>

(* setDeferredMultiBulkLength: the length, glued to the node that follows *)
SetDeferred ==
  LET i == CHOOSE i \in DOMAIN list : list[i].ptr = NullPtr
      next == i < Len(list)
      glued == IF next THEN <<deferred>> \o list[i + 1].ptr ELSE <<deferred>>
      st == [State EXCEPT
               !.list = [k \in 1..(IF next THEN Len(@) - 1 ELSE Len(@)) |->
                           IF k < i THEN @[k] ELSE IF k = i THEN Node(glued, FALSE)
                           ELSE IF next THEN @[k + 1] ELSE @[k]],
               !.bytes = @ + MemOf(glued) - (IF next THEN MemOf(list[i + 1].ptr) ELSE 0)]
  IN  /\ deferred # None /\ deferred' = None
      /\ Store(st) /\ AsyncClose(st, TRUE)
      /\ UNCHANGED <<replstate, sentlen, handler, now, stream, sent>>

(* The end of sendReplyToClient when nothing is left *)
Drained(st) ==
  /\ handler' = (st.buf # <<>> \/ st.list # <<>>)
  /\ flag' = IF ~handler' /\ flag = "close_after_reply" THEN "freed" ELSE flag

(* One write of sendReplyToClient, of n bytes; the loop may stop after any. *)
Send(n) ==
  LET whole == IF buf # <<>> THEN buf ELSE list[1].ptr
      done  == sentlen + n = Len(whole)
      st    == IF ~done THEN State
               ELSE IF buf # <<>> THEN [State EXCEPT !.buf = <<>>]
               ELSE [State EXCEPT !.list = Tail(@), !.bytes = @ - MemOf(whole)]
  IN  /\ handler /\ flag # "freed" /\ deferred = None
      /\ n > 0 /\ sentlen + n <= Len(whole)
      /\ sent' = sent \o SubSeq(whole, sentlen + 1, sentlen + n)
      /\ sentlen' = IF done THEN 0 ELSE sentlen + n
      /\ Store(st) /\ Drained(st)
      /\ UNCHANGED <<replstate, softReached, now, deferred, stream>>

(* An empty object is dropped, and its memory stays in reply_bytes. *)
SendEmpty ==
  /\ handler /\ flag # "freed" /\ deferred = None
  /\ buf = <<>> /\ list # <<>> /\ list[1].ptr = <<>>
  /\ LET st == [State EXCEPT !.list = Tail(@)] IN Store(st) /\ Drained(st)
  /\ UNCHANGED <<replstate, sentlen, softReached, now, deferred, stream, sent>>

(* The slave has its RDB file: the handler is installed at last *)
PutOnline ==
  /\ replstate = "wait_bgsave" /\ deferred = None /\ flag # "freed"
  /\ replstate' = "online" /\ handler' = TRUE
  /\ UNCHANGED <<buf, list, sentlen, replyBytes, softReached, now, flag, deferred, stream, sent>>

(* QUIT, a protocol error or CLIENT KILL of oneself, after the reply *)
CloseAfterReply ==
  /\ flag = "none" /\ deferred = None /\ (buf # <<>> \/ list # <<>>)
  /\ flag' = "close_after_reply"
  /\ UNCHANGED <<replstate, buf, list, sentlen, replyBytes, handler, softReached, now, deferred, stream, sent>>

Tick ==
  /\ now < MaxTime /\ deferred = None /\ flag # "freed" /\ now' = now + 1
  /\ UNCHANGED <<replstate, buf, list, sentlen, replyBytes, handler, softReached, flag, deferred, stream, sent>>

Next ==
  \/ \E n \in MinReply..MaxReply : AddOwn(n)
  \/ AddShared \/ AddDeferred \/ SetDeferred
  \/ ((buf # <<>> \/ list # <<>>) /\ \E n \in 1..MaxBytes : Send(n))
  \/ SendEmpty \/ PutOnline \/ CloseAfterReply \/ Tick

Spec == Init /\ [][Next]_vars

-----------------------------------------------------------------------------
(* What the nodes of the list hold, d for the length that is not known yet *)
Parts(nodes, d) == [i \in DOMAIN nodes |-> IF nodes[i].ptr = NullPtr THEN <<d>> ELSE nodes[i].ptr]

Pending ==
  LET all == buf \o FlattenSeq(Parts(list, deferred))
  IN  SubSeq(all, sentlen + 1, Len(all))

(* The memory of the nodes *)
Total(nodes) ==
  LET sum[i \in 0..Len(nodes)] == IF i = 0 THEN 0 ELSE sum[i - 1] + MemOf(nodes[i].ptr)
  IN  sum[Len(nodes)]

(* What the socket has taken, followed by what is buffered, is the stream  *)
(* in the order in which commands have appended it, whatever the way       *)
(* through the buffer, the list, glued tails and deferred lengths.         *)
InOrder == flag # "freed" => sent \o Pending = stream

(* Nobody writes to an object that others refer to.                        *)
SharedUntouched == \A i \in DOMAIN list : list[i].shared => list[i].ptr = SharedObject

(* Bytes that wait to be sent have a handler that will send them, and a    *)
(* client to be closed after its reply has not been closed before.         *)
ReplyIsScheduled ==
  /\ Pending # <<>> /\ replstate # "wait_bgsave" /\ flag # "freed" => handler
  /\ flag = "freed" => sent = stream

(* reply_bytes is the memory of the objects in the list (redis.h:493).     *)
BytesAccounted == replyBytes = Total(list)

(* A client beyond the hard limit is closed, at the end of the reply that  *)
(* took it there at the latest.                                            *)
HardCloses == Reached(Hard, Usage) /\ deferred = None /\ flag # "freed" => flag # "none"

(* The inductive invariant, where no reply is empty: at most one node      *)
(* waits for its length, and none without a deferred length; less than the *)
(* first buffer is sent of it; what waits has a handler.                   *)
Nodes == [ptr : (Seq(Nat) \ {<<>>}) \cup {NullPtr}, shared : BOOLEAN]

BuffersInvariant ==
  /\ replstate \in {"none", "wait_bgsave", "online"} /\ handler \in BOOLEAN
  /\ flag \in {"none", "close_after_reply", "close_asap", "freed"}
  /\ buf \in Seq(Nat) /\ list \in Seq(Nodes) /\ sentlen \in Nat
  /\ stream \in Seq(Nat) /\ sent \in Seq(Nat) /\ deferred \in Nat \cup {None}
  /\ IF deferred = None THEN \A i \in DOMAIN list : list[i].ptr # NullPtr
     ELSE /\ \E i \in DOMAIN list : \A j \in DOMAIN list : list[j].ptr = NullPtr <=> j = i
          /\ flag \in {"none", "close_asap"}
  /\ IF buf # <<>> THEN sentlen < Len(buf)
     ELSE IF list # <<>> THEN sentlen < Len(list[1].ptr) ELSE sentlen = 0
  /\ (buf # <<>> \/ list # <<>>) /\ replstate # "wait_bgsave" => handler
  /\ flag = "freed" => buf = <<>> /\ list = <<>>
  /\ InOrder /\ SharedUntouched /\ ReplyIsScheduled /\ BytesAccounted /\ HardCloses
=============================================================================

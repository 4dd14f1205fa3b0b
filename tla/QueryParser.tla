---------------------------- MODULE QueryParser -----------------------------
(***************************************************************************)
(* Requests of a client, from the socket to the command (networking.c):    *)
(* inline and multi bulk requests that arrive in fragments of any size are *)
(* parsed as far as they go.  A number is one character here, and the      *)
(* commands of the first letter B block the client.                        *)
(***************************************************************************)
EXTENDS Integers, Sequences, FiniteSets, SequencesExt, FiniteSetsExt

CONSTANTS
  Inputs,      \* sequences of requests that clients send
  ReadSizes,   \* how much a read may return
  InlineMax,   \* REDIS_INLINE_MAX_SIZE
  BigArg       \* REDIS_MBULK_BIG_ARG

Digit == [d \in {"-1", "0", "1", "2", "3"} |->
            CASE d = "-1" -> -1 [] d = "0" -> 0 [] d = "1" -> 1 [] d = "2" -> 2 [] d = "3" -> 3]
NumOf(n) == CHOOSE d \in DOMAIN Digit : Digit[d] = n
CRLF == <<"CR", "LF">>

VARIABLES
  reqs,       \* the requests
  net,        \* what the socket has still to deliver
  querybuf, pos,  \* c->querybuf, and how far the parser is in it
  reqtype,    \* none, inline or multibulk
  multibulklen, bulklen, argv,
  closing, blocked,  \* REDIS_CLOSE_AFTER_REPLY, REDIS_BLOCKED
  executed    \* commands given to processCommand

vars == <<reqs, net, querybuf, pos, reqtype, multibulklen, bulklen, argv, closing, blocked, executed>>

-----------------------------------------------------------------------------
(* What a client library writes for a request *)
Encode(r) ==
  CASE r.form = "inline" -> FoldLeft(LAMBDA s, a : IF s = <<>> THEN a ELSE s \o <<"SP">> \o a, <<>>, r.args) \o CRLF
    [] r.form = "bulk"   -> <<"*", NumOf(Len(r.args))>> \o CRLF \o
                               FlattenSeq([i \in DOMAIN r.args |-> <<"$", NumOf(Len(r.args[i]))>> \o CRLF \o r.args[i] \o CRLF])
    [] r.form = "raw"    -> r.args[1]      \* empty requests and errors

(* The commands a server should execute: those before the first error *)
Expected ==
  LET n == Min({i \in DOMAIN reqs : reqs[i].error} \cup {Len(reqs) + 1}) - 1
      commands == SelectSeq(SubSeq(reqs, 1, n), LAMBDA r : r.form # "raw")
  IN  [i \in DOMAIN commands |-> commands[i].args]

Init ==
  /\ reqs \in Inputs /\ net = FlattenSeq([i \in DOMAIN reqs |-> Encode(reqs[i])])
  /\ querybuf = <<>> /\ pos = 0 /\ reqtype = "none" /\ multibulklen = 0 /\ bulklen = -1 /\ argv = <<>>
  /\ closing = FALSE /\ blocked = FALSE /\ executed = <<>>

-----------------------------------------------------------------------------
(* strchr from the parser's position: 0 when there is none *)
Find(ch) == Min({i \in (pos + 1)..Len(querybuf) : querybuf[i] = ch} \cup {Len(querybuf) + 1}) % (Len(querybuf) + 1)
From(i) == SubSeq(querybuf, i, Len(querybuf))

Active == querybuf # <<>> /\ ~blocked /\ ~closing
Type == IF reqtype # "none" THEN reqtype ELSE IF querybuf[1] = "*" THEN "multibulk" ELSE "inline"

(* sdssplitargs, then the loop that drops empty arguments *)
Split(line) ==
  LET add(words, ch) == IF ch = "SP" THEN Append(words, <<>>)
                        ELSE [words EXCEPT ![Len(words)] = Append(@, ch)]
  IN  SelectSeq(FoldLeft(add, << <<>> >>, line), LAMBDA a : a # <<>>)

(* setProtocolError at a position *)
ProtocolError(p) ==
  /\ closing' = TRUE /\ querybuf' = From(p + 1) /\ pos' = 0
  /\ UNCHANGED <<reqs, net, reqtype, multibulklen, bulklen, argv, blocked, executed>>

(* processCommand and resetClient, with what is left of the buffer *)
Finish(args, rest) ==
  /\ executed' = IF args = <<>> THEN executed ELSE Append(executed, args)
  /\ blocked' = (args # <<>> /\ args[1][1] = "B")
  /\ querybuf' = rest /\ pos' = 0
  /\ reqtype' = "none" /\ multibulklen' = 0 /\ bulklen' = -1 /\ argv' = <<>>
  /\ UNCHANGED <<reqs, net, closing>>

(* processInlineBuffer: two characters are dropped after the line *)
Inline ==
  /\ Active /\ Type = "inline"
  /\ LET lf == Find("LF")
         querylen == IF lf > 1 /\ querybuf[lf - 1] = "CR" THEN lf - 2 ELSE lf - 1
         line == SubSeq(querybuf, 1, querylen)
     IN  \/ lf = 0 /\ Len(querybuf) > InlineMax /\ ProtocolError(0)
         \/ lf # 0 /\ Contains(line, "QUOTE") /\ ProtocolError(0)
         \/ lf # 0 /\ ~Contains(line, "QUOTE") /\ Finish(Split(line), From(querylen + 3))

(* A line of the protocol: its CR, unless the LF is still to come *)
LineEnd == LET cr == Find("CR") IN IF cr = 0 \/ cr > Len(querybuf) - 1 THEN 0 ELSE cr
Number(from, to) == IF to = from /\ querybuf[from] \in DOMAIN Digit THEN Digit[querybuf[from]] ELSE -2

(* processMultibulkBuffer: the number of arguments *)
Header ==
  /\ Active /\ Type = "multibulk" /\ multibulklen = 0
  /\ LET cr == LineEnd
         n == Number(2, cr - 1)
     IN  \/ Find("CR") = 0 /\ Len(querybuf) > InlineMax /\ ProtocolError(0)
         \/ cr # 0 /\ n = -2 /\ ProtocolError(0)
         \/ cr # 0 /\ n \in {-1, 0} /\ Finish(<<>>, From(cr + 2))
         \/ /\ cr # 0 /\ n > 0
            /\ multibulklen' = n /\ pos' = cr + 1 /\ reqtype' = "multibulk"
            /\ UNCHANGED <<reqs, net, querybuf, bulklen, argv, closing, blocked, executed>>

(* the length of an argument; room is made for a big one *)
BulkLength ==
  /\ Active /\ multibulklen > 0 /\ bulklen = -1
  /\ LET cr == LineEnd
         n == Number(pos + 2, cr - 1)
     IN  \/ Find("CR") = 0 /\ Len(querybuf) > InlineMax /\ ProtocolError(0)
         \/ cr # 0 /\ (querybuf[pos + 1] # "$" \/ n < 0) /\ ProtocolError(pos)
         \/ /\ cr # 0 /\ querybuf[pos + 1] = "$" /\ n >= 0
            /\ bulklen' = n
            /\ querybuf' = IF n >= BigArg THEN From(cr + 2) ELSE querybuf
            /\ pos' = IF n >= BigArg THEN 0 ELSE cr + 1
            /\ UNCHANGED <<reqs, net, reqtype, multibulklen, argv, closing, blocked, executed>>

\* Faulty variant: an argument is taken when its bytes are there, without their CRLF.
BulkArgShort ==
  /\ Active /\ multibulklen > 0 /\ bulklen # -1
  /\ Len(querybuf) - pos >= bulklen
  /\ LET arg == SubSeq(querybuf, pos + 1, pos + bulklen)
     IN  IF multibulklen = 1 THEN Finish(Append(argv, arg), From(pos + bulklen + 3))
         ELSE /\ argv' = Append(argv, arg) /\ multibulklen' = multibulklen - 1 /\ bulklen' = -1
              /\ pos' = pos + bulklen + 2
              /\ UNCHANGED <<reqs, net, querybuf, reqtype, closing, blocked, executed>>

(* an argument, once it is there with its CRLF; the last one ends the command *)
BulkArg ==
  /\ Active /\ multibulklen > 0 /\ bulklen # -1
  /\ Len(querybuf) - pos >= bulklen + 2
  /\ LET arg == SubSeq(querybuf, pos + 1, pos + bulklen)
     IN  IF multibulklen = 1 THEN Finish(Append(argv, arg), From(pos + bulklen + 3))
         ELSE /\ argv' = Append(argv, arg) /\ multibulklen' = multibulklen - 1 /\ bulklen' = -1
              /\ pos' = pos + bulklen + 2
              /\ UNCHANGED <<reqs, net, querybuf, reqtype, closing, blocked, executed>>

ProcessInput == Inline \/ Header \/ BulkLength \/ BulkArg

(* What processInputBuffer can do with the buffer as it is *)
CanProcess ==
  /\ Active
  /\ IF Type = "inline" THEN Find("LF") # 0 \/ Len(querybuf) > InlineMax
     ELSE IF multibulklen = 0 \/ bulklen = -1
     THEN LineEnd # 0 \/ (Find("CR") = 0 /\ Len(querybuf) > InlineMax)
     ELSE Len(querybuf) - pos >= bulklen + 2

(* readQueryFromClient, when the parser has gone as far as it can and has  *)
(* dropped what it has parsed: no more is read than a big argument needs.  *)
Read(n) ==
  LET left == bulklen + 2 - (Len(querybuf) - pos)
      most == IF multibulklen > 0 /\ bulklen >= BigArg /\ left < n THEN left ELSE n
      k == Min({most, Len(net)})
  IN  /\ ~CanProcess /\ k > 0
      /\ querybuf' = From(pos + 1) \o SubSeq(net, 1, k) /\ pos' = 0
      /\ net' = SubSeq(net, k + 1, Len(net))
      /\ UNCHANGED <<reqs, reqtype, multibulklen, bulklen, argv, closing, blocked, executed>>

(* The client is served, or its time is over; processInputBuffer goes on *)
Unblock ==
  /\ blocked /\ blocked' = FALSE
  /\ UNCHANGED <<reqs, net, querybuf, pos, reqtype, multibulklen, bulklen, argv, closing, executed>>

Next == ProcessInput \/ (\E n \in ReadSizes : Read(n)) \/ Unblock
Spec == Init /\ [][Next]_vars

-----------------------------------------------------------------------------
(* Only requests that were sent are executed, in their order and with      *)
(* their arguments, in whatever fragments the stream arrives.              *)
ExecutedAsSent == IsPrefix(executed, Expected)

(* Once all has been read and nobody waits, every request up to the first  *)
(* error has been executed, and an error closes the client.                *)
AllExecuted ==
  net = <<>> /\ ~CanProcess /\ ~blocked =>
    executed = Expected /\ closing = \E i \in DOMAIN reqs : reqs[i].error
=============================================================================

----------------------------- MODULE Scripting ------------------------------
(***************************************************************************)
(* The execution of Lua scripts (scripting.c): EVAL runs a script inside   *)
(* one command; after lua-time-limit a hook goes back to the event loop,   *)
(* where the other clients may only kill the script or the server.  A      *)
(* script is any sequence of calls, of instructions that end in the hook   *)
(* and of errors.                                                          *)
(***************************************************************************)
EXTENDS Integers, Sequences

CONSTANTS
  Client,
  Pcall,       \* scripts catch errors with Lua's pcall
  Pipelining,  \* a client sends EVAL before it has read the reply of another command
  MaxWrites,   \* bound on the writes
  MaxErrors,   \* bound on the connections closed
  MaxRefused   \* bound on the commands refused for want of memory

NoClient == "none"

ScriptingAssumption ==
  /\ NoClient \notin Client /\ Pcall \in BOOLEAN /\ Pipelining \in BOOLEAN
  /\ MaxWrites \in Nat /\ MaxErrors \in Nat /\ MaxRefused \in Nat

VARIABLES
  up,       \* the server runs
  conn,     \* of a client: "open", "closed" by the peer, or "freed"
  out,      \* of a client: output is waiting for the socket
  readable, \* of a client: the event loop reads its socket
  lua,      \* the script under way, and the server's variables about it
  data,     \* the writes executed: who has made them
  last,     \* of the script that ended last: why, how many writes it had made, whether its client was gone
  count     \* connections closed, commands refused

vars == <<up, conn, out, readable, lua, data, last, count>>

Idle == [caller |-> NoClient, written |-> 0, random |-> FALSE, timedout |-> FALSE, kill |-> FALSE]

Init ==
  /\ up = TRUE
  /\ conn = [c \in Client |-> "open"] /\ out = [c \in Client |-> FALSE] /\ readable = [c \in Client |-> TRUE]
  /\ lua = Idle /\ data = <<>> /\ last = [why |-> "none", written |-> 0, freed |-> FALSE]
  /\ count = [closed |-> 0, refused |-> 0]

Running == up /\ lua.caller # NoClient
Waiting == up /\ lua.caller = NoClient

-----------------------------------------------------------------------------
(* The variables that the event loop under a script can change, and whom it reads *)
State == [up |-> up, conn |-> conn, out |-> out, readable |-> readable, lua |-> lua, data |-> data]

Become(S) ==
  /\ up' = S.up /\ conn' = S.conn /\ out' = S.out /\ readable' = S.readable /\ lua' = S.lua /\ data' = S.data

(* evalGenericCommand up to lua_pcall *)
Eval(c) ==
  /\ Waiting /\ conn[c] = "open" /\ (out[c] => Pipelining)
  /\ Become([State EXCEPT !.lua = [Idle EXCEPT !.caller = c]])
  /\ UNCHANGED <<last, count>>

(* evalGenericCommand after lua_pcall: the client gets its reply and is read again *)
Ends(S, why) ==
  /\ last' = [why |-> why, written |-> S.lua.written, freed |-> S.conn[S.lua.caller] = "freed"]
  /\ Become([S EXCEPT !.lua = Idle, !.readable[S.lua.caller] = IF S.lua.timedout THEN TRUE ELSE @])

Return == Running /\ Ends(State, "returned") /\ UNCHANGED count

(* luaRedisGenericCommand: an error of redis.call ends the script, an error of redis.pcall does not *)
Refused(why) == Ends(State, why) \/ (Become(State) /\ UNCHANGED last)

(* luaRedisGenericCommand: memory is looked at before the first write only *)
OutOfMemory == lua.written = 0 /\ count.refused < MaxRefused

(* luaRedisGenericCommand of a write, which is refused after a command with a random result *)
CallWrite ==
  /\ Running /\ Len(data) < MaxWrites
  /\ \/ lua.random /\ Refused("random") /\ UNCHANGED count
     \/ ~lua.random /\ OutOfMemory /\ Refused("memory") /\ count' = [count EXCEPT !.refused = @ + 1]
     \/ /\ ~lua.random
        /\ Become([State EXCEPT !.lua.written = @ + 1, !.data = Append(@, lua.caller)])
        /\ UNCHANGED <<last, count>>

CallRandom ==
  /\ Running /\ ~lua.random
  /\ Become([State EXCEPT !.lua.random = TRUE]) /\ UNCHANGED <<last, count>>

-----------------------------------------------------------------------------
Readable(S, c) == S.conn[c] # "freed" /\ S.readable[c]

\* Faulty variant: a script that has written is killed too.
ScriptKillAny(S) == [S EXCEPT !.lua.kill = TRUE]

(* scriptCommand, KILL *)
ScriptKill(S) == IF S.lua.written > 0 THEN S ELSE [S EXCEPT !.lua.kill = TRUE]

(* processCommand under a slow script: an error, SCRIPT KILL or SHUTDOWN NOSAVE *)
SlowCommand(S, c) == {S, ScriptKill(S), [S EXCEPT !.up = FALSE]}

(* The end of a connection is read *)
ReadEnd(S, c) == IF Readable(S, c) /\ S.conn[c] = "closed" THEN {[S EXCEPT !.conn[c] = "freed", !.out[c] = FALSE]} ELSE {}

(* sendReplyToClient, of a client that is read or not *)
WriteOut(S, c) ==
  IF S.conn[c] = "freed" \/ ~S.out[c] THEN {}
  ELSE {[S EXCEPT !.out[c] = FALSE, !.conn[c] = IF @ = "closed" THEN "freed" ELSE @]}

(* processEventsWhileBlocked, with at most one event *)
Events(S) ==
  {S} \cup UNION {(IF Readable(S, c) /\ S.conn[c] = "open" THEN SlowCommand(S, c) ELSE {})
                    \cup ReadEnd(S, c) \cup WriteOut(S, c) : c \in Client}

(* luaMaskCountHook: the time is over *)
TimedOut(S) == [S EXCEPT !.lua.timedout = TRUE, !.readable[S.lua.caller] = FALSE]

(* luaMaskCountHook.  The error it raises ends the script, unless the script catches it *)
Hook ==
  /\ Running
  /\ \E S \in IF lua.timedout THEN Events(State) ELSE {State} \cup Events(TimedOut(State)) :
       IF S.up /\ S.lua.kill THEN Ends(S, "killed") \/ (Pcall /\ Become(S) /\ UNCHANGED last)
       ELSE Become(S) /\ UNCHANGED last
  /\ UNCHANGED count

-----------------------------------------------------------------------------
(* Without a script: another command, whose reply waits for the socket; events of the connections *)
Command(c) ==
  /\ Waiting /\ conn[c] = "open" /\ Len(data) < MaxWrites
  /\ Become([State EXCEPT !.data = Append(@, c), !.out[c] = TRUE]) /\ UNCHANGED <<last, count>>

Event(c) ==
  /\ Waiting
  /\ \E S \in ReadEnd(State, c) \cup WriteOut(State, c) : Become(S)
  /\ UNCHANGED <<last, count>>

Close(c) ==
  /\ conn[c] = "open" /\ count.closed < MaxErrors
  /\ Become([State EXCEPT !.conn[c] = "closed"])
  /\ count' = [count EXCEPT !.closed = @ + 1] /\ UNCHANGED last

Next ==
  \/ \E c \in Client : Eval(c) \/ Command(c) \/ Event(c) \/ Close(c)
  \/ Return \/ CallWrite \/ CallRandom \/ Hook

Spec == Init /\ [][Next]_vars

-----------------------------------------------------------------------------
(* A script that is stopped from outside, by SCRIPT KILL or for want of    *)
(* memory, has written nothing (redis.conf:608, scripting.c:324).          *)
StoppedWroteNothing == last.why \in {"killed", "memory"} => last.written = 0

(* The client of EVAL is still there when the script ends, although the    *)
(* event loop has run in between (scripting.c:518).                        *)
CallerThere == ~last.freed

(* Whatever ends a script, its client is read again.                       *)
ReadAgain == Waiting => \A c \in Client : conn[c] # "freed" => readable[c]

(* The inductive invariant, where scripts catch no errors and EVAL is sent *)
(* with no reply outstanding: the client of a script is there and has      *)
(* nothing to be sent, and it is the only one not read once the time is    *)
(* over, so that no event can free it.                                     *)
States ==
  [up : BOOLEAN, conn : [Client -> {"open", "closed", "freed"}],
   out : [Client -> BOOLEAN], readable : [Client -> BOOLEAN],
   lua : [caller : Client \cup {NoClient}, written : Nat, random : BOOLEAN, timedout : BOOLEAN, kill : BOOLEAN],
   data : Seq(Client)]

Attended(S) ==
  /\ S.lua.caller # NoClient => S.conn[S.lua.caller] # "freed" /\ ~S.out[S.lua.caller]
  /\ S.lua.caller = NoClient => ~S.lua.timedout
  /\ S.lua.timedout => ~S.readable[S.lua.caller]
  /\ \A c \in Client : S.conn[c] # "freed" => S.readable[c] \/ (S.lua.timedout /\ c = S.lua.caller)
  /\ S.lua.kill => S.lua.written = 0

ScriptInvariant ==
  /\ State \in States /\ Attended(State) /\ ~lua.kill
  /\ last \in [why : {"none", "returned", "random", "memory", "killed"}, written : Nat, freed : BOOLEAN]
  /\ count \in [closed : Nat, refused : Nat]
  /\ StoppedWroteNothing /\ CallerThere
=============================================================================

------------------------- MODULE AbstractSortedSets -------------------------
(***************************************************************************)
(* What the sorted set commands promise: a key holds a function from       *)
(* members to scores, empty for a key that does not exist.                 *)
(***************************************************************************)
EXTENDS Integers, FiniteSets, Functions

CONSTANTS
  Key, Member,
  Inf,         \* the infinite score; -Inf is the other one
  AddScores,   \* scores in commands
  Weights, PlainSet,
  MaxIndex

VARIABLES zsets, cmd

vars == <<zsets, cmd>>

None == <<"none">>

NaN == Inf + 1
Finite == (1 - Inf)..(Inf - 1)

(* Sums and products of scores; a finite one outside of the model's range  *)
(* is not of interest.                                                     *)
Plus(a, b) ==
  IF a \in {Inf, -Inf} THEN (IF b = -a THEN NaN ELSE a)
  ELSE IF b \in {Inf, -Inf} THEN b ELSE a + b
Times(a, b) ==
  IF a \notin {Inf, -Inf} THEN a * b
  ELSE IF b = 0 THEN NaN ELSE IF b > 0 THEN a ELSE -a

ScoreRange == [min : AddScores, max : AddScores, minex : BOOLEAN, maxex : BOOLEAN]
LexRange == [min : {0} \cup Member, max : Member, minex : BOOLEAN, maxex : BOOLEAN]
Index == (-MaxIndex)..MaxIndex

Aggregate == {"sum", "min", "max"}

(* The sources of a store command: keys, or the plain set *)
Source == Key \cup {"set"}

Commands ==
  ({"zadd", "zincrby"} \X Key \X AddScores \X Member) \cup ({"zrem"} \X Key \X Member)
    \cup ({"zremrangebyrank"} \X Key \X Index \X Index)
    \cup ({"zremrangebyscore"} \X Key \X ScoreRange) \cup ({"zremrangebylex"} \X Key \X LexRange)

StoreCommands ==
  {"zunionstore", "zinterstore"} \X Key \X Source \X Source \X Weights \X Aggregate

Init == zsets = [k \in Key |-> <<>>] /\ cmd = None

Send == cmd = None /\ cmd' \in Commands \cup StoreCommands /\ UNCHANGED zsets

In(v, r) ==
  /\ IF r.minex THEN v > r.min ELSE v >= r.min
  /\ IF r.maxex THEN v < r.max ELSE v <= r.max

Precedes(f, m, n) == f[m] < f[n] \/ (f[m] = f[n] /\ m < n)

(* The rank of a member, the lowest being 0 *)
RankIn(f, m) == Cardinality({n \in DOMAIN f : Precedes(f, n, m)})

(* Whether a rank is between two indexes, which count from the end when    *)
(* they are negative.                                                      *)
RankBetween(f, rank, start, end) ==
  LET n == Cardinality(DOMAIN f)
      at(i) == IF i < 0 THEN n + i ELSE i
  IN  at(start) <= rank /\ rank <= at(end)

With(f, m, s) == [n \in DOMAIN f \cup {m} |-> IF n = m THEN s ELSE f[n]]

(* What becomes of f: a member may be added or updated, or the members     *)
(* that Gone names go.                                                     *)
Gone(f) ==
  {m \in DOMAIN f :
     CASE cmd[1] = "zrem" -> m = cmd[3]
       [] cmd[1] = "zremrangebyrank" -> RankBetween(f, RankIn(f, m), cmd[3], cmd[4])
       [] cmd[1] = "zremrangebyscore" -> In(f[m], cmd[3])
       [] cmd[1] = "zremrangebylex" -> In(m, cmd[3])
       [] OTHER -> FALSE}

Result(f) ==
  CASE cmd[1] = "zadd" -> With(f, cmd[4], cmd[3])
    [] cmd[1] = "zincrby" ->
         IF cmd[4] \notin DOMAIN f THEN With(f, cmd[4], cmd[3])
         ELSE IF Plus(f[cmd[4]], cmd[3]) = NaN THEN f ELSE With(f, cmd[4], Plus(f[cmd[4]], cmd[3]))
    [] OTHER -> Restrict(f, DOMAIN f \ Gone(f))

(* The union or intersection of two sources, the second one weighted; a    *)
(* sum or product that is not a number counts as 0.                        *)
Contents(s) == IF s = "set" THEN [m \in PlainSet |-> 1] ELSE zsets[s]
Num(x) == IF x = NaN THEN 0 ELSE x
Combine(a, b, aggr) ==
  CASE aggr = "sum" -> Num(Plus(a, b))
    [] aggr = "min" -> IF b < a THEN b ELSE a
    [] aggr = "max" -> IF b > a THEN b ELSE a

StoreResult ==
  LET f == Contents(cmd[3])
      g == [m \in DOMAIN Contents(cmd[4]) |-> Num(Times(Contents(cmd[4])[m], cmd[5]))]
      both == DOMAIN f \cap DOMAIN g
      all == IF cmd[1] = "zinterstore" THEN both ELSE DOMAIN f \cup DOMAIN g
  IN  [m \in all |-> IF m \in both THEN Combine(f[m], g[m], cmd[6])
                     ELSE IF m \in DOMAIN f THEN f[m] ELSE g[m]]

New == IF cmd[1] \in {"zunionstore", "zinterstore"} THEN StoreResult ELSE Result(zsets[cmd[2]])

InRange(f) == \A m \in DOMAIN f : f[m] \in Finite \cup {Inf, -Inf}

(* A range by member is only meant for members of one score: with several  *)
(* scores it is not said which members go.                                 *)
Unspecified ==
  cmd[1] = "zremrangebylex" /\ \E m, n \in DOMAIN zsets[cmd[2]] : zsets[cmd[2]][m] # zsets[cmd[2]][n]

Execute ==
  /\ cmd # None /\ cmd' = None /\ InRange(New)
  /\ \/ ~Unspecified /\ zsets' = [zsets EXCEPT ![cmd[2]] = New]
     \/ Unspecified /\ \E stay \in SUBSET DOMAIN zsets[cmd[2]] :
          zsets' = [zsets EXCEPT ![cmd[2]] = Restrict(@, stay)]

(* A command whose scores leave the model's range is taken back. *)
TakeBack == cmd # None /\ cmd' = None /\ ~InRange(New) /\ UNCHANGED zsets

Next == Send \/ Execute \/ TakeBack

Spec == Init /\ [][Next]_vars
=============================================================================

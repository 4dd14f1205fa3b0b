--------------------------- MODULE AbstractLists ---------------------------
(***************************************************************************)
(* What the list commands promise, over plain sequences: a key without a   *)
(* list holds the empty sequence.                                          *)
(***************************************************************************)
EXTENDS Integers, Sequences, SequencesExt, FiniteSets

CONSTANTS Key, Value, MaxLen, MaxIndex

VARIABLES
  lists,  \* Key -> sequence of values
  cmd     \* the command that has been sent and not yet executed

vars == <<lists, cmd>>

None == <<"none">>

Insert(s, v, head) == IF head THEN <<v>> \o s ELSE Append(s, v)

(* An index counts from the head, or from the tail when negative (-1 the last). *)
Pos(s, i) == IF i < 0 THEN Len(s) + i + 1 ELSE i + 1

(* The positions of the range start..end *)
Between(s, start, end) == {p \in DOMAIN s : Pos(s, start) <= p /\ p <= Pos(s, end)}

(* The subsequence of s at a set of positions *)
At(s, ps) == FoldLeft(LAMBDA t, p : IF p \in ps THEN Append(t, s[p]) ELSE t, <<>>,
                      [p \in 1..Len(s) |-> p])

(* The positions LREM removes: the first n occurrences of v from the head, *)
(* from the tail when n is negative, all when it is zero.                  *)
Occurrences(s, v, n) ==
  {p \in DOMAIN s :
     /\ s[p] = v
     /\ n > 0 => Cardinality({q \in 1..p : s[q] = v}) <= n
     /\ n < 0 => Cardinality({q \in p..Len(s) : s[q] = v}) <= -n}

Index == (-MaxIndex)..MaxIndex

Commands ==
  ({"push", "pushx"} \X Key \X Value \X BOOLEAN) \cup ({"pop"} \X Key \X BOOLEAN)
    \cup ({"linsert"} \X Key \X Value \X Value \X BOOLEAN)
    \cup ({"lset", "lrem"} \X Key \X Index \X Value)
    \cup ({"ltrim"} \X Key \X Index \X Index) \cup ({"rpoplpush"} \X Key \X Key)

Init == lists = [k \in Key |-> <<>>] /\ cmd = None

Send == cmd = None /\ cmd' \in Commands /\ UNCHANGED lists

(* What becomes of the list s of the command's key *)
Result(s) ==
  CASE cmd[1] = "push" -> Insert(s, cmd[3], cmd[4])
    [] cmd[1] = "pushx" -> IF s = <<>> THEN s ELSE Insert(s, cmd[3], cmd[4])
    [] cmd[1] = "pop" -> IF s = <<>> THEN s ELSE IF cmd[3] THEN Tail(s) ELSE Front(s)
    [] cmd[1] = "linsert" ->
         LET at == {p \in DOMAIN s : s[p] = cmd[3] /\ \A q \in 1..(p - 1) : s[q] # cmd[3]}
         IN  IF at = {} THEN s
             ELSE InsertAt(s, (CHOOSE p \in at : TRUE) + (IF cmd[5] THEN 1 ELSE 0), cmd[4])
    [] cmd[1] = "lset" ->
         IF Pos(s, cmd[3]) \in DOMAIN s THEN [s EXCEPT ![Pos(s, cmd[3])] = cmd[4]] ELSE s
    [] cmd[1] = "ltrim" -> At(s, Between(s, cmd[3], cmd[4]))
    [] cmd[1] = "lrem" -> At(s, DOMAIN s \ Occurrences(s, cmd[4], cmd[3]))

Rpoplpush(k, d) ==
  IF lists[k] = <<>> THEN lists
  ELSE LET e == Last(lists[k])
           popped == [lists EXCEPT ![k] = Front(@)]
       IN  [popped EXCEPT ![d] = <<e>> \o @]

Execute ==
  /\ cmd # None /\ cmd' = None
  /\ lists' = IF cmd[1] = "rpoplpush" THEN Rpoplpush(cmd[2], cmd[3])
              ELSE [lists EXCEPT ![cmd[2]] = Result(@)]

(* A command that would make a list too long for the model is taken back. *)
TakeBack == cmd # None /\ cmd' = None /\ UNCHANGED lists /\ \E k \in Key : Len(lists[k]) = MaxLen

Next == Send \/ Execute \/ TakeBack

Spec == Init /\ [][Next]_vars
=============================================================================

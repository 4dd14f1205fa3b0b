---------------------------- MODULE AbstractMap ----------------------------
(***************************************************************************)
(* What a hash table promises: a map from keys to values.  op is the       *)
(* operation that the last step has executed.                              *)
(***************************************************************************)
CONSTANTS Key, Val, Absent

VARIABLES map, op

vars == <<map, op>>

Quiet == <<"quiet">>

Init == map = [k \in Key |-> Absent] /\ op = Quiet

Add(k, v) ==
  op' = <<"add", k, v>> /\ map' = IF map[k] = Absent THEN [map EXCEPT ![k] = v] ELSE map
Replace(k, v) == op' = <<"replace", k, v>> /\ map' = [map EXCEPT ![k] = v]
Delete(k) == op' = <<"delete", k>> /\ map' = [map EXCEPT ![k] = Absent]
Empty == op' = <<"empty">> /\ map' = [k \in Key |-> Absent]
Other == op' = Quiet /\ map' = map

Next ==
  \/ \E k \in Key, v \in Val : Add(k, v) \/ Replace(k, v)
  \/ \E k \in Key : Delete(k)
  \/ Empty \/ Other

Spec == Init /\ [][Next]_vars
=============================================================================

--------------------------- MODULE ProgressProofs ---------------------------
(***************************************************************************)
(* Proofs of the safety properties of the suite Progress, for any values   *)
(* of the parameters of its components: each component has an inductive    *)
(* invariant, a lemma for its initial states and one for its steps, and    *)
(* the suite puts them together.                                           *)
(***************************************************************************)
EXTENDS MCProgress, Sequences, SequenceTheorems, WellFoundedInduction, FiniteSetTheorems, TLAPS

-----------------------------------------------------------------------------
(* Some slave has the best rank. *)
LEMMA BestExists ==
  ASSUME NEW S, S # {}, NEW f, \A i \in S : f[i] \in Nat
  PROVE  \E i \in S : \A j \in S : f[i] <= f[j]
<1> DEFINE T == {f[i] : i \in S}
<1>1. T \subseteq Nat /\ T # {}
  OBVIOUS
<1>2. PICK x \in T : \A y \in T : ~(<<y, x>> \in OpToRel(<, Nat))
  <2> HIDE DEF T
  <2> QED
    BY <1>1, NatLessThanWellFounded, WFMin
<1>3. PICK i \in S : x = f[i]
  OBVIOUS
<1>4. ASSUME NEW j \in S PROVE f[i] <= f[j]
  <2>1. f[j] \in T /\ f[j] \in Nat /\ f[i] \in Nat
    OBVIOUS
  <2>2. ~(f[j] < f[i])
    BY <1>2, <1>3, <2>1 DEF OpToRel
  <2> QED
    BY <2>1, <2>2
<1> QED
  BY <1>4

(* The parts of the invariant of a failover that speak of the slaves, for  *)
(* given slaves, address, state and promoted slave.                        *)
Flagged(sl, a, st, p) ==
  /\ a \in Instance /\ st \in Fo!States /\ p \in DOMAIN sl \cup {Nil}
  /\ DOMAIN sl \subseteq Instance \ {a} /\ sl \in [DOMAIN sl -> Fo!Slave]
  /\ {i \in DOMAIN sl : sl[i].promoted} = {p} \ {Nil}
  /\ p # Nil <=> st \in {"send_slaveof_noone", "wait_promotion", "reconf_slaves"}
  /\ Fo!Busy(sl) # {} => st = "reconf_slaves"

Numbered(e, st) ==
  /\ e \in [config : 0..MaxEpoch, failover : 0..MaxEpoch, current : 0..MaxEpoch]
  /\ e.config <= e.current /\ e.failover <= e.current

Commanded(r, c) ==
  r \in [Instance -> Instance \cup {NoOne}] /\ c \in [Instance -> Instance \cup {NoOne, Nil}]

LEMMA FailoverParts ==
  Fo!FailoverInvariant <=>
    Flagged(slaves, addr, state, promoted) /\ Numbered(epoch, state) /\ Commanded(replicates, command)
BY DEF Fo!FailoverInvariant, Fo!TypeOK, Fo!OnePromoted, Fo!ReconfiguredToSomeone, Fo!Known, Flagged, Numbered, Commanded

(* Instances as new ones, under any address: nobody is promoted. *)
LEMMA NewInstances ==
  ASSUME NEW D, NEW a \in Instance, D \subseteq Instance \ {a}, Nil \notin Instance
  PROVE  Flagged([i \in D |-> Fo!NewSlave], a, "none", Nil)
<1> DEFINE sl == [i \in D |-> Fo!NewSlave]
<1>1. Fo!NewSlave \in Fo!Slave /\ Fo!NewSlave.promoted = FALSE /\ Fo!NewSlave.reconf = {}
  BY DEF Fo!NewSlave, Fo!Slave
<1>2. DOMAIN sl = D /\ sl \in [D -> Fo!Slave] /\ \A i \in D : sl[i] = Fo!NewSlave
  BY <1>1
<1> HIDE DEF sl
<1>3. Fo!Busy(sl) = {}
  BY <1>1, <1>2 DEF Fo!Busy
<1> QED
  BY <1>1, <1>2, <1>3 DEF Flagged, Fo!States, sl


(* A record of the table changes only in what the invariant does not look  *)
(* at, or in marks of the reconfiguration in the step in which they belong.*)
LEMMA SlaveUpdated ==
  ASSUME NEW sl, NEW a, NEW st, NEW p, Flagged(sl, a, st, p), NEW nl, DOMAIN nl = DOMAIN sl,
         nl \in [DOMAIN sl -> Fo!Slave], \A i \in DOMAIN sl : nl[i].promoted = sl[i].promoted,
         \/ st = "reconf_slaves"
         \/ \A i \in DOMAIN sl : sl[i].reconf \cap {"sent", "inprog"} = {} => nl[i].reconf \cap {"sent", "inprog"} = {}
  PROVE  Flagged(nl, a, st, p)
<1>1. {i \in DOMAIN nl : nl[i].promoted} = {i \in DOMAIN sl : sl[i].promoted}
  OBVIOUS
<1>2. Fo!Busy(nl) # {} => st = "reconf_slaves"
  BY DEF Flagged, Fo!Busy
<1> QED
  BY <1>1, <1>2 DEF Flagged

(* sentinelAbortFailover before any slave was reconfigured *)
LEMMA Aborted ==
  ASSUME NEW sl, NEW a, NEW st, NEW p, Flagged(sl, a, st, p), st # "reconf_slaves", Nil \notin Instance
  PROVE  Flagged([i \in DOMAIN sl |-> IF i = p THEN [sl[i] EXCEPT !.promoted = FALSE] ELSE sl[i]], a, "none", Nil)
<1> DEFINE nl == [i \in DOMAIN sl |-> IF i = p THEN [sl[i] EXCEPT !.promoted = FALSE] ELSE sl[i]]
<1>1. ASSUME NEW i \in DOMAIN sl
      PROVE  nl[i] \in Fo!Slave /\ nl[i].promoted = FALSE /\ nl[i].reconf = sl[i].reconf
  <2>1. sl[i] \in Fo!Slave /\ (sl[i].promoted => i = p)
    BY DEF Flagged
  <2>2. CASE i = p
    BY <2>1, <2>2 DEF Fo!Slave
  <2>3. CASE i # p
    BY <2>1, <2>3 DEF Fo!Slave
  <2> QED
    BY <2>2, <2>3
<1>2. DOMAIN nl = DOMAIN sl
  OBVIOUS
<1> HIDE DEF nl
<1>3. nl \in [DOMAIN nl -> Fo!Slave]
  <2>1. nl = [i \in DOMAIN sl |-> nl[i]]
    BY DEF nl
  <2> QED
    BY <1>1, <1>2, <2>1
<1>4. Fo!Busy(nl) = {}
  <2>1. Fo!Busy(sl) = {}
    BY DEF Flagged
  <2> QED
    BY <1>1, <1>2, <2>1 DEF Fo!Busy
<1>5. {i \in DOMAIN nl : nl[i].promoted} = {}
  BY <1>1, <1>2
<1>6. Flagged(nl, a, "none", Nil)
  BY <1>2, <1>3, <1>4, <1>5 DEF Flagged, Fo!States
<1> QED
  BY <1>6 DEF nl

(* sentinelSelectSlave has found one *)
LEMMA SlaveSelected ==
  ASSUME NEW sl, NEW a, NEW best \in DOMAIN sl, Flagged(sl, a, "select_slave", Nil), Nil \notin Instance
  PROVE  Flagged([sl EXCEPT ![best].promoted = TRUE], a, "send_slaveof_noone", best)
<1> DEFINE nl == [sl EXCEPT ![best].promoted = TRUE]
<1>1. sl \in [DOMAIN sl -> Fo!Slave] /\ best \in Instance /\ best # Nil
  BY DEF Flagged
<1>2. DOMAIN nl = DOMAIN sl
  OBVIOUS
<1>3. ASSUME NEW i \in DOMAIN sl
      PROVE  nl[i] \in Fo!Slave /\ (nl[i].promoted <=> i = best) /\ nl[i].reconf = sl[i].reconf
  <2>1. sl[i] \in Fo!Slave /\ ~sl[i].promoted
    BY DEF Flagged
  <2>2. CASE i = best
    BY <2>1, <2>2 DEF Fo!Slave
  <2>3. CASE i # best
    BY <2>1, <2>3 DEF Fo!Slave
  <2> QED
    BY <2>2, <2>3
<1>4. nl \in [DOMAIN nl -> Fo!Slave]
  BY <1>1, <1>3
<1> HIDE DEF nl
<1>5. Fo!Busy(nl) = {}
  <2>1. Fo!Busy(sl) = {}
    BY DEF Flagged
  <2> QED
    BY <1>2, <1>3, <2>1 DEF Fo!Busy
<1>6. {i \in DOMAIN nl : nl[i].promoted} = {best}
  BY <1>2, <1>3
<1>7. Flagged(nl, a, "send_slaveof_noone", best)
  BY <1>1, <1>2, <1>4, <1>5, <1>6 DEF Flagged, Fo!States
<1> QED
  BY <1>7 DEF nl

LEMMA MaxOfTwo ==
  ASSUME NEW x \in Int, NEW y \in Int
  PROVE  Fo!Max({x, y}) \in {x, y} /\ Fo!Max({x, y}) >= x /\ Fo!Max({x, y}) >= y
<1>1. \E z \in {x, y} : \A u \in {x, y} : z >= u
  OBVIOUS
<1> QED
  BY <1>1 DEF Fo!Max

LEMMA FailoverStep ==
  ASSUME Fo!FailoverInvariant, Fo!Next
  PROVE  /\ Fo!FailoverInvariant'
         /\ Fo!AnnouncedByEpoch /\ Fo!EpochGrows
<1> DEFINE Kept == /\ Flagged(slaves, addr, state, promoted)' /\ Numbered(epoch, state)'
                   /\ Commanded(replicates, command)'
           Steady == epoch' = epoch /\ Fo!CurrentMaster' = Fo!CurrentMaster
<1>1. /\ Flagged(slaves, addr, state, promoted) /\ Numbered(epoch, state)
      /\ Commanded(replicates, command)
  BY FailoverParts
<1>2. Nil \notin Instance /\ NoOne \notin Instance /\ MaxElected \in Nat /\ MaxEpoch \in Nat /\ MaxElected <= MaxEpoch
  BY FailoverAssumption DEF Fo!FailoverAssumption
<1>3. ASSUME Kept PROVE Fo!FailoverInvariant'
  BY <1>3 DEF Fo!FailoverInvariant, Fo!TypeOK, Fo!OnePromoted, Fo!ReconfiguredToSomeone, Fo!Known,
              Flagged, Numbered, Commanded
<1>4. /\ epoch.config \in 0..MaxEpoch /\ epoch.failover \in 0..MaxEpoch /\ epoch.current \in 0..MaxEpoch
      /\ epoch.config <= epoch.current /\ epoch.failover <= epoch.current
  BY <1>1 DEF Numbered
<1>5. ASSUME epoch' = epoch PROVE Fo!EpochGrows
  BY <1>4, <1>5 DEF Fo!EpochGrows
<1>6. ASSUME Steady PROVE Fo!AnnouncedByEpoch /\ Fo!EpochGrows
  BY <1>5, <1>6 DEF Fo!AnnouncedByEpoch
<1> HIDE DEF Kept, Steady
<1>7. CASE Fo!Elected
  <2>1. /\ state = "none" /\ epoch.current < MaxElected /\ state' = "select_slave"
        /\ epoch' = [epoch EXCEPT !.current = @ + 1, !.failover = epoch.current + 1]
        /\ UNCHANGED <<addr, promoted, slaves, replicates, command>>
    BY <1>7 DEF Fo!Elected
  <2>2. epoch.current + 1 \in 0..MaxEpoch
    BY <1>2, <1>4, <2>1
  <2>3. epoch' \in [config : 0..MaxEpoch, failover : 0..MaxEpoch, current : 0..MaxEpoch]
    BY <1>1, <2>1, <2>2 DEF Numbered
  <2>4. epoch'.config = epoch.config /\ epoch'.failover = epoch.current + 1 /\ epoch'.current = epoch.current + 1
    BY <1>1, <2>1 DEF Numbered
  <2>5. Numbered(epoch, state)'
    BY <1>4, <2>3, <2>4 DEF Numbered
  <2>6. Flagged(slaves, addr, state, promoted)'
    BY <1>1, <2>1 DEF Flagged, Fo!States
  <2>7. Kept
    BY <1>1, <2>1, <2>5, <2>6 DEF Kept, Commanded
  <2>8. Fo!CurrentMaster' = Fo!CurrentMaster
    BY <1>1, <2>1 DEF Fo!CurrentMaster, Flagged
  <2> QED
    BY <1>3, <1>4, <2>4, <2>7, <2>8 DEF Fo!AnnouncedByEpoch, Fo!EpochGrows
<1>8. ASSUME Fo!Abort, state # "reconf_slaves" PROVE Kept /\ Steady
  <2>1. /\ state' = "none" /\ promoted' = Nil
        /\ slaves' = [i \in DOMAIN slaves |->
                        IF i = promoted THEN [slaves[i] EXCEPT !.promoted = FALSE] ELSE slaves[i]]
        /\ UNCHANGED <<addr, epoch, replicates, command>>
    BY <1>8 DEF Fo!Abort, Fo!Known
  <2>2. Flagged(slaves, addr, state, promoted)'
    BY <1>1, <1>2, <1>8, <2>1, Aborted
  <2>3. Numbered(epoch, state)' /\ Commanded(replicates, command)'
    BY <1>1, <2>1 DEF Numbered, Commanded
  <2>4. Fo!CurrentMaster' = Fo!CurrentMaster
    BY <1>8, <2>1 DEF Fo!CurrentMaster
  <2> QED
    BY <2>1, <2>2, <2>3, <2>4 DEF Kept, Steady
<1>9. CASE Fo!SelectSlave
  <2>1. PICK recent \in SUBSET Fo!Usable :
          \/ recent = {} /\ Fo!Abort
          \/ /\ recent # {}
             /\ LET best == CHOOSE i \in recent : \A j \in recent : Preference[i] <= Preference[j]
                IN  /\ promoted' = best
                    /\ slaves' = [slaves EXCEPT ![best].promoted = TRUE]
             /\ state' = "send_slaveof_noone"
             /\ UNCHANGED <<addr, epoch, replicates, command>>
    BY <1>9 DEF Fo!SelectSlave
  <2>2. state = "select_slave"
    BY <1>9 DEF Fo!SelectSlave
  <2>3. CASE Fo!Abort
    BY <1>3, <1>6, <1>8, <2>2, <2>3
  <2>4. CASE ~Fo!Abort
    <3> DEFINE best == CHOOSE i \in recent : \A j \in recent : Preference[i] <= Preference[j]
    <3>1. /\ recent # {} /\ promoted' = best /\ slaves' = [slaves EXCEPT ![best].promoted = TRUE]
          /\ state' = "send_slaveof_noone" /\ UNCHANGED <<addr, epoch, replicates, command>>
      BY <2>1, <2>4
    <3>2. recent \subseteq DOMAIN slaves /\ \A i \in recent : Preference[i] \in Nat
      BY <1>1, FailoverAssumption DEF Fo!Usable, Fo!Known, Flagged, Fo!FailoverAssumption
    <3>3. best \in DOMAIN slaves
      <4>1. \E i \in recent : \A j \in recent : Preference[i] <= Preference[j]
        BY <3>1, <3>2, BestExists
      <4> QED
        BY <3>2, <4>1
    <3> HIDE DEF best
    <3>4. promoted = Nil
      BY <1>1, <2>2 DEF Flagged
    <3>5. Flagged(slaves, addr, state, promoted)'
      <4>1. Flagged(slaves, addr, "select_slave", Nil)
        BY <1>1, <2>2, <3>4
      <4>2. Flagged([slaves EXCEPT ![best].promoted = TRUE], addr, "send_slaveof_noone", best)
        BY <1>2, <3>3, <4>1, SlaveSelected
      <4> QED
        BY <3>1, <4>2
    <3>6. Numbered(epoch, state)' /\ Commanded(replicates, command)'
      BY <1>1, <2>2, <3>1 DEF Numbered, Commanded
    <3>7. Fo!CurrentMaster' = Fo!CurrentMaster
      BY <2>2, <3>1 DEF Fo!CurrentMaster
    <3> QED
      BY <1>3, <1>6, <3>1, <3>5, <3>6, <3>7 DEF Kept, Steady
  <2> QED
    BY <2>3, <2>4
<1>10. CASE Fo!SendSlaveOfNoOne
  <2>1. state = "send_slaveof_noone"
    BY <1>10 DEF Fo!SendSlaveOfNoOne
  <2>2. CASE Fo!Abort
    BY <1>3, <1>6, <1>8, <2>1, <2>2
  <2>3. CASE ~Fo!Abort
    <3>1. /\ command' = [command EXCEPT ![promoted] = NoOne] /\ state' = "wait_promotion"
          /\ UNCHANGED <<addr, promoted, epoch, slaves, replicates>>
      BY <1>10, <2>3 DEF Fo!SendSlaveOfNoOne
    <3>2. Flagged(slaves, addr, state, promoted)'
      BY <1>1, <2>1, <3>1 DEF Flagged, Fo!States
    <3>3. Numbered(epoch, state)' /\ Commanded(replicates, command)'
      BY <1>1, <2>1, <3>1 DEF Numbered, Commanded
    <3>4. Fo!CurrentMaster' = Fo!CurrentMaster
      BY <2>1, <3>1 DEF Fo!CurrentMaster
    <3> QED
      BY <1>3, <1>6, <3>1, <3>2, <3>3, <3>4 DEF Kept, Steady
  <2> QED
    BY <2>2, <2>3
<1>11. CASE Fo!WaitPromotionTimeout
  BY <1>3, <1>6, <1>8, <1>11 DEF Fo!WaitPromotionTimeout
<1>12. ASSUME NEW new \in Instance, Fo!ChangeAddress(new, DOMAIN slaves)
       PROVE  Flagged(slaves, addr, state, promoted)' /\ state' = "none" /\ promoted' = Nil /\ addr' = new
  <2>1. /\ addr' = new /\ slaves' = [i \in (DOMAIN slaves \cup {addr}) \ {new} |-> Fo!NewSlave]
        /\ state' = "none" /\ promoted' = Nil
    BY <1>12 DEF Fo!ChangeAddress
  <2>2. (DOMAIN slaves \cup {addr}) \ {new} \subseteq Instance \ {new}
    BY <1>1 DEF Flagged
  <2> QED
    BY <1>2, <2>1, <2>2, NewInstances
<1>13. CASE Fo!ReconfNextSlave
  <2>1. state = "reconf_slaves" /\ UNCHANGED <<epoch, replicates>>
    BY <1>13 DEF Fo!ReconfNextSlave
  <2>2. promoted \in DOMAIN slaves /\ promoted # Nil /\ promoted \in Instance
    BY <1>1, <2>1 DEF Flagged
  <2> DEFINE ended(x, el, t, l) == /\ ~slaves[promoted].s_down
                                   /\ Fo!NotReconfigured(Fo!Reconf(x, t, l)) = {} \/ el
             sent(x, el, t, l) ==
               t \cup (IF ended(x, el, t, l) /\ el THEN Fo!BestEffort(Fo!Reconf(x, t, l)) ELSE {})
             Loop(x, el, t, l) ==
               /\ command' = [i \in Instance |-> IF i \in sent(x, el, t, l) THEN promoted ELSE command[i]]
               /\ IF ended(x, el, t, l) THEN Fo!ChangeAddress(promoted, DOMAIN slaves)
                  ELSE slaves' = Fo!Reconf(x, t, l) /\ UNCHANGED <<addr, state, promoted>>
  <2>3. \E x \in SUBSET {i \in Fo!Known : slaves[i].reconf = {"sent"}}, el \in BOOLEAN :
          \E t \in Fo!Told(x) : \E l \in Fo!GivenUp(x, t) : Loop(x, el, t, l)
    BY <1>13 DEF Fo!ReconfNextSlave, Fo!Known
  <2>4. PICK expired, elapsed, told, lost : Loop(expired, elapsed, told, lost)
    <3> HIDE DEF Loop
    <3> QED
      BY <2>3
  <2> HIDE DEF ended, sent
  <2>5. Commanded(replicates, command)'
    BY <1>1, <2>1, <2>2, <2>4 DEF Commanded
  <2>6. CASE Fo!ChangeAddress(promoted, DOMAIN slaves)
    <3>1. Flagged(slaves, addr, state, promoted)' /\ state' = "none" /\ promoted' = Nil /\ addr' = promoted
      BY <1>12, <2>2, <2>6
    <3>2. Numbered(epoch, state)'
      BY <1>1, <2>1, <3>1 DEF Numbered
    <3>3. Fo!CurrentMaster' = Fo!CurrentMaster
      BY <2>1, <2>2, <3>1 DEF Fo!CurrentMaster
    <3> QED
      BY <1>3, <1>6, <2>1, <2>5, <3>1, <3>2, <3>3 DEF Kept, Steady
  <2>7. CASE slaves' = Fo!Reconf(expired, told, lost) /\ UNCHANGED <<addr, state, promoted>>
    <3> DEFINE nl == Fo!Reconf(expired, told, lost)
    <3>1. DOMAIN nl = DOMAIN slaves
      BY DEF Fo!Reconf, Fo!Known
    <3>2. ASSUME NEW i \in DOMAIN slaves
          PROVE  nl[i] \in Fo!Slave /\ nl[i].promoted = slaves[i].promoted
      <4>1. slaves[i] \in Fo!Slave
        BY <1>1 DEF Flagged
      <4>2. PICK r \in SUBSET {"sent", "inprog", "done"} : nl[i] = [slaves[i] EXCEPT !.reconf = r]
        <5>1. CASE i \in told
          BY <5>1 DEF Fo!Reconf, Fo!Known
        <5>2. CASE i \notin told /\ i \in lost
          BY <5>2 DEF Fo!Reconf, Fo!Known
        <5>3. CASE i \notin told /\ i \notin lost
          <6>1. slaves[i] = [slaves[i] EXCEPT !.reconf = slaves[i].reconf]
            BY <4>1 DEF Fo!Slave
          <6>2. slaves[i].reconf \in SUBSET {"sent", "inprog", "done"}
            BY <4>1 DEF Fo!Slave
          <6>3. nl[i] = slaves[i]
            BY <5>3 DEF Fo!Reconf, Fo!Known
          <6> QED
            BY <6>1, <6>2, <6>3
        <5> QED
          BY <5>1, <5>2, <5>3
      <4> QED
        BY <4>1, <4>2 DEF Fo!Slave
    <3>3. nl \in [DOMAIN slaves -> Fo!Slave]
      <4>1. nl = [i \in DOMAIN slaves |-> nl[i]]
        BY DEF Fo!Reconf, Fo!Known
      <4> HIDE DEF nl
      <4> QED
        BY <3>2, <4>1
    <3> HIDE DEF nl
    <3>4. Flagged(nl, addr, state, promoted)
      BY <1>1, <2>1, <3>1, <3>2, <3>3, SlaveUpdated
    <3>5. Flagged(slaves, addr, state, promoted)'
      BY <2>7, <3>4 DEF nl
    <3>6. Numbered(epoch, state)'
      BY <1>1, <2>1, <2>7 DEF Numbered
    <3>7. Fo!CurrentMaster' = Fo!CurrentMaster
      BY <2>7 DEF Fo!CurrentMaster
    <3> QED
      BY <1>3, <1>6, <2>1, <2>5, <3>5, <3>6, <3>7 DEF Kept, Steady
  <2> QED
    BY <2>4, <2>6, <2>7
<1>14. CASE Fo!InfoOfMaster
  <2> DEFINE D == DOMAIN slaves \cup {j \in Instance \ {addr} : replicates[j] = addr}
             nl == [i \in D |-> IF i \in DOMAIN slaves THEN slaves[i] ELSE Fo!NewSlave]
  <2>1. slaves' = nl /\ UNCHANGED <<addr, state, promoted, epoch, replicates, command>>
    BY <1>14 DEF Fo!InfoOfMaster, Fo!Known
  <2>2. ASSUME NEW i \in D
        PROVE  /\ nl[i] \in Fo!Slave
               /\ nl[i].promoted <=> i \in DOMAIN slaves /\ slaves[i].promoted
               /\ nl[i].reconf = IF i \in DOMAIN slaves THEN slaves[i].reconf ELSE {}
    BY <1>1 DEF Flagged, Fo!Slave, Fo!NewSlave
  <2>3. DOMAIN nl = D /\ nl \in [D -> Fo!Slave]
    BY <2>2
  <2>4. D \subseteq Instance \ {addr} /\ DOMAIN slaves \subseteq D
    BY <1>1 DEF Flagged
  <2> HIDE DEF nl, D
  <2>5. {i \in DOMAIN nl : nl[i].promoted} = {i \in DOMAIN slaves : slaves[i].promoted}
    BY <2>2, <2>3, <2>4
  <2>6. Fo!Busy(nl) = Fo!Busy(slaves)
    BY <2>2, <2>3, <2>4 DEF Fo!Busy
  <2>7. Flagged(nl, addr, state, promoted)
    BY <1>1, <2>3, <2>4, <2>5, <2>6 DEF Flagged
  <2>8. Kept
    BY <1>1, <2>1, <2>7 DEF Kept, Numbered, Commanded
  <2>9. Steady
    BY <2>1 DEF Steady, Fo!CurrentMaster
  <2> QED
    BY <1>3, <1>6, <2>8, <2>9
<1>15. CASE Fo!ResetMaster
  <2>1. /\ slaves' = [i \in {} |-> Fo!NewSlave] /\ state' = "none" /\ promoted' = Nil
        /\ UNCHANGED <<addr, epoch, replicates, command>>
    BY <1>15 DEF Fo!ResetMaster
  <2>2. addr \in Instance
    BY <1>1 DEF Flagged
  <2>3. Flagged(slaves, addr, state, promoted)'
    BY <1>2, <2>1, <2>2, NewInstances
  <2>4. Kept
    BY <1>1, <2>1, <2>3 DEF Kept, Numbered, Commanded
  <2>5. Fo!CurrentMaster' = Fo!CurrentMaster \/ Fo!TakenBack
    BY <1>1, <2>1 DEF Fo!CurrentMaster, Fo!TakenBack, Flagged
  <2> QED
    BY <1>3, <1>5, <2>1, <2>4, <2>5 DEF Fo!AnnouncedByEpoch
<1>16. ASSUME NEW i \in Instance, Fo!InfoOfSlave(i) PROVE Kept /\ Fo!AnnouncedByEpoch /\ Fo!EpochGrows
  <2>1. i \in DOMAIN slaves /\ UNCHANGED <<addr, promoted, replicates>> /\ slaves[i] \in Fo!Slave
    BY <1>1, <1>16 DEF Fo!InfoOfSlave, Fo!Known, Flagged
  <2>2. PICK settled \in BOOLEAN, up \in BOOLEAN :
          Fo!InfoOfMasterRole(i, settled) \/ Fo!InfoOfSlaveRole(i, settled, up)
    BY <1>16 DEF Fo!InfoOfSlave
  <2>3. CASE Fo!InfoOfMasterRole(i, settled) /\ Fo!PromotionSeen(i)
    <3>1. /\ epoch' = [epoch EXCEPT !.config = epoch.failover] /\ state' = "reconf_slaves"
          /\ UNCHANGED <<command, slaves>> /\ state = "wait_promotion"
      BY <2>3 DEF Fo!InfoOfMasterRole, Fo!PromotionSeen
    <3>2. epoch' \in [config : 0..MaxEpoch, failover : 0..MaxEpoch, current : 0..MaxEpoch]
      BY <1>1, <1>4, <3>1 DEF Numbered
    <3>3. epoch'.config = epoch.failover /\ epoch'.failover = epoch.failover /\ epoch'.current = epoch.current
      BY <1>1, <3>1 DEF Numbered
    <3>4. Numbered(epoch, state)'
      BY <1>4, <3>1, <3>2, <3>3 DEF Numbered
    <3>5. Flagged(slaves, addr, state, promoted)'
      BY <1>1, <2>1, <3>1 DEF Flagged, Fo!States
    <3>6. Kept
      BY <1>1, <2>1, <3>1, <3>4, <3>5 DEF Kept, Commanded
    <3>7. epoch'.config > epoch.config \/ Fo!Overtaken
      BY <1>4, <3>1, <3>3 DEF Fo!Overtaken
    <3>8. Fo!EpochGrows
      BY <1>4, <3>1, <3>3 DEF Fo!EpochGrows, Fo!Overtaken
    <3> QED
      BY <3>6, <3>7, <3>8 DEF Fo!AnnouncedByEpoch
  <2>4. CASE Fo!InfoOfMasterRole(i, settled) /\ ~Fo!PromotionSeen(i)
    <3>1. /\ command' = [command EXCEPT ![i] = addr] \/ command' = command
          /\ UNCHANGED <<epoch, state, slaves>>
      BY <2>4 DEF Fo!InfoOfMasterRole
    <3>2. Kept
      BY <1>1, <2>1, <3>1 DEF Kept, Numbered, Flagged, Commanded
    <3> QED
      BY <1>6, <2>1, <3>1, <3>2 DEF Steady, Fo!CurrentMaster
  <2>5. CASE Fo!InfoOfSlaveRole(i, settled, up)
    <3> DEFINE r == Fo!Reconfigured(slaves[i], replicates[i] = promoted, up)
               nl == [slaves EXCEPT ![i] = r]
    <3>1. /\ command' = [command EXCEPT ![i] = addr] \/ command' = command
          /\ slaves' = nl /\ UNCHANGED <<epoch, state>>
      BY <2>5 DEF Fo!InfoOfSlaveRole
    <3>2. /\ r \in Fo!Slave /\ r.promoted = slaves[i].promoted
          /\ slaves[i].reconf \cap {"sent", "inprog"} = {} => r.reconf \cap {"sent", "inprog"} = {}
      <4> DEFINE f == slaves[i]
                 g == IF "sent" \in f.reconf /\ replicates[i] = promoted
                      THEN (f.reconf \ {"sent"}) \cup {"inprog"} ELSE f.reconf
                 h == IF "inprog" \in g /\ up THEN (g \ {"inprog"}) \cup {"done"} ELSE g
      <4>1. r = [f EXCEPT !.reconf = h]
        BY DEF Fo!Reconfigured
      <4>2. f.reconf \in SUBSET {"sent", "inprog", "done"}
        BY <2>1 DEF Fo!Slave
      <4>3. h \in SUBSET {"sent", "inprog", "done"}
        BY <4>2
      <4>4. f.reconf \cap {"sent", "inprog"} = {} => h \cap {"sent", "inprog"} = {}
        BY <4>2
      <4> HIDE DEF r, h, g
      <4> QED
        BY <2>1, <4>1, <4>3, <4>4 DEF Fo!Slave
    <3> HIDE DEF r
    <3>3. DOMAIN nl = DOMAIN slaves /\ nl \in [DOMAIN slaves -> Fo!Slave]
      BY <1>1, <3>2 DEF Flagged
    <3>4. \A j \in DOMAIN slaves :
            /\ nl[j].promoted = slaves[j].promoted
            /\ slaves[j].reconf \cap {"sent", "inprog"} = {} => nl[j].reconf \cap {"sent", "inprog"} = {}
      BY <2>1, <3>2
    <3> HIDE DEF nl
    <3>5. Flagged(nl, addr, state, promoted)
      BY <1>1, <3>3, <3>4, SlaveUpdated
    <3>6. Flagged(slaves, addr, state, promoted)'
      BY <2>1, <3>1, <3>5
    <3>7. Commanded(replicates, command)' /\ Numbered(epoch, state)'
      BY <1>1, <2>1, <3>1 DEF Numbered, Flagged, Commanded
    <3> QED
      BY <1>6, <2>1, <3>1, <3>6, <3>7 DEF Steady, Fo!CurrentMaster, Kept
  <2> QED
    BY <2>2, <2>3, <2>4, <2>5
<1>17. ASSUME NEW i \in Instance, Fo!LinkChanges(i) PROVE Kept /\ Steady
  <2>1. /\ i \in DOMAIN slaves /\ UNCHANGED <<addr, state, promoted, epoch, replicates>> /\ slaves[i] \in Fo!Slave
        /\ command' = [command EXCEPT ![i] = Nil] \/ command' = command
    BY <1>1, <1>17 DEF Fo!LinkChanges, Fo!Known, Flagged
  <2>2. PICK r \in Fo!Slave : /\ slaves' = [slaves EXCEPT ![i] = r] /\ r.promoted = slaves[i].promoted
                              /\ r.reconf = slaves[i].reconf
    <3>1. CASE slaves' = [slaves EXCEPT ![i].disconnected = ~@]
      <4> DEFINE r == [slaves[i] EXCEPT !.disconnected = ~@]
      <4>1. slaves' = [slaves EXCEPT ![i] = r]
        BY <3>1
      <4>2. r \in Fo!Slave /\ r.promoted = slaves[i].promoted /\ r.reconf = slaves[i].reconf
        BY <2>1 DEF Fo!Slave
      <4> QED
        BY <4>1, <4>2
    <3>2. CASE slaves' = [slaves EXCEPT ![i].s_down = ~@]
      <4> DEFINE r == [slaves[i] EXCEPT !.s_down = ~@]
      <4>1. slaves' = [slaves EXCEPT ![i] = r]
        BY <3>2
      <4>2. r \in Fo!Slave /\ r.promoted = slaves[i].promoted /\ r.reconf = slaves[i].reconf
        BY <2>1 DEF Fo!Slave
      <4> QED
        BY <4>1, <4>2
    <3> QED
      BY <1>17, <3>1, <3>2 DEF Fo!LinkChanges
  <2>3. DOMAIN slaves' = DOMAIN slaves /\ slaves' \in [DOMAIN slaves -> Fo!Slave]
    BY <1>1, <2>1, <2>2 DEF Flagged
  <2>4. \A j \in DOMAIN slaves : slaves'[j].promoted = slaves[j].promoted /\ slaves'[j].reconf = slaves[j].reconf
    BY <2>1, <2>2
  <2>5. Flagged(slaves', addr, state, promoted)
    BY <1>1, <2>3, <2>4, SlaveUpdated
  <2>6. Commanded(replicates, command)' /\ Numbered(epoch, state)'
    BY <1>1, <2>1 DEF Commanded, Numbered
  <2> QED
    BY <2>1, <2>5, <2>6 DEF Kept, Steady, Fo!CurrentMaster
<1>18. ASSUME NEW i \in Instance, Fo!Execute(i) PROVE Kept /\ Steady
  <2>1. /\ command[i] # Nil /\ replicates' = [replicates EXCEPT ![i] = command[i]]
        /\ command' = [command EXCEPT ![i] = Nil] /\ UNCHANGED <<addr, state, promoted, epoch, slaves>>
    BY <1>18 DEF Fo!Execute
  <2>2. Commanded(replicates, command)'
    BY <1>1, <2>1 DEF Commanded
  <2> QED
    BY <1>1, <2>1, <2>2 DEF Kept, Steady, Fo!CurrentMaster, Flagged, Numbered
<1>19. ASSUME NEW i \in Instance, NEW e \in 1..MaxEpoch, Fo!Hello(i, e)
       PROVE  Kept /\ Fo!AnnouncedByEpoch /\ Fo!EpochGrows
  <2> DEFINE m == Fo!Max({epoch.current, e})
  <2>1. /\ e > epoch.config
        /\ epoch' = [epoch EXCEPT !.config = e, !.current = m] /\ UNCHANGED <<replicates, command>>
        /\ IF i # addr THEN Fo!ChangeAddress(i, DOMAIN slaves) ELSE UNCHANGED <<addr, slaves, state, promoted>>
    BY <1>19 DEF Fo!Hello, Fo!Known
  <2>2. e \in 0..MaxEpoch /\ m \in 0..MaxEpoch /\ m >= e /\ m >= epoch.current
    <3>0. epoch.current \in Int /\ e \in Int
      BY <1>4
    <3>1. m \in {epoch.current, e} /\ m >= e /\ m >= epoch.current
      BY ONLY <3>0, MaxOfTwo
    <3> HIDE DEF m
    <3> QED
      BY <1>2, <1>4, <3>1
  <2> HIDE DEF m
  <2>3. epoch' \in [config : 0..MaxEpoch, failover : 0..MaxEpoch, current : 0..MaxEpoch]
    BY <1>1, <2>1, <2>2 DEF Numbered
  <2>4. epoch'.config = e /\ epoch'.failover = epoch.failover /\ epoch'.current = m
    BY <1>1, <2>1 DEF Numbered
  <2>5. epoch'.config > epoch.config
    BY <2>1, <2>4
  <2>6. Fo!AnnouncedByEpoch /\ Fo!EpochGrows
    BY <1>4, <2>2, <2>4, <2>5 DEF Fo!AnnouncedByEpoch, Fo!EpochGrows
  <2>7. Commanded(replicates, command)'
    BY <1>1, <2>1 DEF Commanded
  <2>8. e <= m /\ epoch.failover <= m
    BY <1>4, <2>2
  <2>9. CASE i # addr
    <3>1. Flagged(slaves, addr, state, promoted)' /\ state' = "none"
      BY <1>12, <2>1, <2>9
    <3>2. Numbered(epoch, state)'
      BY <2>3, <2>4, <2>8, <3>1 DEF Numbered
    <3> QED
      BY <2>6, <2>7, <3>1, <3>2 DEF Kept
  <2>10. CASE i = addr
    <3>1. UNCHANGED <<addr, slaves, state, promoted>>
      BY <2>1, <2>10
    <3>2. Numbered(epoch, state)'
      BY <2>1, <2>3, <2>4, <2>8, <3>1 DEF Numbered
    <3> QED
      BY <1>1, <2>6, <2>7, <3>1, <3>2 DEF Kept, Flagged
  <2> QED
    BY <2>9, <2>10
<1> QED
  BY <1>3, <1>6, <1>7, <1>9, <1>10, <1>11, <1>13, <1>14, <1>15, <1>16, <1>17, <1>18, <1>19 DEF Fo!Next, Fo!Tick

(* At the start every instance but the master is its slave. *)
LEMMA FailoverStart ==
  ASSUME Fo!Init
  PROVE  Fo!FailoverInvariant
<1> DEFINE f == [Fo!NewSlave EXCEPT !.disconnected = FALSE]
<1>1. /\ Nil \notin Instance /\ NoOne \notin Instance /\ FirstMaster \in Instance /\ MaxEpoch \in Nat
  BY FailoverAssumption DEF Fo!FailoverAssumption
<1>2. /\ addr = FirstMaster /\ state = "none" /\ promoted = Nil
      /\ epoch = [config |-> 0, failover |-> 0, current |-> 0]
      /\ slaves = [i \in Instance \ {FirstMaster} |-> f]
      /\ replicates = [i \in Instance |-> IF i = FirstMaster THEN NoOne ELSE FirstMaster]
      /\ command = [i \in Instance |-> Nil]
  BY DEF Fo!Init
<1>3. f \in Fo!Slave /\ f.promoted = FALSE /\ f.reconf = {}
  BY DEF Fo!NewSlave, Fo!Slave
<1> HIDE DEF f
<1>4. DOMAIN slaves = Instance \ {FirstMaster} /\ \A i \in DOMAIN slaves : slaves[i] = f
  BY <1>2
<1>5. Fo!Busy(slaves) = {} /\ {i \in DOMAIN slaves : slaves[i].promoted} = {}
  BY <1>3, <1>4 DEF Fo!Busy
<1>6. slaves \in [DOMAIN slaves -> Fo!Slave]
  BY <1>2, <1>3
<1>7. Flagged(slaves, addr, state, promoted)
  BY <1>1, <1>2, <1>4, <1>5, <1>6 DEF Flagged, Fo!States
<1>8. Numbered(epoch, state) /\ Commanded(replicates, command)
  BY <1>1, <1>2 DEF Numbered, Commanded
<1> QED
  BY <1>7, <1>8, FailoverParts

-----------------------------------------------------------------------------
(* The link of a Sentinel.  The steps of the timer, one by one, on the     *)
(* record that stands for the instance.                                    *)
Links ==
  [cc : BOOLEAN, pc : BOOLEAN, disconnected : BOOLEAN,
   pings : 0..MAX_PENDING_COMMANDS, infos : 0..MAX_PENDING_COMMANDS,
   ping : Li!Age \cup {Li!Never}, pong : Li!Age, info : Li!Age, ccAge : Li!Age, pcAge : Li!Age,
   activity : Li!Age, s_down : BOOLEAN]

LEMMA Periods ==
  /\ down_after_period \in Nat /\ AnswerTime \in Nat /\ TILT_PERIOD \in Nat \ {0} /\ MaxAge \in Nat
  /\ MAX_PENDING_COMMANDS \in Nat \ {0} /\ AnswerTime < down_after_period
  /\ PING_PERIOD \in Nat /\ MIN_LINK_RECONNECT_PERIOD \in Nat /\ PUBLISH_SILENCE \in Nat
  /\ MaxTrouble \in Nat /\ MaxJumps \in Nat
  /\ Li!Never \notin Li!Age /\ 0 \in Li!Age /\ MaxAge \in Li!Age /\ Li!Never = MaxAge + 1
<1>1. Li!LinkAssumption
  BY LinkAssumption
<1>2. \A x \in {down_after_period, PING_PERIOD, INFO_PERIOD, MIN_LINK_RECONNECT_PERIOD, PUBLISH_SILENCE, TILT_PERIOD,
               MAX_PENDING_COMMANDS, AnswerTime} : x \in Nat \ {0}
  BY <1>1 DEF Li!LinkAssumption
<1>3. MaxAge \in Nat /\ MaxTrouble \in Nat /\ MaxJumps \in Nat /\ AnswerTime < down_after_period
  BY <1>1 DEF Li!LinkAssumption
<1>4. /\ down_after_period \in Nat /\ AnswerTime \in Nat /\ TILT_PERIOD \in Nat \ {0}
      /\ MAX_PENDING_COMMANDS \in Nat \ {0} /\ PING_PERIOD \in Nat /\ MIN_LINK_RECONNECT_PERIOD \in Nat
      /\ PUBLISH_SILENCE \in Nat
  BY <1>2
<1>5. Li!Never \notin Li!Age /\ 0 \in Li!Age /\ MaxAge \in Li!Age /\ Li!Never = MaxAge + 1
  BY <1>3 DEF Li!Age, Li!Never
<1> QED
  BY <1>3, <1>4, <1>5

LEMMA PingSent ==
  ASSUME NEW r \in Links, r.pings < MAX_PENDING_COMMANDS
  PROVE  LET f == Li!SendPing(r) IN
         /\ f \in Links /\ f.pings = r.pings + 1 /\ f.infos = r.infos /\ f.ping = IF r.ping = Li!Never THEN 0 ELSE r.ping
         /\ f.cc = r.cc /\ f.pc = r.pc /\ f.disconnected = r.disconnected /\ f.s_down = r.s_down
         /\ f.ccAge = r.ccAge /\ f.pong = r.pong
<1> DEFINE f == Li!SendPing(r)
           x == IF r.ping = Li!Never THEN 0 ELSE r.ping
<1>1. f = [[r EXCEPT !.pings = r.pings + 1] EXCEPT !.ping = x]
  BY DEF Li!SendPing, Links
<1>2. r.pings + 1 \in 0..MAX_PENDING_COMMANDS
  BY Periods DEF Links
<1>3. x \in Li!Age \cup {Li!Never}
  BY Periods DEF Links
<1> HIDE DEF x, f
<1>4. f \in Links
  BY <1>1, <1>2, <1>3 DEF Links
<1>5. /\ f.pings = r.pings + 1 /\ f.infos = r.infos /\ f.ping = x
      /\ f.cc = r.cc /\ f.pc = r.pc /\ f.disconnected = r.disconnected /\ f.s_down = r.s_down
      /\ f.ccAge = r.ccAge /\ f.pong = r.pong
  BY <1>1 DEF Links
<1> QED
  BY <1>4, <1>5 DEF f, x

(* sentinelReconnectInstance *)
LEMMA Reconnected ==
  ASSUME NEW r \in Links, NEW okc \in BOOLEAN, NEW okp \in BOOLEAN,
         ~r.cc => r.pings = 0 /\ r.infos = 0, ~r.disconnected => r.cc /\ r.pc
  PROVE  LET f == Li!Reconnect(r, okc, okp) IN
         /\ f \in Links /\ f.s_down = r.s_down
         /\ ~f.disconnected => f.cc /\ f.pc
         /\ ~f.cc => f.pings = 0 /\ f.infos = 0
         /\ okc => f.cc
         /\ r.cc \/ ~f.cc => f.cc = r.cc /\ f.pings = r.pings /\ f.infos = r.infos /\ f.ping = r.ping /\ f.ccAge = r.ccAge
         /\ ~r.cc /\ f.cc =>
              f.pings = 1 /\ f.ccAge = 0 /\ f.ping = IF r.ping = Li!Never THEN 0 ELSE r.ping
<1> DEFINE r1 == [[r EXCEPT !.cc = TRUE] EXCEPT !.ccAge = 0]
           c == IF ~r.cc /\ okc THEN Li!SendPing(r1) ELSE r
           p == IF ~r.pc /\ okp THEN [[c EXCEPT !.pc = TRUE] EXCEPT !.pcAge = 0] ELSE c
           f == IF ~r.disconnected THEN r ELSE [p EXCEPT !.disconnected = ~(p.cc /\ p.pc)]
<1>1. Li!Reconnect(r, okc, okp) = f
  BY DEF Li!Reconnect, Links
<1>2. /\ r1 \in Links
      /\ r1.cc = TRUE /\ r1.ccAge = 0 /\ r1.pings = r.pings /\ r1.infos = r.infos /\ r1.ping = r.ping
      /\ r1.pc = r.pc /\ r1.s_down = r.s_down
  <2>1. r1 \in Links
    BY Periods DEF Links
  <2>2. /\ r1.cc = TRUE /\ r1.ccAge = 0 /\ r1.pings = r.pings /\ r1.infos = r.infos /\ r1.ping = r.ping
        /\ r1.pc = r.pc /\ r1.s_down = r.s_down
    BY DEF Links
  <2> QED
    BY <2>1, <2>2
<1> HIDE DEF r1
<1>3. /\ c \in Links /\ c.pc = r.pc /\ c.s_down = r.s_down
      /\ r.cc \/ ~okc => c = r
      /\ ~r.cc /\ okc =>
           c.cc = TRUE /\ c.pings = 1 /\ c.ccAge = 0 /\ c.ping = IF r.ping = Li!Never THEN 0 ELSE r.ping
  <2>1. CASE r.cc \/ ~okc
    BY <2>1
  <2>2. CASE ~r.cc /\ okc
    <3>1. r1.pings = 0 /\ r1.pings < MAX_PENDING_COMMANDS
      BY <1>2, <2>2, Periods
    <3> QED
      BY <1>2, <2>2, <3>1, PingSent
  <2> QED
    BY <2>1, <2>2
<1> HIDE DEF c
<1>4. /\ p \in Links /\ p.s_down = c.s_down
      /\ p.cc = c.cc /\ p.pings = c.pings /\ p.infos = c.infos /\ p.ping = c.ping /\ p.ccAge = c.ccAge
  <2>1. CASE ~r.pc /\ okp
    <3>1. p = [[c EXCEPT !.pc = TRUE] EXCEPT !.pcAge = 0]
      BY <2>1
    <3> HIDE DEF p
    <3>2. p \in Links
      BY <1>3, <3>1, Periods DEF Links
    <3> QED
      BY <1>3, <3>1, <3>2 DEF Links
  <2>2. CASE ~(~r.pc /\ okp)
    BY <1>3, <2>2
  <2> QED
    BY <2>1, <2>2
<1> HIDE DEF p
<1>5. CASE ~r.disconnected
  BY <1>1, <1>5
<1>6. CASE r.disconnected
  <2>1. f = [p EXCEPT !.disconnected = ~(p.cc /\ p.pc)]
    BY <1>6
  <2> HIDE DEF f
  <2>2. f \in Links
    BY <1>4, <2>1 DEF Links
  <2>3. /\ f.s_down = p.s_down /\ f.cc = p.cc /\ f.pings = p.pings /\ f.infos = p.infos /\ f.ping = p.ping
        /\ f.ccAge = p.ccAge /\ f.pc = p.pc /\ f.disconnected = ~(p.cc /\ p.pc)
    BY <1>4, <2>1 DEF Links
  <2>4. r.cc \in BOOLEAN /\ okc \in BOOLEAN
    BY DEF Links
  <2>5. CASE r.cc \/ ~okc
    BY <1>1, <1>3, <1>4, <2>2, <2>3, <2>4, <2>5
  <2>6. CASE ~r.cc /\ okc
    BY <1>1, <1>3, <1>4, <2>2, <2>3, <2>4, <2>6
  <2> QED
    BY <2>5, <2>6
<1> QED
  BY <1>5, <1>6

(* sentinelSendPeriodicCommands: an INFO, a PING or nothing more *)
LEMMA PeriodicSent ==
  ASSUME NEW r \in Links, ~r.disconnected => r.cc /\ r.pc, ~r.cc => r.pings = 0 /\ r.infos = 0
  PROVE  LET f == Li!SendPeriodicCommands(r) IN
         /\ f \in Links /\ f.cc = r.cc /\ f.pc = r.pc /\ f.disconnected = r.disconnected
         /\ f.s_down = r.s_down /\ f.ccAge = r.ccAge
         /\ ~f.cc => f.pings = 0 /\ f.infos = 0
         /\ \/ f.ping = r.ping /\ f.pings >= r.pings
            \/ f.cc /\ f.ping = 0 /\ f.pings > 0
<1> DEFINE f == Li!SendPeriodicCommands(r)
<1>1. r.pings \in Nat /\ r.infos \in Nat
  BY Periods DEF Links
<1>2. CASE f = r
  BY <1>1, <1>2
<1>3. CASE f # r
  <2>1. /\ f = [r EXCEPT !.infos = @ + 1] \/ f = Li!SendPing(r)
        /\ ~r.disconnected /\ ~(r.pings + r.infos >= MAX_PENDING_COMMANDS)
    BY <1>3 DEF Li!SendPeriodicCommands
  <2>2. r.pings < MAX_PENDING_COMMANDS /\ r.infos + 1 \in 0..MAX_PENDING_COMMANDS
    BY <1>1, <2>1, Periods
  <2>3. CASE f = [r EXCEPT !.infos = @ + 1]
    <3>1. f = [r EXCEPT !.infos = r.infos + 1]
      BY <2>3 DEF Links
    <3> HIDE DEF f
    <3>2. f \in Links
      BY <2>2, <3>1 DEF Links
    <3>3. /\ f.cc = r.cc /\ f.pc = r.pc /\ f.disconnected = r.disconnected
          /\ f.s_down = r.s_down /\ f.ccAge = r.ccAge /\ f.ping = r.ping /\ f.pings = r.pings
      BY <3>1 DEF Links
    <3>4. f.pings >= r.pings
      BY <1>1, <3>3
    <3>5. f.cc
      BY <2>1, <3>3
    <3> QED
      BY <3>2, <3>3, <3>4, <3>5 DEF f
  <2>4. CASE f = Li!SendPing(r)
    BY <1>1, <2>1, <2>2, <2>4, PingSent
  <2> QED
    BY <2>1, <2>3, <2>4
<1> QED
  BY <1>2, <1>3

(* sentinelCheckSubjectivelyDown *)
LEMMA Judged ==
  ASSUME NEW r \in Links, ~r.disconnected => r.cc /\ r.pc, ~r.cc => r.pings = 0 /\ r.infos = 0
  PROVE  LET f == Li!CheckSubjectivelyDown(r) IN
         /\ f \in Links /\ f.ping = r.ping
         /\ ~f.disconnected => f.cc /\ f.pc
         /\ ~f.cc => f.pings = 0 /\ f.infos = 0
         /\ f.s_down = (r.ping # Li!Never /\ r.ping > down_after_period)
         /\ ~f.cc => ~r.cc \/ Li!Stuck(r)
         /\ f.cc => r.cc /\ f.pings = r.pings /\ f.infos = r.infos
<1> DEFINE c == IF Li!Stuck(r) THEN Li!KillCommandLink(r) ELSE r
           p == IF Li!Silent(c) THEN Li!KillPubSubLink(c) ELSE c
           f == Li!CheckSubjectivelyDown(r)
<1>1. /\ c \in Links /\ c.ping = r.ping /\ (~c.disconnected => c.cc /\ c.pc) /\ (~c.cc => c.pings = 0 /\ c.infos = 0)
      /\ ~c.cc => ~r.cc \/ Li!Stuck(r)
      /\ c.cc => r.cc /\ c.pings = r.pings /\ c.infos = r.infos
  <2>1. CASE Li!Stuck(r)
    <3>1. c = [[[[r EXCEPT !.cc = FALSE] EXCEPT !.pings = 0] EXCEPT !.infos = 0]
                EXCEPT !.disconnected = TRUE]
      BY <2>1 DEF Li!KillCommandLink, Links
    <3> HIDE DEF c
    <3>2. 0 \in 0..MAX_PENDING_COMMANDS
      BY Periods
    <3>3. c \in Links
      BY <3>1, <3>2 DEF Links
    <3>4. c.cc = FALSE /\ c.pings = 0 /\ c.infos = 0 /\ c.disconnected = TRUE /\ c.ping = r.ping
      BY <3>1 DEF Links
    <3> QED
      BY <2>1, <3>3, <3>4
  <2>2. CASE ~Li!Stuck(r)
    BY <2>2
  <2> QED
    BY <2>1, <2>2
<1> HIDE DEF c
<1>2. /\ p \in Links /\ p.ping = c.ping /\ p.cc = c.cc /\ p.pings = c.pings /\ p.infos = c.infos
      /\ ~p.disconnected => p.cc /\ p.pc
  <2>1. CASE Li!Silent(c)
    <3>1. p = [[c EXCEPT !.pc = FALSE] EXCEPT !.disconnected = TRUE]
      BY <1>1, <2>1 DEF Li!KillPubSubLink, Links
    <3> HIDE DEF p
    <3>2. p \in Links
      BY <1>1, <3>1 DEF Links
    <3>3. p.ping = c.ping /\ p.cc = c.cc /\ p.pings = c.pings /\ p.infos = c.infos /\ p.disconnected = TRUE
      BY <1>1, <3>1 DEF Links
    <3> QED
      BY <3>2, <3>3
  <2>2. CASE ~Li!Silent(c)
    BY <1>1, <2>2
  <2> QED
    BY <2>1, <2>2
<1> DEFINE d == r.ping # Li!Never /\ r.ping > down_after_period
<1>3. f = [p EXCEPT !.s_down = d]
  BY DEF Li!CheckSubjectivelyDown, c, p
<1> HIDE DEF p, f, d
<1>4. d \in BOOLEAN
  BY DEF d
<1>5. f \in Links
  BY <1>2, <1>3, <1>4 DEF Links
<1>6. /\ f.s_down = d /\ f.ping = p.ping /\ f.cc = p.cc /\ f.pings = p.pings /\ f.infos = p.infos
      /\ f.disconnected = p.disconnected /\ f.pc = p.pc
  BY <1>2, <1>3 DEF Links
<1> QED
  BY <1>1, <1>2, <1>5, <1>6 DEF f, d

LEMMA Aging ==
  ASSUME NEW a \in Li!Age \cup {Li!Never}, NEW d \in Nat
  PROVE  /\ Li!Older(a, d) \in Li!Age \cup {Li!Never}
         /\ a # Li!Never => Li!Older(a, d) \in Li!Age /\ Li!Older(a, d) <= a + d
         /\ a = Li!Never => Li!Older(a, d) = Li!Never
BY Periods DEF Li!Older, Li!Age

LEMMA AllAge ==
  ASSUME ri \in Links, NEW d \in Nat
  PROVE  LET f == Li!Aged(d) IN
         /\ f \in Links /\ f.ping = Li!Older(ri.ping, d)
         /\ f.cc = ri.cc /\ f.pc = ri.pc /\ f.disconnected = ri.disconnected /\ f.pings = ri.pings /\ f.infos = ri.infos
         /\ f.s_down = ri.s_down
<1> DEFINE f == Li!Aged(d)
           f0 == [[ri EXCEPT !.ping = Li!Older(ri.ping, d)] EXCEPT !.pong = Li!Older(ri.pong, d)]
           f1 == [f0 EXCEPT !.info = Li!Older(ri.info, d)]
           f2 == [[f1 EXCEPT !.ccAge = Li!Older(ri.ccAge, d)] EXCEPT !.pcAge = Li!Older(ri.pcAge, d)]
<1>1. f = [f2 EXCEPT !.activity = Li!Older(ri.activity, d)]
  BY DEF Li!Aged, Links
<1>2. /\ Li!Older(ri.ping, d) \in Li!Age \cup {Li!Never} /\ Li!Older(ri.pong, d) \in Li!Age
      /\ Li!Older(ri.info, d) \in Li!Age
      /\ Li!Older(ri.ccAge, d) \in Li!Age /\ Li!Older(ri.pcAge, d) \in Li!Age
      /\ Li!Older(ri.activity, d) \in Li!Age
  BY Aging, Periods DEF Links
<1>0. f0 \in Links /\ f0.ping = Li!Older(ri.ping, d)
      /\ f0.cc = ri.cc /\ f0.pc = ri.pc /\ f0.disconnected = ri.disconnected
      /\ f0.pings = ri.pings /\ f0.infos = ri.infos /\ f0.s_down = ri.s_down
  <2>1. f0 \in Links
    BY <1>2 DEF Links
  <2> QED
    BY <1>2, <2>1 DEF Links
<1> HIDE DEF f0
<1>3. f1 \in Links /\ f1.ping = Li!Older(ri.ping, d)
      /\ f1.cc = ri.cc /\ f1.pc = ri.pc /\ f1.disconnected = ri.disconnected /\ f1.pings = ri.pings /\ f1.infos = ri.infos
      /\ f1.s_down = ri.s_down
  <2>1. f1 \in Links
    BY <1>0, <1>2 DEF Links
  <2> QED
    BY <1>0, <2>1 DEF Links
<1> HIDE DEF f1
<1>4. f2 \in Links /\ f2.ping = f1.ping
      /\ f2.cc = f1.cc /\ f2.pc = f1.pc /\ f2.disconnected = f1.disconnected /\ f2.pings = f1.pings /\ f2.infos = f1.infos
      /\ f2.s_down = f1.s_down
  <2>1. f2 \in Links
    BY <1>2, <1>3 DEF Links
  <2> QED
    BY <1>3, <2>1 DEF Links
<1> HIDE DEF f2, f
<1>5. f \in Links
  BY <1>1, <1>2, <1>4 DEF Links
<1>6. f.ping = f2.ping
      /\ f.cc = f2.cc /\ f.pc = f2.pc /\ f.disconnected = f2.disconnected /\ f.pings = f2.pings /\ f.infos = f2.infos
      /\ f.s_down = f2.s_down
  BY <1>1, <1>4 DEF Links
<1> QED
  BY <1>3, <1>4, <1>5, <1>6 DEF f

(* A failure of an instance that answers counts. *)
LEMMA FailureCounts ==
  ASSUME trouble \in Nat, NEW x \in BOOLEAN, Li!Fails(x)
  PROVE  trouble' \in Nat /\ (trouble' = 0 => trouble = 0 /\ ~(x /\ alive)) /\ (trouble > 0 => trouble' > 0)
BY DEF Li!Fails

LEMMA LinkStep ==
  ASSUME Li!LinkInvariant, Li!Next
  PROVE  Li!LinkInvariant'
<1>1. /\ ri \in Links /\ tilt \in 0..TILT_PERIOD /\ ran \in BOOLEAN /\ alive \in BOOLEAN
      /\ trouble \in Nat /\ jumps \in Nat
      /\ ~ri.disconnected => ri.cc /\ ri.pc
      /\ ri.s_down => trouble > 0
      /\ ~ri.cc => ri.pings = 0 /\ ri.infos = 0
      /\ trouble = 0 => alive /\ Li!InTime
  BY DEF Li!LinkInvariant, Li!TypeOK, Li!ConnectedHasLinks, Li!NoFalseAlarm, Links
<1>2. ASSUME /\ ri' \in Links /\ tilt' \in 0..TILT_PERIOD /\ ran' \in BOOLEAN /\ alive' \in BOOLEAN
             /\ trouble' \in Nat /\ jumps' \in Nat,
             ~ri'.disconnected => ri'.cc /\ ri'.pc,
             ri'.s_down => trouble' > 0,
             ~ri'.cc => ri'.pings = 0 /\ ri'.infos = 0,
             trouble' = 0 => alive' /\ Li!InTime'
      PROVE  Li!LinkInvariant'
  BY <1>2 DEF Li!LinkInvariant, Li!TypeOK, Li!ConnectedHasLinks, Li!NoFalseAlarm, Links
<1>3. /\ ri.ping \in Li!Age \cup {Li!Never} /\ ri.pings \in 0..MAX_PENDING_COMMANDS /\ ri.s_down \in BOOLEAN
      /\ ri.cc \in BOOLEAN
  BY <1>1 DEF Links
<1>4. CASE Li!Timer
  <2>1. ~ran /\ ran' = TRUE /\ UNCHANGED <<tilt, alive, jumps>>
    BY <1>4 DEF Li!Timer
  <2>2. PICK okc \in BOOLEAN, okp \in BOOLEAN :
          LET r == Li!SendPeriodicCommands(Li!Reconnect(ri, okc, okp))
          IN  /\ Li!Fails(~okc \/ ~okp)
              /\ ri' = IF Li!Judges THEN Li!CheckSubjectivelyDown(r) ELSE r
    BY <1>4 DEF Li!Timer
  <2> DEFINE q == Li!Reconnect(ri, okc, okp)
             r == Li!SendPeriodicCommands(q)
             x == ~okc \/ ~okp
  <2>3. x \in BOOLEAN /\ Li!Fails(x) /\ ri' = IF tilt = 0 THEN Li!CheckSubjectivelyDown(r) ELSE r
    BY <2>2 DEF Li!Judges
  <2>4. trouble' \in Nat /\ (trouble' = 0 => trouble = 0 /\ alive /\ okc /\ Li!InTime) /\ (trouble > 0 => trouble' > 0)
    <3> HIDE DEF x
    <3>1. trouble' \in Nat /\ (trouble' = 0 => trouble = 0 /\ ~(x /\ alive)) /\ (trouble > 0 => trouble' > 0)
      BY <1>1, <2>3, FailureCounts
    <3> QED
      BY <1>1, <3>1 DEF x
  <2> HIDE DEF x
  <2>5. /\ q \in Links /\ q.s_down = ri.s_down
        /\ ~q.disconnected => q.cc /\ q.pc
        /\ ~q.cc => q.pings = 0 /\ q.infos = 0
        /\ okc => q.cc
        /\ ri.cc \/ ~q.cc => q.cc = ri.cc /\ q.pings = ri.pings /\ q.infos = ri.infos /\ q.ping = ri.ping /\ q.ccAge = ri.ccAge
        /\ ~ri.cc /\ q.cc => q.pings = 1 /\ q.ccAge = 0 /\ q.ping = IF ri.ping = Li!Never THEN 0 ELSE ri.ping
    BY <1>1, Reconnected
  <2> HIDE DEF q
  <2>6. /\ r \in Links /\ r.cc = q.cc /\ r.pc = q.pc /\ r.disconnected = q.disconnected
        /\ r.s_down = q.s_down /\ r.ccAge = q.ccAge
        /\ ~r.cc => r.pings = 0 /\ r.infos = 0
        /\ \/ r.ping = q.ping /\ r.pings >= q.pings
           \/ r.cc /\ r.ping = 0 /\ r.pings > 0
    BY <2>5, PeriodicSent
  <2> HIDE DEF r
  <2>7. r.pings \in Nat /\ q.pings \in Nat /\ r.ping \in Li!Age \cup {Li!Never}
    BY <2>5, <2>6, Periods DEF Links
  <2>8. ASSUME okc, Li!InTime PROVE r.cc /\ (r.ping # Li!Never => r.pings > 0)
    <3>1. CASE r.ping = q.ping /\ r.pings >= q.pings
      BY <1>3, <2>5, <2>6, <2>7, <2>8, <3>1 DEF Li!InTime
    <3>2. CASE r.cc /\ r.ping = 0 /\ r.pings > 0
      BY <3>2
    <3> QED
      BY <2>6, <3>1, <3>2
  <2>9. ASSUME Li!InTime, tilt = 0, r.ping # Li!Never
        PROVE  r.ping <= AnswerTime + 1 /\ (r.ping <= AnswerTime \/ r.ccAge = 0 \/ ~r.cc)
    <3>0. AnswerTime \in Nat /\ r.ping \in Nat
      BY <2>7, <2>9, Periods DEF Li!Age
    <3>1. CASE r.cc /\ r.ping = 0 /\ r.pings > 0
      BY <3>0, <3>1
    <3>2. CASE r.ping = q.ping /\ ri.cc
      <4>1. r.ping = ri.ping
        BY <2>5, <3>2
      <4>2. ri.ping <= AnswerTime
        BY <2>1, <2>9, <3>0, <3>2, <4>1 DEF Li!InTime
      <4> QED
        BY <3>0, <4>1, <4>2
    <3>3. CASE r.ping = q.ping /\ ~ri.cc
      <4>1. q.ping = ri.ping \/ q.ping = 0
        BY <2>5, <3>3
      <4>2. q.cc => q.ccAge = 0
        BY <2>5, <3>3
      <4>3. ri.ping # Li!Never => ri.ping <= AnswerTime + 1
        BY <2>1, <2>9, <3>3 DEF Li!InTime
      <4> QED
        BY <2>6, <2>9, <3>0, <3>3, <4>1, <4>2, <4>3
    <3> QED
      BY <1>3, <2>6, <3>1, <3>2, <3>3
  <2>10. CASE tilt # 0
    <3>1. ri' = r
      BY <2>3, <2>10
    <3>2. trouble' = 0 => alive' /\ Li!InTime'
      <4>1. ASSUME trouble' = 0 PROVE Li!InTime'
        BY <2>1, <2>4, <2>8, <3>1, <4>1 DEF Li!InTime
      <4> QED
        BY <2>1, <2>4, <4>1
    <3>3. ri'.s_down => trouble' > 0
      BY <1>1, <2>4, <2>5, <2>6, <3>1
    <3> QED
      BY <1>1, <1>2, <2>1, <2>4, <2>5, <2>6, <3>1, <3>2, <3>3
  <2>11. CASE tilt = 0
    <3> DEFINE f == Li!CheckSubjectivelyDown(r)
    <3>1. ri' = f
      BY <2>3, <2>11
    <3>2. /\ f \in Links /\ f.ping = r.ping
          /\ ~f.disconnected => f.cc /\ f.pc
          /\ ~f.cc => f.pings = 0 /\ f.infos = 0
          /\ f.s_down = (r.ping # Li!Never /\ r.ping > down_after_period)
          /\ ~f.cc => ~r.cc \/ Li!Stuck(r)
          /\ f.cc => r.cc /\ f.pings = r.pings /\ f.infos = r.infos
      BY <2>5, <2>6, Judged
    <3> HIDE DEF f
    <3>3. ri'.s_down => trouble' > 0
      <4>1. ASSUME trouble' = 0, r.ping # Li!Never PROVE ~(r.ping > down_after_period)
        <5>1. r.ping <= AnswerTime + 1
          BY <2>4, <2>9, <2>11, <4>1
        <5>2. r.ping \in Nat
          BY <2>7, <4>1, Periods DEF Li!Age
        <5> QED
          BY <5>1, <5>2, Periods
      <4>2. ri'.s_down => r.ping # Li!Never /\ r.ping > down_after_period
        BY <3>1, <3>2, Zenon
      <4>3. ri'.s_down => trouble' # 0
        BY <4>1, <4>2, Zenon
      <4> QED
        BY <2>4, <4>3
    <3>4. ASSUME trouble' = 0 PROVE Li!InTime'
      <4>1. ASSUME r.ping # Li!Never, ~f.cc PROVE r.ping <= AnswerTime
        <5>1. Li!Stuck(r) /\ r.cc
          BY <2>4, <2>8, <3>2, <3>4, <4>1
        <5>2. r.ccAge > MIN_LINK_RECONNECT_PERIOD
          BY <5>1 DEF Li!Stuck
        <5>3. r.ccAge # 0
          BY <5>2, Periods
        <5> QED
          BY <2>4, <2>9, <2>11, <3>4, <4>1, <5>1, <5>3
      <4>2. ASSUME r.ping # Li!Never, f.cc PROVE f.pings > 0
        BY <2>4, <2>8, <3>2, <3>4, <4>2
      <4> QED
        BY <2>1, <3>1, <3>2, <4>1, <4>2 DEF Li!InTime
    <3> QED
      BY <1>1, <1>2, <2>1, <2>4, <3>1, <3>2, <3>3, <3>4
  <2> QED
    BY <2>10, <2>11
<1>5. CASE Li!PingReply
  <2>1. ri.cc /\ ri.pings > 0 /\ alive /\ UNCHANGED <<tilt, ran, alive, jumps>>
    BY <1>5 DEF Li!PingReply
  <2>2. PICK good \in BOOLEAN :
          /\ Li!Fails(~good)
          /\ ri' = [ri EXCEPT !.pings = @ - 1, !.pong = 0, !.ping = IF good THEN Li!Never ELSE @]
    BY <1>5 DEF Li!PingReply
  <2>3. ri' = [[[ri EXCEPT !.pings = ri.pings - 1] EXCEPT !.pong = 0]
                  EXCEPT !.ping = IF good THEN Li!Never ELSE ri.ping]
    BY <1>1, <2>2 DEF Links
  <2>4. ri.pings - 1 \in 0..MAX_PENDING_COMMANDS
    BY <1>3, <2>1, Periods
  <2>5. ri' \in Links
    BY <1>1, <1>3, <2>3, <2>4, Periods DEF Links
  <2>6. /\ ri'.cc = ri.cc /\ ri'.pc = ri.pc /\ ri'.disconnected = ri.disconnected /\ ri'.s_down = ri.s_down
        /\ good => ri'.ping = Li!Never
    BY <1>1, <2>3 DEF Links
  <2>7. trouble' \in Nat /\ (trouble' = 0 => trouble = 0 /\ good) /\ (trouble > 0 => trouble' > 0)
    <3>1. (~good) \in BOOLEAN
      OBVIOUS
    <3> QED
      BY <1>1, <2>1, <2>2, <3>1, FailureCounts
  <2>8. trouble' = 0 => Li!InTime'
    BY <2>6, <2>7 DEF Li!InTime, Li!Never
  <2> QED
    BY <1>1, <1>2, <2>1, <2>5, <2>6, <2>7, <2>8
<1>12. CASE Li!InfoReply
  <2>1. ri.cc /\ ri.infos > 0 /\ alive /\ UNCHANGED <<tilt, ran, alive, jumps>>
    BY <1>12 DEF Li!InfoReply
  <2>2. PICK good \in BOOLEAN :
          /\ Li!Fails(~good)
          /\ ri' = [ri EXCEPT !.infos = @ - 1, !.info = IF good THEN 0 ELSE @]
    BY <1>12 DEF Li!InfoReply
  <2>3. ri' = [[ri EXCEPT !.infos = ri.infos - 1] EXCEPT !.info = IF good THEN 0 ELSE ri.info]
    BY <1>1, <2>2 DEF Links
  <2>4. ri.infos - 1 \in 0..MAX_PENDING_COMMANDS /\ ri.info \in Li!Age
    BY <1>1, <2>1, Periods DEF Links
  <2>5. ri' \in Links
    BY <1>1, <2>3, <2>4, Periods DEF Links
  <2>6. /\ ri'.cc = ri.cc /\ ri'.pc = ri.pc /\ ri'.disconnected = ri.disconnected /\ ri'.s_down = ri.s_down
        /\ ri'.ping = ri.ping /\ ri'.pings = ri.pings
    BY <1>1, <2>3 DEF Links
  <2>7. trouble' \in Nat /\ (trouble' = 0 => trouble = 0) /\ (trouble > 0 => trouble' > 0)
    <3>1. (~good) \in BOOLEAN
      OBVIOUS
    <3> QED
      BY <1>1, <2>2, <3>1, FailureCounts
  <2>8. Li!InTime => Li!InTime'
    BY <2>1, <2>6 DEF Li!InTime, Li!Never
  <2> QED
    BY <1>1, <1>2, <2>1, <2>5, <2>6, <2>7, <2>8
<1>6. CASE Li!Hello
  <2>1. ri' = [ri EXCEPT !.activity = 0] /\ UNCHANGED <<tilt, ran, alive, trouble, jumps>>
    BY <1>6 DEF Li!Hello
  <2>2. ri' \in Links
    BY <1>1, <2>1, Periods DEF Links
  <2>3. /\ ri'.cc = ri.cc /\ ri'.pc = ri.pc /\ ri'.disconnected = ri.disconnected /\ ri'.s_down = ri.s_down
        /\ ri'.ping = ri.ping /\ ri'.pings = ri.pings /\ ri'.infos = ri.infos
    BY <1>1, <2>1 DEF Links
  <2>4. Li!InTime => Li!InTime'
    BY <2>1, <2>3 DEF Li!InTime, Li!Never
  <2> QED
    BY <1>1, <1>2, <2>1, <2>2, <2>3, <2>4
<1>7. CASE Li!LinkDown
  <2>1. Li!Fails(TRUE) /\ (ri' = Li!KillCommandLink(ri) \/ ri' = Li!KillPubSubLink(ri)) /\ UNCHANGED <<tilt, ran, alive, jumps>>
    BY <1>7 DEF Li!LinkDown
  <2>2. trouble' \in Nat /\ trouble' > 0
    BY <1>1, <2>1 DEF Li!Fails
  <2>3. CASE ri' = Li!KillCommandLink(ri)
    <3>1. ri' = [[[[ri EXCEPT !.cc = FALSE] EXCEPT !.pings = 0] EXCEPT !.infos = 0]
                EXCEPT !.disconnected = TRUE]
      BY <1>1, <2>3 DEF Li!KillCommandLink, Links
    <3>2. 0 \in 0..MAX_PENDING_COMMANDS
      BY Periods
    <3>3. ri' \in Links
      BY <1>1, <3>1, <3>2 DEF Links
    <3>4. ri'.disconnected = TRUE /\ ri'.pings = 0 /\ ri'.infos = 0
      BY <1>1, <3>1 DEF Links
    <3> QED
      BY <1>1, <1>2, <2>1, <2>2, <3>3, <3>4
  <2>4. CASE ri' = Li!KillPubSubLink(ri)
    <3>1. ri' = [[ri EXCEPT !.pc = FALSE] EXCEPT !.disconnected = TRUE]
      BY <1>1, <2>4 DEF Li!KillPubSubLink, Links
    <3>2. ri' \in Links
      BY <1>1, <3>1 DEF Links
    <3>3. ri'.disconnected = TRUE /\ ri'.pings = ri.pings /\ ri'.infos = ri.infos /\ ri'.cc = ri.cc
      BY <1>1, <3>1 DEF Links
    <3> QED
      BY <1>1, <1>2, <2>1, <2>2, <3>2, <3>3
  <2> QED
    BY <2>1, <2>3, <2>4
<1>8. CASE Li!InstanceFails
  <2>1. alive' = FALSE /\ trouble' = trouble + 1 /\ UNCHANGED <<ri, tilt, ran, jumps>>
    BY <1>8 DEF Li!InstanceFails
  <2>2. trouble' \in Nat /\ trouble' > 0 /\ trouble' # 0
    BY <1>1, <2>1
  <2>3. alive' \in BOOLEAN
    BY <2>1
  <2>4. /\ ri' \in Links /\ tilt' \in 0..TILT_PERIOD /\ ran' \in BOOLEAN /\ jumps' \in Nat
        /\ ~ri'.disconnected => ri'.cc /\ ri'.pc
        /\ ~ri'.cc => ri'.pings = 0 /\ ri'.infos = 0
    BY <1>1, <2>1
  <2> QED
    BY <1>2, <2>2, <2>3, <2>4
<1>9. CASE Li!InstanceReturns
  <2>1. ~alive /\ alive' = TRUE /\ UNCHANGED <<ri, tilt, ran, trouble, jumps>>
    BY <1>9 DEF Li!InstanceReturns
  <2> QED
    BY <1>1, <1>2, <2>1
<1>10. CASE Li!Tick
  <2>1. /\ ran /\ Li!Prompt /\ ran' = FALSE /\ ri' = Li!Aged(1)
        /\ tilt' = (IF tilt > 0 THEN tilt - 1 ELSE 0) /\ UNCHANGED <<alive, trouble, jumps>>
    BY <1>10 DEF Li!Tick
  <2>2. tilt' \in 0..TILT_PERIOD
    BY <1>1, <2>1, Periods
  <2>3. /\ ri' \in Links /\ ri'.ping = Li!Older(ri.ping, 1)
        /\ ri'.cc = ri.cc /\ ri'.pc = ri.pc /\ ri'.disconnected = ri.disconnected /\ ri'.pings = ri.pings /\ ri'.infos = ri.infos
        /\ ri'.s_down = ri.s_down
    BY <1>1, <2>1, AllAge
  <2>4. /\ ri.ping # Li!Never => ri'.ping <= ri.ping + 1
        /\ ri.ping = Li!Never => ri'.ping = Li!Never
    BY <1>3, <2>3, Aging
  <2>5. ASSUME trouble' = 0, ri'.ping # Li!Never
        PROVE  (ri'.cc => ri'.pings > 0) /\ ri'.ping <= AnswerTime + (IF ri'.cc THEN 0 ELSE 1)
    <3>1. alive /\ Li!InTime /\ ri.ping # Li!Never
      BY <1>1, <2>1, <2>4, <2>5
    <3>2. ri.ping \in Nat /\ ri'.ping \in Int /\ AnswerTime \in Nat
      BY <1>3, <2>3, <3>1, Periods DEF Li!Age, Links
    <3>3. CASE ri.cc
      <4>1. ri.pings > 0 /\ ri.ping < AnswerTime
        BY <2>1, <3>1, <3>3 DEF Li!InTime, Li!Prompt
      <4> QED
        BY <2>3, <2>4, <3>1, <3>2, <3>3, <4>1
    <3>4. CASE ~ri.cc
      <4>1. ri.ping <= AnswerTime
        BY <2>1, <3>1, <3>4 DEF Li!InTime
      <4> QED
        BY <2>3, <2>4, <3>1, <3>2, <3>4, <4>1
    <3> QED
      BY <3>3, <3>4
  <2>6. trouble' = 0 => alive' /\ Li!InTime'
    BY <1>1, <2>1, <2>5 DEF Li!InTime, Li!Never
  <2> QED
    BY <1>1, <1>2, <2>1, <2>2, <2>3, <2>6
<1>11. CASE Li!ClockJumps
  <2>1. /\ jumps' = jumps + 1 /\ ran' = FALSE /\ ri' = Li!Aged(MaxAge) /\ ran
        /\ tilt' = TILT_PERIOD /\ UNCHANGED <<alive, trouble>>
    BY <1>11 DEF Li!ClockJumps
  <2>2. tilt' \in 0..TILT_PERIOD /\ tilt' # 0 /\ jumps' \in Nat
    BY <1>1, <2>1, Periods
  <2>3. /\ ri' \in Links /\ ri'.ping = Li!Older(ri.ping, MaxAge)
        /\ ri'.cc = ri.cc /\ ri'.pc = ri.pc /\ ri'.disconnected = ri.disconnected /\ ri'.pings = ri.pings /\ ri'.infos = ri.infos
        /\ ri'.s_down = ri.s_down
    BY <1>1, <2>1, AllAge, Periods
  <2>4. ri'.ping # Li!Never => ri.ping # Li!Never
    BY <1>3, <2>3, Aging, Periods
  <2>5. trouble' = 0 => alive' /\ Li!InTime'
    BY <1>1, <2>1, <2>2, <2>3, <2>4 DEF Li!InTime, Li!Never
  <2> QED
    BY <1>1, <1>2, <2>1, <2>2, <2>3, <2>5
<1> QED
  BY <1>4, <1>5, <1>6, <1>7, <1>8, <1>9, <1>10, <1>11, <1>12 DEF Li!Next

LEMMA LinkStart ==
  ASSUME Li!Init
  PROVE  Li!LinkInvariant
<1>1. /\ ri = [cc |-> FALSE, pc |-> FALSE, disconnected |-> TRUE, pings |-> 0, infos |-> 0,
               ping |-> 0, pong |-> 0, info |-> MaxAge, ccAge |-> 0, pcAge |-> 0, activity |-> 0, s_down |-> FALSE]
      /\ tilt = 0 /\ ran = FALSE /\ alive = TRUE /\ trouble = 0 /\ jumps = 0
  BY DEF Li!Init
<1>2. 0 \in 0..MAX_PENDING_COMMANDS /\ 0 \in Li!Age /\ MaxAge \in Li!Age /\ 0 \in 0..TILT_PERIOD /\ AnswerTime \in Nat
  BY Periods
<1>3. ri \in Links
  BY <1>1, <1>2 DEF Links
<1>4. Li!InTime
  BY <1>1, <1>2 DEF Li!InTime
<1> QED
  BY <1>1, <1>2, <1>3, <1>4 DEF Li!LinkInvariant, Li!TypeOK, Li!ConnectedHasLinks, Li!NoFalseAlarm, Links

-----------------------------------------------------------------------------
(* Snapshots.  The steps that handlers are made of, on the record that     *)
(* they thread.                                                            *)
LEMMA SnapshotFields ==
  ASSUME NEW S \in Sn!States
  PROVE  /\ S.srv.dirty \in Nat /\ S.srv.before \in Nat /\ S.srv.rdb \in {"none", "disk", "socket"}
         /\ S.srv.ok \in BOOLEAN /\ S.srv.asap \in BOOLEAN /\ S.srv.aof \in {"none", "running", "ended"}
         /\ S.child.state \in Sn!Running \cup {"none", "exit0", "exit1", "signalled", "killed"}
         /\ S.child.snap \in Nat /\ S.child.signal \in BOOLEAN
         /\ S.tmp \in {"none", "partial", "complete", "synced"}
         /\ S.disk.dump \in Sn!Files /\ S.disk.old \in Sn!Files
         /\ S.disk.dump.v \in Nat /\ S.disk.dump.whole = TRUE /\ S.disk.dump.synced = TRUE /\ S.errors \in Nat
<1>1. S.disk.dump \in Sn!Files /\ S.disk.old \in Sn!Files
  BY DEF Sn!States, Sn!Servers, Sn!Children
<1>2. S.disk.dump.v \in Nat /\ S.disk.dump.whole = TRUE /\ S.disk.dump.synced = TRUE
  BY <1>1 DEF Sn!Files
<1> QED
  BY <1>1, <1>2 DEF Sn!States, Sn!Servers, Sn!Children

(* A synced file is a whole one. *)
LEMMA FileSynced ==
  ASSUME NEW v \in Nat
  PROVE  Sn!File(v) \in Sn!Files /\ Sn!File(v).v = v
BY DEF Sn!File, Sn!FileOf, Sn!Files

(* What depends on the server's record, on the child, on the file and on   *)
(* the disk, and not on the errors                                         *)
LEMMA SameSnapshots ==
  ASSUME NEW S, NEW T, T.srv = S.srv, T.child = S.child, T.tmp = S.tmp, T.disk = S.disk
  PROVE  /\ Sn!Harmless(S) => Sn!Harmless(T)
         /\ \A d \in Nat : Sn!Watched(S, d) => Sn!Watched(T, d)
BY DEF Sn!Harmless, Sn!Watched

LEMMA ErrorCounted ==
  ASSUME NEW S \in Sn!States, NEW T \in Sn!Error(S)
  PROVE  /\ T \in Sn!States /\ T.srv = S.srv /\ T.child = S.child /\ T.tmp = S.tmp /\ T.disk = S.disk
         /\ Sn!Harmless(S) => Sn!Harmless(T)
         /\ \A d \in Nat : Sn!Watched(S, d) => Sn!Watched(T, d)
<1>1. T = [S EXCEPT !.errors = S.errors + 1]
  BY DEF Sn!Error
<1>2. S.errors + 1 \in Nat
  <2>1. S.errors \in Nat
    BY DEF Sn!States, Sn!Servers, Sn!Children
  <2> QED
    BY <2>1
<1>3. T \in Sn!States /\ T.srv = S.srv /\ T.child = S.child /\ T.tmp = S.tmp /\ T.disk = S.disk
  BY <1>1, <1>2 DEF Sn!States, Sn!Servers, Sn!Children
<1> QED
  BY <1>3, SameSnapshots

(* kill(SIGUSR1) *)
LEMMA ChildKilled ==
  ASSUME NEW S \in Sn!States, Sn!Harmless(S), NEW d \in Nat, Sn!Watched(S, d)
  PROVE  LET T == Sn!Killed(S) IN
         /\ T \in Sn!States /\ Sn!Harmless(T) /\ Sn!Watched(T, d)
         /\ T.srv = S.srv /\ T.disk = S.disk /\ T.child.state = S.child.state /\ T.child.snap = S.child.snap
         /\ T.child.state \in Sn!Running => T.child.signal
<1> DEFINE T == Sn!Killed(S)
<1>1. CASE S.srv.rdb = "none"
  BY <1>1 DEF Sn!Killed, Sn!Watched, Sn!Running
<1>2. CASE S.srv.rdb # "none"
  <2> DEFINE b == S.child.state \in Sn!Running
             c == [S.child EXCEPT !.signal = b]
  <2>1. T = [[S EXCEPT !.child = c] EXCEPT !.tmp = "none"]
    BY <1>2 DEF Sn!Killed, Sn!States, Sn!Servers, Sn!Children
  <2>2. /\ c \in Sn!Children
        /\ c.state = S.child.state /\ c.snap = S.child.snap /\ c.signal = b
    <3>1. b \in BOOLEAN
      OBVIOUS
    <3>2. S.child \in Sn!Children
      BY DEF Sn!States, Sn!Servers, Sn!Children
    <3> HIDE DEF b
    <3> QED
      BY <3>1, <3>2 DEF Sn!Children
  <2> HIDE DEF T, c
  <2>3. T \in Sn!States
    BY <2>1, <2>2 DEF Sn!States, Sn!Servers, Sn!Children
  <2>4. T.srv = S.srv /\ T.disk = S.disk /\ T.child = c /\ T.tmp = "none"
    BY <2>1 DEF Sn!States, Sn!Servers, Sn!Children
  <2>5. Sn!Harmless(T)
    BY <2>2, <2>4 DEF Sn!Harmless, Sn!Running
  <2>6. Sn!Watched(T, d)
    BY <2>2, <2>4 DEF Sn!Watched
  <2> QED
    BY <2>2, <2>3, <2>4, <2>5, <2>6 DEF T
<1> QED
  BY <1>1, <1>2

(* rdbSave in the server, for the data set of v changes: the count starts  *)
(* again                                                                   *)
LEMMA SavedHere ==
  ASSUME NEW S \in Sn!States, NEW v \in Nat
  PROVE  LET T == Sn!Saved(S, v) IN
         /\ T \in Sn!States /\ T.child = S.child /\ T.tmp = S.tmp
         /\ T.disk.dump.v = v /\ T.srv.dirty = 0
         /\ T.srv.rdb = S.srv.rdb /\ T.srv.before = S.srv.before
<1> DEFINE T == Sn!Saved(S, v)
           s == [[[S.srv EXCEPT !.dirty = 0] EXCEPT !.late = FALSE] EXCEPT !.ok = TRUE]
           k == Sn!Renamed(S.disk, Sn!File(v))
<1>1. T = [[S EXCEPT !.disk = k] EXCEPT !.srv = s]
  BY DEF Sn!Saved, Sn!States, Sn!Servers, Sn!Children
<1>2. /\ k \in [dump : Sn!Files, old : Sn!Files] /\ k.dump.v = v
  <2>1. Sn!File(v) \in Sn!Files /\ Sn!File(v).v = v
    BY FileSynced
  <2> QED
    BY <2>1, SnapshotFields DEF Sn!Renamed
<1>3. s \in Sn!Servers
  BY DEF Sn!States, Sn!Servers, Sn!Children
<1>4. s.dirty = 0 /\ s.rdb = S.srv.rdb /\ s.before = S.srv.before
  BY DEF Sn!States, Sn!Servers, Sn!Children
<1> HIDE DEF T, s, k
<1>5. T \in Sn!States
  BY <1>1, <1>2, <1>3 DEF Sn!States, Sn!Servers, Sn!Children
<1>6. T.child = S.child /\ T.tmp = S.tmp /\ T.disk = k /\ T.srv = s
  BY <1>1 DEF Sn!States, Sn!Servers, Sn!Children
<1> QED
  BY <1>2, <1>4, <1>5, <1>6 DEF T

(* ... with no child about, or all of them told to stop *)
LEMMA SavedIsKnown ==
  ASSUME NEW S \in Sn!States, Sn!Harmless(S), NEW d \in Nat, Sn!Watched(S, d),
         S.child.state \in Sn!Running => S.child.signal
  PROVE  Sn!Harmless(Sn!Saved(S, d))
<1> DEFINE T == Sn!Saved(S, d)
<1>1. T.child = S.child /\ T.tmp = S.tmp
  BY SavedHere
<1> HIDE DEF T
<1>2. Sn!Harmless(T)
  BY <1>1 DEF Sn!Harmless, Sn!Running
<1> QED
  BY <1>2 DEF T

LEMMA SavedAlone ==
  ASSUME NEW S \in Sn!States, Sn!Harmless(S), NEW d \in Nat, Sn!Watched(S, d), S.srv.rdb = "none"
  PROVE  LET T == Sn!Saved(S, d) IN T \in Sn!States /\ Sn!Harmless(T) /\ Sn!Watched(T, d)
<1> DEFINE T == Sn!Saved(S, d)
<1>1. S.child.state = "none"
  BY DEF Sn!Watched
<1>2. T \in Sn!States /\ Sn!Harmless(T)
  BY <1>1, SavedHere, SavedIsKnown DEF Sn!Running
<1>3. T.child = S.child /\ T.tmp = S.tmp /\ T.disk.dump.v = d /\ T.srv.dirty = 0 /\ T.srv.rdb = S.srv.rdb
  BY SavedHere
<1> HIDE DEF T
<1>4. Sn!Watched(T, d)
  BY <1>1, <1>3 DEF Sn!Watched
<1> QED
  BY <1>2, <1>4 DEF T

(* rdbSaveBackground *)
LEMMA ForkedKnown ==
  ASSUME NEW S \in Sn!States, Sn!Harmless(S), data \in Nat, Sn!Watched(S, data), S.srv.rdb = "none",
         NEW T \in Sn!Forked(S)
  PROVE  T \in Sn!States /\ Sn!Harmless(T) /\ Sn!Watched(T, data) /\ T.disk = S.disk
<1> DEFINE s == [[S.srv EXCEPT !.before = S.srv.dirty] EXCEPT !.retry = FALSE]
           s1 == [s EXCEPT !.rdb = "disk"]
           s2 == [s EXCEPT !.ok = FALSE]
           c == [Sn!NoChild EXCEPT !.state = "start", !.snap = data]
           A == [[S EXCEPT !.srv = s1] EXCEPT !.child = c]
           B == [S EXCEPT !.srv = s2]
<1>1. S.srv.dirty \in Nat /\ S.srv \in Sn!Servers
  BY DEF Sn!States, Sn!Servers, Sn!Children
<1>2. s \in Sn!Servers /\ s.dirty = S.srv.dirty /\ s.before = S.srv.dirty /\ s.rdb = S.srv.rdb
  BY <1>1 DEF Sn!Servers
<1>3. T = A \/ T \in Sn!Error(B)
  <2> DEFINE S1 == [S EXCEPT !.srv.before = S.srv.dirty, !.srv.retry = FALSE]
  <2>1. S1 = [S EXCEPT !.srv = s]
    BY DEF Sn!States, Sn!Servers, Sn!Children
  <2>2. [S1 EXCEPT !.srv.rdb = "disk", !.child = [Sn!NoChild EXCEPT !.state = "start", !.snap = data]] = A
    <3> HIDE DEF c
    <3>1. [S1 EXCEPT !.srv.rdb = "disk", !.child = c] = A
      BY <2>1 DEF Sn!States, Sn!Servers, Sn!Children
    <3> QED
      BY <3>1 DEF c
  <2>3. [S1 EXCEPT !.srv.ok = FALSE] = B
    BY <2>1 DEF Sn!States, Sn!Servers, Sn!Children
  <2> HIDE DEF A, B, s
  <2> QED
    BY <2>2, <2>3 DEF Sn!Forked
<1>4. s1 \in Sn!Servers /\ s1.dirty = S.srv.dirty /\ s1.before = S.srv.dirty /\ s1.rdb = "disk"
  <2> HIDE DEF s
  <2> QED
    BY <1>2 DEF Sn!Servers
<1>5. s2 \in Sn!Servers /\ s2.dirty = S.srv.dirty /\ s2.rdb = S.srv.rdb
  <2> HIDE DEF s
  <2> QED
    BY <1>2 DEF Sn!Servers
<1> HIDE DEF s, s1, s2
<1>6. A \in Sn!States /\ A.srv = s1 /\ A.child = c /\ A.tmp = S.tmp /\ A.disk = S.disk
  <2>1. c \in Sn!Children
    BY DEF Sn!Running, Sn!NoChild, Sn!Children
  <2>2. A \in Sn!States
    BY <1>4, <2>1 DEF Sn!States, Sn!Servers, Sn!Children
  <2> QED
    BY <2>2 DEF Sn!States, Sn!Servers, Sn!Children
<1>7. B \in Sn!States /\ B.srv = s2 /\ B.child = S.child /\ B.tmp = S.tmp /\ B.disk = S.disk
  BY <1>5 DEF Sn!States, Sn!Servers, Sn!Children
<1> HIDE DEF A, B
<1>8. Sn!Harmless(A) /\ Sn!Watched(A, data)
  <2>1. c.state = "start" /\ c.snap = data
    BY DEF Sn!NoChild
  <2> HIDE DEF c
  <2> QED
    BY <1>1, <1>4, <1>6, <2>1 DEF Sn!Harmless, Sn!Watched
<1>9. Sn!Harmless(B) /\ Sn!Watched(B, data)
  BY <1>5, <1>7 DEF Sn!Harmless, Sn!Watched
<1> QED
  BY <1>3, <1>6, <1>7, <1>8, <1>9, ErrorCounted

(* rdbSaveToSlavesSockets *)
LEMMA SocketForkedKnown ==
  ASSUME NEW S \in Sn!States, Sn!Harmless(S), data \in Nat, Sn!Watched(S, data), S.srv.rdb = "none",
         NEW T \in Sn!ForkedSocket(S)
  PROVE  T \in Sn!States /\ Sn!Harmless(T) /\ Sn!Watched(T, data) /\ T.disk = S.disk
<1> DEFINE s == [S.srv EXCEPT !.rdb = "socket"]
           c == [Sn!NoChild EXCEPT !.state = "sending", !.snap = data]
           A == [[S EXCEPT !.srv = s] EXCEPT !.child = c]
<1>1. T = A \/ T \in Sn!Error(S)
  <2> HIDE DEF c
  <2>1. [S EXCEPT !.srv.rdb = "socket", !.child = c] = A
    BY DEF Sn!States, Sn!Servers, Sn!Children
  <2> HIDE DEF A
  <2> QED
    BY <2>1 DEF Sn!ForkedSocket, c
<1>2. A \in Sn!States
  <2>1. c \in Sn!Children
    BY DEF Sn!Running, Sn!NoChild, Sn!Children
  <2> QED
    BY <2>1 DEF Sn!States, Sn!Servers, Sn!Children
<1>3. A.srv.dirty = S.srv.dirty /\ A.srv.rdb = "socket" /\ A.child = c /\ A.tmp = S.tmp /\ A.disk = S.disk
  BY DEF Sn!States, Sn!Servers, Sn!Children
<1>4. S.tmp = "none"
  BY DEF Sn!Watched
<1> HIDE DEF A
<1>5. Sn!Harmless(A) /\ Sn!Watched(A, data)
  <2>1. c.state = "sending" /\ c.snap = data
    BY DEF Sn!NoChild
  <2> HIDE DEF c
  <2> QED
    BY <1>3, <1>4, <2>1 DEF Sn!Harmless, Sn!Watched
<1> QED
  BY <1>1, <1>2, <1>3, <1>5, ErrorCounted

(* rewriteAppendOnlyFileBackground, and other changes of the server's      *)
(* record that say nothing of snapshots                                    *)
LEMMA OtherFields ==
  ASSUME NEW S \in Sn!States, NEW s, NEW T, T = [S EXCEPT !.srv = s],
         s \in Sn!Servers,
         s.dirty = S.srv.dirty, s.before = S.srv.before, s.rdb = S.srv.rdb
  PROVE  /\ T \in Sn!States /\ T.srv = s /\ T.child = S.child /\ T.tmp = S.tmp /\ T.disk = S.disk
         /\ Sn!Harmless(S) => Sn!Harmless(T)
         /\ \A d \in Nat : Sn!Watched(S, d) => Sn!Watched(T, d)
<1>1. T \in Sn!States
  BY DEF Sn!States, Sn!Servers, Sn!Children
<1>2. T.srv = s /\ T.child = S.child /\ T.tmp = S.tmp /\ T.disk = S.disk
  BY DEF Sn!States, Sn!Servers, Sn!Children
<1> QED
  BY <1>1, <1>2 DEF Sn!Harmless, Sn!Watched

LEMMA AofForkedKnown ==
  ASSUME NEW S \in Sn!States, NEW T \in Sn!ForkedAof(S)
  PROVE  /\ T \in Sn!States /\ T.disk = S.disk /\ T.srv.rdb = S.srv.rdb
         /\ Sn!Harmless(S) => Sn!Harmless(T)
         /\ \A d \in Nat : Sn!Watched(S, d) => Sn!Watched(T, d)
<1> DEFINE s == [[S.srv EXCEPT !.aof = "running"] EXCEPT !.scheduled = FALSE]
           A == [S EXCEPT !.srv = s]
<1>1. T = A \/ T \in Sn!Error(S)
  BY DEF Sn!ForkedAof, Sn!States, Sn!Servers, Sn!Children
<1>2. /\ s \in Sn!Servers
      /\ s.dirty = S.srv.dirty /\ s.before = S.srv.before /\ s.rdb = S.srv.rdb
  BY DEF Sn!States, Sn!Servers, Sn!Children
<1> HIDE DEF s
<1>3. /\ A \in Sn!States /\ A.disk = S.disk /\ A.srv.rdb = S.srv.rdb
      /\ Sn!Harmless(S) => Sn!Harmless(A)
      /\ \A d \in Nat : Sn!Watched(S, d) => Sn!Watched(A, d)
  BY <1>2, OtherFields
<1> HIDE DEF A
<1> QED
  BY <1>1, <1>3, ErrorCounted

(* backgroundSaveDoneHandler: the child is forgotten, its file is gone, and *)
(* no more changes are counted off than its snapshot has                   *)
LEMMA Forgotten ==
  ASSUME NEW S \in Sn!States, NEW d \in Nat, NEW s \in Sn!Servers, NEW T, Sn!Watched(S, d),
         T \in Sn!States, T.srv = s, T.child = Sn!NoChild, T.tmp = "none", T.disk = S.disk,
         s.rdb = "none", s.dirty >= d - S.disk.dump.v
  PROVE  Sn!Harmless(T) /\ Sn!Watched(T, d)
BY DEF Sn!Harmless, Sn!Watched, Sn!NoChild

LEMMA DoneKnown ==
  ASSUME NEW S \in Sn!States, Sn!Harmless(S), NEW d \in Nat, Sn!Watched(S, d), S.srv.rdb # "none",
         S.child.state \notin Sn!Running
  PROVE  LET T == Sn!Done(S) IN T \in Sn!States /\ Sn!Harmless(T) /\ Sn!Watched(T, d) /\ T.disk = S.disk
<1> DEFINE T == Sn!Done(S)
           s0 == [S.srv EXCEPT !.rdb = "none"]
           s1 == [[[s0 EXCEPT !.dirty = S.srv.dirty - S.srv.before] EXCEPT !.late = FALSE] EXCEPT !.ok = TRUE]
           s2 == [s0 EXCEPT !.ok = FALSE]
           U(s, t) == [[[S EXCEPT !.srv = s] EXCEPT !.child = Sn!NoChild] EXCEPT !.tmp = t]
<1>1. /\ S.srv \in Sn!Servers /\ S.child \in Sn!Children /\ S.tmp \in {"none", "partial", "complete", "synced"}
      /\ S.srv.dirty \in Nat /\ S.srv.before \in Nat /\ S.child.snap \in Nat /\ S.disk.dump.v \in Nat
      /\ S.srv.rdb \in {"none", "disk", "socket"}
      /\ S.child.state \in {"none", "exit0", "exit1", "signalled", "killed"}
  BY SnapshotFields DEF Sn!States
<1>2. S.child.state # "none"
  BY DEF Sn!Watched
<1>3. s0 \in Sn!Servers /\ s0.dirty = S.srv.dirty /\ s0.rdb = "none"
  BY <1>1 DEF Sn!Servers
<1>4. s2 \in Sn!Servers /\ s2.dirty = S.srv.dirty /\ s2.rdb = "none"
  <2> HIDE DEF s0
  <2> QED
    BY <1>3 DEF Sn!Servers
<1>5. ASSUME S.srv.rdb = "disk", S.child.state = "exit0"
      PROVE  /\ s1 \in Sn!Servers /\ s1.dirty = S.srv.dirty - S.srv.before /\ s1.rdb = "none"
             /\ s1.dirty >= d - S.disk.dump.v
  <2>1. /\ S.child.snap <= d /\ S.srv.dirty - S.srv.before >= d - S.child.snap
        /\ S.child.snap <= S.disk.dump.v
    BY <1>5 DEF Sn!Watched
  <2>2. S.srv.dirty - S.srv.before \in Nat /\ S.srv.dirty - S.srv.before >= d - S.disk.dump.v
    BY <1>1, <2>1
  <2> HIDE DEF s0
  <2>3. s1 \in Sn!Servers /\ s1.dirty = S.srv.dirty - S.srv.before /\ s1.rdb = "none"
    BY <1>3, <2>2 DEF Sn!Servers
  <2> QED
    BY <2>2, <2>3
<1>6. S.srv.dirty >= d - S.disk.dump.v
  BY DEF Sn!Watched
<1>7. ASSUME NEW s \in Sn!Servers, s.rdb = "none", s.dirty >= d - S.disk.dump.v
      PROVE  /\ U(s, "none") \in Sn!States /\ Sn!Harmless(U(s, "none")) /\ Sn!Watched(U(s, "none"), d)
             /\ U(s, "none").disk = S.disk
  <2> DEFINE V == U(s, "none")
  <2>1. Sn!NoChild \in Sn!Children
    BY DEF Sn!NoChild, Sn!Children
  <2>2. V \in Sn!States
    BY <2>1 DEF Sn!States
  <2>3. V.srv = s /\ V.child = Sn!NoChild /\ V.tmp = "none" /\ V.disk = S.disk
    BY DEF Sn!States
  <2> HIDE DEF V
  <2>4. Sn!Harmless(V) /\ Sn!Watched(V, d)
    BY <1>7, <2>2, <2>3, Forgotten
  <2> QED
    BY <2>2, <2>3, <2>4 DEF V
<1>8. T = U(s0, "none") \/ T = U(s2, "none") \/ (S.srv.rdb = "disk" /\ S.child.state = "exit0" /\ T = U(s1, "none"))
  <2>1. CASE S.srv.rdb = "socket"
    <3>1. T = [S EXCEPT !.srv.rdb = "none", !.child = Sn!NoChild] /\ S.tmp = "none"
      BY <2>1 DEF Sn!Done, Sn!DoneSocket, Sn!Watched
    <3>2. T = U(s0, S.tmp)
      BY <3>1 DEF Sn!States
    <3> QED
      BY <3>1, <3>2
  <2>2. CASE S.srv.rdb = "disk"
    <3> DEFINE R == [S EXCEPT !.srv.rdb = "none", !.child = Sn!NoChild]
    <3>1. T = Sn!DoneDisk(S)
      BY <2>2 DEF Sn!Done
    <3>2. R = U(s0, S.tmp)
      BY DEF Sn!States
    <3>3. CASE S.child.state = "exit0"
      <4>1. T = [R EXCEPT !.srv.dirty = @ - S.srv.before, !.srv.late = FALSE, !.srv.ok = TRUE]
        BY <3>1, <3>3 DEF Sn!DoneDisk
      <4>2. S.tmp = "none"
        BY <3>3 DEF Sn!Harmless
      <4>3. R.srv = s0 /\ R.srv.dirty = S.srv.dirty
        BY <1>1 DEF Sn!States, Sn!Servers
      <4>4. T = U(s1, "none")
        <5>1. Sn!NoChild \in Sn!Children
          BY DEF Sn!NoChild, Sn!Children
        <5>2. R \in Sn!States
          <6> HIDE DEF s0
          <6> QED
            BY <1>3, <3>2, <5>1 DEF Sn!States
        <5> DEFINE x == [[[R.srv EXCEPT !.dirty = R.srv.dirty - S.srv.before] EXCEPT !.late = FALSE]
                           EXCEPT !.ok = TRUE]
        <5> HIDE DEF R
        <5>3. T = [R EXCEPT !.srv = x]
          BY <4>1, <5>2 DEF Sn!States, Sn!Servers
        <5>4. x = s1
          BY <4>3
        <5> HIDE DEF x, s1, s0
        <5> QED
          BY <3>2, <4>2, <5>3, <5>4 DEF Sn!States
      <4> QED
        BY <2>2, <3>3, <4>4
    <3>4. CASE S.child.state = "exit1"
      <4>1. T = [R EXCEPT !.srv.ok = FALSE] /\ S.tmp = "none"
        BY <3>1, <3>4 DEF Sn!DoneDisk, Sn!Harmless
      <4>2. T = U(s2, "none")
        BY <3>2, <4>1 DEF Sn!States
      <4> QED
        BY <4>2
    <3>5. CASE S.child.state = "signalled"
      <4>1. T = [R EXCEPT !.tmp = "none"]
        BY <3>1, <3>5 DEF Sn!DoneDisk
      <4>2. T = U(s0, "none")
        BY <3>2, <4>1 DEF Sn!States
      <4> QED
        BY <4>2
    <3>6. CASE S.child.state = "killed"
      <4>1. T = [R EXCEPT !.tmp = "none", !.srv.ok = FALSE]
        BY <3>1, <3>6 DEF Sn!DoneDisk
      <4>2. T = U(s2, "none")
        BY <3>2, <4>1 DEF Sn!States
      <4> QED
        BY <4>2
    <3> QED
      BY <1>1, <1>2, <3>3, <3>4, <3>5, <3>6
  <2> QED
    BY <1>1, <2>1, <2>2
<1> HIDE DEF T, s0, s1, s2, U
<1>9. T \in Sn!States /\ Sn!Harmless(T) /\ Sn!Watched(T, d) /\ T.disk = S.disk
  <2>1. CASE T = U(s0, "none")
    BY <1>3, <1>6, <1>7, <2>1
  <2>2. CASE T = U(s2, "none")
    BY <1>4, <1>6, <1>7, <2>2
  <2>3. CASE S.srv.rdb = "disk" /\ S.child.state = "exit0" /\ T = U(s1, "none")
    BY <1>5, <1>7, <2>3
  <2> QED
    BY <1>8, <2>1, <2>2, <2>3
<1> QED
  BY <1>9 DEF T

(* serverCron *)
LEMMA RewriteKnown ==
  ASSUME NEW S \in Sn!States, NEW T \in Sn!CronRewrite(S)
  PROVE  /\ T \in Sn!States /\ T.disk = S.disk
         /\ Sn!Harmless(S) => Sn!Harmless(T)
         /\ \A d \in Nat : Sn!Watched(S, d) => Sn!Watched(T, d)
BY AofForkedKnown DEF Sn!CronRewrite

LEMMA ChildrenKnown ==
  ASSUME NEW S \in Sn!States, Sn!Harmless(S), data \in Nat, Sn!Watched(S, data), NEW T \in Sn!CronChildren(S)
  PROVE  T \in Sn!States /\ Sn!Harmless(T) /\ Sn!Watched(T, data) /\ T.disk = S.disk
<1>1. CASE Sn!NoChildren(S)
  <2>1. T = S \/ T \in Sn!Forked(S)
    BY <1>1 DEF Sn!CronChildren
  <2>2. S.srv.rdb = "none"
    BY <1>1 DEF Sn!NoChildren
  <2> QED
    BY <2>1, <2>2, ForkedKnown
<1>2. CASE ~Sn!NoChildren(S)
  <2>1. \/ T = S
        \/ S.srv.rdb # "none" /\ S.child.state \notin Sn!Running /\ T = Sn!Done(S)
        \/ T = [S EXCEPT !.srv.aof = "none"]
    BY <1>2 DEF Sn!CronChildren
  <2>2. CASE T = S
    BY <2>2
  <2>3. CASE S.srv.rdb # "none" /\ S.child.state \notin Sn!Running /\ T = Sn!Done(S)
    BY <2>3, DoneKnown
  <2>4. CASE T = [S EXCEPT !.srv.aof = "none"]
    <3> DEFINE s == [S.srv EXCEPT !.aof = "none"]
    <3>1. T = [S EXCEPT !.srv = s]
      BY <2>4 DEF Sn!States
    <3>2. s \in Sn!Servers /\ s.dirty = S.srv.dirty /\ s.before = S.srv.before /\ s.rdb = S.srv.rdb
      BY DEF Sn!States, Sn!Servers
    <3> HIDE DEF s
    <3> QED
      BY <3>1, <3>2, OtherFields
  <2> QED
    BY <2>1, <2>2, <2>3, <2>4
<1> QED
  BY <1>1, <1>2

(* The state while the server is up, and after, when only children that    *)
(* were told to stop are left                                              *)
Fine(S, d, p) ==
  /\ S \in Sn!States /\ Sn!Harmless(S)
  /\ p = "up" => Sn!Watched(S, d)
  /\ p # "up" => (S.child.state \in Sn!Running => S.child.signal)

(* A child goes on or ends, with its temporary file as t, and leaves the   *)
(* snapshot as it is.                                                      *)
GoesOn(S, t, st) ==
  /\ S.child.state \in Sn!Running /\ t \in {"none", "partial", "complete", "synced"}
  /\ st \in Sn!Running \cup {"exit0", "exit1", "signalled", "killed"}
  /\ st \in {"renamed", "exit0", "exit1", "sending"} => t = "none"
  /\ S.child.signal => st \in {"signalled", "killed"}
  /\ st \in {"start", "writing", "flushed", "written"} => S.child.state \in {"start", "writing", "flushed"}
  /\ st = "written" => t \in {"none", "synced"}
  /\ S.child.state = "sending" => t = S.tmp /\ st \in {"exit0", "exit1", "signalled", "killed"}
  /\ st # "sending"
  /\ st \in {"renamed", "exit0"} => S.child.state \in {"renamed", "sending"}

Advanced(S, t, st) == [[S EXCEPT !.tmp = t] EXCEPT !.child = [S.child EXCEPT !.state = st]]

LEMMA ChildGoesOn ==
  ASSUME NEW S, NEW d \in Nat, NEW p, Fine(S, d, p), NEW t, NEW st, GoesOn(S, t, st),
         NEW T, T = Advanced(S, t, st)
  PROVE  Fine(T, d, p) /\ T.disk = S.disk
<1> USE DEF GoesOn
<1> DEFINE c == [S.child EXCEPT !.state = st]
<1>1. S \in Sn!States /\ S.child \in Sn!Children /\ S.srv \in Sn!Servers
  BY DEF Fine, Sn!States
<1>2. c \in Sn!Children /\ c.state = st /\ c.snap = S.child.snap /\ c.signal = S.child.signal
  BY <1>1 DEF Sn!Children
<1>3. T = [[S EXCEPT !.tmp = t] EXCEPT !.child = c]
  BY DEF Advanced
<1> HIDE DEF c
<1>4. T \in Sn!States /\ T.srv = S.srv /\ T.child = c /\ T.tmp = t /\ T.disk = S.disk
  <2>1. T \in Sn!States
    BY <1>1, <1>2, <1>3 DEF Sn!States
  <2> QED
    BY <1>1, <1>3, <2>1 DEF Sn!States
<1>5. Sn!Harmless(T)
  BY <1>2, <1>4 DEF Fine, Sn!Harmless
<1>6. ASSUME p = "up" PROVE Sn!Watched(T, d)
  <2>1. Sn!Watched(S, d) /\ S.child.state # "none" /\ st # "none"
    BY <1>6 DEF Fine, Sn!Running
  <2>2. S.srv.rdb \in {"none", "disk", "socket"}
    BY <1>1 DEF Sn!Servers
  <2>3. CASE S.srv.rdb = "disk"
    <3>1. S.child.state # "sending"
      BY <2>1, <2>3 DEF Sn!Watched
    <3>2. st \in {"renamed", "exit0"} => S.child.snap <= S.disk.dump.v
      BY <2>1, <2>3, <3>1 DEF Sn!Watched
    <3> QED
      BY <1>2, <1>4, <2>1, <2>3, <3>1, <3>2 DEF Sn!Watched
  <2>4. CASE S.srv.rdb = "socket"
    <3>1. S.child.state = "sending" /\ S.tmp = "none"
      BY <2>1, <2>4 DEF Sn!Watched, Sn!Running
    <3> QED
      BY <1>2, <1>4, <2>1, <2>4, <3>1 DEF Sn!Watched
  <2> QED
    BY <2>1, <2>2, <2>3, <2>4 DEF Sn!Watched
<1>7. ASSUME p # "up" PROVE st \notin Sn!Running
  BY <1>7 DEF Fine, Sn!Running
<1>8. Fine(T, d, p)
  BY <1>2, <1>4, <1>5, <1>6, <1>7 DEF Fine
<1> QED
  BY <1>4, <1>8

(* The same for a record that has counted an error before *)
LEMMA FineError ==
  ASSUME NEW S, NEW d \in Nat, NEW p, Fine(S, d, p), NEW T \in Sn!Error(S)
  PROVE  Fine(T, d, p) /\ T.srv = S.srv /\ T.child = S.child /\ T.tmp = S.tmp /\ T.disk = S.disk
BY ErrorCounted DEF Fine

(* The steps of the child: rdbSave *)
LEMMA ChildOpens ==
  ASSUME NEW S, NEW d \in Nat, NEW p, Fine(S, d, p), S.child.state = "start",
         NEW T \in Sn!Open(S)
  PROVE  Fine(T, d, p) /\ T.disk = S.disk
<1> DEFINE st == IF S.child.signal THEN "signalled" ELSE "writing"
<1>1. S \in Sn!States
  BY DEF Fine
<1>2. T = Advanced(S, "partial", st)
  BY <1>1 DEF Sn!Open, Sn!Ends, Sn!States, Advanced
<1>3. GoesOn(S, "partial", st)
  BY DEF Sn!Running, GoesOn
<1> HIDE DEF st
<1> QED
  BY <1>2, <1>3, ChildGoesOn

(* To write and to sync *)
LEMMA ChildWrites ==
  ASSUME NEW S, NEW d \in Nat, NEW p, Fine(S, d, p), S.child.state \in {"writing", "flushed"},
         NEW w, NEW e, (w = "complete" /\ e = "flushed") \/ (w = "synced" /\ e = "written"),
         NEW T \in Sn!WriteTo(S, w, e)
  PROVE  Fine(T, d, p) /\ T.disk = S.disk
<1>1. CASE T = Sn!Ends([S EXCEPT !.tmp = IF @ = "none" THEN "none" ELSE w], e)
  <2> DEFINE st == IF S.child.signal THEN "signalled" ELSE e
             t == IF S.tmp = "none" THEN "none" ELSE w
  <2>1. S \in Sn!States
    BY DEF Fine
  <2>2. T = Advanced(S, t, st)
    BY <1>1, <2>1 DEF Sn!Ends, Sn!States, Advanced
  <2>3. GoesOn(S, t, st)
    BY DEF Sn!Running, GoesOn
  <2> HIDE DEF st, t
  <2> QED
    BY <2>2, <2>3, ChildGoesOn
<1>2. ASSUME NEW R \in Sn!Error(S), T = Sn!Ends([R EXCEPT !.tmp = "none"], "exit1")
      PROVE  Fine(T, d, p) /\ T.disk = S.disk
  <2> DEFINE st == IF R.child.signal THEN "signalled" ELSE "exit1"
  <2>1. Fine(R, d, p) /\ R.child.state \in {"writing", "flushed"} /\ R.disk = S.disk
    BY <1>2, FineError
  <2>2. R \in Sn!States
    BY <2>1 DEF Fine
  <2>3. T = Advanced(R, "none", st)
    BY <1>2, <2>2 DEF Sn!Ends, Sn!States, Advanced
  <2>4. GoesOn(R, "none", st)
    BY <2>1 DEF Sn!Running, GoesOn
  <2> HIDE DEF st
  <2> QED
    BY <2>1, <2>3, <2>4, ChildGoesOn
<1> QED
  BY <1>1, <1>2 DEF Sn!WriteTo

LEMMA ChildRenames ==
  ASSUME NEW S, NEW d \in Nat, NEW p, Fine(S, d, p), S.child.state = "written",
         NEW T \in Sn!Rename(S)
  PROVE  Fine(T, d, p) /\ T.disk.dump.v >= S.disk.dump.v /\ (p # "up" => T.disk = S.disk)
<1>1. S \in Sn!States /\ S.disk.dump.v \in Nat /\ S.child \in Sn!Children /\ S.child.snap \in Nat
      /\ S.srv.dirty \in Nat /\ S.srv.before \in Nat /\ S.disk.dump \in Sn!Files
      /\ S.srv.rdb \in {"none", "disk", "socket"} /\ S.child.signal \in BOOLEAN
  BY SnapshotFields DEF Fine, Sn!States
<1>2. ASSUME NEW R, Fine(R, d, p), R.child.state = "written", R.disk = S.disk,
             T = Sn!Ends([R EXCEPT !.tmp = "none"], "exit1")
      PROVE  Fine(T, d, p) /\ T.disk = S.disk
  <2> DEFINE st == IF R.child.signal THEN "signalled" ELSE "exit1"
  <2>2. R \in Sn!States
    BY <1>2 DEF Fine
  <2>3. T = Advanced(R, "none", st)
    BY <1>2, <2>2 DEF Sn!Ends, Sn!States, Advanced
  <2>4. GoesOn(R, "none", st)
    BY <1>2 DEF Sn!Running, GoesOn
  <2> HIDE DEF st
  <2> QED
    BY <1>2, <2>3, <2>4, ChildGoesOn
<1>3. CASE S.tmp = "none"
  <2>1. [S EXCEPT !.tmp = "none"] = S
    BY <1>1, <1>3 DEF Sn!States
  <2>2. T = Sn!Ends([S EXCEPT !.tmp = "none"], "exit1")
    BY <1>3, <2>1 DEF Sn!Rename
  <2> QED
    BY <1>1, <1>2, <2>2
<1>4. CASE S.tmp # "none"
  <2>1. ~S.child.signal /\ S.disk.dump.v <= S.child.snap /\ S.tmp = "synced"
    BY <1>4 DEF Fine, Sn!Harmless
  <2>2. p = "up" /\ Sn!Watched(S, d)
    BY <2>1 DEF Fine, Sn!Running
  <2>3. S.srv.rdb = "disk"
    BY <1>1, <2>2 DEF Sn!Watched
  <2>4. ASSUME NEW R \in Sn!Error(S), T = Sn!Ends([R EXCEPT !.tmp = "none"], "exit1")
        PROVE  Fine(T, d, p) /\ T.disk = S.disk
    BY <1>2, <2>4, FineError
  <2>5. CASE T = Sn!Ends([S EXCEPT !.tmp = "none", !.disk = Sn!Renamed(@, Sn!FileOf(S.child.snap, S.tmp))], "renamed")
    <3> DEFINE c == [S.child EXCEPT !.state = "renamed"]
               k == Sn!Renamed(S.disk, Sn!File(S.child.snap))
    <3>1. T = [[[S EXCEPT !.tmp = "none"] EXCEPT !.disk = k] EXCEPT !.child = c]
      BY <1>1, <2>1, <2>5 DEF Sn!Ends, Sn!States, Sn!File
    <3>2. c \in Sn!Children /\ c.state = "renamed" /\ c.snap = S.child.snap
      BY <1>1 DEF Sn!Children, Sn!Running
    <3>3. k \in [dump : Sn!Files, old : Sn!Files] /\ k.dump.v = S.child.snap
      BY <1>1, FileSynced DEF Sn!Renamed
    <3> HIDE DEF c, k
    <3>4. T \in Sn!States
      BY <1>1, <3>1, <3>2, <3>3 DEF Sn!States
    <3>5. T.srv = S.srv /\ T.child = c /\ T.tmp = "none" /\ T.disk = k
      BY <1>1, <3>1 DEF Sn!States
    <3>6. Sn!Harmless(T)
      BY <3>2, <3>5 DEF Sn!Harmless
    <3>7. S.child.snap <= d /\ S.srv.dirty - S.srv.before >= d - S.child.snap
      BY <2>2, <2>3 DEF Sn!Watched
    <3>8. S.srv.dirty >= d - S.child.snap
      BY <1>1, <3>7
    <3>9. Sn!Watched(T, d)
      BY <1>1, <2>3, <3>2, <3>3, <3>5, <3>7, <3>8 DEF Sn!Watched
    <3> QED
      BY <2>1, <2>2, <3>3, <3>4, <3>5, <3>6, <3>9 DEF Fine
  <2>6. \/ T = Sn!Ends([S EXCEPT !.tmp = "none", !.disk = Sn!Renamed(@, Sn!FileOf(S.child.snap, S.tmp))], "renamed")
        \/ \E R \in Sn!Error(S) : T = Sn!Ends([R EXCEPT !.tmp = "none"], "exit1")
    BY <1>4 DEF Sn!Rename
  <2>7. CASE \E R \in Sn!Error(S) : T = Sn!Ends([R EXCEPT !.tmp = "none"], "exit1")
    <3>1. Fine(T, d, p) /\ T.disk = S.disk
      BY <2>4, <2>7
    <3> QED
      BY <1>1, <3>1
  <2> QED
    BY <2>5, <2>6, <2>7
<1> QED
  BY <1>3, <1>4

(* ... and its end *)
LEMMA ChildExits ==
  ASSUME NEW S, NEW d \in Nat, NEW p, Fine(S, d, p), NEW st, NEW T, T = Sn!Ends(S, st),
         \/ S.child.state = "renamed" /\ st = "exit0"
         \/ S.child.state = "sending" /\ st \in {"exit0", "exit1"}
  PROVE  Fine(T, d, p) /\ T.disk = S.disk
<1> DEFINE st1 == IF S.child.signal THEN "signalled" ELSE st
<1>1. S \in Sn!States /\ S.tmp = "none"
  BY DEF Fine, Sn!Harmless
<1>2. T = Advanced(S, "none", st1)
  BY <1>1 DEF Sn!Ends, Sn!States, Advanced
<1>3. GoesOn(S, "none", st1)
  BY <1>1 DEF Sn!Running, GoesOn
<1> HIDE DEF st1
<1> QED
  BY <1>1, <1>2, <1>3, ChildGoesOn

LEMMA ChildDies ==
  ASSUME NEW S, NEW d \in Nat, NEW p, Fine(S, d, p), S.child.state \in Sn!Running,
         NEW st \in {"signalled", "killed"}, NEW T, T = [S EXCEPT !.child.state = st]
  PROVE  Fine(T, d, p) /\ T.disk = S.disk
<1>1. S \in Sn!States /\ S.tmp \in {"none", "partial", "complete", "synced"}
  BY DEF Fine, Sn!States
<1>2. T = Advanced(S, S.tmp, st)
  BY <1>1 DEF Sn!States, Advanced
<1>3. GoesOn(S, S.tmp, st)
  BY <1>1 DEF GoesOn, Sn!Running
<1> QED
  BY <1>1, <1>2, <1>3, ChildGoesOn

(* prepareForShutdown *)
LEMMA ExitsKnown ==
  ASSUME NEW S \in Sn!States, Sn!Harmless(S), data \in Nat, Sn!Watched(S, data),
         NEW save \in BOOLEAN, NEW T \in Sn!Exits(S, save), NEW p, p # "up"
  PROVE  /\ Fine(T, data, p) /\ T.disk.dump.v >= S.disk.dump.v
         /\ save => T.disk.dump.v = data
<1> DEFINE K == Sn!Killed(S)
<1>1. /\ K \in Sn!States /\ Sn!Harmless(K) /\ Sn!Watched(K, data) /\ K.disk = S.disk
      /\ K.child.state \in Sn!Running => K.child.signal
  BY ChildKilled
<1>2. S.disk.dump.v \in Nat /\ S.disk.dump.v <= data
  BY SnapshotFields DEF Sn!Watched
<1>3. T = IF save THEN Sn!Saved(K, data) ELSE K
  BY DEF Sn!Exits
<1> HIDE DEF K
<1>4. CASE save
  <2>1. T = Sn!Saved(K, data)
    BY <1>3, <1>4
  <2>2. T \in Sn!States /\ T.child = K.child /\ T.disk.dump.v = data
    BY <1>1, <2>1, SavedHere
  <2>3. Sn!Harmless(T)
    BY <1>1, <2>1, SavedIsKnown
  <2>4. Fine(T, data, p)
    BY <1>1, <2>2, <2>3 DEF Fine
  <2> QED
    BY <1>2, <2>2, <2>4
<1>5. CASE ~save
  BY <1>1, <1>2, <1>3, <1>5 DEF Fine
<1> QED
  BY <1>4, <1>5

LEMMA StaysKnown ==
  ASSUME NEW S \in Sn!States, Sn!Harmless(S), data \in Nat, Sn!Watched(S, data),
         NEW save \in BOOLEAN, NEW T \in Sn!Stays(S, save)
  PROVE  T \in Sn!States /\ Sn!Harmless(T) /\ Sn!Watched(T, data) /\ T.disk = S.disk
<1> DEFINE K == Sn!Killed(S)
<1>1. K \in Sn!States /\ Sn!Harmless(K) /\ Sn!Watched(K, data) /\ K.disk = S.disk
  BY ChildKilled
<1>2. T \in Sn!Error(K)
  BY DEF Sn!Stays
<1> HIDE DEF K
<1> QED
  BY <1>1, <1>2, ErrorCounted

(* A change of the data set is counted at least once *)
LEMMA Counted ==
  ASSUME NEW S \in Sn!States, Sn!Harmless(S), NEW d \in Nat, Sn!Watched(S, d), NEW n \in Nat, n > S.srv.dirty,
         NEW T, T = [S EXCEPT !.srv = [S.srv EXCEPT !.dirty = n]]
  PROVE  T \in Sn!States /\ Sn!Harmless(T) /\ Sn!Watched(T, d + 1) /\ T.disk = S.disk
<1> DEFINE s == [S.srv EXCEPT !.dirty = n]
<1>1. /\ S.srv \in Sn!Servers /\ S.srv.dirty \in Nat /\ S.srv.before \in Nat
      /\ S.disk.dump.v \in Nat /\ S.child.snap \in Nat
  BY SnapshotFields DEF Sn!States
<1>2. s \in Sn!Servers /\ s.dirty = n /\ s.before = S.srv.before /\ s.rdb = S.srv.rdb
  BY <1>1 DEF Sn!Servers
<1> HIDE DEF s
<1>3. T = [S EXCEPT !.srv = s]
  BY DEF s
<1>4. T \in Sn!States /\ T.srv = s /\ T.child = S.child /\ T.tmp = S.tmp /\ T.disk = S.disk
  BY <1>2, <1>3 DEF Sn!States
<1>5. Sn!Harmless(T)
  BY <1>4 DEF Sn!Harmless
<1>6. S.disk.dump.v <= d + 1 /\ n >= (d + 1) - S.disk.dump.v
  BY <1>1 DEF Sn!Watched
<1>7. ASSUME S.srv.rdb = "disk"
      PROVE  S.child.snap <= d + 1 /\ n - S.srv.before >= (d + 1) - S.child.snap
  <2>1. S.child.snap <= d /\ S.srv.dirty - S.srv.before >= d - S.child.snap
    BY <1>7 DEF Sn!Watched
  <2> QED
    BY <1>1, <2>1
<1>8. Sn!Watched(T, d + 1)
  BY <1>2, <1>4, <1>6, <1>7 DEF Sn!Watched
<1> QED
  BY <1>4, <1>5, <1>8

(* FLUSHALL: the child is killed, the empty data set is saved or not, and  *)
(* the count goes on from the one before                                   *)
LEMMA FlushedKnown ==
  ASSUME NEW S \in Sn!States, Sn!Harmless(S), data \in Nat, Sn!Watched(S, data), NEW removed \in {0, 1},
         NEW K, K = [Sn!Killed(S) EXCEPT !.srv.dirty = @ + removed],
         NEW T \in {Sn!Saved(K, data + 1)} \cup Sn!Error(K),
         NEW U, U = [T EXCEPT !.srv.dirty = K.srv.dirty + 1]
  PROVE  U \in Sn!States /\ Sn!Harmless(U) /\ Sn!Watched(U, data + 1) /\ U.disk.dump.v >= S.disk.dump.v
<1> DEFINE Q == Sn!Killed(S)
           n == Q.srv.dirty + removed
           q == [Q.srv EXCEPT !.dirty = n]
<1>1. /\ Q \in Sn!States /\ Sn!Harmless(Q) /\ Sn!Watched(Q, data) /\ Q.disk = S.disk
      /\ Q.child.state \in Sn!Running => Q.child.signal
  BY ChildKilled
<1>2. K = [Q EXCEPT !.srv.dirty = @ + removed]
  OBVIOUS
<1> HIDE DEF Q
<1>3. /\ Q.srv \in Sn!Servers /\ Q.srv.dirty \in Nat /\ Q.srv.before \in Nat
      /\ Q.disk.dump.v \in Nat /\ Q.child.snap \in Nat /\ Q.srv.rdb \in {"none", "disk", "socket"}
  BY <1>1, SnapshotFields DEF Sn!States
<1>4. n \in Nat /\ n >= Q.srv.dirty /\ n + 1 \in Nat /\ n + 1 > Q.srv.dirty
  BY <1>3
<1>5. K = [Q EXCEPT !.srv = q]
  BY <1>1, <1>2 DEF Sn!States
<1> HIDE DEF n
<1>6. q \in Sn!Servers /\ q.dirty = n /\ q.before = Q.srv.before /\ q.rdb = Q.srv.rdb
  BY <1>3, <1>4 DEF Sn!Servers
<1> HIDE DEF q
<1>7. /\ K \in Sn!States /\ K.srv = q /\ K.child = Q.child /\ K.tmp = Q.tmp /\ K.disk = Q.disk
      /\ K.errors = Q.errors
  BY <1>1, <1>5, <1>6 DEF Sn!States
<1>8. Sn!Harmless(K)
  BY <1>1, <1>7 DEF Sn!Harmless
<1> DEFINE u == [T.srv EXCEPT !.dirty = n + 1]
<1>9. CASE T \in Sn!Error(K)
  <2>1. T \in Sn!States /\ T.srv = q /\ T.child = K.child /\ T.tmp = K.tmp /\ T.disk = K.disk
    BY <1>7, <1>9, ErrorCounted
  <2>2. U = [T EXCEPT !.srv = u]
    BY <1>6, <1>7, <2>1 DEF Sn!States
  <2>3. u \in Sn!Servers /\ u.dirty = n + 1 /\ u.before = Q.srv.before /\ u.rdb = Q.srv.rdb
    BY <1>4, <1>6, <2>1 DEF Sn!Servers
  <2> HIDE DEF u
  <2>4. U \in Sn!States /\ U.srv = u /\ U.child = Q.child /\ U.tmp = Q.tmp /\ U.disk = Q.disk
    BY <1>7, <2>1, <2>2, <2>3 DEF Sn!States
  <2>5. Sn!Harmless(U)
    BY <1>1, <2>4 DEF Sn!Harmless
  <2>6. Q.disk.dump.v <= data + 1 /\ n + 1 >= (data + 1) - Q.disk.dump.v
    BY <1>1, <1>3, <1>4 DEF Sn!Watched
  <2>7. ASSUME Q.srv.rdb = "disk"
        PROVE  Q.child.snap <= data + 1 /\ (n + 1) - Q.srv.before >= (data + 1) - Q.child.snap
    <3>1. Q.child.snap <= data /\ Q.srv.dirty - Q.srv.before >= data - Q.child.snap
      BY <1>1, <2>7 DEF Sn!Watched
    <3> QED
      BY <1>3, <1>4, <3>1
  <2>8. Sn!Watched(U, data + 1)
    BY <1>1, <2>3, <2>4, <2>6, <2>7 DEF Sn!Watched
  <2> QED
    BY <1>1, <1>3, <2>4, <2>5, <2>8
<1>10. CASE T = Sn!Saved(K, data + 1)
  <2>1. /\ T \in Sn!States /\ T.child = K.child /\ T.tmp = K.tmp /\ T.disk.dump.v = data + 1
        /\ T.srv.rdb = q.rdb /\ T.srv.before = q.before
    <3>1. data + 1 \in Nat
      OBVIOUS
    <3> QED
      BY <1>7, <1>10, <3>1, SavedHere
  <2>2. T.srv \in Sn!Servers
    BY <2>1 DEF Sn!States
  <2>3. U = [T EXCEPT !.srv = u]
    BY <1>6, <1>7, <2>1 DEF Sn!States
  <2>4. u \in Sn!Servers /\ u.dirty = n + 1 /\ u.before = Q.srv.before /\ u.rdb = Q.srv.rdb
    BY <1>4, <1>6, <2>1, <2>2 DEF Sn!Servers
  <2> HIDE DEF u
  <2>5. U \in Sn!States /\ U.srv = u /\ U.child = Q.child /\ U.tmp = Q.tmp /\ U.disk.dump.v = data + 1
    BY <1>7, <2>1, <2>3, <2>4 DEF Sn!States
  <2>6. Sn!Harmless(U)
    BY <1>1, <2>5 DEF Sn!Harmless, Sn!Running
  <2>7. ASSUME Q.srv.rdb = "disk"
        PROVE  Q.child.snap <= data + 1 /\ (n + 1) - Q.srv.before >= (data + 1) - Q.child.snap
    <3>1. Q.child.snap <= data /\ Q.srv.dirty - Q.srv.before >= data - Q.child.snap
      BY <1>1, <2>7 DEF Sn!Watched
    <3> QED
      BY <1>3, <1>4, <3>1
  <2>8. n + 1 >= (data + 1) - (data + 1)
    BY <1>4
  <2>9. Sn!Watched(U, data + 1)
    BY <1>1, <2>4, <2>5, <2>7, <2>8 DEF Sn!Watched
  <2>10. Q.disk.dump.v <= data
    BY <1>1 DEF Sn!Watched
  <2> QED
    BY <1>1, <1>3, <2>5, <2>6, <2>9, <2>10
<1> QED
  BY <1>9, <1>10

-----------------------------------------------------------------------------
LEMMA StateFields ==
  /\ Sn!State.srv = srv /\ Sn!State.child = child /\ Sn!State.tmp = tmp /\ Sn!State.disk = disk
  /\ Sn!State.errors = count.errors
BY DEF Sn!State

(* The invariant of the snapshots and what it says of each step *)
LEMMA SnapshotsStep ==
  ASSUME Sn!SnapshotsInvariant, Sn!Next
  PROVE  Sn!SnapshotsInvariant' /\ Sn!NeverOlder
<1> DEFINE Safe == Sn!SnapshotsInvariant' /\ Sn!NeverOlder
           Counts == [commands : Nat, errors : Nat, crashes : Nat]
<1>1. /\ power \in {"up", "saved", "gone"} /\ data \in Nat /\ count \in Counts
      /\ Fine(Sn!State, data, power) /\ (power = "saved" => disk.dump.v = data)
  BY StateFields DEF Sn!SnapshotsInvariant, Fine
<1>2. Sn!State \in Sn!States /\ Sn!Harmless(Sn!State) /\ (power = "up" => Sn!Watched(Sn!State, data))
  BY <1>1 DEF Fine
<1>3. disk.dump.v \in Nat /\ disk.dump.whole = TRUE /\ count.errors \in Nat
  BY <1>2, SnapshotFields, StateFields
<1>4. ASSUME NEW S, srv' = S.srv, child' = S.child, tmp' = S.tmp, disk' = S.disk, count' \in Counts,
             count'.errors = S.errors, Fine(S, data', power'), power' \in {"up", "saved", "gone"}, data' \in Nat,
             power' = "saved" => S.disk.dump.v = data', S.disk.dump.v >= disk.dump.v
      PROVE  Safe
  <2>1. S.srv \in Sn!Servers /\ S.child \in Sn!Children
    BY <1>4 DEF Fine, Sn!States
  <2>2. /\ Sn!State'.srv = S.srv /\ Sn!State'.child = S.child /\ Sn!State'.tmp = S.tmp
        /\ Sn!State'.disk = S.disk /\ Sn!State'.errors = S.errors
    BY <1>4 DEF Sn!State
  <2>3. Sn!State' \in Sn!States
    BY <1>4 DEF Fine, Sn!State, Sn!States
  <2>4. Sn!Harmless(Sn!State') /\ (power' = "up" => Sn!Watched(Sn!State', data'))
    BY <1>4, <2>2, SameSnapshots DEF Fine
  <2>5. power' # "up" => (child'.state \in Sn!Running => child'.signal)
    BY <1>4 DEF Fine
  <2>6. Sn!SnapshotsInvariant'
    BY <1>4, <2>3, <2>4, <2>5 DEF Sn!SnapshotsInvariant
  <2>7. Sn!NeverOlder
    BY <1>4 DEF Sn!NeverOlder
  <2> QED
    BY <2>6, <2>7
<1> SUFFICES Safe
  OBVIOUS
<1> HIDE DEF Safe
<1>5. ASSUME NEW S, Sn!Become(S), Fine(S, data, power), S.disk.dump.v >= disk.dump.v, UNCHANGED <<power, data>>,
             power # "up" => S.disk = disk
      PROVE  Safe
  <2>1. /\ srv' = S.srv /\ child' = S.child /\ tmp' = S.tmp /\ disk' = S.disk
        /\ count' = [count EXCEPT !.errors = S.errors] /\ power' = power /\ data' = data
    BY <1>5 DEF Sn!Become
  <2>2. S.errors \in Nat
    BY <1>5 DEF Fine, Sn!States
  <2>3. count' \in Counts /\ count'.errors = S.errors
    BY <1>1, <2>1, <2>2
  <2>4. Fine(S, data', power') /\ (power' = "saved" => S.disk.dump.v = data')
    BY <1>1, <1>5, <2>1
  <2> QED
    BY <1>1, <1>4, <1>5, <2>1, <2>3, <2>4
<1>6. ASSUME NEW S, Sn!Command(S), data' \in Nat, Fine(S, data', power'), S.disk.dump.v >= disk.dump.v,
             power' \in {"up", "saved", "gone"}, power' = "saved" => S.disk.dump.v = data'
      PROVE  Safe
  <2>1. /\ srv' = S.srv /\ child' = S.child /\ tmp' = S.tmp /\ disk' = S.disk
        /\ count' = [count EXCEPT !.errors = S.errors, !.commands = @ + 1]
    BY <1>6 DEF Sn!Command
  <2>2. S.errors \in Nat /\ count.commands + 1 \in Nat
    BY <1>1, <1>6 DEF Fine, Sn!States
  <2>3. count' \in Counts /\ count'.errors = S.errors
    BY <1>1, <2>1, <2>2
  <2> QED
    BY <1>4, <1>6, <2>1, <2>3
<1>7. ASSUME NEW S, Sn!Become(S), Fine(S, data, power), S.disk = Sn!State.disk, UNCHANGED <<power, data>>
      PROVE  Safe
  <2>1. S.disk = disk
    BY <1>7, StateFields
  <2>2. S.disk.dump.v >= disk.dump.v
    BY <1>3, <2>1
  <2> QED
    BY <1>5, <1>7, <2>1, <2>2
<1>8. ASSUME NEW S, Sn!Command(S), S.disk = Sn!State.disk, power = "up", power' = "up", data' = data, Fine(S, data, "up")
      PROVE  Safe
  <2>1. S.disk.dump.v >= disk.dump.v
    BY <1>3, <1>8, StateFields
  <2>2. data' \in Nat /\ Fine(S, data', power')
    BY <1>1, <1>8
  <2> QED
    BY <1>6, <1>8, <2>1, <2>2
<1>9. CASE Sn!Child
  <2>1. UNCHANGED <<power, data>>
    BY <1>9 DEF Sn!Child
  <2>2. ASSUME child.state = "start", NEW S \in Sn!Open(Sn!State), Sn!Become(S) PROVE Safe
    BY <1>1, <1>7, <2>1, <2>2, ChildOpens, StateFields
  <2>3. ASSUME child.state \in {"writing", "flushed"}, NEW S, Sn!Become(S),
               S \in Sn!Flush(Sn!State) \/ S \in Sn!Sync(Sn!State)
        PROVE  Safe
    <3>1. Sn!State.child.state \in {"writing", "flushed"} /\ Fine(Sn!State, data, power) /\ data \in Nat
      BY <1>1, <2>3, StateFields
    <3>2. Fine(S, data, power) /\ S.disk = Sn!State.disk
      BY <2>3, <3>1, ChildWrites DEF Sn!Flush, Sn!Sync
    <3> QED
      BY <1>7, <2>1, <2>3, <3>2
  <2>4. ASSUME child.state = "written", NEW S \in Sn!Rename(Sn!State), Sn!Become(S) PROVE Safe
    <3>1. Fine(S, data, power) /\ S.disk.dump.v >= Sn!State.disk.dump.v /\ (power # "up" => S.disk = Sn!State.disk)
      BY <1>1, <2>4, ChildRenames, StateFields
    <3> QED
      BY <1>5, <2>1, <2>4, <3>1, StateFields
  <2> DEFINE E == Sn!Ends(Sn!State, "exit0")
  <2>5. ASSUME child.state \in {"renamed", "sending"}, Sn!Become(E) PROVE Safe
    <3>1. Sn!State.child.state = "renamed" \/ Sn!State.child.state = "sending"
      BY <2>5, StateFields
    <3>2. Fine(E, data, power) /\ E.disk = Sn!State.disk
      BY <1>1, <3>1, ChildExits
    <3> HIDE DEF E
    <3> QED
      BY <1>7, <2>1, <2>5, <3>2
  <2>6. ASSUME child.state = "sending", NEW S \in Sn!Error(Sn!State), Sn!Become(Sn!Ends(S, "exit1")) PROVE Safe
    <3>1. Fine(S, data, power) /\ S.child.state = "sending" /\ S.disk = Sn!State.disk
      BY <1>1, <2>6, FineError, StateFields
    <3>2. Fine(Sn!Ends(S, "exit1"), data, power) /\ Sn!Ends(S, "exit1").disk = S.disk
      BY <1>1, <3>1, ChildExits
    <3> QED
      BY <1>7, <2>1, <2>6, <3>1, <3>2
  <2>7. \/ child.state = "start" /\ \E S \in Sn!Open(Sn!State) : Sn!Become(S)
        \/ child.state = "writing" /\ \E S \in Sn!Flush(Sn!State) : Sn!Become(S)
        \/ child.state = "flushed" /\ \E S \in Sn!Sync(Sn!State) : Sn!Become(S)
        \/ child.state = "written" /\ \E S \in Sn!Rename(Sn!State) : Sn!Become(S)
        \/ child.state \in {"renamed", "sending"} /\ Sn!Become(E)
        \/ child.state = "sending" /\ \E S \in Sn!Error(Sn!State) : Sn!Become(Sn!Ends(S, "exit1"))
    BY <1>9 DEF Sn!Child
  <2> HIDE DEF E
  <2> QED
    BY <2>2, <2>3, <2>4, <2>5, <2>6, <2>7
<1>10. CASE Sn!Dies
  <2>1. child.state \in Sn!Running /\ UNCHANGED <<power, data>>
    BY <1>10 DEF Sn!Dies
  <2> DEFINE G == [Sn!State EXCEPT !.child.state = "signalled"]
  <2>2. ASSUME Sn!Become(G) PROVE Safe
    <3>1. Fine(G, data, power) /\ G.disk = Sn!State.disk
      BY <1>1, <2>1, ChildDies, StateFields
    <3> HIDE DEF G
    <3> QED
      BY <1>7, <2>1, <2>2, <3>1
  <2>3. ASSUME NEW S \in Sn!Error(Sn!State), Sn!Become([S EXCEPT !.child.state = "killed"]) PROVE Safe
    <3>1. Fine(S, data, power) /\ S.child.state \in Sn!Running /\ S.disk = Sn!State.disk
      BY <1>1, <2>1, <2>3, FineError, StateFields
    <3> DEFINE T == [S EXCEPT !.child.state = "killed"]
    <3>2. Fine(T, data, power) /\ T.disk = S.disk
      BY <1>1, <3>1, ChildDies
    <3> HIDE DEF T
    <3>3. Sn!Become(T)
      BY <2>3 DEF T
    <3> QED
      BY <1>7, <2>1, <3>1, <3>2, <3>3
  <2>4. \/ Sn!Become(G)
        \/ \E S \in Sn!Error(Sn!State) : Sn!Become([S EXCEPT !.child.state = "killed"])
    BY <1>10 DEF Sn!Dies
  <2> HIDE DEF G
  <2> QED
    BY <2>2, <2>3, <2>4
<1>11. ASSUME srv' \in Sn!Servers, UNCHANGED <<power, data, child, tmp, disk, count>>,
              srv'.dirty = srv.dirty, srv'.before = srv.before, srv'.rdb = srv.rdb
       PROVE  Safe
  <2> DEFINE T == [Sn!State EXCEPT !.srv = srv']
  <2>1. /\ T \in Sn!States /\ T.srv = srv' /\ T.child = child /\ T.tmp = tmp /\ T.disk = disk
        /\ Sn!Harmless(T) /\ (power = "up" => Sn!Watched(T, data))
    BY <1>1, <1>2, <1>11, OtherFields, StateFields
  <2>2. T.errors = count.errors
    BY DEF Sn!State
  <2> HIDE DEF T
  <2>3. Fine(T, data, power)
    BY <1>1, <2>1, StateFields DEF Fine
  <2>4. T.disk.dump.v >= disk.dump.v
    BY <1>3, <2>1
  <2> QED
    BY <1>1, <1>4, <1>11, <2>1, <2>2, <2>3, <2>4
<1>12. srv \in Sn!Servers /\ child \in Sn!Children
  BY <1>2, StateFields DEF Sn!States
<1>13. CASE Sn!AofChild
  <2>1. srv' = [srv EXCEPT !.aof = "ended"] /\ UNCHANGED <<power, data, child, tmp, disk, count>>
    BY <1>13 DEF Sn!AofChild
  <2>2. srv' \in Sn!Servers /\ srv'.dirty = srv.dirty /\ srv'.before = srv.before /\ srv'.rdb = srv.rdb
    BY <1>12, <2>1 DEF Sn!Servers
  <2> QED
    BY <1>11, <2>1, <2>2
<1>14. CASE Sn!Late
  <2>1. srv' = [srv EXCEPT !.late = TRUE] /\ UNCHANGED <<power, data, child, tmp, disk, count>>
    BY <1>14 DEF Sn!Late
  <2>2. srv' \in Sn!Servers /\ srv'.dirty = srv.dirty /\ srv'.before = srv.before /\ srv'.rdb = srv.rdb
    BY <1>12, <2>1 DEF Sn!Servers
  <2> QED
    BY <1>11, <2>1, <2>2
<1>15. CASE Sn!Retry
  <2>1. srv' = [srv EXCEPT !.retry = TRUE] /\ UNCHANGED <<power, data, child, tmp, disk, count>>
    BY <1>15 DEF Sn!Retry
  <2>2. srv' \in Sn!Servers /\ srv'.dirty = srv.dirty /\ srv'.before = srv.before /\ srv'.rdb = srv.rdb
    BY <1>12, <2>1 DEF Sn!Servers
  <2> QED
    BY <1>11, <2>1, <2>2
<1>16. CASE Sn!Cron
  <2>1. power = "up" /\ UNCHANGED <<power, data>> /\ Sn!Watched(Sn!State, data)
    BY <1>2, <1>16 DEF Sn!Cron
  <2>2. PICK S0 \in IF srv.asap THEN {[T EXCEPT !.srv.asap = FALSE] : T \in Sn!Stays(Sn!State, TRUE)} ELSE {Sn!State} :
          \E S1 \in Sn!CronRewrite(S0) : \E S2 \in Sn!CronChildren(S1) : Sn!Become(S2)
    BY <1>16 DEF Sn!Cron
  <2>3. PICK S1 \in Sn!CronRewrite(S0) : \E S2 \in Sn!CronChildren(S1) : Sn!Become(S2)
    BY <2>2
  <2>4. PICK S2 \in Sn!CronChildren(S1) : Sn!Become(S2)
    BY <2>3
  <2>5. S0 \in Sn!States /\ Sn!Harmless(S0) /\ Sn!Watched(S0, data) /\ S0.disk = Sn!State.disk
    <3>1. CASE S0 = Sn!State
      BY <1>2, <2>1, <3>1
    <3>2. CASE S0 # Sn!State
      <4>1. PICK T \in Sn!Stays(Sn!State, TRUE) : S0 = [T EXCEPT !.srv.asap = FALSE]
        BY <2>2, <3>2
      <4> DEFINE K == Sn!Killed(Sn!State)
                 s == [T.srv EXCEPT !.asap = FALSE]
      <4>2. T \in Sn!Error(K)
        BY <4>1 DEF Sn!Stays
      <4>3. K \in Sn!States /\ Sn!Harmless(K) /\ Sn!Watched(K, data) /\ K.disk = Sn!State.disk
        BY <1>1, <1>2, <2>1, ChildKilled
      <4> HIDE DEF K
      <4>4. T \in Sn!States /\ Sn!Harmless(T) /\ Sn!Watched(T, data) /\ T.disk = K.disk
        BY <1>1, <4>2, <4>3, ErrorCounted
      <4>5. S0 = [T EXCEPT !.srv = s]
        BY <4>1, <4>4 DEF Sn!States
      <4>6. s \in Sn!Servers /\ s.dirty = T.srv.dirty /\ s.before = T.srv.before /\ s.rdb = T.srv.rdb
        BY <4>4 DEF Sn!States, Sn!Servers
      <4> HIDE DEF s
      <4> QED
        BY <1>1, <4>3, <4>4, <4>5, <4>6, OtherFields
    <3> QED
      BY <3>1, <3>2
  <2>6. S1 \in Sn!States /\ Sn!Harmless(S1) /\ Sn!Watched(S1, data) /\ S1.disk = Sn!State.disk
    BY <1>1, <2>3, <2>5, RewriteKnown
  <2>7. S2 \in Sn!States /\ Sn!Harmless(S2) /\ Sn!Watched(S2, data) /\ S2.disk = Sn!State.disk
    BY <1>1, <2>4, <2>6, ChildrenKnown
  <2>8. Fine(S2, data, power)
    BY <2>1, <2>7 DEF Fine
  <2> QED
    BY <1>7, <2>1, <2>4, <2>7, <2>8
<1>17. CASE Sn!CronExits
  <2>1. power = "up" /\ power' = "saved" /\ data' = data /\ Sn!Watched(Sn!State, data)
    BY <1>2, <1>17 DEF Sn!CronExits
  <2>2. PICK S \in Sn!Exits(Sn!State, TRUE) : Sn!Become(S)
    BY <1>17 DEF Sn!CronExits
  <2>3. Fine(S, data, "saved") /\ S.disk.dump.v >= Sn!State.disk.dump.v /\ S.disk.dump.v = data
    BY <1>1, <1>2, <2>1, <2>2, ExitsKnown
  <2>4. /\ srv' = S.srv /\ child' = S.child /\ tmp' = S.tmp /\ disk' = S.disk
        /\ count' = [count EXCEPT !.errors = S.errors]
    BY <2>2 DEF Sn!Become
  <2>5. S.errors \in Nat
    BY <2>3 DEF Fine, Sn!States
  <2>6. count' \in Counts /\ count'.errors = S.errors
    BY <1>1, <2>4, <2>5
  <2> QED
    BY <1>1, <1>4, <2>1, <2>3, <2>4, <2>6, StateFields
<1>18. CASE Sn!Write
  <2>1. /\ power = "up" /\ data' = data + 1 /\ srv' = [srv EXCEPT !.dirty = srv.dirty + 1]
        /\ UNCHANGED <<power, child, tmp, disk, count>> /\ Sn!Watched(Sn!State, data)
    BY <1>2, <1>18 DEF Sn!Write
  <2> DEFINE n == srv.dirty + 1
             T == [Sn!State EXCEPT !.srv = [Sn!State.srv EXCEPT !.dirty = n]]
  <2>2. srv.dirty \in Nat /\ n \in Nat /\ n > srv.dirty
    BY <1>12 DEF Sn!Servers
  <2>3. T \in Sn!States /\ Sn!Harmless(T) /\ Sn!Watched(T, data + 1) /\ T.disk = disk
    <3> HIDE DEF n
    <3> QED
      BY <1>1, <1>2, <2>1, <2>2, Counted, StateFields
  <2>4. T.srv = srv' /\ T.child = child /\ T.tmp = tmp /\ T.errors = count.errors
    BY <2>1 DEF Sn!State
  <2> HIDE DEF T
  <2>5. Fine(T, data', power') /\ data' \in Nat /\ T.disk.dump.v >= disk.dump.v
    BY <1>1, <1>3, <2>1, <2>3 DEF Fine
  <2> QED
    BY <1>1, <1>4, <2>1, <2>3, <2>4, <2>5
<1>19. CASE Sn!Flushall
  <2>1. power = "up" /\ power' = "up" /\ data' = data + 1 /\ Sn!Watched(Sn!State, data)
    BY <1>2, <1>19 DEF Sn!Flushall
  <2> DEFINE K(r) == [Sn!Killed(Sn!State) EXCEPT !.srv.dirty = @ + r]
             U(T, r) == [T EXCEPT !.srv.dirty = K(r).srv.dirty + 1]
  <2>2. \E r \in {0, 1} : \E T \in {Sn!Saved(K(r), data + 1)} \cup Sn!Error(K(r)) : Sn!Command(U(T, r))
    BY <1>19 DEF Sn!Flushall
  <2>3. PICK r \in {0, 1} : \E T \in {Sn!Saved(K(r), data + 1)} \cup Sn!Error(K(r)) : Sn!Command(U(T, r))
    BY <2>2
  <2>4. PICK T \in {Sn!Saved(K(r), data + 1)} \cup Sn!Error(K(r)) : Sn!Command(U(T, r))
    BY <2>3
  <2> DEFINE S == U(T, r)
  <2>5. S \in Sn!States /\ Sn!Harmless(S) /\ Sn!Watched(S, data + 1) /\ S.disk.dump.v >= Sn!State.disk.dump.v
    BY <1>1, <1>2, <2>1, <2>4, FlushedKnown
  <2>6. Sn!Command(S)
    BY <2>4
  <2> HIDE DEF S
  <2>7. Fine(S, data', power') /\ data' \in Nat /\ S.disk.dump.v >= disk.dump.v
    BY <1>1, <2>1, <2>5, StateFields DEF Fine
  <2> QED
    BY <1>6, <2>1, <2>6, <2>7
<1>20. ASSUME power = "up", power' = "up", data' = data, NEW S, Sn!Command(S),
              (S = Sn!Saved(Sn!State, data) /\ srv.rdb = "none") \/ S \in Sn!Error(Sn!State)
       PROVE  Safe
  <2>1. Sn!Watched(Sn!State, data) /\ Sn!State.disk.dump.v <= data
    BY <1>2, <1>20 DEF Sn!Watched
  <2>2. CASE S = Sn!Saved(Sn!State, data) /\ srv.rdb = "none"
    <3>1. S \in Sn!States /\ Sn!Harmless(S) /\ Sn!Watched(S, data)
      BY <1>1, <1>2, <2>1, <2>2, SavedAlone, StateFields
    <3>2. S.disk.dump.v = data
      BY <1>1, <1>2, <2>2, SavedHere
    <3>3. Fine(S, data', power') /\ data' \in Nat /\ S.disk.dump.v >= disk.dump.v
      BY <1>1, <1>3, <1>20, <2>1, <3>1, <3>2, StateFields DEF Fine
    <3> QED
      BY <1>6, <1>20, <3>3
  <2>3. CASE S \in Sn!Error(Sn!State)
    <3>1. Fine(S, data, "up") /\ S.disk = Sn!State.disk
      BY <1>1, <1>20, <2>3, FineError
    <3> QED
      BY <1>8, <1>20, <3>1
  <2> QED
    BY <1>20, <2>2, <2>3
<1>21. CASE Sn!Save
  <2>1. power = "up" /\ power' = "up" /\ data' = data /\ srv.rdb = "none"
    BY <1>21 DEF Sn!Save
  <2>2. PICK S \in {Sn!Saved(Sn!State, data)} \cup Sn!Error(Sn!State) : Sn!Command(S)
    BY <1>21 DEF Sn!Save
  <2> QED
    BY <1>20, <2>1, <2>2
<1>22. ASSUME power = "up", power' = "up", data' = data, NEW S, Sn!Command(S), S.disk = Sn!State.disk,
              S \in Sn!States, Sn!Harmless(S), Sn!Watched(S, data)
       PROVE  Safe
  <2>1. Fine(S, data, "up")
    BY <1>22 DEF Fine
  <2> QED
    BY <1>8, <1>22, <2>1
<1>23. CASE Sn!Bgsave
  <2>1. power = "up" /\ power' = "up" /\ data' = data /\ srv.rdb = "none"
    BY <1>23 DEF Sn!Bgsave
  <2>2. PICK S \in Sn!Forked(Sn!State) : Sn!Command(S)
    BY <1>23 DEF Sn!Bgsave
  <2>3. S \in Sn!States /\ Sn!Harmless(S) /\ Sn!Watched(S, data) /\ S.disk = Sn!State.disk
    BY <1>1, <1>2, <2>1, <2>2, ForkedKnown, StateFields
  <2> QED
    BY <1>22, <2>1, <2>2, <2>3
<1>24. CASE Sn!BgsaveSocket
  <2>1. power = "up" /\ power' = "up" /\ data' = data /\ srv.rdb = "none"
    BY <1>24, StateFields DEF Sn!BgsaveSocket, Sn!NoChildren
  <2>2. PICK S \in Sn!ForkedSocket(Sn!State) : Sn!Command(S)
    BY <1>24 DEF Sn!BgsaveSocket
  <2>3. S \in Sn!States /\ Sn!Harmless(S) /\ Sn!Watched(S, data) /\ S.disk = Sn!State.disk
    BY <1>1, <1>2, <2>1, <2>2, SocketForkedKnown, StateFields
  <2> QED
    BY <1>22, <2>1, <2>2, <2>3
<1>25. CASE Sn!Bgrewriteaof
  <2>1. power = "up" /\ power' = "up" /\ data' = data /\ Sn!Watched(Sn!State, data)
    BY <1>2, <1>25 DEF Sn!Bgrewriteaof
  <2> DEFINE s == [srv EXCEPT !.scheduled = TRUE]
  <2>2. PICK S \in IF srv.rdb # "none" THEN {[Sn!State EXCEPT !.srv.scheduled = TRUE]} ELSE Sn!ForkedAof(Sn!State) :
             Sn!Command(S)
    BY <1>25 DEF Sn!Bgrewriteaof
  <2>3. CASE srv.rdb # "none"
    <3>1. S = [Sn!State EXCEPT !.srv = s]
      BY <2>2, <2>3 DEF Sn!State
    <3>2. s \in Sn!Servers /\ s.dirty = srv.dirty /\ s.before = srv.before /\ s.rdb = srv.rdb
      BY <1>12 DEF Sn!Servers
    <3> HIDE DEF s
    <3>3. S \in Sn!States /\ Sn!Harmless(S) /\ Sn!Watched(S, data) /\ S.disk = Sn!State.disk
      BY <1>1, <1>2, <2>1, <3>1, <3>2, OtherFields, StateFields
    <3> QED
      BY <1>22, <2>1, <2>2, <3>3
  <2>4. CASE srv.rdb = "none"
    <3>1. S \in Sn!States /\ Sn!Harmless(S) /\ Sn!Watched(S, data) /\ S.disk = Sn!State.disk
      BY <1>1, <1>2, <2>1, <2>2, <2>4, AofForkedKnown
    <3> QED
      BY <1>22, <2>1, <2>2, <3>1
  <2> QED
    BY <2>3, <2>4
<1>26. CASE Sn!Shutdown
  <2>1. power = "up" /\ data' = data /\ Sn!Watched(Sn!State, data)
    BY <1>2, <1>26 DEF Sn!Shutdown
  <2>2. PICK save \in BOOLEAN :
          \/ \E S \in Sn!Exits(Sn!State, save) : Sn!Command(S) /\ power' = IF save THEN "saved" ELSE "gone"
          \/ \E S \in Sn!Stays(Sn!State, save) : Sn!Command(S) /\ UNCHANGED power
    BY <1>26 DEF Sn!Shutdown
  <2>3. ASSUME NEW S \in Sn!Exits(Sn!State, save), Sn!Command(S), power' = IF save THEN "saved" ELSE "gone"
        PROVE  Safe
    <3>1. power' # "up" /\ power' \in {"up", "saved", "gone"} /\ (power' = "saved" => save)
      BY <2>3
    <3>2. /\ Fine(S, data, power') /\ S.disk.dump.v >= Sn!State.disk.dump.v
          /\ save => S.disk.dump.v = data
      BY <1>1, <1>2, <2>1, <2>3, <3>1, ExitsKnown
    <3>3. Fine(S, data', power') /\ data' \in Nat /\ (power' = "saved" => S.disk.dump.v = data')
      BY <1>1, <2>1, <3>1, <3>2
    <3> QED
      BY <1>6, <2>3, <3>1, <3>2, <3>3, StateFields
  <2>4. ASSUME NEW S \in Sn!Stays(Sn!State, save), Sn!Command(S), UNCHANGED power
        PROVE  Safe
    <3>1. S \in Sn!States /\ Sn!Harmless(S) /\ Sn!Watched(S, data) /\ S.disk = Sn!State.disk
      BY <1>1, <1>2, <2>1, <2>4, StaysKnown
    <3> QED
      BY <1>22, <2>1, <2>4, <3>1
  <2> QED
    BY <2>2, <2>3, <2>4
<1>27. CASE Sn!Sigterm
  <2>1. /\ power = "up" /\ power' = "up" /\ data' = data /\ Sn!Watched(Sn!State, data)
        /\ Sn!Command([Sn!State EXCEPT !.srv.asap = TRUE])
    BY <1>2, <1>27 DEF Sn!Sigterm
  <2> DEFINE s == [srv EXCEPT !.asap = TRUE]
             S == [Sn!State EXCEPT !.srv = s]
  <2>2. [Sn!State EXCEPT !.srv.asap = TRUE] = S
    BY DEF Sn!State
  <2>3. Sn!Command(S)
    BY <2>1, <2>2
  <2>4. s \in Sn!Servers /\ s.dirty = srv.dirty /\ s.before = srv.before /\ s.rdb = srv.rdb
    BY <1>12 DEF Sn!Servers
  <2> HIDE DEF s
  <2>5. S \in Sn!States /\ Sn!Harmless(S) /\ Sn!Watched(S, data) /\ S.disk = Sn!State.disk
    BY <1>1, <1>2, <2>1, <2>4, OtherFields, StateFields
  <2> HIDE DEF S
  <2> QED
    BY <1>22, <2>1, <2>3, <2>5
<1>28. ~Sn!Reload
  BY DEF Sn!Reload
<1>29. CASE Sn!Crash
  <2>1. /\ power' = "gone" /\ child' = Sn!NoChild /\ UNCHANGED <<data, srv, tmp>>
        /\ count' = [count EXCEPT !.crashes = count.crashes + 1]
    BY <1>29 DEF Sn!Crash
  <2>2. PICK f \in {disk.dump, disk.old} : disk' = [dump |-> [f EXCEPT !.whole = f.synced], old |-> disk.old]
    BY <1>29 DEF Sn!Crash
  <2>3. disk.dump \in Sn!Files /\ disk.old \in Sn!Files
    BY <1>2, SnapshotFields, StateFields
  <2>4. disk' \in [dump : Sn!Files, old : Sn!Files]
    <3>1. f \in Sn!Files /\ f.synced = TRUE
      BY <2>3 DEF Sn!Files
    <3>2. [f EXCEPT !.whole = f.synced] \in Sn!Files
      BY <3>1 DEF Sn!Files
    <3> QED
      BY <2>2, <2>3, <3>2
  <2>5. count.crashes \in Nat /\ count.commands \in Nat /\ count.errors \in Nat
    BY <1>1
  <2>6. count' \in Counts /\ count'.crashes = count.crashes + 1 /\ count'.errors = count.errors
    BY <1>1, <2>1, <2>5
  <2>7. Sn!NoChild \in Sn!Children /\ Sn!NoChild.state = "none"
    BY DEF Sn!NoChild, Sn!Children
  <2>8. Sn!State' \in Sn!States
    BY <1>2, <1>12, <2>1, <2>4, <2>5, <2>6, <2>7, SnapshotFields, StateFields DEF Sn!State, Sn!States
  <2>9. Sn!State'.child = child'
    BY DEF Sn!State
  <2>10. Sn!Harmless(Sn!State')
    BY <2>1, <2>7, <2>9 DEF Sn!Harmless
  <2>11. child'.state \notin Sn!Running
    BY <2>1, <2>7 DEF Sn!Running
  <2>12. Sn!SnapshotsInvariant'
    BY <1>1, <2>1, <2>6, <2>8, <2>10, <2>11 DEF Sn!SnapshotsInvariant
  <2>13. Sn!NeverOlder
    BY <2>5, <2>6 DEF Sn!NeverOlder
  <2> QED
    BY <2>12, <2>13 DEF Safe
<1>30. CASE Sn!Start
  <2>1. /\ power' = "up" /\ data' = disk.dump.v /\ srv' = Sn!Started /\ child' = Sn!NoChild /\ tmp' = "none"
        /\ UNCHANGED <<disk, count>>
    BY <1>30 DEF Sn!Start
  <2> DEFINE T == [srv |-> Sn!Started, child |-> Sn!NoChild, tmp |-> "none", disk |-> disk, errors |-> count.errors]
  <2>2. Sn!Started \in Sn!Servers /\ Sn!Started.dirty = 0 /\ Sn!Started.rdb = "none"
    BY DEF Sn!Started, Sn!Servers
  <2>3. Sn!NoChild \in Sn!Children /\ Sn!NoChild.state = "none"
    BY DEF Sn!NoChild, Sn!Children
  <2>4. disk \in [dump : Sn!Files, old : Sn!Files]
    BY <1>2, StateFields DEF Sn!States
  <2>5. T \in Sn!States
    BY <1>3, <2>2, <2>3, <2>4 DEF Sn!States
  <2>6. /\ T.srv = Sn!Started /\ T.child = Sn!NoChild /\ T.tmp = "none" /\ T.disk = disk
        /\ T.errors = count.errors
    OBVIOUS
  <2> HIDE DEF T
  <2>7. Sn!Harmless(T)
    BY <2>3, <2>6 DEF Sn!Harmless
  <2>8. Sn!Watched(T, disk.dump.v)
    BY <1>3, <2>2, <2>3, <2>6 DEF Sn!Watched
  <2>9. Fine(T, data', power') /\ data' \in Nat /\ T.disk.dump.v >= disk.dump.v
    BY <1>3, <2>1, <2>5, <2>6, <2>7, <2>8 DEF Fine
  <2> QED
    BY <1>1, <1>4, <2>1, <2>6, <2>9
<1> QED
  BY <1>9, <1>10, <1>13, <1>14, <1>15, <1>16, <1>17, <1>18, <1>19, <1>21, <1>23, <1>24, <1>25, <1>26, <1>27,
     <1>28, <1>29, <1>30 DEF Sn!Next

LEMMA SnapshotsStart ==
  ASSUME Sn!Init
  PROVE  Sn!SnapshotsInvariant
<1>1. Sn!Started \in Sn!Servers /\ Sn!Started.dirty = 0 /\ Sn!Started.rdb = "none"
  BY DEF Sn!Started, Sn!Servers
<1>2. Sn!NoChild \in Sn!Children /\ Sn!NoChild.state = "none"
  BY DEF Sn!NoChild, Sn!Children
<1>3. Sn!File(0) \in Sn!Files /\ Sn!File(0).v = 0
  BY FileSynced
<1>4. /\ srv = Sn!Started /\ child = Sn!NoChild /\ tmp = "none" /\ power = "up" /\ data = 0
      /\ disk \in [dump : Sn!Files, old : Sn!Files] /\ disk.dump.v = 0 /\ count.errors = 0
      /\ count \in [commands : Nat, errors : Nat, crashes : Nat]
  BY <1>3 DEF Sn!Init
<1>5. Sn!State \in Sn!States
  BY <1>1, <1>2, <1>4 DEF Sn!State, Sn!States
<1>6. Sn!Harmless(Sn!State)
  BY <1>2, <1>4, StateFields DEF Sn!Harmless
<1>7. Sn!Watched(Sn!State, data)
  BY <1>1, <1>2, <1>4, StateFields DEF Sn!Watched
<1> QED
  BY <1>4, <1>5, <1>6, <1>7 DEF Sn!SnapshotsInvariant

LEMMA SnapshotsRight ==
  ASSUME Sn!SnapshotsInvariant
  PROVE  Sn!NothingForgotten /\ Sn!ShutdownSaves /\ Sn!WholeDump /\ Sn!NoTempLeft
<1>1. Sn!State \in Sn!States /\ (power = "up" => Sn!Watched(Sn!State, data))
  BY DEF Sn!SnapshotsInvariant
<1>2. srv.dirty \in Nat /\ disk.dump.whole = TRUE /\ disk.dump.synced = TRUE
  BY <1>1, SnapshotFields, StateFields
<1>3. power = "up" => srv.dirty >= data - disk.dump.v /\ (srv.rdb = "none" => tmp = "none")
  BY <1>1, StateFields DEF Sn!Watched
<1> QED
  BY <1>2, <1>3 DEF Sn!SnapshotsInvariant, Sn!NothingForgotten, Sn!ShutdownSaves, Sn!WholeDump, Sn!NoTempLeft

-----------------------------------------------------------------------------
(* The background threads.  Every step keeps the invariant, whichever type of job it is about.      *)
LEMMA ThreadsStep ==
  ASSUME Bj!JobsInvariant, [Bj!Next]_(Bj!vars)
  PROVE  Bj!JobsInvariant'
<1> USE DEF Bj!JobsInvariant
<1>1. CASE UNCHANGED Bj!vars
  BY <1>1 DEF Bj!vars, Bj!TypeOK, Bj!Holders, Bj!Removed, Bj!Queue, Bj!Carried, Bj!NoLostSignal, Bj!NothingPendingIsDone
<1>2. ASSUME NEW t \in Type, Bj!CreateLock(t) PROVE Bj!JobsInvariant'
  <2>1. Bj!TypeOK'
    BY <1>2 DEF Bj!CreateLock, Bj!TypeOK
  <2>2. \A u \in Type : Bj!Holders(u)'
    BY <1>2 DEF Bj!CreateLock, Bj!TypeOK, Bj!Holders, Bj!Idle
  <2>3. \A u \in Type : Bj!Queue(u)' /\ Bj!Carried(u)'
    BY <1>2 DEF Bj!CreateLock, Bj!Removed, Bj!Queue, Bj!Carried
  <2>4. Bj!NoLostSignal' /\ Bj!NothingPendingIsDone'
    BY <1>2 DEF Bj!CreateLock, Bj!TypeOK, Bj!NoLostSignal, Bj!NothingPendingIsDone, Bj!Idle
  <2> QED BY <2>1, <2>2, <2>3, <2>4
<1>3. ASSUME NEW t \in Type, Bj!CreateAppend(t) PROVE Bj!JobsInvariant'
  <2>1. Bj!TypeOK'
    <3>1. Append(jobs[t], created[t] + 1) \in Seq(Nat)
      BY <1>3 DEF Bj!TypeOK
    <3>2. jobs' \in [Type -> Seq(Nat)]
      BY <1>3, <3>1 DEF Bj!CreateAppend, Bj!TypeOK
    <3> QED BY <1>3, <3>2 DEF Bj!CreateAppend, Bj!TypeOK
  <2>2. \A u \in Type : Bj!Holders(u)'
    BY <1>3 DEF Bj!CreateAppend, Bj!TypeOK, Bj!Holders, Bj!Idle
  <2>3. ASSUME NEW u \in Type PROVE Bj!Queue(u)' /\ Bj!Carried(u)'
    <3>1. CASE u # t
      BY <1>3, <3>1 DEF Bj!CreateAppend, Bj!TypeOK, Bj!Removed, Bj!Queue, Bj!Carried
    <3>2. CASE u = t
      <4>1. /\ jobs[t] \in Seq(Nat) /\ created[t] \in Nat /\ jobs'[t] = Append(jobs[t], created[t] + 1)
            /\ created'[t] = created[t] + 1 /\ pending'[t] = pending[t] + 1
            /\ bio' = bio /\ done' = done
        BY <1>3 DEF Bj!CreateAppend, Bj!TypeOK
      <4>2. Len(jobs'[t]) = Len(jobs[t]) + 1 /\ Bj!Removed(t)' = Bj!Removed(t)
        BY <4>1 DEF Bj!Removed
      <4>3. Bj!Queue(t) /\ Bj!Carried(t)
        BY <1>3
      <4>4. Bj!Carried(t)'
        BY <4>1, <4>2, <4>3 DEF Bj!Carried
      <4>5. \A i \in 1..Len(jobs'[t]) : jobs'[t][i] = Bj!Removed(t) + i
        BY <4>1, <4>2, <4>3 DEF Bj!Queue, Bj!Removed
      <4>6. Bj!Queue(t)'
        BY <4>1, <4>2, <4>3, <4>5 DEF Bj!Queue
      <4> QED BY <3>2, <4>4, <4>6
    <3> QED BY <3>1, <3>2
  <2>4. Bj!NoLostSignal'
    BY <1>3 DEF Bj!CreateAppend, Bj!TypeOK, Bj!NoLostSignal, Bj!Idle
  <2>5. Bj!NothingPendingIsDone'
    BY <1>3 DEF Bj!CreateAppend, Bj!NothingPendingIsDone
  <2> QED BY <2>1, <2>2, <2>3, <2>4, <2>5
<1>4. ASSUME NEW t \in Type, Bj!CreateSignal(t) PROVE Bj!JobsInvariant'
  <2>1. Bj!TypeOK'
    BY <1>4 DEF Bj!CreateSignal, Bj!Signal, Bj!TypeOK
  <2>2. \A u \in Type : Bj!Holders(u)'
    BY <1>4 DEF Bj!CreateSignal, Bj!Signal, Bj!TypeOK, Bj!Holders, Bj!Idle
  <2>3. \A u \in Type : Bj!Queue(u)' /\ Bj!Carried(u)'
    BY <1>4 DEF Bj!CreateSignal, Bj!Signal, Bj!TypeOK, Bj!Removed, Bj!Queue, Bj!Carried
  <2>4. Bj!NoLostSignal' /\ Bj!NothingPendingIsDone'
    BY <1>4 DEF Bj!CreateSignal, Bj!Signal, Bj!TypeOK, Bj!NoLostSignal, Bj!NothingPendingIsDone, Bj!Idle
  <2> QED BY <2>1, <2>2, <2>3, <2>4
<1>5. ASSUME NEW t \in Type, Bj!Pending(t) PROVE Bj!JobsInvariant'
  <2>1. /\ Bj!Holders(t) /\ Bj!Queue(t) /\ Bj!Carried(t)
        /\ created[t] \in Nat /\ jobs[t] \in Seq(Nat) /\ done[t] \in Seq(Nat) /\ pending[t] \in Nat
    BY <1>5 DEF Bj!TypeOK
  <2>2. Bj!TypeOK'
    BY <1>5, <2>1 DEF Bj!Pending, Bj!TypeOK
  <2>3. \A u \in Type : Bj!Holders(u)' /\ Bj!Queue(u)' /\ Bj!Carried(u)'
    BY <1>5 DEF Bj!Pending, Bj!Removed, Bj!Holders, Bj!Queue, Bj!Carried
  <2>4. Bj!NoLostSignal'
    BY <1>5 DEF Bj!Pending, Bj!NoLostSignal
  <2>5. pending[t] = 0 => created[t] - Len(done[t]) = 0
    BY <2>1 DEF Bj!Queue, Bj!Carried, Bj!Removed
  <2>6. Bj!NothingPendingIsDone'
    BY <1>5, <2>5 DEF Bj!Pending, Bj!TypeOK, Bj!NothingPendingIsDone
  <2> QED BY <2>2, <2>3, <2>4, <2>6
<1>6. ASSUME NEW t \in Type, Bj!Lock(t) PROVE Bj!JobsInvariant'
  <2>1. Bj!TypeOK'
    BY <1>6 DEF Bj!Lock, Bj!TypeOK
  <2>2. \A u \in Type : Bj!Holders(u)'
    BY <1>6 DEF Bj!Lock, Bj!TypeOK, Bj!Holders, Bj!Idle
  <2>3. \A u \in Type : Bj!Queue(u)' /\ Bj!Carried(u)'
    BY <1>6 DEF Bj!Lock, Bj!TypeOK, Bj!Removed, Bj!Queue, Bj!Carried
  <2>4. Bj!NoLostSignal' /\ Bj!NothingPendingIsDone'
    BY <1>6 DEF Bj!Lock, Bj!TypeOK, Bj!NoLostSignal, Bj!NothingPendingIsDone
  <2> QED BY <2>1, <2>2, <2>3, <2>4
<1>7. ASSUME NEW t \in Type, Bj!Check(t) PROVE Bj!JobsInvariant'
  <2>1. Bj!TypeOK'
    BY <1>7 DEF Bj!Check, Bj!Wait, Bj!Take, Bj!TypeOK
  <2>2. \A u \in Type : Bj!Holders(u)'
    <3>1. /\ bio[t] = "check" /\ main' = main /\ mutex' = [mutex EXCEPT ![t] = "free"]
          /\ bio' = [bio EXCEPT ![t] = "wait"] \/ bio' = [bio EXCEPT ![t] = "work"]
      BY <1>7 DEF Bj!Check, Bj!Wait, Bj!Take
    <3>2. mutex[t] = "bio"
      BY <1>7, <3>1 DEF Bj!Holders
    <3> QED BY <1>7, <3>1, <3>2 DEF Bj!TypeOK, Bj!Holders
  <2>3. jobs[t] \in Seq(Nat) /\ (jobs[t] # <<>> => Len(jobs[t]) > 0)
    BY <1>7 DEF Bj!TypeOK
  <2>4. \A u \in Type : Bj!Queue(u)' /\ Bj!Carried(u)'
    <3>1. /\ bio[t] = "check" /\ jobs' = jobs /\ pending' = pending /\ created' = created /\ done' = done
          /\ \/ bio' = [bio EXCEPT ![t] = "wait"]
             \/ Len(jobs[t]) > 0 /\ bio' = [bio EXCEPT ![t] = "work"]
      BY <1>7, <2>3 DEF Bj!Check, Bj!Wait, Bj!Take
    <3>2. ASSUME NEW u \in Type, u # t PROVE Bj!Queue(u)' /\ Bj!Carried(u)'
      BY <3>1, <3>2 DEF Bj!TypeOK, Bj!Removed, Bj!Queue, Bj!Carried
    <3>3. Bj!Queue(t)' /\ Bj!Carried(t)'
      BY <1>7, <3>1 DEF Bj!TypeOK, Bj!Removed, Bj!Queue, Bj!Carried
    <3> QED BY <3>2, <3>3
  <2>5. Bj!NoLostSignal' /\ Bj!NothingPendingIsDone'
    BY <1>7 DEF Bj!Check, Bj!Wait, Bj!Take, Bj!TypeOK, Bj!NoLostSignal, Bj!NothingPendingIsDone
  <2> QED BY <2>1, <2>2, <2>4, <2>5
<1>8. ASSUME NEW t \in Type, Bj!SpuriousWakeup(t) PROVE Bj!JobsInvariant'
  <2>1. Bj!TypeOK'
    BY <1>8 DEF Bj!SpuriousWakeup, Bj!TypeOK
  <2>2. \A u \in Type : Bj!Holders(u)'
    BY <1>8 DEF Bj!SpuriousWakeup, Bj!TypeOK, Bj!Holders
  <2>3. \A u \in Type : Bj!Queue(u)' /\ Bj!Carried(u)'
    BY <1>8 DEF Bj!SpuriousWakeup, Bj!TypeOK, Bj!Removed, Bj!Queue, Bj!Carried
  <2>4. Bj!NoLostSignal' /\ Bj!NothingPendingIsDone'
    BY <1>8 DEF Bj!SpuriousWakeup, Bj!TypeOK, Bj!NoLostSignal, Bj!NothingPendingIsDone
  <2> QED BY <2>1, <2>2, <2>3, <2>4
<1>9. ASSUME NEW t \in Type, Bj!Work(t) PROVE Bj!JobsInvariant'
  <2>1. /\ Bj!Queue(t) /\ Bj!Carried(t)
        /\ created[t] \in Nat /\ jobs[t] \in Seq(Nat) /\ done[t] \in Seq(Nat)
    BY <1>9 DEF Bj!TypeOK
  <2>2. Len(jobs[t]) > 0 /\ jobs[t] # <<>>
    BY <1>9, <2>1 DEF Bj!Work, Bj!Queue
  <2>3. Bj!NextJob(t) \in Nat /\ Bj!NextJob(t) = Bj!Removed(t) + 1
    BY <2>1, <2>2 DEF Bj!NextJob, Bj!Queue, Bj!Removed
  <2>4. Bj!TypeOK'
    BY <1>9, <2>3 DEF Bj!Work, Bj!TypeOK
  <2>5. \A u \in Type : Bj!Holders(u)'
    BY <1>9 DEF Bj!Work, Bj!TypeOK, Bj!Holders
  <2>6. \A u \in Type : Bj!Queue(u)'
    BY <1>9 DEF Bj!Work, Bj!TypeOK, Bj!Removed, Bj!Queue
  <2>7. /\ done'[t] = Append(done[t], Bj!Removed(t) + 1) /\ bio'[t] = "relock"
        /\ Bj!Removed(t)' = Bj!Removed(t) /\ Len(done[t]) = Bj!Removed(t)
    BY <1>9, <2>1, <2>3 DEF Bj!Work, Bj!TypeOK, Bj!Carried, Bj!Removed
  <2>8. Bj!Carried(t)'
    BY <2>1, <2>7 DEF Bj!Carried
  <2>9. ASSUME NEW u \in Type, u # t PROVE Bj!Carried(u)'
    BY <1>9, <2>9 DEF Bj!Work, Bj!TypeOK, Bj!Removed, Bj!Carried
  <2>10. Bj!NoLostSignal' /\ Bj!NothingPendingIsDone'
    BY <1>9 DEF Bj!Work, Bj!TypeOK, Bj!NoLostSignal, Bj!NothingPendingIsDone
  <2> QED BY <2>4, <2>5, <2>6, <2>8, <2>9, <2>10
<1>10. ASSUME NEW t \in Type, Bj!Finish(t) PROVE Bj!JobsInvariant'
  <2>1. /\ Bj!Queue(t) /\ Bj!Carried(t)
        /\ created[t] \in Nat /\ jobs[t] \in Seq(Nat) /\ done[t] \in Seq(Nat) /\ pending[t] \in Nat
    BY <1>10 DEF Bj!TypeOK
  <2>2. Len(jobs[t]) > 0 /\ jobs[t] # <<>>
    BY <1>10, <2>1 DEF Bj!Finish, Bj!Queue
  <2>3. /\ Tail(jobs[t]) \in Seq(Nat) /\ Len(Tail(jobs[t])) = Len(jobs[t]) - 1
        /\ \A i \in 1..Len(Tail(jobs[t])) : Tail(jobs[t])[i] = jobs[t][i + 1]
    BY <2>1, <2>2
  <2>4. /\ jobs'[t] = Tail(jobs[t]) /\ pending'[t] = pending[t] - 1 /\ bio[t] = "relock" /\ bio'[t] = "check"
        /\ created' = created /\ done' = done
    BY <1>10 DEF Bj!Finish, Bj!TypeOK
  <2>5. pending[t] - 1 \in Nat
    BY <2>1, <2>2 DEF Bj!Queue
  <2>6. Bj!TypeOK'
    BY <1>10, <2>3, <2>5 DEF Bj!Finish, Bj!TypeOK
  <2>7. \A u \in Type : Bj!Holders(u)'
    BY <1>10 DEF Bj!Finish, Bj!TypeOK, Bj!Holders, Bj!Idle
  <2>8. Bj!Removed(t)' = Bj!Removed(t) + 1
    BY <2>1, <2>3, <2>4 DEF Bj!Removed
  <2>9. Bj!Carried(t)'
    BY <2>1, <2>4, <2>8 DEF Bj!Carried, Bj!Removed
  <2>10. \A i \in 1..Len(jobs'[t]) : jobs'[t][i] = Bj!Removed(t) + 1 + i
    <3>1. ASSUME NEW i \in 1..Len(jobs'[t]) PROVE jobs'[t][i] = Bj!Removed(t) + 1 + i
      <4>1. i + 1 \in 1..Len(jobs[t]) /\ jobs'[t][i] = jobs[t][i + 1]
        BY <2>1, <2>3, <2>4, <3>1
      <4>2. jobs[t][i + 1] = Bj!Removed(t) + (i + 1)
        BY <2>1, <4>1 DEF Bj!Queue
      <4>3. Bj!Removed(t) \in Int /\ i \in Int
        BY <2>1, <3>1 DEF Bj!Removed
      <4> QED BY <4>1, <4>2, <4>3
    <3> QED BY <3>1
  <2>11. Bj!Queue(t)'
    BY <2>1, <2>3, <2>4, <2>8, <2>10 DEF Bj!Queue, Bj!Removed
  <2>12. ASSUME NEW u \in Type, u # t PROVE Bj!Queue(u)' /\ Bj!Carried(u)'
    BY <1>10, <2>12 DEF Bj!Finish, Bj!TypeOK, Bj!Removed, Bj!Queue, Bj!Carried
  <2>13. Bj!NoLostSignal' /\ Bj!NothingPendingIsDone'
    BY <1>10 DEF Bj!Finish, Bj!TypeOK, Bj!NoLostSignal, Bj!NothingPendingIsDone
  <2> QED BY <2>6, <2>7, <2>9, <2>11, <2>12, <2>13
<1> QED
  BY <1>1, <1>2, <1>3, <1>4, <1>5, <1>6, <1>7, <1>8, <1>9, <1>10 DEF Bj!Next, Bj!Main, Bj!Thread

LEMMA ThreadsStart ==
  ASSUME Bj!Init
  PROVE  Bj!JobsInvariant
<1>1. Bj!TypeOK
  BY DEF Bj!Init, Bj!TypeOK, Bj!NotAsked
<1>2. ASSUME NEW t \in Type PROVE Bj!Holders(t) /\ Bj!Queue(t) /\ Bj!Carried(t)
  BY DEF Bj!Init, Bj!Holders, Bj!Queue, Bj!Carried, Bj!Removed
<1>3. Bj!NoLostSignal /\ Bj!NothingPendingIsDone
  BY DEF Bj!Init, Bj!NoLostSignal, Bj!NothingPendingIsDone, Bj!NotAsked
<1> QED
  BY <1>1, <1>2, <1>3 DEF Bj!JobsInvariant

LEMMA ThreadsRight ==
  ASSUME Bj!JobsInvariant
  PROVE  Bj!InOrder /\ Bj!CountsQueue
<1>1. ASSUME NEW t \in Type PROVE DOMAIN done[t] = 1..Len(done[t])
  BY DEF Bj!JobsInvariant, Bj!TypeOK
<1> QED
  BY <1>1 DEF Bj!JobsInvariant, Bj!InOrder, Bj!CountsQueue, Bj!Carried, Bj!Queue

-----------------------------------------------------------------------------
(* The event loop.  The largest of the numbers below n that are wanted, or *)
(* -1                                                                      *)
LEMMA LargestOf ==
  ASSUME NEW n \in Nat, NEW S, S \subseteq {-1} \cup 0..n, -1 \in S
  PROVE  Ev!Max(S) \in S /\ \A y \in S : y <= Ev!Max(S)
<1> DEFINE U == {u \in Nat : \A y \in S : y < u}
<1>1. n + 1 \in U
  OBVIOUS
<1>2. PICK u \in U : \A w \in U : ~(<<w, u>> \in OpToRel(<, Nat))
  <2>1. U \subseteq Nat /\ U # {}
    BY <1>1
  <2> HIDE DEF U
  <2> QED
    BY <2>1, NatLessThanWellFounded, WFMin
<1>3. u \in Nat /\ \A y \in S : y < u
  OBVIOUS
<1>4. u - 1 \in S
  <2> SUFFICES ASSUME u - 1 \notin S PROVE FALSE
    OBVIOUS
  <2>0. u # 0
    OBVIOUS
  <2>1. \A y \in S : y < u - 1
    BY <1>3
  <2>2. u - 1 \in U
    BY <1>3, <2>0, <2>1
  <2>3. <<u - 1, u>> \in OpToRel(<, Nat)
    BY <1>3, <2>0 DEF OpToRel
  <2> QED
    BY <1>2, <2>2, <2>3
<1>5. \A y \in S : u - 1 >= y
  BY <1>3
<1>6. Ev!Max(S) \in S /\ \A y \in S : Ev!Max(S) >= y
  BY <1>4, <1>5 DEF Ev!Max
<1> QED
  BY <1>6

LEMMA LargestIs ==
  ASSUME NEW S, S \subseteq Int, NEW x \in S, \A y \in S : y <= x
  PROVE  Ev!Max(S) = x
<1>1. \E z \in S : \A y \in S : z >= y
  OBVIOUS
<1>2. Ev!Max(S) \in S /\ \A y \in S : Ev!Max(S) >= y
  BY <1>1 DEF Ev!Max
<1> HIDE DEF Ev!Max
<1>3. Ev!Max(S) >= x /\ Ev!Max(S) <= x /\ Ev!Max(S) \in Int
  BY <1>2
<1> QED
  BY <1>3

LEMMA LoopFields ==
  ASSUME NEW L, L \in Ev!Loops
  PROVE  /\ L.kind \in [Ev!Fd -> {"none", "listen", "client", "sync"}]
         /\ L.mask \in [Ev!Fd -> SUBSET {"r", "w"}] /\ L.kernel \in [Ev!Fd -> SUBSET {"r", "w"}]
         /\ L.maxfd \in {-1} \cup Ev!Fd /\ L.avail \in [Ev!Fd -> {"idle", "data", "hup"}]
         /\ L.setsize \in SetSizes
         /\ DOMAIN L = {"kind", "mask", "kernel", "maxfd", "avail", "setsize", "moved"}
BY DEF Ev!Loops

LEMMA Descriptors ==
  /\ MaxFd \in Nat /\ Ev!Fd = 0..MaxFd /\ 0 \in Ev!Fd
  /\ Ev!Fd \subseteq Nat /\ SetSizes \subseteq Nat /\ \A s \in SetSizes : 0 < s
BY LoopAssumption DEF Ev!EventLoopAssumption, Ev!Fd

(* The tables of a loop, by field *)
Tables(L, kd, m, k, mf, sz) ==
  /\ L \in Ev!Loops /\ L.moved = FALSE
  /\ L.kind = kd /\ L.mask = m /\ L.kernel = k /\ L.maxfd = mf /\ L.setsize = sz

Fitting(kd, m, mf, sz) ==
  /\ \A fd \in Ev!Fd :
       /\ kd[fd] = "none" => m[fd] = {}
       /\ kd[fd] # "none" => fd < sz
       /\ m[fd] # {} => fd <= mf
  /\ mf # -1 => m[mf] # {}

LEMMA ExactTables ==
  ASSUME NEW L, NEW kd, NEW m, NEW mf, NEW sz, Tables(L, kd, m, m, mf, sz), Fitting(kd, m, mf, sz)
  PROVE  Ev!Exact(L)
BY DEF Tables, Fitting, Ev!Exact

LEMMA TablesExact ==
  ASSUME NEW L, Ev!Exact(L)
  PROVE  /\ Tables(L, L.kind, L.mask, L.mask, L.maxfd, L.setsize)
         /\ Fitting(L.kind, L.mask, L.maxfd, L.setsize)
<1>1. L.moved = FALSE
  BY DEF Ev!Exact, Ev!Loops
<1> QED
  BY <1>1 DEF Tables, Fitting, Ev!Exact

(* A handler that has read, or a peer that has sent *)
LEMMA ReadFrom ==
  ASSUME NEW L, Ev!Exact(L), NEW fd \in Ev!Fd, NEW x \in {"idle", "data", "hup"}
  PROVE  LET T == [L EXCEPT !.avail[fd] = x] IN Ev!Exact(T) /\ T.kind = L.kind
<1> DEFINE a == [L.avail EXCEPT ![fd] = x]
           T == [L EXCEPT !.avail = a]
<1>1. L \in Ev!Loops
  BY DEF Ev!Exact
<1>2. [L EXCEPT !.avail[fd] = x] = T
  BY <1>1, LoopFields
<1>3. a \in [Ev!Fd -> {"idle", "data", "hup"}]
  BY <1>1, LoopFields
<1> HIDE DEF a
<1>4. T \in Ev!Loops
  BY <1>1, <1>3 DEF Ev!Loops
<1>5. T.kind = L.kind /\ T.mask = L.mask /\ T.kernel = L.kernel /\ T.maxfd = L.maxfd /\ T.setsize = L.setsize
  BY <1>1, LoopFields
<1>6. T.moved = L.moved
  BY <1>1, LoopFields
<1> HIDE DEF T
<1>7. Tables(T, L.kind, L.mask, L.mask, L.maxfd, L.setsize)
  BY <1>4, <1>5, <1>6, TablesExact DEF Tables
<1>8. Ev!Exact(T)
  BY <1>7, ExactTables, TablesExact
<1> QED
  BY <1>2, <1>5, <1>8

(* aeCreateFileEvent for a descriptor that is open *)
LEMMA EventCreated ==
  ASSUME NEW L, Ev!Exact(L), NEW fd \in Ev!Fd, L.kind[fd] # "none", NEW evs \in SUBSET {"r", "w"}, evs # {}
  PROVE  Ev!Exact(Ev!CreateFileEvent(L, fd, evs))
<1> DEFINE m == [L.mask EXCEPT ![fd] = L.mask[fd] \cup evs]
           k == [L.kernel EXCEPT ![fd] = evs \cup L.mask[fd]]
           mf == IF fd > L.maxfd THEN fd ELSE L.maxfd
           T == [[[L EXCEPT !.kernel = k] EXCEPT !.mask = m] EXCEPT !.maxfd = mf]
<1>1. L \in Ev!Loops /\ L.kernel = L.mask
  BY DEF Ev!Exact
<1>2. Ev!CreateFileEvent(L, fd, evs) = T
  <2> DEFINE l1 == [L EXCEPT !.kernel = k]
  <2>1. Ev!ApiAddEvent(L, fd, evs) = l1
    BY <1>1, LoopFields DEF Ev!ApiAddEvent
  <2>2. l1.mask = L.mask /\ l1.maxfd = L.maxfd /\ DOMAIN l1 = DOMAIN L
    BY <1>1, LoopFields
  <2>3. Ev!CreateFileEvent(L, fd, evs) = [l1 EXCEPT !.mask[fd] = @ \cup evs, !.maxfd = IF fd > @ THEN fd ELSE @]
    BY <2>1 DEF Ev!CreateFileEvent
  <2> HIDE DEF l1
  <2>4. Ev!CreateFileEvent(L, fd, evs) = [[l1 EXCEPT !.mask = m] EXCEPT !.maxfd = mf]
    BY <1>1, <2>2, <2>3, LoopFields
  <2> QED
    BY <2>4 DEF l1
<1>3. m \in [Ev!Fd -> SUBSET {"r", "w"}] /\ k = m
  <2>1. evs \cup L.mask[fd] = L.mask[fd] \cup evs
    OBVIOUS
  <2>2. k = m
    BY <1>1, <2>1
  <2>3. L.mask \in [Ev!Fd -> SUBSET {"r", "w"}]
    BY <1>1, LoopFields
  <2>4. L.mask[fd] \cup evs \in SUBSET {"r", "w"}
    BY <2>3
  <2> QED
    BY <2>2, <2>3, <2>4
<1>4. mf \in {-1} \cup Ev!Fd /\ L.maxfd \in Int /\ fd \in Int
  BY <1>1, LoopFields, Descriptors
<1>5. mf >= fd /\ mf >= L.maxfd /\ (mf = fd \/ mf = L.maxfd)
  BY <1>4
<1>6. m[fd] # {} /\ \A g \in Ev!Fd : (g # fd => m[g] = L.mask[g]) /\ (L.mask[g] # {} => m[g] # {})
  BY <1>1, LoopFields
<1> HIDE DEF m, k, mf
<1>7. T \in Ev!Loops
  BY <1>1, <1>3, <1>4 DEF Ev!Loops
<1>8. T.kind = L.kind /\ T.mask = m /\ T.kernel = k /\ T.maxfd = mf /\ T.setsize = L.setsize
  BY <1>1, LoopFields
<1>9. T.moved = L.moved
  BY <1>1, LoopFields
<1> HIDE DEF T
<1>10. Tables(T, L.kind, m, m, mf, L.setsize)
  BY <1>3, <1>7, <1>8, <1>9, TablesExact DEF Tables
<1>11. Fitting(L.kind, L.mask, L.maxfd, L.setsize)
  BY TablesExact
<1>12. Fitting(L.kind, m, mf, L.setsize)
  <2>1. ASSUME NEW g \in Ev!Fd, m[g] # {} PROVE g <= mf
    <3>1. CASE g = fd
      BY <1>5, <3>1
    <3>2. CASE g # fd
      <4>1. g <= L.maxfd /\ g \in Int /\ L.maxfd \in Int /\ mf \in Int
        BY <1>4, <1>6, <1>11, <2>1, <3>2, Descriptors DEF Fitting
      <4> QED
        BY <1>5, <4>1
    <3> QED
      BY <3>1, <3>2
  <2>2. mf # -1 => m[mf] # {}
    <3>1. CASE mf = fd
      BY <1>6, <3>1
    <3>2. CASE mf = L.maxfd
      <4> SUFFICES ASSUME mf # -1 PROVE m[mf] # {}
        OBVIOUS
      <4>1. L.mask[mf] # {} /\ mf \in Ev!Fd
        BY <1>4, <1>11, <3>2 DEF Fitting
      <4> QED
        BY <1>6, <4>1
    <3> QED
      BY <1>5, <3>1, <3>2
  <2>3. ASSUME NEW g \in Ev!Fd
        PROVE  (L.kind[g] = "none" => m[g] = {}) /\ (L.kind[g] # "none" => g < L.setsize)
    BY <1>6, <1>11, <2>3 DEF Fitting
  <2> QED
    BY <2>1, <2>2, <2>3 DEF Fitting
<1> QED
  BY <1>2, <1>10, <1>12, ExactTables

(* aeDeleteFileEvent: the events are gone, also from the kernel, and maxfd *)
(* is found again                                                          *)
LEMMA EventDeleted ==
  ASSUME NEW L, Ev!Exact(L), NEW fd \in Ev!Fd, NEW evs \in SUBSET {"r", "w"}
  PROVE  LET T == Ev!DeleteFileEvent(L, fd, evs) IN
         /\ Ev!Exact(T) /\ T.kind = L.kind /\ T.mask[fd] = L.mask[fd] \ evs /\ T.avail = L.avail
         /\ T.setsize = L.setsize
<1> DEFINE D == Ev!DeleteFileEvent(L, fd, evs)
           m == [L.mask EXCEPT ![fd] = L.mask[fd] \ evs]
           k == [L.kernel EXCEPT ![fd] = L.mask[fd] \ evs]
           l1 == [[L EXCEPT !.kernel = k] EXCEPT !.mask = m]
           S == {-1} \cup {j \in 0..(fd - 1) : m[j] # {}}
           x == Ev!Max(S)
           l2 == [l1 EXCEPT !.maxfd = x]
<1>1. L \in Ev!Loops /\ L.kernel = L.mask
  BY DEF Ev!Exact
<1>2. Fitting(L.kind, L.mask, L.maxfd, L.setsize)
  BY TablesExact
<1>3. m \in [Ev!Fd -> SUBSET {"r", "w"}] /\ k = m
  BY <1>1, LoopFields
<1>4. m[fd] = L.mask[fd] \ evs /\ \A g \in Ev!Fd : (g # fd => m[g] = L.mask[g]) /\ (L.mask[g] = {} => m[g] = {})
  BY <1>1, LoopFields
<1>5. [Ev!ApiDelEvent(L, fd, evs) EXCEPT !.mask[fd] = @ \ evs] = l1
  BY <1>1, LoopFields DEF Ev!ApiDelEvent
<1>6. l1.mask = m
  BY <1>1, LoopFields
<1>7. \/ D = L /\ (fd >= L.setsize \/ L.mask[fd] = {})
      \/ D = l2 /\ fd = L.maxfd /\ m[fd] = {} /\ L.mask[fd] # {}
      \/ D = l1 /\ (fd # L.maxfd \/ m[fd] # {})
  <2> DEFINE S1 == {-1} \cup {j \in 0..(fd - 1) : l1.mask[j] # {}}
  <2>1. S1 = S
    BY <1>6
  <2>2. D = IF fd >= L.setsize \/ L.mask[fd] = {} THEN L
            ELSE IF fd = L.maxfd /\ l1.mask[fd] = {} THEN [l1 EXCEPT !.maxfd = Ev!Max(S1)] ELSE l1
    <3> DEFINE l0 == [Ev!ApiDelEvent(L, fd, evs) EXCEPT !.mask[fd] = @ \ evs]
    <3>1. D = IF fd >= L.setsize \/ L.mask[fd] = {} THEN L
              ELSE IF fd = L.maxfd /\ l0.mask[fd] = {}
                   THEN [l0 EXCEPT !.maxfd = Ev!Max({-1} \cup {j \in 0..(fd - 1) : l0.mask[j] # {}})]
                   ELSE l0
      BY Zenon DEF Ev!DeleteFileEvent
    <3>2. l0 = l1
      BY <1>5
    <3> HIDE DEF l0, l1, D
    <3> QED
      BY <3>1, <3>2
  <2> HIDE DEF D, l1, S, S1
  <2> QED
    BY <1>6, <2>1, <2>2
<1> HIDE DEF m, k, S
<1>8. CASE D = L /\ (fd >= L.setsize \/ L.mask[fd] = {})
  <2>1. L.mask[fd] = {}
    <3>1. fd < L.setsize \/ L.mask[fd] = {}
      BY <1>2 DEF Fitting
    <3>2. L.setsize \in Nat /\ fd \in Nat
      <4>1. L.setsize \in SetSizes
        BY <1>1, LoopFields
      <4> QED
        BY <4>1, Descriptors
    <3> QED
      BY <1>8, <3>1, <3>2
  <2>2. L.mask[fd] = L.mask[fd] \ evs
    BY <2>1
  <2> QED
    BY <1>8, <2>2
<1>9. l1 \in Ev!Loops
  BY <1>1, <1>3 DEF Ev!Loops
<1>10. l1.kind = L.kind /\ l1.kernel = k /\ l1.maxfd = L.maxfd /\ l1.setsize = L.setsize /\ l1.avail = L.avail
  BY <1>1, LoopFields
<1>11. l1.moved = L.moved
  BY <1>1, LoopFields
<1> HIDE DEF l1
<1>12. CASE D = l1 /\ (fd # L.maxfd \/ m[fd] # {})
  <2>1. Tables(l1, L.kind, m, m, L.maxfd, L.setsize)
    BY <1>3, <1>6, <1>9, <1>10, <1>11, TablesExact DEF Tables
  <2>2. ASSUME NEW g \in Ev!Fd
        PROVE  /\ (L.kind[g] = "none" => m[g] = {}) /\ (L.kind[g] # "none" => g < L.setsize)
               /\ m[g] # {} => g <= L.maxfd
    BY <1>2, <1>4, <2>2 DEF Fitting
  <2>3. L.maxfd # -1 => m[L.maxfd] # {}
    <3>1. L.maxfd \in {-1} \cup Ev!Fd
      BY <1>1, LoopFields
    <3> QED
      BY <1>2, <1>4, <1>12, <3>1 DEF Fitting
  <2>4. Fitting(L.kind, m, L.maxfd, L.setsize)
    BY <2>2, <2>3 DEF Fitting
  <2>5. Ev!Exact(l1)
    BY <2>1, <2>4, ExactTables
  <2> QED
    BY <1>4, <1>6, <1>10, <1>12, <2>5
<1>13. CASE D = l2 /\ fd = L.maxfd /\ m[fd] = {} /\ L.mask[fd] # {}
  <2>1. fd \in Nat /\ Ev!Fd \subseteq Nat /\ \A j \in 0..(fd - 1) : j \in Ev!Fd
    BY Descriptors
  <2>2. x \in S /\ \A y \in S : y <= x
    <3>1. S \subseteq {-1} \cup 0..fd /\ -1 \in S
      BY <2>1 DEF S
    <3> QED
      BY <2>1, <3>1, LargestOf
  <2>3. x \in {-1} \cup Ev!Fd /\ (x # -1 => m[x] # {})
    BY <2>1, <2>2 DEF S
  <2> HIDE DEF x
  <2>4. l2 \in Ev!Loops
    BY <1>9, <2>3 DEF Ev!Loops
  <2>5. l2.kind = L.kind /\ l2.mask = m /\ l2.kernel = k /\ l2.maxfd = x /\ l2.setsize = L.setsize /\ l2.avail = L.avail
    BY <1>6, <1>9, <1>10, LoopFields
  <2>6. l2.moved = L.moved
    BY <1>9, <1>11, LoopFields
  <2> HIDE DEF l2
  <2>7. Tables(l2, L.kind, m, m, x, L.setsize)
    BY <1>3, <2>4, <2>5, <2>6, TablesExact DEF Tables
  <2>8. ASSUME NEW g \in Ev!Fd, m[g] # {} PROVE g <= x
    <3>1. g # fd /\ L.mask[g] # {}
      BY <1>4, <1>13, <2>8
    <3>2. g <= fd /\ g \in Nat
      BY <1>2, <1>13, <2>1, <3>1 DEF Fitting
    <3>3. g \in 0..(fd - 1)
      BY <2>1, <3>1, <3>2
    <3> QED
      BY <2>2, <2>8, <3>3 DEF S
  <2>9. ASSUME NEW g \in Ev!Fd
        PROVE  (L.kind[g] = "none" => m[g] = {}) /\ (L.kind[g] # "none" => g < L.setsize)
    BY <1>2, <1>4, <2>9 DEF Fitting
  <2>10. Fitting(L.kind, m, x, L.setsize)
    BY <2>3, <2>8, <2>9 DEF Fitting
  <2>11. Ev!Exact(l2)
    BY <2>7, <2>10, ExactTables
  <2> QED
    BY <1>4, <1>13, <2>5, <2>11
<1> QED
  BY <1>7, <1>8, <1>12, <1>13

(* freeClient *)
LEMMA Closed ==
  ASSUME NEW L, Ev!Exact(L), NEW fd \in Ev!Fd
  PROVE  Ev!Exact(Ev!Close(L, fd))
<1> DEFINE A == Ev!DeleteFileEvent(L, fd, {"r"})
           B == Ev!DeleteFileEvent(A, fd, {"w"})
           kd == [B.kind EXCEPT ![fd] = "none"]
           a == [B.avail EXCEPT ![fd] = "idle"]
           T == [[B EXCEPT !.kind = kd] EXCEPT !.avail = a]
<1>1. Ev!Exact(A) /\ A.mask[fd] = L.mask[fd] \ {"r"}
  BY EventDeleted
<1>2. Ev!Exact(B) /\ B.mask[fd] = A.mask[fd] \ {"w"}
  <2> HIDE DEF A
  <2> QED
    BY <1>1, EventDeleted
<1>3. L \in Ev!Loops /\ B \in Ev!Loops
  BY <1>2 DEF Ev!Exact
<1> HIDE DEF A
<1>4. B.mask[fd] = {}
  BY <1>1, <1>2, <1>3, LoopFields
<1>5. Ev!Close(L, fd) = T
  <2>1. Ev!Close(L, fd) = [B EXCEPT !.kind[fd] = "none", !.avail[fd] = "idle"]
    BY DEF Ev!Close, A
  <2> HIDE DEF B
  <2> QED
    BY <1>3, <2>1, LoopFields
<1> HIDE DEF B
<1>6. kd \in [Ev!Fd -> {"none", "listen", "client", "sync"}] /\ a \in [Ev!Fd -> {"idle", "data", "hup"}]
  BY <1>3, LoopFields
<1>7. kd[fd] = "none" /\ \A g \in Ev!Fd : g # fd => kd[g] = B.kind[g]
  BY <1>3, LoopFields
<1> HIDE DEF kd, a
<1>8. T \in Ev!Loops
  BY <1>3, <1>6 DEF Ev!Loops
<1>9. T.kind = kd /\ T.mask = B.mask /\ T.kernel = B.kernel /\ T.maxfd = B.maxfd /\ T.setsize = B.setsize
  BY <1>3, LoopFields
<1>10. T.moved = B.moved
  BY <1>3, LoopFields
<1> HIDE DEF T
<1>11. Tables(B, B.kind, B.mask, B.mask, B.maxfd, B.setsize) /\ Fitting(B.kind, B.mask, B.maxfd, B.setsize)
  BY <1>2, TablesExact
<1>12. Tables(T, kd, B.mask, B.mask, B.maxfd, B.setsize)
  BY <1>8, <1>9, <1>10, <1>11 DEF Tables
<1>13. Fitting(kd, B.mask, B.maxfd, B.setsize)
  BY <1>4, <1>7, <1>11 DEF Fitting
<1> QED
  BY <1>5, <1>12, <1>13, ExactTables

(* accept and connect: the lowest free descriptor *)
LEMMA Opened ==
  ASSUME NEW L, Ev!Exact(L), NEW kd \in {"client", "sync"}, NEW evs \in SUBSET {"r", "w"}, evs # {}
  PROVE  Ev!Exact(Ev!Open(L, kd, evs))
<1>1. CASE ~\E fd \in Ev!Lowest(L) : fd < L.setsize
  BY <1>1 DEF Ev!Open
<1>2. CASE \E fd \in Ev!Lowest(L) : fd < L.setsize
  <2> DEFINE fd == CHOOSE fd \in Ev!Lowest(L) : TRUE
  <2>1. PICK g \in Ev!Lowest(L) : g < L.setsize
    BY <1>2
  <2>2. fd \in Ev!Lowest(L)
    BY <2>1
  <2>3. Ev!Open(L, kd, evs) = Ev!CreateFileEvent([L EXCEPT !.kind[fd] = kd], fd, evs)
    BY <1>2 DEF Ev!Open
  <2> HIDE DEF fd
  <2>4. fd \in Ev!Fd /\ L.kind[fd] = "none" /\ g \in Ev!Fd /\ fd <= g /\ g <= fd
    BY <2>1, <2>2 DEF Ev!Lowest
  <2>5. fd = g
    BY <2>4, Descriptors
  <2> DEFINE k2 == [L.kind EXCEPT ![fd] = kd]
             M == [L EXCEPT !.kind = k2]
  <2>6. L \in Ev!Loops
    BY DEF Ev!Exact
  <2>7. [L EXCEPT !.kind[fd] = kd] = M
    BY <2>6, LoopFields
  <2>8. k2 \in [Ev!Fd -> {"none", "listen", "client", "sync"}] /\ k2[fd] = kd /\ \A h \in Ev!Fd : h # fd => k2[h] = L.kind[h]
    BY <2>4, <2>6, LoopFields
  <2> HIDE DEF k2
  <2>9. M \in Ev!Loops
    BY <2>6, <2>8 DEF Ev!Loops
  <2>10. M.kind = k2 /\ M.mask = L.mask /\ M.kernel = L.kernel /\ M.maxfd = L.maxfd /\ M.setsize = L.setsize
    BY <2>6, LoopFields
  <2>11. M.moved = L.moved
    BY <2>6, LoopFields
  <2> HIDE DEF M
  <2>12. Tables(L, L.kind, L.mask, L.mask, L.maxfd, L.setsize) /\ Fitting(L.kind, L.mask, L.maxfd, L.setsize)
    BY TablesExact
  <2>13. Tables(M, k2, L.mask, L.mask, L.maxfd, L.setsize)
    BY <2>9, <2>10, <2>11, <2>12 DEF Tables
  <2>14. Fitting(k2, L.mask, L.maxfd, L.setsize)
    BY <2>1, <2>4, <2>5, <2>8, <2>12 DEF Fitting
  <2>15. Ev!Exact(M) /\ M.kind[fd] # "none"
    BY <2>8, <2>10, <2>13, <2>14, ExactTables
  <2> QED
    BY <2>3, <2>4, <2>7, <2>15, EventCreated
<1> QED
  BY <1>1, <1>2

(* aeResizeSetSize, to more than there are *)
LEMMA Resized ==
  ASSUME NEW L, Ev!Exact(L), NEW T \in Ev!ResizeSetSize(L)
  PROVE  Ev!Exact(T)
<1>1. L \in Ev!Loops
  BY DEF Ev!Exact
<1>2. PICK z \in SetSizes :
        L.setsize < z /\ (T = [L EXCEPT !.setsize = z] \/ T = [[L EXCEPT !.setsize = z] EXCEPT !.moved = FALSE])
  BY LoopFields DEF Ev!ResizeSetSize
<1>3. L.moved = FALSE
  BY <1>1 DEF Ev!Exact, Ev!Loops
<1>4. T \in Ev!Loops
  BY <1>1, <1>2, <1>3 DEF Ev!Loops
<1>5. T.kind = L.kind /\ T.mask = L.mask /\ T.kernel = L.kernel /\ T.maxfd = L.maxfd /\ T.setsize = z
  BY <1>1, <1>2, LoopFields
<1>6. T.moved = FALSE
  BY <1>1, <1>2, <1>3, LoopFields
<1>7. Tables(L, L.kind, L.mask, L.mask, L.maxfd, L.setsize) /\ Fitting(L.kind, L.mask, L.maxfd, L.setsize)
  BY TablesExact
<1>8. Tables(T, L.kind, L.mask, L.mask, L.maxfd, z)
  BY <1>4, <1>5, <1>6, <1>7 DEF Tables
<1>9. \A fd \in Ev!Fd : fd < L.setsize => fd < z
  <2>1. L.setsize \in Nat /\ z \in Nat
    BY <1>1, <1>2, LoopFields, Descriptors
  <2> QED
    BY <1>2, <2>1, Descriptors
<1>10. Fitting(L.kind, L.mask, L.maxfd, z)
  BY <1>7, <1>9 DEF Fitting
<1> QED
  BY <1>8, <1>10, ExactTables

(* Whatever a handler does, the tables stay exact. *)
LEMMA OutcomesExact ==
  ASSUME NEW L, Ev!Exact(L), NEW fd \in Ev!Fd, NEW ev, NEW T \in Ev!Outcomes(L, fd, ev)
  PROVE  Ev!Exact(T)
<1> DEFINE I(g) == [L EXCEPT !.avail[g] = "idle"]
<1>1. \A g \in Ev!Fd : Ev!Exact(I(g)) /\ I(g).kind = L.kind
  BY ReadFrom
<1>2. 0 \in Ev!Fd
  BY Descriptors
<1>3. \/ T = Ev!Open(I(0), "client", {"r"})
      \/ T = Ev!Close(L, fd)
      \/ \E evs \in {{}, {"w"}} : T = Ev!DeleteFileEvent(I(fd), fd, evs)
      \/ T = I(fd)
      \/ \E d \in Ev!Peers(I(fd)) : T = Ev!Close(I(fd), d) \/ T = Ev!CreateFileEvent(I(fd), d, {"w"})
      \/ T \in Ev!ResizeSetSize(I(fd))
      \/ T = L
      \/ T = Ev!DeleteFileEvent(L, fd, {"w"})
  BY DEF Ev!Outcomes
<1> HIDE DEF I
<1>4. CASE T = Ev!Open(I(0), "client", {"r"})
  BY <1>1, <1>2, <1>4, Opened
<1>5. CASE T = Ev!Close(L, fd) \/ T = L \/ T = I(fd)
  BY <1>1, <1>5, Closed
<1>6. CASE \E evs \in {{}, {"w"}} : T = Ev!DeleteFileEvent(I(fd), fd, evs)
  BY <1>1, <1>6, EventDeleted
<1>7. CASE \E d \in Ev!Peers(I(fd)) : T = Ev!Close(I(fd), d) \/ T = Ev!CreateFileEvent(I(fd), d, {"w"})
  <2>1. PICK d \in Ev!Peers(I(fd)) : T = Ev!Close(I(fd), d) \/ T = Ev!CreateFileEvent(I(fd), d, {"w"})
    BY <1>7
  <2>2. d \in Ev!Fd /\ I(fd).kind[d] # "none"
    BY DEF Ev!Peers
  <2> QED
    BY <1>1, <2>1, <2>2, Closed, EventCreated
<1>8. CASE T \in Ev!ResizeSetSize(I(fd))
  BY <1>1, <1>8, Resized
<1>9. CASE T = Ev!DeleteFileEvent(L, fd, {"w"})
  BY <1>9, EventDeleted
<1> QED
  BY <1>3, <1>4, <1>5, <1>6, <1>7, <1>8, <1>9

-----------------------------------------------------------------------------
LEMMA SameTables ==
  ASSUME NEW L, Ev!Exact(L), NEW T, T \in Ev!Loops, T.moved = L.moved,
         T.kind = L.kind, T.mask = L.mask, T.kernel = L.kernel, T.maxfd = L.maxfd, T.setsize = L.setsize
  PROVE  Ev!Exact(T)
BY DEF Ev!Exact

LEMMA LoopStored ==
  ASSUME NEW L, Ev!Exact(L), Ev!Store(L)
  PROVE  Ev!Exact(Ev!Loop)'
<1>1. /\ Ev!Loop'.kind = L.kind /\ Ev!Loop'.mask = L.mask /\ Ev!Loop'.kernel = L.kernel
      /\ Ev!Loop'.maxfd = L.maxfd /\ Ev!Loop'.setsize = L.setsize
  BY DEF Ev!Store, Ev!Loop
<1>2. Ev!Loop'.moved = L.moved
  BY DEF Ev!Store, Ev!Loop
<1>3. L \in Ev!Loops
  BY DEF Ev!Exact
<1>4. Ev!Loop' \in Ev!Loops
  BY <1>3 DEF Ev!Store, Ev!Loop, Ev!Loops
<1> QED
  BY <1>1, <1>2, <1>4, SameTables

(* One entry of the events that fired *)
LEMMA Fired ==
  ASSUME NEW R, NEW s \in Seq(R), s # <<>>
  PROVE  Head(s) \in R /\ Tail(s) \in Seq(R) /\ (Tail(s) = <<>> <=> Len(s) = 1)
<1>1. Len(s) \in Nat /\ Len(s) > 0
  OBVIOUS
<1>2. Tail(s) \in Seq(R) /\ Len(Tail(s)) = Len(s) - 1
  BY <1>1
<1>3. Head(s) \in R
  BY <1>1
<1>4. Tail(s) = <<>> <=> Len(Tail(s)) = 0
  BY <1>2
<1>5. Tail(s) = <<>> <=> Len(s) = 1
  BY <1>1, <1>2, <1>4
<1> QED
  BY <1>2, <1>3, <1>5

LEMMA LoopStep ==
  ASSUME Ev!LoopInvariant, Ev!Next
  PROVE  Ev!LoopInvariant'
<1> DEFINE R == [fd : Ev!Fd, mask : SUBSET {"r", "w"}]
<1>1. /\ Ev!Exact(Ev!Loop) /\ fired \in Seq(R) /\ stage \in {"poll", "r", "w"} /\ rfired \in BOOLEAN
      /\ (fired = <<>> <=> stage = "poll") /\ call.valid /\ ~call.again
  BY DEF Ev!LoopInvariant, Ev!CallsRegistered, Ev!OneHandlerOnce
<1>2. /\ Ev!Loop.kind = kind /\ Ev!Loop.mask = mask /\ Ev!Loop.kernel = kernel /\ Ev!Loop.maxfd = maxfd
      /\ Ev!Loop.setsize = setsize /\ Ev!Loop.avail = avail
  BY DEF Ev!Loop
<1>3. moved = FALSE
  BY <1>1 DEF Ev!Loop, Ev!Exact, Ev!Loops
<1>4. /\ kind \in [Ev!Fd -> {"none", "listen", "client", "sync"}] /\ mask \in [Ev!Fd -> SUBSET {"r", "w"}]
      /\ kernel \in [Ev!Fd -> SUBSET {"r", "w"}]
      /\ \A fd \in Ev!Fd : mask[fd] # {} => kind[fd] # "none"
  <2>1. Ev!Loop \in Ev!Loops
    BY <1>1 DEF Ev!Exact
  <2>2. Fitting(kind, mask, maxfd, setsize)
    BY <1>1, <1>2, TablesExact
  <2> QED
    BY <1>2, <2>1, <2>2, LoopFields DEF Fitting
<1>5. ASSUME Ev!Exact(Ev!Loop)', UNCHANGED <<fired, stage, rfired>>, call' = call \/ call' = Ev!NoCall
      PROVE  Ev!LoopInvariant'
  <2>1. call'.valid /\ ~call'.again
    BY <1>1, <1>5 DEF Ev!NoCall
  <2> QED
    BY <1>1, <1>5, <2>1 DEF Ev!LoopInvariant, Ev!CallsRegistered, Ev!OneHandlerOnce
<1>6. ASSUME NEW fd \in Ev!Fd, NEW x \in {"data", "hup"}, avail' = [avail EXCEPT ![fd] = x],
             UNCHANGED <<kind, mask, kernel, maxfd, setsize, fired, stage, rfired, moved, call>>
      PROVE  Ev!LoopInvariant'
  <2> DEFINE T == [Ev!Loop EXCEPT !.avail[fd] = x]
  <2>1. Ev!Exact(T)
    BY <1>1, <1>6, ReadFrom
  <2>2. /\ T.kind = kind /\ T.mask = mask /\ T.kernel = kernel /\ T.maxfd = maxfd /\ T.setsize = setsize
        /\ T.avail = avail'
    BY <1>6 DEF Ev!Loop
  <2>3. T.moved = moved
    BY DEF Ev!Loop
  <2> HIDE DEF T
  <2>4. Ev!Store(T)
    BY <1>6, <2>2, <2>3 DEF Ev!Store
  <2> QED
    BY <1>5, <1>6, <2>1, <2>4, LoopStored
<1>7. ASSUME NEW fd \in Ev!Fd, Ev!Arrive(fd) \/ Ev!HangUp(fd) PROVE Ev!LoopInvariant'
  BY <1>6, <1>7 DEF Ev!Arrive, Ev!HangUp
<1>8. CASE Ev!Poll
  <2> DEFINE ready == {fd \in Ev!Fd : Ev!FiredMask(fd) # {}}
  <2>1. /\ ready # {} /\ stage' = "r" /\ rfired' = FALSE /\ call' = Ev!NoCall
        /\ UNCHANGED <<kind, mask, kernel, maxfd, setsize, avail, moved>>
    BY <1>8 DEF Ev!Poll
  <2>2. PICK order \in Ev!SetToSeqs(ready) :
          fired' = [i \in DOMAIN order |-> [fd |-> order[i], mask |-> Ev!FiredMask(order[i])]]
    BY <1>8 DEF Ev!Poll
  <2> DEFINE n == Cardinality(ready)
  <2>3. n \in Nat /\ n > 0
    <3>1. IsFiniteSet(ready)
      <4>1. IsFiniteSet(Ev!Fd)
        BY Descriptors, FS_Interval
      <4> QED
        BY <4>1, FS_Subset
    <3> QED
      BY <2>1, <3>1, FS_CardinalityType, FS_EmptySet
  <2>4. order \in [1..n -> ready]
    <3>1. Ev!Cardinality(ready) = n
      BY Zenon DEF Ev!Cardinality, Cardinality, Ev!IsFiniteSet, IsFiniteSet
    <3> HIDE DEF ready, n
    <3> QED
      BY <2>2, <3>1 DEF Ev!SetToSeqs
  <2>5. \A fd \in Ev!Fd : Ev!FiredMask(fd) \in SUBSET {"r", "w"}
    BY <1>4 DEF Ev!FiredMask
  <2> HIDE DEF n
  <2>6. fired' \in [1..n -> R]
    BY <2>2, <2>4, <2>5
  <2>7. fired' \in Seq(R) /\ fired' # <<>>
    <3> HIDE DEF R
    <3>1. fired' \in Seq(R)
      BY <2>3, <2>6, SeqDef
    <3>2. 1 \in DOMAIN fired'
      BY <2>3, <2>6
    <3> QED
      BY <3>1, <3>2
  <2>8. Ev!Exact(Ev!Loop)'
    <3>1. Ev!Store(Ev!Loop)
      BY <2>1 DEF Ev!Store, Ev!Loop
    <3> QED
      BY <1>1, <3>1, LoopStored
  <2>9. call'.valid /\ ~call'.again
    BY <2>1 DEF Ev!NoCall
  <2> QED
    BY <2>1, <2>7, <2>8, <2>9 DEF Ev!LoopInvariant, Ev!CallsRegistered, Ev!OneHandlerOnce
<1>9. CASE Ev!ProcessReadable
  <2> DEFINE e == Head(fired)
  <2>1. stage = "r" /\ stage' = "w" /\ fired' = fired
    BY <1>9 DEF Ev!ProcessReadable
  <2>2. e \in R
    BY <1>1, <2>1, Fired
  <2>3. e.fd \in Ev!Fd
    BY <2>2
  <2>4. \/ /\ "r" \in mask[e.fd] /\ Ev!Called(e.fd, "r", FALSE) /\ rfired' = TRUE
           /\ \E L \in Ev!Outcomes(Ev!Loop, e.fd, "r") : Ev!Store(L)
        \/ call' = Ev!NoCall /\ rfired' = FALSE /\ Ev!Stay
    BY <1>9 DEF Ev!ProcessReadable
  <2> HIDE DEF e
  <2>5. Ev!Exact(Ev!Loop)'
    <3>1. CASE \E L \in Ev!Outcomes(Ev!Loop, e.fd, "r") : Ev!Store(L)
      BY <1>1, <2>3, <3>1, OutcomesExact, LoopStored
    <3>2. CASE Ev!Stay
      <4>1. Ev!Store(Ev!Loop)
        BY <3>2 DEF Ev!Store, Ev!Loop, Ev!Stay
      <4> QED
        BY <1>1, <4>1, LoopStored
    <3> QED
      BY <2>4, <3>1, <3>2
  <2>6. call'.valid /\ ~call'.again
    <3>1. CASE "r" \in mask[e.fd] /\ Ev!Called(e.fd, "r", FALSE)
      <4>1. kind[e.fd] # "none"
        BY <1>4, <2>3, <3>1
      <4> QED
        BY <1>3, <3>1, <4>1 DEF Ev!Called
    <3>2. CASE call' = Ev!NoCall
      BY <3>2 DEF Ev!NoCall
    <3> QED
      BY <2>4, <3>1, <3>2
  <2>7. rfired' \in BOOLEAN
    BY <2>4
  <2> QED
    BY <1>1, <2>1, <2>5, <2>6, <2>7 DEF Ev!LoopInvariant, Ev!CallsRegistered, Ev!OneHandlerOnce
<1>10. CASE Ev!ProcessWritable
  <2> DEFINE e == Head(fired)
             L == [Ev!Loop EXCEPT !.moved = FALSE]
  <2>1. /\ stage = "w" /\ fired' = Tail(fired) /\ rfired' = FALSE
        /\ stage' = IF Len(fired) = 1 THEN "poll" ELSE "r"
    BY <1>10 DEF Ev!ProcessWritable
  <2>2. e \in R /\ Tail(fired) \in Seq(R) /\ (Tail(fired) = <<>> <=> Len(fired) = 1)
    BY <1>1, <2>1, Fired
  <2>3. e.fd \in Ev!Fd
    BY <2>2
  <2>4. \/ /\ Ev!Writable(e) /\ Ev!Called(e.fd, "w", rfired /\ Ev!SameProc(e.fd))
           /\ \E O \in Ev!Outcomes(L, e.fd, "w") : Ev!Store(O)
        \/ call' = Ev!NoCall /\ Ev!Store(L)
    BY <1>3, <1>10 DEF Ev!ProcessWritable
  <2>5. Ev!Exact(L)
    <3>1. L \in Ev!Loops
      BY <1>1 DEF Ev!Exact, Ev!Loops
    <3>2. /\ L.kind = Ev!Loop.kind /\ L.mask = Ev!Loop.mask /\ L.kernel = Ev!Loop.kernel
          /\ L.maxfd = Ev!Loop.maxfd /\ L.setsize = Ev!Loop.setsize
      BY DEF Ev!Loop
    <3>3. L.moved = Ev!Loop.moved
      BY <1>3 DEF Ev!Loop
    <3> HIDE DEF L
    <3> QED
      BY <1>1, <3>1, <3>2, <3>3, SameTables
  <2> HIDE DEF e, L
  <2>6. Ev!Exact(Ev!Loop)'
    BY <2>3, <2>4, <2>5, OutcomesExact, LoopStored
  <2>7. call'.valid /\ ~call'.again
    <3>1. CASE Ev!Writable(e) /\ Ev!Called(e.fd, "w", rfired /\ Ev!SameProc(e.fd))
      <4>1. "w" \in mask[e.fd] /\ ~(rfired /\ Ev!SameProc(e.fd))
        BY <3>1 DEF Ev!Writable
      <4>2. kind[e.fd] # "none"
        BY <1>4, <2>3, <4>1
      <4> QED
        BY <1>3, <3>1, <4>1, <4>2 DEF Ev!Called
    <3>2. CASE call' = Ev!NoCall
      BY <3>2 DEF Ev!NoCall
    <3> QED
      BY <2>4, <3>1, <3>2
  <2> QED
    BY <2>1, <2>2, <2>6, <2>7 DEF Ev!LoopInvariant, Ev!CallsRegistered, Ev!OneHandlerOnce
<1>11. CASE Ev!Connect
  <2>1. Ev!Store(Ev!Open(Ev!Loop, "sync", {"r", "w"})) /\ call' = Ev!NoCall /\ UNCHANGED <<fired, stage, rfired>>
    BY <1>11 DEF Ev!Connect
  <2>2. Ev!Exact(Ev!Open(Ev!Loop, "sync", {"r", "w"}))
    BY <1>1, Opened
  <2> QED
    BY <1>5, <2>1, <2>2, LoopStored
<1> QED
  BY <1>7, <1>8, <1>9, <1>10, <1>11 DEF Ev!Next

LEMMA LoopStart ==
  ASSUME Ev!Init
  PROVE  Ev!LoopInvariant
<1>1. /\ kind = [fd \in Ev!Fd |-> IF fd = 0 THEN "listen" ELSE "none"]
      /\ mask = [fd \in Ev!Fd |-> IF fd = 0 THEN {"r"} ELSE {}] /\ kernel = mask /\ maxfd = 0 /\ setsize \in SetSizes
      /\ avail = [fd \in Ev!Fd |-> "idle"] /\ moved = FALSE
  BY DEF Ev!Init
<1>2. Ev!Loop \in Ev!Loops
  BY <1>1, Descriptors DEF Ev!Loop, Ev!Loops
<1>3. /\ Ev!Loop.kind = kind /\ Ev!Loop.mask = mask /\ Ev!Loop.kernel = kernel /\ Ev!Loop.maxfd = maxfd
      /\ Ev!Loop.setsize = setsize
  BY DEF Ev!Loop
<1>4. Ev!Loop.moved = FALSE
  BY <1>1 DEF Ev!Loop
<1>5. Tables(Ev!Loop, kind, mask, mask, maxfd, setsize)
  BY <1>1, <1>2, <1>3, <1>4 DEF Tables
<1>6. Fitting(kind, mask, maxfd, setsize)
  BY <1>1, Descriptors DEF Fitting
<1>7. Ev!Exact(Ev!Loop)
  BY <1>5, <1>6, ExactTables
<1>8. call.valid /\ ~call.again
  BY DEF Ev!Init, Ev!NoCall
<1>9. fired = <<>> /\ stage = "poll" /\ rfired = FALSE
  BY DEF Ev!Init
<1>10. fired \in Seq([fd : Ev!Fd, mask : SUBSET {"r", "w"}])
  BY <1>9
<1> QED
  BY <1>7, <1>8, <1>9, <1>10 DEF Ev!LoopInvariant, Ev!CallsRegistered, Ev!OneHandlerOnce

LEMMA LoopRight ==
  ASSUME Ev!LoopInvariant
  PROVE  Ev!CallsRegistered /\ Ev!OneHandlerOnce /\ Ev!KernelAgrees /\ Ev!MaxFdExact
<1>1. /\ Ev!Loop.kind = kind /\ Ev!Loop.mask = mask /\ Ev!Loop.kernel = kernel /\ Ev!Loop.maxfd = maxfd
      /\ Ev!Loop.setsize = setsize
  BY DEF Ev!Loop
<1>2. Ev!Exact(Ev!Loop) /\ Fitting(kind, mask, maxfd, setsize)
  BY <1>1, TablesExact DEF Ev!LoopInvariant
<1>3. kernel = mask /\ maxfd \in {-1} \cup Ev!Fd /\ setsize \in SetSizes
  BY <1>1, <1>2 DEF Ev!Exact, Ev!Loops
<1> DEFINE S == {-1} \cup {fd \in Ev!Fd : mask[fd] # {}}
<1>4. S \subseteq Int /\ maxfd \in S /\ \A y \in S : y <= maxfd
  BY <1>2, <1>3, Descriptors DEF Fitting
<1>5. maxfd = Ev!Max(S)
  <2> HIDE DEF S
  <2> QED
    BY <1>4, LargestIs
<1>6. maxfd < setsize
  <2>1. setsize \in Nat /\ 0 < setsize
    BY <1>3, Descriptors
  <2>2. CASE maxfd = -1
    BY <2>1, <2>2
  <2>3. CASE maxfd # -1
    BY <1>2, <1>3, <2>3 DEF Fitting
  <2> QED
    BY <2>2, <2>3
<1>7. Ev!KernelAgrees
  BY <1>2, <1>3 DEF Fitting, Ev!KernelAgrees
<1> QED
  BY <1>5, <1>6, <1>7 DEF Ev!LoopInvariant, Ev!MaxFdExact

-----------------------------------------------------------------------------
(* The suite.  The invariant of the component that runs; nothing is        *)
(* claimed where DEBUG RELOAD is used.                                     *)
SuiteInvariant ==
  /\ component = "failover" => Fo!FailoverInvariant
  /\ component = "link" => Li!LinkInvariant
  /\ component = "snapshots" => Sn!SnapshotsInvariant
  /\ component = "threads" => Bj!JobsInvariant
  /\ component = "loop" => Ev!LoopInvariant

LEMMA SuiteRests ==
  ASSUME SuiteInvariant, UNCHANGED allVars
  PROVE  SuiteInvariant'
<1>1. /\ component' = component /\ UNCHANGED failover /\ UNCHANGED link /\ UNCHANGED snapshots
      /\ UNCHANGED threads /\ UNCHANGED loop
  BY DEF allVars
<1>2. ASSUME Fo!FailoverInvariant PROVE Fo!FailoverInvariant'
  BY <1>1, <1>2 DEF failover, Fo!FailoverInvariant, Fo!TypeOK, Fo!OnePromoted, Fo!ReconfiguredToSomeone, Fo!Known
<1>3. ASSUME Li!LinkInvariant PROVE Li!LinkInvariant'
  BY <1>1, <1>3 DEF link, Li!LinkInvariant, Li!TypeOK, Li!ConnectedHasLinks, Li!NoFalseAlarm, Li!InTime
<1>4. ASSUME Sn!SnapshotsInvariant PROVE Sn!SnapshotsInvariant'
  BY <1>1, <1>4 DEF snapshots, Sn!SnapshotsInvariant, Sn!State
<1>6. ASSUME Bj!JobsInvariant PROVE Bj!JobsInvariant'
  BY <1>1, <1>6, ThreadsStep DEF threads, Bj!vars
<1>7. ASSUME Ev!LoopInvariant PROVE Ev!LoopInvariant'
  BY <1>1, <1>7 DEF loop, Ev!LoopInvariant, Ev!Loop, Ev!CallsRegistered, Ev!OneHandlerOnce
<1> QED
  BY <1>1, <1>2, <1>3, <1>4, <1>6, <1>7 DEF SuiteInvariant

LEMMA SuiteStep ==
  ASSUME SuiteInvariant, [Next]_allVars
  PROVE  /\ SuiteInvariant'
         /\ [/\ component = "failover" => Fo!AnnouncedByEpoch /\ Fo!EpochGrows
             /\ component = "snapshots" => Sn!NeverOlder]_allVars
<1>1. CASE UNCHANGED allVars
  BY <1>1, SuiteRests
<1>2. CASE component = "failover" /\ Fo!Next /\ component' = component
  BY <1>2, FailoverStep DEF SuiteInvariant
<1>3. CASE component = "link" /\ Li!Next /\ component' = component
  BY <1>3, LinkStep DEF SuiteInvariant
<1>4. CASE component = "snapshots" /\ Sn!Next /\ component' = component
  BY <1>4, SnapshotsStep DEF SuiteInvariant
<1>5. CASE component = "debug" /\ De!Next /\ component' = component
  BY <1>5 DEF SuiteInvariant
<1>6. CASE component = "threads" /\ Bj!Next /\ component' = component
  BY <1>6, ThreadsStep DEF SuiteInvariant
<1>7. CASE component = "loop" /\ Ev!Next /\ component' = component
  BY <1>7, LoopStep DEF SuiteInvariant
<1> QED
  BY <1>1, <1>2, <1>3, <1>4, <1>5, <1>6, <1>7 DEF Next

LEMMA SuiteStart ==
  ASSUME Init
  PROVE  SuiteInvariant
<1>1. ASSUME component = "failover" PROVE Fo!FailoverInvariant
  BY <1>1, FailoverStart DEF Init
<1>2. ASSUME component = "link" PROVE Li!LinkInvariant
  BY <1>2, LinkStart DEF Init
<1>3. ASSUME component = "snapshots" PROVE Sn!SnapshotsInvariant
  BY <1>3, SnapshotsStart DEF Init
<1>4. ASSUME component = "threads" PROVE Bj!JobsInvariant
  BY <1>4, ThreadsStart DEF Init
<1>5. ASSUME component = "loop" PROVE Ev!LoopInvariant
  BY <1>5, LoopStart DEF Init
<1> QED
  BY <1>1, <1>2, <1>3, <1>4, <1>5 DEF SuiteInvariant

LEMMA SuiteRight ==
  ASSUME SuiteInvariant
  PROVE  Consistent
BY SnapshotsRight, ThreadsRight, LoopRight DEF SuiteInvariant, Consistent

(* No component gets into a state that its next step cannot stand, for any *)
(* instances, periods, bounds, types of jobs and descriptors: the failover *)
(* (sentinelFailoverStateMachine), the link (sentinelHandleRedisInstance), *)
(* snapshots without DEBUG RELOAD (rdbSave, rdbSaveBackground,             *)
(* backgroundSaveDoneHandler, prepareForShutdown), the threads             *)
(* (bioProcessBackgroundJobs) and the event loop with an array of events   *)
(* that stays in place when it is resized (aeProcessEvents).               *)
THEOREM AlwaysConsistent == Spec => []Consistent
<1>1. Init => SuiteInvariant
  BY SuiteStart
<1>2. SuiteInvariant /\ [Next]_allVars => SuiteInvariant'
  BY SuiteStep
<1>3. SuiteInvariant => Consistent
  BY SuiteRight
<1> QED
  BY <1>1, <1>2, <1>3, PTL DEF Spec

(* The address of the master changes only with a newer configuration       *)
(* epoch, and that epoch never decreases, but for an operator's reset in   *)
(* the last phase of a failover and for a failover that a configuration of *)
(* its own epoch or a later one has overtaken; and no snapshot is replaced *)
(* by an older one, but by a crash (sentinelProcessHelloMessage,           *)
(* sentinelRefreshInstanceInfo, sentinelResetMaster, rdbSave).             *)
THEOREM NothingIsTakenBack == Spec => NeverBack
<1>1. Init => SuiteInvariant
  BY SuiteStart
<1>2. SuiteInvariant /\ [Next]_allVars => SuiteInvariant'
  BY SuiteStep
<1>3. SuiteInvariant /\ [Next]_allVars =>
        [/\ component = "failover" => Fo!AnnouncedByEpoch /\ Fo!EpochGrows
         /\ component = "snapshots" => Sn!NeverOlder]_allVars
  BY SuiteStep
<1> QED
  BY <1>1, <1>2, <1>3, PTL DEF Spec, NeverBack
=============================================================================

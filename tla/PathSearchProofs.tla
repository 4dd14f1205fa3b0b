-------------------------- MODULE PathSearchProofs --------------------------
(***************************************************************************)
(* The safety properties of find_paths, for every artist graph, every pair *)
(* of artists and every limit on the hops.                                 *)
(*                                                                         *)
(* Going out, the invariant is that the layers seen so far are exact       *)
(* (LayersExact) and that visited holds the layers before c.  Coming back, *)
(* it is that the k-th artist of an unfinished path lies in the layer it   *)
(* was reached from (LayeredPath); as layers are disjoint, no artist comes *)
(* twice, and a path that has come down to layer 0 ends at the source.     *)
(*                                                                         *)
(* That nothing is missed rests on a second invariant, CompleteInv: a walk *)
(* of n hops from layer l ends in layer l + n at the latest, the paths of  *)
(* the way back are all the walks through the layers passed, and the       *)
(* destination is in no layer before the one it is met in.  A path through *)
(* the layers one by one has no shortcut, so the browser finds its order   *)
(* again from the links (LayoutInv).                                       *)
(***************************************************************************)
EXTENDS PathLayout, TLAPS

OutwardInv ==
  /\ distances[0] = [x \in {i} |-> {}]
  /\ pc = "search" =>
       /\ DOMAIN distances = 0..c
       /\ visited = UNION {Layer(k) : k \in 0..(c-1)}

LayeredPath(p) ==
  /\ Len(p) > 1
  /\ p[1] = j
  /\ \A k \in 1..Len(p) :
       /\ c + Len(p) - k \in DOMAIN distances
       /\ p[k] \in Layer(c + Len(p) - k)
  /\ \A k \in 1..(Len(p)-1) : p[k] \in neighbours[p[k+1]]

BackwardInv ==
  /\ pc \in {"unwind", "return", "found"} =>
       /\ \A p \in paths : LayeredPath(p)
       /\ c = -1 => paths = {}
  /\ pc \in {"return", "found"} => c <= 0
  /\ pc = "found" => path \in paths

IInv ==
  /\ TypeOK
  /\ LayersExact
  /\ OutwardInv
  /\ BackwardInv

(* A walk of n hops from layer l goes no further than layer l + n. *)
WalksStay ==
  \A l, n \in DOMAIN distances : l + n \in DOMAIN distances =>
    \A p \in [1..(n+1) -> Artist] :
      p[n+1] \in Layer(l) /\ Walk(p, n) => \E m \in 0..(l+n) : p[1] \in Layer(m)

(* p comes down from the destination through the layers one by one. *)
Descends(p, top) ==
  /\ p[1] = j
  /\ Walk(p, top - c)
  /\ \A k \in 1..(top-c+1) : p[k] \in Layer(top+1-k)

PathsComplete ==
  pc \in {"unwind", "return", "found"} /\ c >= 0 =>
    \E top \in DOMAIN distances :
      /\ DOMAIN distances = 0..top
      /\ c < top
      /\ j \in Layer(top)
      /\ paths # {}
      /\ \A p \in [1..(top-c+1) -> Artist] : Descends(p, top) => p \in paths

MetFirst ==
  /\ pc = "search" => j \notin visited
  /\ pc = "unwind" /\ c < 0 => i = j
  /\ pc \in {"return", "found"} => c = 0
  /\ pc = "nopath" =>
       \/ i = j
       \/ DOMAIN distances = 0..MaxHops /\ \A k \in 0..MaxHops : j \notin Layer(k)

CompleteInv == WalksStay /\ PathsComplete /\ MetFirst

LayoutInv ==
  /\ neighbours \in Graphs
  /\ pathOrder \in Seq(1..Len(path))
  /\ pathOrder # <<>> => pc = "found"
  /\ pc = "found" => links = igrapher(path)
  /\ OrderIsPath

-----------------------------------------------------------------------------
(* A layered path that has come down to the source's layer is real. *)
LEMMA LayeredIsReal ==
  ASSUME IInv, pc \in {"return", "found"}, NEW p \in paths
  PROVE  RealPath(p)
<1>1. LayeredPath(p) /\ c <= 0 /\ c # -1 /\ p \in Seq(Artist)
  BY DEF IInv, BackwardInv, TypeOK
<1>2. c = 0 /\ MaxHops \in Nat /\ Len(p) \in Nat
  BY <1>1, PathSearchAssumption DEF IInv, TypeOK
<1>3. p[Len(p)] \in Layer(0)
  <2>1. Len(p) \in 1..Len(p) /\ c + Len(p) - Len(p) = 0
    BY <1>1, <1>2 DEF LayeredPath
  <2> QED
    BY <1>1, <2>1 DEF LayeredPath
<1>4. p[Len(p)] = i
  BY <1>3 DEF IInv, OutwardInv, Layer
<1>5. ASSUME NEW k \in 1..Len(p), NEW l \in 1..Len(p), p[k] = p[l]
      PROVE  k = l
  <2>1. /\ c + Len(p) - k \in DOMAIN distances
        /\ c + Len(p) - l \in DOMAIN distances
        /\ p[k] \in Layer(c + Len(p) - k)
        /\ p[k] \in Layer(c + Len(p) - l)
    BY <1>1, <1>5 DEF LayeredPath
  <2>2. c + Len(p) - k = c + Len(p) - l
    BY <2>1 DEF IInv, LayersExact
  <2> QED
    BY <1>2, <2>2
<1> QED
  BY <1>1, <1>4, <1>5 DEF RealPath, LayeredPath

-----------------------------------------------------------------------------
(* find_paths starts with the layer of the source. *)
LEMMA InitInv == Init => IInv
<1> SUFFICES ASSUME Init PROVE IInv
  OBVIOUS
<1> USE PathSearchAssumption
<1>1. /\ DOMAIN distances = {0}
      /\ distances[0] = [x \in {i} |-> {}]
      /\ Layer(0) = {i}
      /\ {0} = 0..0
  BY DEF Init, SourceLayer, Layer
<1>2. TypeOK
  BY <1>1 DEF Init, TypeOK, Layer
<1>3. LayersExact
  BY <1>1 DEF LayersExact
<1>4. OutwardInv /\ BackwardInv
  BY <1>1 DEF Init, OutwardInv, BackwardInv
<1> QED
  BY <1>2, <1>3, <1>4 DEF IInv

(* The new layer is disjoint from the others, and completes them. *)
LEMMA ExtendInv ==
  ASSUME IInv, Extend
  PROVE  IInv'
<1> DEFINE NewLayer(k) == DOMAIN distances'[k]
<1> USE PathSearchAssumption
<1>1. /\ pc = "search" /\ pc' = "search"
      /\ neighbours' = neighbours /\ i' = i /\ j' = j
      /\ calls' = calls /\ paths' = paths /\ path' = path /\ links' = links
      /\ c' = c + 1 /\ c # MaxHops
      /\ visited' = visited \cup Layer(c)
      /\ distances' = [k \in 0..(c+1) |-> IF k = c+1 THEN extend(visited') ELSE distances[k]]
  BY DEF Extend, request
<1>2. /\ TypeOK /\ LayersExact
      /\ DOMAIN distances = 0..c
      /\ visited = UNION {Layer(k) : k \in 0..(c-1)}
  BY <1>1 DEF IInv, OutwardInv
<1>3. c \in 0..MaxHops /\ c + 1 \in 0..MaxHops
  BY <1>1, <1>2 DEF TypeOK
<1>4. /\ DOMAIN distances' = 0..(c+1)
      /\ \A k \in 0..c : distances'[k] = distances[k]
      /\ distances'[c+1] = extend(visited')
  BY <1>1, <1>3
<1>5. \A k \in 0..c : NewLayer(k) = Layer(k)
  BY <1>4 DEF Layer
<1>6. visited' = UNION {Layer(k) : k \in 0..c}
  BY <1>1, <1>2, <1>3
<1>7. /\ NewLayer(c+1) = (UNION {neighbours[a] : a \in Layer(c)}) \ visited'
      /\ \A b \in NewLayer(c+1) :
           distances'[c+1][b] = {a \in Layer(c) : b \in neighbours[a]}
  BY <1>4 DEF Layer, extend
<1>8. Layer(c) \subseteq Artist
  BY <1>2, <1>3 DEF TypeOK
<1>9. TypeOK'
  <2>1. \E top \in 0..MaxHops : DOMAIN distances' = 0..top /\ c' <= top
    BY <1>1, <1>3, <1>4
  <2>2. NewLayer(c+1) \subseteq Artist
    BY <1>2, <1>7, <1>8 DEF TypeOK
  <2>3. ASSUME NEW k \in DOMAIN distances'
        PROVE  /\ NewLayer(k) \subseteq Artist
               /\ \A a \in NewLayer(k) :
                    distances'[k][a] \subseteq IF k = 0 THEN {} ELSE NewLayer(k-1)
    <3>1. CASE k = c + 1
      BY <1>3, <1>5, <1>7, <2>2, <3>1
    <3>2. CASE k \in 0..c
      <4>1. k # 0 => NewLayer(k-1) = Layer(k-1)
        BY <1>3, <1>5, <3>2
      <4> QED
        BY <1>2, <1>4, <1>5, <3>2, <4>1 DEF TypeOK
    <3> QED
      BY <1>3, <1>4, <3>1, <3>2
  <2>4. visited' \subseteq Artist
    BY <1>1, <1>2, <1>8 DEF TypeOK
  <2> QED
    <3>1. \A k \in DOMAIN distances' :
            /\ DOMAIN distances'[k] \subseteq Artist
            /\ \A a \in DOMAIN distances'[k] :
                 distances'[k][a] \subseteq
                   IF k = 0 THEN {} ELSE DOMAIN distances'[k-1]
      BY <2>3
    <3>2. /\ neighbours' \in [Artist -> SUBSET Artist]
          /\ i' \in Artist /\ j' \in Artist
          /\ pc' \in {"search", "unwind", "return", "found", "nopath"}
          /\ calls' \in {1, 2}
          /\ c' \in -1..MaxHops
          /\ paths' \subseteq Seq(Artist)
          /\ path' \in Seq(Artist)
          /\ links' \subseteq Nat \X Nat
      BY <1>1, <1>2, <1>3 DEF TypeOK
    <3> QED
      BY <2>1, <2>4, <3>1, <3>2 DEF TypeOK, Layer
<1>10. LayersExact'
  <2>1. ASSUME NEW k \in 0..(c+1), NEW l \in 0..(c+1), k # l
        PROVE  NewLayer(k) \cap NewLayer(l) = {}
    <3>1. \A m \in 0..c : NewLayer(m) \subseteq visited'
      BY <1>5, <1>6
    <3>2. NewLayer(c+1) \cap visited' = {}
      BY <1>7
    <3>3. CASE k = c+1 \/ l = c+1
      <4>1. CASE k = c+1
        <5>1. l \in 0..c
          BY <1>3, <2>1, <4>1
        <5> QED
          BY <3>1, <3>2, <4>1, <5>1
      <4>2. CASE l = c+1
        <5>1. k \in 0..c
          BY <1>3, <2>1, <4>2
        <5> QED
          BY <3>1, <3>2, <4>2, <5>1
      <4> QED
        BY <3>3, <4>1, <4>2
    <3>4. CASE k \in 0..c /\ l \in 0..c
      <4>1. Layer(k) \cap Layer(l) = {}
        BY <1>2, <2>1, <3>4 DEF LayersExact
      <4> QED
        BY <1>5, <3>4, <4>1
    <3> QED
      BY <1>3, <3>3, <3>4
  <2>2. ASSUME NEW k \in 0..(c+1), k > 0, NEW b \in NewLayer(k)
        PROVE  /\ distances'[k][b] # {}
               /\ distances'[k][b] = {a \in NewLayer(k-1) : b \in neighbours[a]}
    <3>1. CASE k = c + 1
      <4>1. NewLayer(k-1) = Layer(c)
        BY <1>3, <1>5, <3>1
      <4>2. PICK a \in Layer(c) : b \in neighbours[a]
        BY <1>7, <2>2, <3>1
      <4>3. distances'[c+1][b] = {a0 \in Layer(c) : b \in neighbours[a0]}
        BY <1>7, <2>2, <3>1
      <4> QED
        BY <3>1, <4>1, <4>2, <4>3
    <3>2. CASE k \in 0..c
      <4>1. NewLayer(k) = Layer(k) /\ NewLayer(k-1) = Layer(k-1)
        BY <1>3, <1>5, <2>2, <3>2
      <4> QED
        BY <1>2, <1>4, <2>2, <3>2, <4>1 DEF LayersExact
    <3> QED
      BY <1>3, <3>1, <3>2
  <2>3. ASSUME NEW k \in 0..c, NEW a \in NewLayer(k), NEW b \in neighbours[a]
        PROVE  \E l \in 0..(k+1) : b \in NewLayer(l)
    <3>1. a \in Layer(k)
      BY <1>5
    <3>2. CASE k = c
      <4>1. b \in NewLayer(c+1) \/ b \in visited'
        BY <1>7, <3>1, <3>2
      <4>2. CASE b \in visited'
        <5>1. PICK l \in 0..c : b \in Layer(l)
          BY <1>6, <4>2
        <5>2. l \in 0..(k+1) /\ b \in NewLayer(l)
          BY <1>3, <1>5, <3>2, <5>1
        <5> QED
          BY <5>2
      <4> QED
        BY <1>3, <3>2, <4>1, <4>2
    <3>3. CASE k # c
      <4>1. k \in 0..c /\ k + 1 \in 0..c
        BY <1>3, <3>3
      <4>2. PICK l \in 0..(k+1) : b \in Layer(l)
        BY <1>2, <3>1, <4>1 DEF LayersExact
      <4>3. b \in NewLayer(l)
        BY <1>3, <1>5, <4>1, <4>2
      <4> QED
        BY <4>3
    <3> QED
      BY <3>2, <3>3
  <2>4. ASSUME NEW k \in DOMAIN distances'
        PROVE  /\ \A l \in DOMAIN distances' :
                    l # k => DOMAIN distances'[k] \cap DOMAIN distances'[l] = {}
               /\ k > 0 => \A b \in DOMAIN distances'[k] :
                    /\ distances'[k][b] # {}
                    /\ distances'[k][b] =
                         {a \in DOMAIN distances'[k-1] : b \in neighbours'[a]}
               /\ k + 1 \in DOMAIN distances' =>
                    \A a \in DOMAIN distances'[k] : \A b \in neighbours'[a] :
                      \E l \in 0..(k+1) : b \in DOMAIN distances'[l]
    <3>1. k \in 0..(c+1) /\ (k + 1 \in DOMAIN distances' => k \in 0..c)
      BY <1>3, <1>4
    <3>2. \A l \in DOMAIN distances' :
            l # k => DOMAIN distances'[k] \cap DOMAIN distances'[l] = {}
      BY <1>4, <2>1, <3>1
    <3>3. k > 0 => \A b \in DOMAIN distances'[k] :
            /\ distances'[k][b] # {}
            /\ distances'[k][b] =
                 {a \in DOMAIN distances'[k-1] : b \in neighbours'[a]}
      <4> SUFFICES ASSUME k > 0, NEW b \in DOMAIN distances'[k]
                   PROVE  /\ distances'[k][b] # {}
                          /\ distances'[k][b] =
                               {a \in DOMAIN distances'[k-1] : b \in neighbours'[a]}
        OBVIOUS
      <4>1. /\ distances'[k][b] # {}
            /\ distances'[k][b] =
                 {a \in DOMAIN distances'[k-1] : b \in neighbours[a]}
        BY <2>2, <3>1
      <4>2. neighbours' = neighbours
        BY <1>1
      <4> QED
        BY <4>1, <4>2
    <3>4. k + 1 \in DOMAIN distances' =>
            \A a \in DOMAIN distances'[k] : \A b \in neighbours'[a] :
              \E l \in 0..(k+1) : b \in DOMAIN distances'[l]
      BY <1>1, <2>3, <3>1
    <3> QED
      BY <3>2, <3>3, <3>4
  <2> QED
    BY <2>4 DEF LayersExact, Layer
<1>11. OutwardInv'
  <2>1. distances'[0] = [x \in {i'} |-> {}]
    <3>1. 0 \in 0..c
      BY <1>3
    <3>2. distances[0] = [x \in {i} |-> {}]
      BY DEF IInv, OutwardInv
    <3>3. distances'[0] = distances[0]
      BY <1>4, <3>1
    <3>4. i' = i
      BY <1>1
    <3> QED
      BY <3>2, <3>3, <3>4, Zenon
  <2>2. visited' = UNION {NewLayer(k) : k \in 0..c}
    BY <1>5, <1>6
  <2>3. 0..(c' - 1) = 0..c
    BY <1>1, <1>3
  <2>4. (visited = UNION {Layer(k) : k \in 0..(c-1)})'
    BY <2>2, <2>3 DEF Layer
  <2> QED
    BY <1>1, <1>4, <2>1, <2>4 DEF OutwardInv
<1>12. BackwardInv'
  BY <1>1 DEF BackwardInv
<1> QED
  BY <1>9, <1>10, <1>11, <1>12 DEF IInv

(* The steps that leave the graph, the query and the layers alone. *)
LEMMA LayersUnchanged ==
  ASSUME IInv, UNCHANGED <<neighbours, i, j, distances>>, pc' # "search"
  PROVE  LayersExact' /\ OutwardInv'
BY DEF IInv, LayersExact, OutwardInv, Layer

(* find_paths returns None after the last layer. *)
LEMMA GiveUpInv ==
  ASSUME IInv, GiveUp
  PROVE  IInv'
<1>1. /\ pc' = "nopath"
      /\ UNCHANGED <<neighbours, i, j, calls, c, distances, visited, paths, path, links>>
  BY DEF GiveUp, request
<1>2. LayersExact' /\ OutwardInv'
  BY <1>1, LayersUnchanged
<1>3. TypeOK' /\ BackwardInv'
  BY <1>1 DEF IInv, TypeOK, BackwardInv, Layer
<1> QED
  BY <1>2, <1>3 DEF IInv

(* The destination is met: paths of two artists, one layer apart. *)
LEMMA MeetInv ==
  ASSUME IInv, Meet
  PROVE  IInv'
<1> USE PathSearchAssumption
<1>1. /\ pc = "search" /\ pc' = "unwind"
      /\ UNCHANGED <<neighbours, i, j, calls, distances, visited, path, links>>
      /\ j \in Layer(c) /\ c' = c - 1
      /\ paths' = {<<j, a>> : a \in distances[c][j]}
  BY DEF Meet, request
<1>2. LayersExact' /\ OutwardInv'
  BY <1>1, LayersUnchanged
<1>3. TypeOK /\ DOMAIN distances = 0..c /\ c \in 0..MaxHops
  BY <1>1 DEF IInv, OutwardInv, TypeOK
<1>4. distances[c][j] \subseteq IF c = 0 THEN {} ELSE Layer(c-1)
  BY <1>1, <1>3 DEF TypeOK
<1>5. distances[c][j] \subseteq Artist
  <2>1. c # 0 => c - 1 \in DOMAIN distances
    BY <1>3
  <2>2. c # 0 => Layer(c-1) \subseteq Artist
    BY <1>3, <2>1 DEF TypeOK
  <2> QED
    BY <1>4, <2>2
<1>6. paths' \subseteq Seq(Artist)
  <2>1. j \in Artist
    BY <1>3 DEF TypeOK
  <2>2. \A a \in distances[c][j] : <<j, a>> \in Seq(Artist)
    BY <1>5, <2>1
  <2> QED
    BY <1>1, <2>2
<1>7. TypeOK'
  <2>1. c' \in -1..MaxHops /\ c' <= c
    BY <1>1, <1>3
  <2>2. \E top \in 0..MaxHops : DOMAIN distances' = 0..top /\ c' <= top
    BY <1>1, <1>3, <2>1
  <2> QED
    BY <1>1, <1>3, <1>6, <2>1, <2>2 DEF TypeOK, Layer
<1>8. BackwardInv'
  <2>1. ASSUME NEW p \in paths' PROVE LayeredPath(p)'
    <3>1. PICK a \in distances[c][j] : p = <<j, a>>
      BY <1>1
    <3>2. c # 0 /\ a \in Layer(c-1)
      BY <1>4
    <3>3. c > 0 /\ c - 1 \in DOMAIN distances /\ c \in DOMAIN distances
      BY <1>3, <3>2
    <3>4. j \in neighbours[a]
      BY <1>1, <3>3 DEF IInv, LayersExact
    <3>5. Len(p) = 2 /\ p[1] = j /\ p[2] = a
      BY <3>1
    <3>6. ASSUME NEW k \in 1..Len(p)
          PROVE  /\ c' + Len(p) - k \in DOMAIN distances'
                 /\ p[k] \in Layer(c' + Len(p) - k)
      <4>1. CASE k = 1
        BY <1>1, <1>3, <3>3, <3>5, <4>1 DEF Layer
      <4>2. CASE k = 2
        BY <1>1, <1>3, <3>2, <3>3, <3>5, <4>2 DEF Layer
      <4> QED
        BY <3>5, <4>1, <4>2
    <3> QED
      <4>1. \A k \in 1..(Len(p) - 1) : p[k] \in neighbours'[p[k+1]]
        BY <1>1, <3>4, <3>5
      <4>2. Len(p) > 1 /\ p[1] = j'
        BY <1>1, <3>5
      <4> QED
        BY <1>1, <3>6, <4>1, <4>2 DEF LayeredPath, Layer
  <2>2. c' = -1 => paths' = {}
    <3>1. c' = -1 => c = 0
      BY <1>1, <1>3
    <3> QED
      BY <1>1, <1>4, <3>1
  <2> QED
    BY <1>1, <2>1, <2>2 DEF BackwardInv
<1> QED
  BY <1>2, <1>7, <1>8 DEF IInv

(* Each path grows by a predecessor, one layer nearer to the source. *)
LEMMA UnwindInv ==
  ASSUME IInv, Unwind
  PROVE  IInv'
<1> USE PathSearchAssumption
<1>1. /\ pc = "unwind" /\ pc' = "unwind"
      /\ UNCHANGED <<neighbours, i, j, calls, distances, visited, path, links>>
      /\ c > 0 /\ c' = c - 1
      /\ paths' = UNION {{Append(p, n) : n \in distances[c][p[Len(p)]]} : p \in paths}
  BY DEF Unwind, request, pathfork
<1>2. LayersExact' /\ OutwardInv'
  BY <1>1, LayersUnchanged
<1>3. PICK top \in 0..MaxHops : DOMAIN distances = 0..top /\ c <= top
  BY DEF IInv, TypeOK
<1>4. TypeOK /\ c \in 1..MaxHops /\ c \in DOMAIN distances /\ c - 1 \in DOMAIN distances
  BY <1>1, <1>3 DEF IInv, TypeOK
<1>5. ASSUME NEW q \in paths'
      PROVE  q \in Seq(Artist) /\ LayeredPath(q)'
  <2>1. PICK p \in paths : \E n \in distances[c][p[Len(p)]] : q = Append(p, n)
    BY <1>1
  <2>2. PICK n \in distances[c][p[Len(p)]] : q = Append(p, n)
    BY <2>1
  <2>3. LayeredPath(p) /\ p \in Seq(Artist) /\ Len(p) \in Nat /\ Len(p) > 1
    BY <1>1 DEF IInv, BackwardInv, TypeOK, LayeredPath
  <2>4. p[Len(p)] \in Layer(c)
    <3>1. Len(p) \in 1..Len(p) /\ c + Len(p) - Len(p) = c
      BY <1>4, <2>3
    <3> QED
      BY <2>3, <3>1 DEF LayeredPath
  <2>5. n \in Layer(c-1) /\ p[Len(p)] \in neighbours[n]
    BY <1>4, <2>4 DEF IInv, LayersExact
  <2>6. n \in Artist
    BY <1>4, <2>5 DEF TypeOK
  <2>7. /\ q \in Seq(Artist) /\ Len(q) = Len(p) + 1
        /\ q[Len(p) + 1] = n
        /\ \A k \in 1..Len(p) : q[k] = p[k]
    BY <2>2, <2>3, <2>6
  <2>8. ASSUME NEW k \in 1..Len(q)
        PROVE  /\ c' + Len(q) - k \in DOMAIN distances'
               /\ q[k] \in Layer(c' + Len(q) - k)
    <3>1. c' + Len(q) - k = c + Len(p) - k
      BY <1>1, <1>4, <2>3, <2>7
    <3>2. CASE k \in 1..Len(p)
      BY <1>1, <2>3, <2>7, <3>1, <3>2 DEF LayeredPath, Layer
    <3>3. CASE k = Len(p) + 1
      <4>1. c + Len(p) - k = c - 1
        BY <1>4, <2>3, <3>3
      <4> QED
        BY <1>1, <1>4, <2>5, <2>7, <3>1, <3>3, <4>1 DEF Layer
    <3> QED
      BY <2>3, <2>7, <3>2, <3>3
  <2>9. ASSUME NEW k \in 1..(Len(q) - 1) PROVE q[k] \in neighbours'[q[k+1]]
    <3>1. CASE k \in 1..(Len(p) - 1)
      <4>1. q[k] = p[k] /\ q[k+1] = p[k+1]
        BY <2>3, <2>7, <3>1
      <4> QED
        BY <1>1, <2>3, <3>1, <4>1 DEF LayeredPath
    <3>2. CASE k = Len(p)
      BY <1>1, <2>3, <2>5, <2>7, <3>2
    <3> QED
      BY <2>3, <2>7, <3>1, <3>2
  <2>10. q[1] = j' /\ Len(q) > 1
    BY <1>1, <2>3, <2>7 DEF LayeredPath
  <2> QED
    BY <1>1, <2>7, <2>8, <2>9, <2>10 DEF LayeredPath, Layer
<1>6. TypeOK'
  <2>1. c' \in -1..MaxHops /\ c' <= top
    BY <1>1, <1>3, <1>4
  <2>2. \E t \in 0..MaxHops : DOMAIN distances' = 0..t /\ c' <= t
    BY <1>1, <1>3, <2>1
  <2> QED
    BY <1>1, <1>4, <1>5, <2>1, <2>2 DEF TypeOK, Layer
<1>7. BackwardInv'
  <2>1. c' # -1
    BY <1>1, <1>4
  <2> QED
    BY <1>1, <1>5, <2>1 DEF BackwardInv
<1> QED
  BY <1>2, <1>6, <1>7 DEF IInv

(* The paths have come down to the layer of the source. *)
LEMMA ReturnInv ==
  ASSUME IInv, Return
  PROVE  IInv'
<1>1. /\ pc = "unwind" /\ pc' \in {"nopath", "return"} /\ c <= 0
      /\ UNCHANGED <<neighbours, i, j, calls, c, distances, visited, paths, path, links>>
  BY DEF Return, request
<1>2. LayersExact' /\ OutwardInv'
  BY <1>1, LayersUnchanged
<1>3. TypeOK'
  BY <1>1 DEF IInv, TypeOK, Layer
<1>4. BackwardInv'
  BY <1>1 DEF IInv, BackwardInv, LayeredPath, Layer
<1> QED
  BY <1>2, <1>3, <1>4 DEF IInv

(* The second call of find_paths starts from nothing. *)
LEMMA CallAgainInv ==
  ASSUME IInv, CallAgain
  PROVE  IInv'
<1> USE PathSearchAssumption
<1>1. /\ pc' = "search" /\ calls' = 2 /\ c' = 0
      /\ UNCHANGED <<neighbours, i, j, path, links>>
      /\ visited' = {} /\ paths' = {}
      /\ distances' = [k \in {0} |-> [x \in {i} |-> {}]]
  BY DEF CallAgain, request, SourceLayer
<1>2. /\ DOMAIN distances' = {0}
      /\ distances'[0] = [x \in {i} |-> {}]
      /\ Layer(0)' = {i}
      /\ {0} = 0..0
  BY <1>1 DEF Layer
<1>3. TypeOK'
  BY <1>1, <1>2 DEF IInv, TypeOK, Layer
<1>4. LayersExact'
  BY <1>2 DEF LayersExact
<1>5. OutwardInv' /\ BackwardInv'
  BY <1>1, <1>2 DEF OutwardInv, BackwardInv
<1> QED
  BY <1>3, <1>4, <1>5 DEF IInv

(* One of the paths is drawn at random. *)
LEMMA ChooseInv ==
  ASSUME IInv, Choose
  PROVE  IInv'
<1>1. /\ pc = "return" /\ pc' = "found"
      /\ UNCHANGED <<neighbours, i, j, calls, c, distances, visited, paths>>
      /\ path' \in paths
      /\ links' = igrapher(path')
  BY DEF Choose, request
<1>2. LayersExact' /\ OutwardInv'
  BY <1>1, LayersUnchanged
<1>3. path' \in Seq(Artist)
  BY <1>1 DEF IInv, TypeOK
<1>4. links' \subseteq Nat \X Nat
  <2>1. 1..Len(path') \subseteq Nat
    BY <1>3
  <2> QED
    BY <1>1, <2>1 DEF igrapher
<1>5. TypeOK'
  BY <1>1, <1>3, <1>4 DEF IInv, TypeOK, Layer
<1>6. BackwardInv'
  BY <1>1 DEF IInv, BackwardInv, LayeredPath, Layer
<1> QED
  BY <1>2, <1>5, <1>6 DEF IInv

-----------------------------------------------------------------------------
(* Every step of the handler keeps the invariant. *)
LEMMA NextInv ==
  ASSUME IInv, [Next]_vars
  PROVE  IInv'
<1>1. CASE UNCHANGED vars
  <2> USE <1>1 DEF vars
  <2>1. TypeOK'
    BY DEF IInv, TypeOK, Layer
  <2>2. LayersExact'
    BY DEF IInv, LayersExact, Layer
  <2>3. OutwardInv'
    BY DEF IInv, OutwardInv, Layer
  <2>4. BackwardInv'
    BY DEF IInv, BackwardInv, LayeredPath, Layer
  <2> QED
    BY <2>1, <2>2, <2>3, <2>4 DEF IInv
<1> QED
  BY <1>1, ExtendInv, GiveUpInv, MeetInv, UnwindInv, ReturnInv, CallAgainInv,
     ChooseInv DEF Next

(* The invariant holds at all times. *)
LEMMA InvAlways == Spec => []IInv
BY InitInv, NextInv, PTL DEF Spec

(* find_paths keeps its variables in their types; in particular it never   *)
(* looks further than MaxHops layers.                                      *)
THEOREM TypeCorrect == Spec => []TypeOK
<1>1. IInv => TypeOK
  BY DEF IInv
<1> QED
  BY InvAlways, <1>1, PTL

(* The layers of find_paths are the artists at each distance from the      *)
(* source, with all their predecessors.                                    *)
THEOREM LayersAreExact == Spec => []LayersExact
<1>1. IInv => LayersExact
  BY DEF IInv
<1> QED
  BY InvAlways, <1>1, PTL

(* Every path returned, and the one shown, is a path of the artist graph   *)
(* from source to destination without repetition.                          *)
THEOREM ReturnedPathsAreReal == Spec => []PathsAreReal
<1>1. IInv => PathsAreReal
  BY LayeredIsReal DEF IInv, BackwardInv, PathsAreReal
<1> QED
  BY InvAlways, <1>1, PTL

(* The search of find_paths is sound for every graph, every pair of        *)
(* artists and every limit: the three results above together.              *)
THEOREM SearchIsSound == Spec => []SearchSound
<1>1. TypeOK /\ LayersExact /\ PathsAreReal => SearchSound
  BY DEF SearchSound
<1> QED
  BY TypeCorrect, LayersAreExact, ReturnedPathsAreReal, <1>1, PTL

-----------------------------------------------------------------------------
(* At the start there is only the layer of the source. *)
LEMMA SourceComplete ==
  ASSUME IInv, pc = "search", c = 0, visited = {}, paths = {}
  PROVE  CompleteInv
<1> USE PathSearchAssumption
<1>1. DOMAIN distances = {0} /\ Layer(0) = {i}
  BY DEF IInv, OutwardInv, Layer
<1>2. WalksStay
  <2> SUFFICES ASSUME NEW p \in [1..(0+1) -> Artist], p[0+1] \in Layer(0)
               PROVE  \E m \in 0..(0+0) : p[1] \in Layer(m)
    BY <1>1 DEF WalksStay
  <2> QED
    OBVIOUS
<1> QED
  BY <1>2 DEF CompleteInv, PathsComplete, MetFirst

(* The steps that leave the layers alone leave the walks alone. *)
LEMMA WalksStayUnchanged ==
  ASSUME WalksStay, UNCHANGED <<neighbours, distances>>
  PROVE  WalksStay'
BY DEF WalksStay, Walk, Layer

(* A walk that ends in the new layer's reach has a last hop, and the walk  *)
(* before it stays within the layers seen before.                          *)
LEMMA ExtendComplete ==
  ASSUME IInv, IInv', CompleteInv, Extend
  PROVE  CompleteInv'
<1> DEFINE NewLayer(k) == DOMAIN distances'[k]
<1> USE PathSearchAssumption
<1>1. /\ pc = "search" /\ pc' = "search"
      /\ neighbours' = neighbours /\ i' = i /\ j' = j
      /\ j \notin Layer(c)
      /\ c' = c + 1 /\ c # MaxHops
      /\ visited' = visited \cup Layer(c)
      /\ distances' = [k \in 0..(c+1) |-> IF k = c+1 THEN extend(visited') ELSE distances[k]]
  BY DEF Extend, request
<1>2. DOMAIN distances = 0..c /\ c \in 0..MaxHops
  BY <1>1 DEF IInv, OutwardInv, TypeOK
<1>3. /\ DOMAIN distances' = 0..(c+1)
      /\ \A k \in 0..c : NewLayer(k) = Layer(k)
  BY <1>1, <1>2 DEF Layer
<1>4. ASSUME NEW k \in 0..c, NEW a \in NewLayer(k), NEW b \in neighbours[a]
      PROVE  \E l \in 0..(k+1) : b \in NewLayer(l)
  <2>1. k \in DOMAIN distances' /\ k + 1 \in DOMAIN distances'
    BY <1>2, <1>3
  <2>2. LayersExact'
    BY DEF IInv
  <2>3. \A b0 \in neighbours'[a] : \E l \in 0..(k+1) : b0 \in DOMAIN distances'[l]
    BY <2>1, <2>2 DEF LayersExact, Layer
  <2> QED
    BY <1>1, <2>3
<1>5. ASSUME NEW l \in 0..(c+1), NEW n \in 0..(c+1), l + n \in 0..(c+1),
             NEW p \in [1..(n+1) -> Artist], p[n+1] \in NewLayer(l), Walk(p, n)
      PROVE  \E m \in 0..(l+n) : p[1] \in NewLayer(m)
  <2>1. CASE n = 0
    BY <1>2, <1>5, <2>1
  <2>2. CASE n # 0
    <3> DEFINE q == [k \in 1..((n-1)+1) |-> p[k+1]]
    <3>1. /\ n \in Nat /\ n - 1 \in 0..c /\ l \in 0..c /\ l + (n-1) \in 0..c
          /\ (n-1)+1 = n
      BY <1>2, <1>5, <2>2
    <3>2. q \in [1..((n-1)+1) -> Artist] /\ q[(n-1)+1] = p[n+1] /\ q[1] = p[2]
      BY <3>1, <2>2
    <3>3. Walk(q, n-1)
      <4> SUFFICES ASSUME NEW k \in 1..(n-1)
                   PROVE  q[k] \in neighbours[q[k+1]]
        BY DEF Walk
      <4>1. k + 1 \in 1..n /\ q[k] = p[k+1] /\ q[k+1] = p[k+1+1]
        BY <3>1
      <4> QED
        BY <1>5, <4>1 DEF Walk
    <3>4. q[(n-1)+1] \in Layer(l)
      BY <1>3, <1>5, <3>1, <3>2
    <3>5. PICK m \in 0..(l+(n-1)) : q[1] \in Layer(m)
      BY <1>2, <3>1, <3>2, <3>3, <3>4 DEF CompleteInv, WalksStay
    <3>6. m \in 0..c /\ p[2] \in NewLayer(m) /\ p[1] \in neighbours[p[2]]
      <4>1. 1 \in 1..n /\ 1 + 1 = 2
        BY <3>1, <2>2
      <4>2. p[1] \in neighbours[p[2]]
        BY <1>5, <4>1 DEF Walk
      <4>3. m \in 0..c
        BY <1>2, <3>1, <3>5
      <4>4. p[2] \in Layer(m)
        BY <3>2, <3>5
      <4> QED
        BY <1>3, <4>2, <4>3, <4>4
    <3>7. PICK o \in 0..(m+1) : p[1] \in NewLayer(o)
      BY <1>4, <3>6
    <3>8. o \in 0..(l+n)
      BY <1>2, <3>1, <3>5, <3>7
    <3> QED
      BY <3>7, <3>8
  <2> QED
    BY <2>1, <2>2
<1>6. WalksStay'
  <2>1. ASSUME NEW l \in 0..(c+1), NEW n \in 0..(c+1), l + n \in 0..(c+1),
               NEW p \in [1..(n+1) -> Artist], p[n+1] \in Layer(l)', Walk(p, n)'
        PROVE  \E m \in 0..(l+n) : p[1] \in Layer(m)'
    <3>1. Walk(p, n)
      BY <1>1, <2>1 DEF Walk
    <3> QED
      BY <1>5, <2>1, <3>1 DEF Layer
  <2> QED
    BY <1>3, <2>1 DEF WalksStay
<1>7. MetFirst'
  BY <1>1 DEF CompleteInv, MetFirst
<1>8. PathsComplete'
  BY <1>1 DEF PathsComplete
<1> QED
  BY <1>6, <1>7, <1>8 DEF CompleteInv

(* The last layer does not hold the destination and neither does any       *)
(* layer before it.                                                        *)
LEMMA GiveUpComplete ==
  ASSUME IInv, CompleteInv, GiveUp
  PROVE  CompleteInv'
<1> USE PathSearchAssumption
<1>1. /\ pc = "search" /\ pc' = "nopath" /\ c = MaxHops /\ j \notin Layer(c)
      /\ UNCHANGED <<neighbours, i, j, calls, c, distances, visited, paths, path, links>>
  BY DEF GiveUp, request
<1>2. /\ DOMAIN distances = 0..c /\ c \in 0..MaxHops
      /\ visited = UNION {Layer(k) : k \in 0..(c-1)}
      /\ j \notin visited
  BY <1>1 DEF IInv, OutwardInv, TypeOK, CompleteInv, MetFirst
<1>3. \A k \in 0..MaxHops : j \notin Layer(k)
  <2> SUFFICES ASSUME NEW k \in 0..MaxHops, j \in Layer(k) PROVE FALSE
    OBVIOUS
  <2>1. k \in 0..(c-1)
    BY <1>1, <1>2
  <2> QED
    BY <1>2, <2>1
<1>4. MetFirst'
  BY <1>1, <1>2, <1>3 DEF MetFirst, Layer
<1>5. WalksStay' /\ PathsComplete'
  BY <1>1, WalksStayUnchanged DEF CompleteInv, PathsComplete
<1> QED
  BY <1>4, <1>5 DEF CompleteInv

(* Every predecessor of the destination starts a path. *)
LEMMA MeetComplete ==
  ASSUME IInv, CompleteInv, Meet
  PROVE  CompleteInv'
<1> USE PathSearchAssumption
<1>1. /\ pc = "search" /\ pc' = "unwind"
      /\ UNCHANGED <<neighbours, i, j, calls, distances, visited, path, links>>
      /\ j \in Layer(c) /\ c' = c - 1
      /\ paths' = {<<j, a>> : a \in distances[c][j]}
  BY DEF Meet, request
<1>2. DOMAIN distances = 0..c /\ c \in 0..MaxHops
  BY <1>1 DEF IInv, OutwardInv, TypeOK
<1>3. WalksStay'
  BY <1>1, WalksStayUnchanged DEF CompleteInv
<1>4. MetFirst'
  <2>1. c' < 0 => c = 0
    BY <1>1, <1>2
  <2>2. Layer(0) = {i}
    BY DEF IInv, OutwardInv, Layer
  <2> QED
    BY <1>1, <2>1, <2>2 DEF MetFirst
<1>5. PathsComplete'
  <2> SUFFICES ASSUME c' >= 0 PROVE PathsComplete'
    BY DEF PathsComplete
  <2>1. PICK top \in Nat : top = c
    BY <1>2
  <2>2. /\ top > 0 /\ top - 1 \in DOMAIN distances /\ top \in DOMAIN distances
        /\ c' = top - 1
    BY <1>1, <1>2, <2>1
  <2>3. /\ distances[top][j] # {}
        /\ distances[top][j] = {a \in Layer(top-1) : j \in neighbours[a]}
    BY <1>1, <2>1, <2>2 DEF IInv, LayersExact
  <2>4. ASSUME NEW p \in [1..(top-c'+1) -> Artist], Descends(p, top)'
        PROVE  p \in paths'
    <3>1. top - c' + 1 = 2 /\ top - c' = 1 /\ top+1-2 = top-1
      BY <2>2
    <3>2. p[1] = j /\ p[1] \in neighbours[p[2]] /\ p[2] \in Layer(top-1)
      <4>1. 1 \in 1..(top - c') /\ 2 \in 1..(top-c'+1) /\ 1 + 1 = 2
        BY <3>1
      <4>2. p[1] = j' /\ Walk(p, top - c)' /\ p[2] \in Layer(top+1-2)'
        BY <2>4, <4>1 DEF Descends
      <4>3. p[1] \in neighbours'[p[2]]
        BY <4>1, <4>2 DEF Walk
      <4> QED
        BY <1>1, <3>1, <4>2, <4>3 DEF Layer
    <3>3. p[2] \in distances[c][j]
      BY <2>1, <2>3, <3>2
    <3>4. p = <<j, p[2]>>
      BY <3>1, <3>2
    <3> QED
      BY <1>1, <3>3, <3>4
  <2>5. j' \in Layer(top)'
    BY <1>1, <2>1 DEF Layer
  <2>6. paths' # {}
    <3>1. PICK a : a \in distances[c][j]
      BY <2>1, <2>3
    <3> QED
      BY <1>1, <3>1
  <2>7. DOMAIN distances' = 0..top /\ c' < top /\ top \in DOMAIN distances'
    BY <1>1, <1>2, <2>1, <2>2
  <2> QED
    BY <2>4, <2>5, <2>6, <2>7 DEF PathsComplete
<1> QED
  BY <1>3, <1>4, <1>5 DEF CompleteInv

(* Every predecessor of a path's last artist prolongs it. *)
LEMMA UnwindComplete ==
  ASSUME IInv, CompleteInv, Unwind
  PROVE  CompleteInv'
<1> USE PathSearchAssumption
<1>1. /\ pc = "unwind" /\ pc' = "unwind"
      /\ UNCHANGED <<neighbours, i, j, calls, distances, visited, path, links>>
      /\ c > 0 /\ c' = c - 1
      /\ paths' = UNION {{Append(p, n) : n \in distances[c][p[Len(p)]]} : p \in paths}
  BY DEF Unwind, request, pathfork
<1>2. c \in Nat
  BY <1>1 DEF IInv, TypeOK
<1>3. PICK top \in DOMAIN distances :
        /\ DOMAIN distances = 0..top
        /\ c < top
        /\ j \in Layer(top)
        /\ paths # {}
        /\ \A p \in [1..(top-c+1) -> Artist] : Descends(p, top) => p \in paths
  BY <1>1, <1>2 DEF CompleteInv, PathsComplete
<1>4. top \in Nat /\ c \in DOMAIN distances /\ c - 1 \in DOMAIN distances
  <2>1. PICK t \in 0..MaxHops : DOMAIN distances = 0..t
    BY DEF IInv, TypeOK
  <2> QED
    BY <1>1, <1>2, <1>3, <2>1
<1>5. ASSUME NEW b \in Layer(c)
      PROVE  /\ distances[c][b] # {}
             /\ distances[c][b] = {a \in Layer(c-1) : b \in neighbours[a]}
  BY <1>1, <1>4 DEF IInv, LayersExact
<1>6. \A p \in paths : \A n \in distances[c][p[Len(p)]] : Append(p, n) \in paths'
  BY <1>1
<1>7. ASSUME NEW q \in [1..(top-c'+1) -> Artist], Descends(q, top)'
      PROVE  q \in paths'
  <2> DEFINE L == top - c + 1
             p == [k \in 1..L |-> q[k]]
  <2>1. /\ L \in Nat /\ L > 1 /\ top - c' + 1 = L + 1
        /\ top - c' = L /\ top - c = L - 1
        /\ top + 1 - L = c /\ top + 1 - (L + 1) = c - 1
    BY <1>1, <1>2, <1>3, <1>4
  <2> HIDE DEF L
  <2>2. /\ q[1] = j
        /\ \A k \in 1..L : q[k] \in neighbours[q[k+1]]
        /\ \A k \in 1..(L+1) : q[k] \in Layer(top+1-k)
    BY <1>1, <1>7, <2>1 DEF Descends, Walk, Layer
  <2>3. p \in [1..L -> Artist] /\ \A k \in 1..L : p[k] = q[k]
    BY <1>7, <2>1
  <2>4. p \in paths
    <3>1. Walk(p, top - c)
      BY <2>1, <2>2, <2>3 DEF Walk
    <3>2. \A k \in 1..(top-c+1) : p[k] \in Layer(top+1-k)
      BY <2>1, <2>2, <2>3 DEF L
    <3>3. p[1] = j
      BY <2>1, <2>2, <2>3
    <3>4. Descends(p, top)
      BY <3>1, <3>2, <3>3 DEF Descends
    <3> QED
      BY <1>3, <2>3, <3>4 DEF L
  <2>5. Len(p) = L /\ p[Len(p)] = q[L] /\ p \in Seq(Artist)
    BY <2>1, <2>3
  <2>6. q[L] \in Layer(c) /\ q[L+1] \in Layer(c-1) /\ q[L] \in neighbours[q[L+1]]
    BY <2>1, <2>2
  <2>7. q[L+1] \in distances[c][p[Len(p)]]
    BY <1>5, <2>5, <2>6
  <2>8. q = Append(p, q[L+1])
    <3> HIDE DEF p
    <3>1. q[L+1] \in Artist
      BY <1>7, <2>1
    <3>2. /\ Append(p, q[L+1]) \in Seq(Artist)
          /\ Len(Append(p, q[L+1])) = L + 1
          /\ \A k \in 1..L : Append(p, q[L+1])[k] = p[k]
          /\ Append(p, q[L+1])[L+1] = q[L+1]
      BY <2>1, <2>5, <3>1
    <3>3. \A k \in 1..(L+1) : Append(p, q[L+1])[k] = q[k]
      BY <2>1, <2>3, <3>2
    <3>4. q \in [1..(L+1) -> Artist]
      BY <1>7, <2>1
    <3> QED
      BY <3>2, <3>3, <3>4
  <2> QED
    BY <1>6, <2>4, <2>7, <2>8
<1>8. paths' # {}
  <2>1. PICK p \in paths : TRUE
    BY <1>3
  <2>2. LayeredPath(p) /\ p \in Seq(Artist) /\ Len(p) \in Nat /\ Len(p) > 1
    BY <1>1, <2>1 DEF IInv, BackwardInv, TypeOK, LayeredPath
  <2>3. p[Len(p)] \in Layer(c)
    <3>1. Len(p) \in 1..Len(p) /\ c + Len(p) - Len(p) = c
      BY <1>2, <2>2
    <3> QED
      BY <2>2, <3>1 DEF LayeredPath
  <2>4. PICK n : n \in distances[c][p[Len(p)]]
    BY <1>5, <2>3
  <2> QED
    BY <1>6, <2>1, <2>4
<1>9. PathsComplete'
  <2>1. c' < top /\ j' \in Layer(top)' /\ top \in DOMAIN distances' /\ DOMAIN distances' = 0..top
    BY <1>1, <1>2, <1>3, <1>4 DEF Layer
  <2> QED
    BY <1>7, <1>8, <2>1 DEF PathsComplete
<1>10. MetFirst'
  BY <1>1, <1>2 DEF MetFirst
<1> QED
  BY <1>1, <1>9, <1>10, WalksStayUnchanged DEF CompleteInv

(* Only a search for the artist itself comes back without a path. *)
LEMMA ReturnComplete ==
  ASSUME IInv, CompleteInv, Return
  PROVE  CompleteInv'
<1>1. /\ pc = "unwind" /\ c <= 0
      /\ pc' = IF paths = {} THEN "nopath" ELSE "return"
      /\ UNCHANGED <<neighbours, i, j, calls, c, distances, visited, paths, path, links>>
  BY DEF Return, request
<1>2. c = 0 \/ c = -1
  BY <1>1, PathSearchAssumption DEF IInv, TypeOK
<1>3. c = 0 => paths # {}
  BY <1>1 DEF CompleteInv, PathsComplete
<1>4. c = -1 => paths = {} /\ i = j
  BY <1>1 DEF IInv, BackwardInv, CompleteInv, MetFirst
<1>5. MetFirst'
  BY <1>1, <1>2, <1>3, <1>4 DEF MetFirst
<1>6. PathsComplete'
  BY <1>1 DEF CompleteInv, PathsComplete, Descends, Walk, Layer
<1> QED
  BY <1>1, <1>5, <1>6, WalksStayUnchanged DEF CompleteInv

(* Drawing a path changes nothing of the search. *)
LEMMA ChooseComplete ==
  ASSUME IInv, CompleteInv, Choose
  PROVE  CompleteInv'
<1>1. /\ pc = "return" /\ pc' = "found"
      /\ UNCHANGED <<neighbours, i, j, calls, c, distances, visited, paths>>
  BY DEF Choose, request
<1>2. MetFirst'
  BY <1>1 DEF CompleteInv, MetFirst
<1>3. PathsComplete'
  BY <1>1 DEF CompleteInv, PathsComplete, Descends, Walk, Layer
<1> QED
  BY <1>1, <1>2, <1>3, WalksStayUnchanged DEF CompleteInv

(* Every step of the handler keeps the second invariant as well. *)
LEMMA NextComplete ==
  ASSUME IInv, IInv', CompleteInv, [Next]_vars
  PROVE  CompleteInv'
<1>1. CASE UNCHANGED vars
  <2>1. MetFirst'
    BY <1>1 DEF vars, CompleteInv, MetFirst, Layer
  <2>2. PathsComplete'
    BY <1>1 DEF vars, CompleteInv, PathsComplete, Descends, Walk, Layer
  <2>3. WalksStay'
    BY <1>1, WalksStayUnchanged DEF vars, CompleteInv
  <2> QED
    BY <2>1, <2>2, <2>3 DEF CompleteInv
<1>2. CASE CallAgain
  <2>1. (pc = "search" /\ c = 0 /\ visited = {} /\ paths = {})'
    BY <1>2 DEF CallAgain
  <2>2. (IInv /\ pc = "search" /\ c = 0 /\ visited = {} /\ paths = {} => CompleteInv)'
    BY SourceComplete, PTL
  <2> QED
    BY <2>1, <2>2
<1> QED
  BY <1>1, <1>2, ExtendComplete, GiveUpComplete, MeetComplete, UnwindComplete,
     ReturnComplete, ChooseComplete DEF Next

(* The second invariant holds at all times. *)
LEMMA CompleteAlways == Spec => [](IInv /\ CompleteInv)
<1>1. Init => CompleteInv
  BY InitInv, SourceComplete DEF Init
<1> QED
  BY InvAlways, <1>1, NextComplete, PTL DEF Spec

(* A route of n hops ends in layer n at the latest. *)
LEMMA RouteStays ==
  ASSUME IInv, CompleteInv, NEW n \in DOMAIN distances, NEW p \in Routes(n)
  PROVE  \E m \in 0..n : j \in Layer(m)
<1>1. 0 \in DOMAIN distances /\ n \in Nat
  BY PathSearchAssumption DEF IInv, TypeOK
<1>2. p \in [1..(n+1) -> Artist] /\ p[1] = j /\ p[n+1] \in Layer(0) /\ Walk(p, n)
  BY DEF Routes, IInv, OutwardInv, Layer
<1>3. 0 + n = n
  BY <1>1
<1> QED
  BY <1>1, <1>2, <1>3 DEF CompleteInv, WalksStay

(* A route as long as the destination is far goes down layer by layer: the *)
(* part before an artist cannot be shortened, nor can the part after it.   *)
LEMMA RouteDescends ==
  ASSUME IInv, CompleteInv, NEW top \in DOMAIN distances, j \in Layer(top),
         NEW p \in Routes(top), NEW k \in 1..(top+1)
  PROVE  p[k] \in Layer(top+1-k)
<1>1. /\ top \in Nat /\ k \in Nat /\ k >= 1 /\ k <= top + 1
      /\ DOMAIN distances \subseteq Nat
      /\ \A x \in 0..top : x \in DOMAIN distances
  BY PathSearchAssumption DEF IInv, TypeOK
<1>2. p \in [1..(top+1) -> Artist] /\ p[1] = j /\ p[top+1] \in Layer(0) /\ Walk(p, top)
  BY DEF Routes, IInv, OutwardInv, Layer
<1> DEFINE n == top + 1 - k
           after == [x \in 1..(n+1) |-> p[k-1+x]]
           before == [x \in 1..((k-1)+1) |-> p[x]]
<1>3. n \in 0..top /\ k - 1 \in 0..top
  BY <1>1
<1>4. PICK m \in 0..(0+n) : p[k] \in Layer(m)
  <2>1. after \in [1..(n+1) -> Artist] /\ after[1] = p[k] /\ after[n+1] = p[top+1]
    BY <1>1, <1>2, <1>3
  <2>2. Walk(after, n)
    <3> SUFFICES ASSUME NEW x \in 1..n PROVE after[x] \in neighbours[after[x+1]]
      BY DEF Walk
    <3>1. k-1+x \in 1..top /\ k-1+(x+1) = (k-1+x)+1
      BY <1>1, <1>3
    <3>2. after[x] = p[k-1+x] /\ after[x+1] = p[(k-1+x)+1]
      BY <1>1, <1>3, <3>1
    <3> QED
      BY <1>2, <3>1, <3>2 DEF Walk
  <2>3. 0 \in DOMAIN distances /\ n \in DOMAIN distances /\ 0 + n \in DOMAIN distances
    BY <1>1, <1>3
  <2> HIDE DEF after, n
  <2> QED
    BY <1>2, <2>1, <2>2, <2>3 DEF CompleteInv, WalksStay
<1>5. m \in 0..top /\ m + (k-1) \in 0..top
  BY <1>1, <1>3, <1>4
<1>6. PICK o \in 0..(m+(k-1)) : p[1] \in Layer(o)
  <2>1. before \in [1..((k-1)+1) -> Artist] /\ before[1] = p[1] /\ before[(k-1)+1] = p[k]
    BY <1>1, <1>2
  <2>2. Walk(before, k-1)
    <3> SUFFICES ASSUME NEW x \in 1..(k-1) PROVE before[x] \in neighbours[before[x+1]]
      BY DEF Walk
    <3>1. x \in 1..top /\ before[x] = p[x] /\ before[x+1] = p[x+1]
      BY <1>1
    <3> QED
      BY <1>2, <3>1 DEF Walk
  <2>3. m \in DOMAIN distances /\ k-1 \in DOMAIN distances /\ m + (k-1) \in DOMAIN distances
    BY <1>1, <1>3, <1>5
  <2> HIDE DEF before
  <2> QED
    BY <1>4, <2>1, <2>2, <2>3 DEF CompleteInv, WalksStay
<1>7. o = top
  <2>1. o \in DOMAIN distances
    BY <1>1, <1>5, <1>6
  <2> QED
    BY <1>2, <1>6, <2>1 DEF IInv, LayersExact
<1>8. m = top + 1 - k
  BY <1>1, <1>3, <1>4, <1>5, <1>6, <1>7
<1> QED
  BY <1>4, <1>8

(* What find_paths returns is all the routes of the least number of hops. *)
LEMMA ReturnsAllShortest ==
  ASSUME IInv, CompleteInv
  PROVE  AllShortestPaths
<1> SUFFICES ASSUME pc \in {"return", "found"}
             PROVE  \E n \in 1..MaxHops :
                      /\ paths = Routes(n)
                      /\ paths # {}
                      /\ \A m \in 0..(n-1) : Routes(m) = {}
  BY DEF AllShortestPaths
<1>1. c = 0
  BY DEF CompleteInv, MetFirst
<1>2. PICK top \in DOMAIN distances :
        /\ DOMAIN distances = 0..top
        /\ 0 < top
        /\ j \in Layer(top)
        /\ paths # {}
        /\ \A p \in [1..(top-c+1) -> Artist] : Descends(p, top) => p \in paths
  BY <1>1 DEF CompleteInv, PathsComplete
<1>3. top \in 1..MaxHops /\ top \in Nat
  <2>1. PICK t \in 0..MaxHops : DOMAIN distances = 0..t
    BY DEF IInv, TypeOK
  <2>2. top \in 0..t
    BY <1>2, <2>1
  <2> QED
    BY <1>2, <2>1, <2>2, PathSearchAssumption
<1>4. top - c + 1 = top + 1 /\ top - c = top
  BY <1>1, <1>3
<1>5. ASSUME NEW p \in paths PROVE p \in Routes(top)
  <2>1. LayeredPath(p) /\ p \in Seq(Artist) /\ Len(p) \in Nat /\ RealPath(p)
    BY LayeredIsReal DEF IInv, BackwardInv, TypeOK
  <2>2. Len(p) - 1 = top
    <3>1. 1 \in 1..Len(p) /\ c + Len(p) - 1 = Len(p) - 1
      BY <1>1, <2>1 DEF LayeredPath
    <3>2. Len(p) - 1 \in DOMAIN distances /\ j \in Layer(Len(p) - 1)
      BY <2>1, <3>1 DEF LayeredPath
    <3> QED
      BY <1>2, <3>2 DEF IInv, LayersExact
  <2>3. Len(p) = top + 1
    BY <1>3, <2>1, <2>2
  <2>4. Walk(p, top)
    BY <2>1, <2>2 DEF RealPath, Walk
  <2>5. p \in [1..(top+1) -> Artist] /\ p[1] = j /\ p[top+1] = i
    BY <2>1, <2>3 DEF RealPath
  <2> QED
    BY <2>4, <2>5 DEF Routes
<1>6. ASSUME NEW p \in Routes(top) PROVE p \in paths
  <2>1. \A k \in 1..(top+1) : p[k] \in Layer(top+1-k)
    BY <1>2, RouteDescends
  <2>2. p \in [1..(top+1) -> Artist] /\ p[1] = j /\ Walk(p, top)
    BY DEF Routes
  <2>3. Descends(p, top)
    BY <1>4, <2>1, <2>2 DEF Descends
  <2> QED
    BY <1>2, <1>4, <2>2, <2>3
<1>7. ASSUME NEW m \in 0..(top-1), NEW p \in Routes(m) PROVE FALSE
  <2>1. m \in DOMAIN distances
    BY <1>2, <1>3
  <2>2. PICK o \in 0..m : j \in Layer(o)
    BY <2>1, RouteStays
  <2>3. o \in DOMAIN distances /\ o # top
    BY <1>2, <1>3, <2>2
  <2> QED
    BY <1>2, <2>2, <2>3 DEF IInv, LayersExact
<1>8. paths = Routes(top)
  BY <1>5, <1>6
<1>9. \A m \in 0..(top-1) : Routes(m) = {}
  BY <1>7
<1> QED
  BY <1>2, <1>3, <1>8, <1>9

(* "No path found." is said of an artist and itself or of artists that are *)
(* more than MaxHops apart.                                                *)
LEMMA RefusesOnlyTooFar ==
  ASSUME IInv, CompleteInv
  PROVE  NoPathOnlyIfTooFar
<1> SUFFICES ASSUME pc = "nopath", i # j, NEW n \in 0..MaxHops, NEW p \in Routes(n)
             PROVE  FALSE
  BY DEF NoPathOnlyIfTooFar
<1>1. DOMAIN distances = 0..MaxHops /\ \A k \in 0..MaxHops : j \notin Layer(k)
  BY DEF CompleteInv, MetFirst
<1>2. PICK m \in 0..n : j \in Layer(m)
  BY <1>1, RouteStays
<1> QED
  BY <1>1, <1>2, PathSearchAssumption

(* find_paths misses nothing, for every graph, every pair of artists and   *)
(* every limit: it returns exactly the shortest routes, and it refuses     *)
(* only what is further than the limit.                                    *)
THEOREM SearchIsComplete == Spec => []SearchComplete
<1>1. IInv /\ CompleteInv => SearchComplete
  BY ReturnsAllShortest, RefusesOnlyTooFar DEF SearchComplete
<1> QED
  BY CompleteAlways, <1>1, PTL

-----------------------------------------------------------------------------
(* A link of the answer joins artists that follow each other on the path:  *)
(* the graph has no direction, so a link over more would be a shortcut.    *)
LEMMA LinksAreSteps ==
  ASSUME IInv, CompleteInv, LayoutInv, pc = "found",
         NEW a, NEW b, <<a, b>> \in links
  PROVE  a \in 1..Len(path) /\ b = a + 1
<1>1. /\ a \in 1..Len(path) /\ b \in 1..Len(path) /\ a < b
      /\ path[b] \in neighbours[path[a]]
  BY DEF LayoutInv, igrapher
<1>2. /\ path \in Seq(Artist) /\ Len(path) \in Nat /\ LayeredPath(path)
      /\ c = 0 /\ neighbours \in Graphs
  BY DEF IInv, TypeOK, BackwardInv, CompleteInv, MetFirst, LayoutInv
<1>3. path[a] \in neighbours[path[b]]
  <2>1. path[a] \in Artist /\ path[b] \in Artist
    BY <1>1, <1>2
  <2> QED
    BY <1>1, <1>2, <2>1, LayoutAssumption
<1>4. /\ Len(path) - a \in DOMAIN distances /\ path[a] \in Layer(Len(path) - a)
      /\ Len(path) - b \in DOMAIN distances /\ path[b] \in Layer(Len(path) - b)
  <2>1. c + Len(path) - a = Len(path) - a /\ c + Len(path) - b = Len(path) - b
    BY <1>1, <1>2
  <2> QED
    BY <1>1, <1>2, <2>1 DEF LayeredPath
<1>5. PICK top \in Nat : DOMAIN distances = 0..top
  BY PathSearchAssumption DEF IInv, TypeOK
<1>6. (Len(path) - b) + 1 \in DOMAIN distances
  BY <1>1, <1>2, <1>4, <1>5
<1>7. PICK l \in 0..((Len(path) - b) + 1) : path[a] \in Layer(l)
  BY <1>3, <1>4, <1>6 DEF IInv, LayersExact
<1>8. l = Len(path) - a
  <2>1. l \in DOMAIN distances
    BY <1>1, <1>2, <1>5, <1>6, <1>7
  <2> QED
    BY <1>4, <1>7, <2>1 DEF IInv, LayersExact
<1> QED
  BY <1>1, <1>2, <1>7, <1>8

(* Before the answer there is no order. *)
LEMMA LayoutStarts == LayoutInit => LayoutInv
BY DEF LayoutInit, Init, LayoutInv, OrderIsPath

(* The steps of the handler: the order is empty until the answer is there. *)
LEMMA SearchKeepsLayout ==
  ASSUME IInv, LayoutInv, Search
  PROVE  LayoutInv'
<1>1. pathOrder' = pathOrder /\ neighbours' = neighbours /\ Next
  BY DEF Search, Next, Extend, GiveUp, Meet, Unwind, Return, CallAgain, Choose, request
<1>2. pc # "found"
  BY <1>1 DEF Next, Extend, GiveUp, Meet, Unwind, Return, CallAgain, Choose
<1>3. pathOrder' = <<>>
  BY <1>1, <1>2 DEF LayoutInv
<1>4. pc' = "found" => links' = igrapher(path)'
  <2>1. CASE Choose
    BY <2>1 DEF Choose, igrapher, request
  <2>2. CASE ~Choose
    BY <1>1, <1>2, <2>2 DEF Next, Extend, GiveUp, Meet, Unwind, Return, CallAgain
  <2> QED
    BY <2>1, <2>2
<1> QED
  BY <1>1, <1>3, <1>4 DEF LayoutInv, OrderIsPath

(* The source is the last artist of the path and no other. *)
LEMMA PlaceSourceLayout ==
  ASSUME IInv, LayoutInv, PlaceSource
  PROVE  LayoutInv'
<1>1. PICK m \in 1..Len(path) : path[m] = i /\ pathOrder' = <<m>>
  BY DEF PlaceSource
<1>2. pc = "found" /\ UNCHANGED <<neighbours, path, links, pc>>
  BY DEF PlaceSource, vars
<1>3. RealPath(path) /\ Len(path) \in Nat
  BY <1>2, LayeredIsReal DEF IInv, BackwardInv, TypeOK
<1>4. m = Len(path)
  <2>1. Len(path) \in 1..Len(path) /\ path[m] = path[Len(path)]
    BY <1>1, <1>3 DEF RealPath
  <2> QED
    BY <1>3, <2>1 DEF RealPath
<1>5. OrderIsPath'
  BY <1>1, <1>2, <1>3, <1>4 DEF OrderIsPath
<1>6. pathOrder' \in Seq(1..Len(path'))
  BY <1>1, <1>2
<1> QED
  BY <1>2, <1>5, <1>6 DEF LayoutInv, igrapher

(* One link leads on from the last artist placed, to the one before it on  *)
(* the path.                                                               *)
LEMMA PlaceNextLayout ==
  ASSUME IInv, CompleteInv, LayoutInv, PlaceNext
  PROVE  LayoutInv'
<1>1. PICK m \in NextCandidates : pathOrder' = Append(pathOrder, m)
  BY DEF PlaceNext
<1>2. /\ pc = "found" /\ UNCHANGED <<neighbours, path, links, pc>>
      /\ pathOrder # <<>> /\ Len(pathOrder) < Len(path)
  BY DEF PlaceNext, vars
<1>3. /\ pathOrder \in Seq(1..Len(path)) /\ Len(pathOrder) \in Nat /\ Len(pathOrder) > 0
      /\ Len(path) \in Nat
      /\ \A k \in 1..Len(pathOrder) : pathOrder[k] = Len(path) + 1 - k
  BY <1>2 DEF LayoutInv, OrderIsPath, IInv, TypeOK
<1> DEFINE L == Len(path)
           n == Len(pathOrder)
<1>4. Last = L + 1 - n
  BY <1>3 DEF Last
<1>5. m \in 1..L /\ m \notin Placed /\ (<<Last, m>> \in links \/ <<m, Last>> \in links)
  BY <1>1 DEF NextCandidates
<1>6. m = Last + 1 \/ Last = m + 1
  BY <1>2, <1>5, LinksAreSteps
<1>7. m # Last + 1
  <2> SUFFICES ASSUME m = Last + 1 PROVE m \in Placed
    BY <1>5
  <2>1. n - 1 \in 1..n
    BY <1>3, <1>4, <1>5
  <2>2. pathOrder[n-1] = m
    BY <1>3, <1>4, <2>1
  <2> QED
    BY <2>1, <2>2 DEF Placed
<1>8. m = L + 1 - (n + 1)
  BY <1>3, <1>4, <1>5, <1>6, <1>7
<1>9. /\ pathOrder' \in Seq(1..L) /\ Len(pathOrder') = n + 1
      /\ pathOrder'[n+1] = m
      /\ \A k \in 1..n : pathOrder'[k] = pathOrder[k]
  BY <1>1, <1>3, <1>5
<1>10. ASSUME NEW k \in 1..Len(pathOrder') PROVE pathOrder'[k] = L + 1 - k
  <2>1. CASE k = n + 1
    BY <1>8, <1>9, <2>1
  <2>2. CASE k \in 1..n
    BY <1>3, <1>9, <2>2
  <2> QED
    BY <1>3, <1>9, <2>1, <2>2
<1>11. OrderIsPath'
  BY <1>2, <1>10 DEF OrderIsPath
<1> QED
  BY <1>2, <1>9, <1>11 DEF LayoutInv, igrapher

(* Every step of the server and of the browser keeps the invariant. *)
LEMMA LayoutNextInv ==
  ASSUME IInv, CompleteInv, LayoutInv, [LayoutNext]_layoutVars
  PROVE  LayoutInv'
<1>1. CASE UNCHANGED <<vars, pathOrder>>
  BY <1>1 DEF vars, LayoutInv, OrderIsPath, igrapher
<1> QED
  BY <1>1, SearchKeepsLayout, PlaceSourceLayout, PlaceNextLayout
     DEF LayoutNext, AllPlaced, Finished, layoutVars

(* The browser takes no part in the search. *)
LEMMA SearchGoesOn ==
  ASSUME [LayoutNext]_layoutVars
  PROVE  [Next]_vars
BY DEF LayoutNext, layoutVars, Search, PlaceSource, PlaceNext, AllPlaced, Finished

(* The browser draws every path in its order, for every undirected artist  *)
(* graph: the order it finds again from the links is the order of the path. *)
THEOREM LayoutFollowsPath == LayoutSpec => []OrderIsPath
<1>1. LayoutInit => IInv /\ CompleteInv /\ LayoutInv
  BY InitInv, SourceComplete, LayoutStarts DEF LayoutInit, Init
<1>2. ASSUME IInv, CompleteInv, LayoutInv, [LayoutNext]_layoutVars
      PROVE  IInv' /\ CompleteInv' /\ LayoutInv'
  BY <1>2, SearchGoesOn, NextInv, NextComplete, LayoutNextInv
<1>3. LayoutInv => OrderIsPath
  BY DEF LayoutInv
<1> QED
  BY <1>1, <1>2, <1>3, PTL DEF LayoutSpec
=============================================================================

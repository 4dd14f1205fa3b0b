----------------------------- MODULE PathSearch -----------------------------
(***************************************************************************)
(* The handler of the route /path (app.py, path_finder) with what it       *)
(* calls: find_paths, which goes out from the source layer by layer        *)
(* (extend) until it meets the destination and then unwinds every shortest *)
(* path back to the source (pathfork), and igrapher, which links the       *)
(* artists of the path that is drawn.                                      *)
(*                                                                         *)
(* One behaviour is one request.  The artist graph is read only, so Init   *)
(* chooses it.  Every iteration of a loop of find_paths is one action.     *)
(***************************************************************************)
EXTENDS Integers, Sequences, FiniteSets

CONSTANTS
  Artist,   \* artist ids
  Graphs,   \* the artist graphs considered: artist.neighbours:<a>
  MaxHops   \* 8 in find_paths: the last layer looked at

ASSUME PathSearchAssumption ==
  /\ IsFiniteSet(Artist)
  /\ Graphs \subseteq [Artist -> SUBSET Artist]
  /\ MaxHops \in Nat

VARIABLES
  neighbours,  \* the artist graph
  i, j,        \* source and destination of the query
  pc,          \* "search", "unwind", "return", "found" or "nopath"
  calls,       \* calls of find_paths that path_finder has made
  c,           \* the layer find_paths is at
  distances,   \* layer -> artist of that layer -> its predecessors
  visited,     \* artists of the layers before c
  paths,       \* the paths found so far, from j backwards
  path,        \* the path drawn at random, <<>> until then
  links        \* the pairs of positions of path that igrapher links

vars == <<neighbours, i, j, pc, calls, c, distances, visited, paths, path, links>>

request == <<neighbours, i, j>>

-----------------------------------------------------------------------------
Layer(k) == DOMAIN distances[k]

(* The layer after c: the unvisited neighbours of layer c, each with the   *)
(* artists of layer c it was found from.                                   *)
extend(seen) ==
  [b \in (UNION {neighbours[a] : a \in Layer(c)}) \ seen |->
     {a \in Layer(c) : b \in neighbours[a]}]

(* Each path goes on to every predecessor of its last artist. *)
\* Faulty variant: only one predecessor.
pathforkFirst(ps) ==
  {Append(p, CHOOSE n \in Layer(c-1) : n \in distances[c][p[Len(p)]]) : p \in ps}

pathfork(ps) ==
  UNION {{Append(p, n) : n \in distances[c][p[Len(p)]]} : p \in ps}

(* The pairs of positions whose artists have a track in common, which is   *)
(* what makes two artists neighbours.                                      *)
igrapher(vertices) ==
  {pair \in (1..Len(vertices)) \X (1..Len(vertices)) :
     /\ pair[1] < pair[2]
     /\ vertices[pair[2]] \in neighbours[vertices[pair[1]]]}

-----------------------------------------------------------------------------
SourceLayer == [k \in {0} |-> [x \in {i} |-> {}]]

Init ==
  /\ neighbours \in Graphs
  /\ i \in Artist
  /\ j \in Artist
  /\ pc = "search"
  /\ calls = 1
  /\ c = 0
  /\ distances = SourceLayer
  /\ visited = {}
  /\ paths = {}
  /\ path = <<>>
  /\ links = {}

(* The destination is not in layer c: look one layer further. *)
\* Faulty variant: visited lags a layer behind.
ExtendLate ==
  /\ pc = "search"
  /\ j \notin Layer(c)
  /\ c # MaxHops
  /\ visited' = visited \cup Layer(c)
  /\ distances' = [k \in 0..(c+1) |-> IF k = c+1 THEN extend(visited) ELSE distances[k]]
  /\ c' = c + 1
  /\ UNCHANGED <<request, pc, calls, paths, path, links>>

Extend ==
  /\ pc = "search"
  /\ j \notin Layer(c)
  /\ c # MaxHops
  /\ visited' = visited \cup Layer(c)
  /\ distances' = [k \in 0..(c+1) |-> IF k = c+1 THEN extend(visited') ELSE distances[k]]
  /\ c' = c + 1
  /\ UNCHANGED <<request, pc, calls, paths, path, links>>

(* find_paths returns None. *)
GiveUp ==
  /\ pc = "search"
  /\ j \notin Layer(c)
  /\ c = MaxHops
  /\ pc' = "nopath"
  /\ UNCHANGED <<request, calls, c, distances, visited, paths, path, links>>

(* The destination is in layer c. *)
Meet ==
  /\ pc = "search"
  /\ j \in Layer(c)
  /\ paths' = {<<j, a>> : a \in distances[c][j]}
  /\ c' = c - 1
  /\ pc' = "unwind"
  /\ UNCHANGED <<request, calls, distances, visited, path, links>>

Unwind ==
  /\ pc = "unwind"
  /\ c > 0
  /\ paths' = pathfork(paths)
  /\ c' = c - 1
  /\ UNCHANGED <<request, pc, calls, distances, visited, path, links>>

(* find_paths returns a list; the empty one counts as no path. *)
Return ==
  /\ pc = "unwind"
  /\ c <= 0
  /\ pc' = IF paths = {} THEN "nopath" ELSE "return"
  /\ UNCHANGED <<request, calls, c, distances, visited, paths, path, links>>

(* path_finder calls find_paths a second time for the list it draws from. *)
\* Faulty variant: the list is asked for again and again.
CallAgainAlways ==
  /\ pc = "return"
  /\ calls = 1
  /\ pc' = "search"
  /\ c' = 0
  /\ distances' = SourceLayer
  /\ visited' = {}
  /\ paths' = {}
  /\ UNCHANGED <<request, calls, path, links>>

CallAgain ==
  /\ pc = "return"
  /\ calls = 1
  /\ calls' = 2
  /\ pc' = "search"
  /\ c' = 0
  /\ distances' = SourceLayer
  /\ visited' = {}
  /\ paths' = {}
  /\ UNCHANGED <<request, path, links>>

Choose ==
  /\ pc = "return"
  /\ calls = 2
  /\ \E p \in paths : path' = p /\ links' = igrapher(p)
  /\ pc' = "found"
  /\ UNCHANGED <<request, calls, c, distances, visited, paths>>

Next ==
  \/ Extend
  \/ GiveUp
  \/ Meet
  \/ Unwind
  \/ Return
  \/ CallAgain
  \/ Choose

(* The server runs the handler until it answers. *)
Spec == Init /\ [][Next]_vars /\ WF_vars(Next)

-----------------------------------------------------------------------------
(***************************************************************************)
(* Properties.                                                             *)
(***************************************************************************)
(* Every variable has its type; a layer maps artists to sets of artists of *)
(* the layer before, and a path is a sequence of artists.                  *)
TypeOK ==
  /\ neighbours \in [Artist -> SUBSET Artist]
  /\ i \in Artist /\ j \in Artist
  /\ pc \in {"search", "unwind", "return", "found", "nopath"}
  /\ calls \in {1, 2}
  /\ c \in -1..MaxHops
  /\ \E top \in 0..MaxHops : DOMAIN distances = 0..top /\ c <= top
  /\ \A k \in DOMAIN distances :
       /\ Layer(k) \subseteq Artist
       /\ \A a \in Layer(k) : distances[k][a] \subseteq IF k = 0 THEN {} ELSE Layer(k-1)
  /\ visited \subseteq Artist
  /\ paths \subseteq Seq(Artist)
  /\ path \in Seq(Artist)
  /\ links \subseteq Nat \X Nat

(* The layers are the artists at each distance from the source: no artist  *)
(* is in two layers, a predecessor is a neighbour one layer nearer and     *)
(* none is left out, and no neighbour of a layer is further than the next. *)
LayersExact ==
  \A k \in DOMAIN distances :
    /\ \A l \in DOMAIN distances : l # k => Layer(k) \cap Layer(l) = {}
    /\ k > 0 => \A b \in Layer(k) :
         /\ distances[k][b] # {}
         /\ distances[k][b] = {a \in Layer(k-1) : b \in neighbours[a]}
    /\ k + 1 \in DOMAIN distances =>
         \A a \in Layer(k) : \A b \in neighbours[a] :
           \E l \in 0..(k+1) : b \in Layer(l)

(* A path of find_paths runs over neighbours from the destination back to  *)
(* the source and meets nobody twice.                                      *)
RealPath(p) ==
  /\ Len(p) > 1
  /\ p[1] = j
  /\ p[Len(p)] = i
  /\ \A k \in 1..(Len(p)-1) : p[k] \in neighbours[p[k+1]]
  /\ \A k, l \in 1..Len(p) : p[k] = p[l] => k = l

(* What find_paths returns, and the path drawn from it, are real paths. *)
PathsAreReal ==
  /\ pc \in {"return", "found"} => \A p \in paths : RealPath(p)
  /\ pc = "found" => path \in paths /\ RealPath(path)

(* What find_paths builds and returns is sound: exact layers with their    *)
(* predecessors, real paths only, and never more than MaxHops layers.      *)
SearchSound == TypeOK /\ LayersExact /\ PathsAreReal

(* p runs over neighbours, in n hops, from its last artist to its first:   *)
(* a path is stored from the destination back to the source.               *)
Walk(p, n) == \A k \in 1..n : p[k] \in neighbours[p[k+1]]

(* The routes of n hops from the source to the destination. *)
Routes(n) ==
  {p \in [1..(n+1) -> Artist] : p[1] = j /\ p[n+1] = i /\ Walk(p, n)}

(* find_paths returns all the shortest routes and nothing else, both times. *)
AllShortestPaths ==
  pc \in {"return", "found"} =>
    \E n \in 1..MaxHops :
      /\ paths = Routes(n)
      /\ paths # {}
      /\ \A m \in 0..(n-1) : Routes(m) = {}

(* "No path found." is only said of an artist and itself, and of artists   *)
(* that are more than MaxHops apart; a path of exactly MaxHops is found.   *)
NoPathOnlyIfTooFar ==
  pc = "nopath" => i = j \/ \A n \in 0..MaxHops : Routes(n) = {}

(* find_paths misses nothing: all shortest paths are returned, and none is *)
(* reported missing that is short enough.                                  *)
SearchComplete == AllShortestPaths /\ NoPathOnlyIfTooFar
=============================================================================

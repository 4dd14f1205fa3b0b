----------------------------- MODULE PathLayout -----------------------------
(***************************************************************************)
(* The answer of /path in the browser (phonograph.js, pathPositions and    *)
(* nextNode): the artists are put on a line, starting at the source.  The  *)
(* answer does not carry the order of the path, so the browser finds it    *)
(* again from the links, one artist at a time.                             *)
(***************************************************************************)
EXTENDS PathSearch

(* Two artists are neighbours when they have a track in common, so the     *)
(* graph has no direction (igrapher intersects their sets of tracks).      *)
ASSUME LayoutAssumption ==
  \A g \in Graphs : \A a, b \in Artist : b \in g[a] => a \in g[b]

(* Every such graph: artists linked in pairs. *)
TrackGraphs ==
  {[a \in Artist |-> {b \in Artist : {a, b} \in E}] :
     E \in SUBSET {P \in SUBSET Artist : Cardinality(P) = 2}}

VARIABLES
  pathOrder,  \* positions in the answer's list of nodes, in drawing order
  drawn       \* every artist has its place

layoutVars == <<vars, pathOrder, drawn>>

LayoutInit ==
  /\ Init
  /\ pathOrder = <<>>
  /\ drawn = FALSE

Placed == {pathOrder[k] : k \in 1..Len(pathOrder)}

Last == pathOrder[Len(pathOrder)]

(* The ends not placed yet of the links that touch the last artist placed. *)
\* Faulty variant: also the artists placed already.
NextCandidatesPlacedToo ==
  {m \in 1..Len(path) : <<Last, m>> \in links \/ <<m, Last>> \in links}

NextCandidates ==
  {m \in 1..Len(path) \ Placed : <<Last, m>> \in links \/ <<m, Last>> \in links}

(* The answer arrives and the source is looked up in its list of nodes. *)
PlaceSource ==
  /\ pc = "found"
  /\ ~drawn
  /\ pathOrder = <<>>
  /\ \E m \in 1..Len(path) :
       /\ path[m] = i
       /\ pathOrder' = <<m>>
  /\ UNCHANGED <<vars, drawn>>

(* The first link that leads on decides; the order of the links is that of *)
(* igraph and any of them may be the first.  When none leads on nextNode   *)
(* returns undefined and reading its node stops the script: here, a        *)
(* deadlock.                                                               *)
PlaceNext ==
  /\ pc = "found"
  /\ ~drawn
  /\ pathOrder # <<>>
  /\ Len(pathOrder) < Len(path)
  /\ \E m \in NextCandidates : pathOrder' = Append(pathOrder, m)
  /\ UNCHANGED <<vars, drawn>>

AllPlaced ==
  /\ pc = "found"
  /\ ~drawn
  /\ Len(pathOrder) = Len(path)
  /\ drawn' = TRUE
  /\ UNCHANGED <<vars, pathOrder>>

(* Nothing is left to do. *)
Finished ==
  /\ pc = "nopath" \/ drawn
  /\ UNCHANGED layoutVars

Search == Next /\ UNCHANGED <<pathOrder, drawn>>

LayoutNext ==
  \/ Search
  \/ PlaceSource
  \/ PlaceNext
  \/ AllPlaced
  \/ Finished

LayoutSpec ==
  LayoutInit /\ [][LayoutNext]_layoutVars /\ WF_layoutVars(LayoutNext)

-----------------------------------------------------------------------------
(* The order found again from the links is the order of the path: a        *)
(* shortest path has no shortcut, so one link leads on from each artist.   *)
OrderIsPath ==
  \A k \in 1..Len(pathOrder) : pathOrder[k] = Len(path) + 1 - k

(* Every request ends with a path drawn from end to end or with the        *)
(* answer that there is none, however far apart the artists are.           *)
DrawnOrRefused == <>(drawn \/ pc = "nopath")
=============================================================================

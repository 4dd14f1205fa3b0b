------------------------------ MODULE MapView ------------------------------
(***************************************************************************)
(* The nodes on the map (start_Vis in phonograph.js), on top of Explorer:  *)
(* an answer is drawn over the nodes of the last one, which fade away      *)
(* while the new ones appear, and a click falls on whatever node is there. *)
(***************************************************************************)
EXTENDS Explorer

CONSTANT MaxElements  \* bound on the nodes, fading ones too, that are drawn over

ASSUME MapViewAssumption == MaxElements \in Nat /\ IsFiniteSet(Artist)

VARIABLES
  elements,   \* the nodes on the map, in document order
  overdrawn   \* history: an answer was drawn while nodes were fading

mapVars == <<vars, elements, overdrawn>>

(* A node keeps the id it was made with; its data is the artist a click on *)
(* it is about.                                                            *)
Element == [id : Artist, data : Artist, class : {"node", "oldNode", "toGo"}]

MapInit ==
  /\ Init
  /\ elements = <<>>
  /\ overdrawn = FALSE

-----------------------------------------------------------------------------
(* The element d3.select('#a' + id) finds: the first in the document.      *)
IsFirst(els, i) == \A j \in 1..(i-1) : els[j].id # els[i].id

(* The nodes of the last graph start to fade: toStay moves to the place of *)
(* its successor, toGo vanishes.                                           *)
\* Faulty variant: the nodes that stay are forgotten.
FadingToGo(els, old, new) ==
  [i \in 1..Len(els) |->
     IF els[i].id \in old \ new /\ IsFirst(els, i)
     THEN [els[i] EXCEPT !.class = "toGo"]
     ELSE els[i]]

Fading(els, old, new) ==
  [i \in 1..Len(els) |->
     IF els[i].id \in old /\ IsFirst(els, i)
     THEN [els[i] EXCEPT !.class = IF els[i].id \in new THEN "oldNode" ELSE "toGo"]
     ELSE els[i]]

(* svg.selectAll(".node").data(nodes): the elements that are still of      *)
(* class node get the first of the new nodes as their data, and only the   *)
(* rest of the new nodes enter.                                            *)
Nodes(els, n) == Cardinality({i \in 1..n : els[i].class = "node"})

Entered(els, new) ==
  LET kept == Nodes(els, Len(els))
  IN  [k \in 1..(IF kept < Len(new) THEN Len(new) - kept ELSE 0) |->
         [id |-> new[kept + k], data |-> new[kept + k], class |-> "node"]]

Joined(els, new) ==
  [i \in 1..Len(els) |->
     IF els[i].class = "node" /\ Nodes(els, i) <= Len(new)
     THEN [els[i] EXCEPT !.data = new[Nodes(els, i)]]
     ELSE els[i]]
  \o Entered(els, new)

(* A graph arrives, with its nodes in some order; when it cannot be laid   *)
(* out, start_Vis throws before it comes to the nodes.                     *)
Draw(k, a) ==
  /\ Len(elements) <= MaxElements
  /\ AnswerGraph(k, a)
  /\ IF draws' > draws
     THEN /\ \E order \in SetToSeqs(newGraph') :
               elements' = Joined(Fading(elements, newGraph, newGraph'), order)
          /\ overdrawn' = (overdrawn \/ \E i \in 1..Len(elements) : elements[i].class # "node")
     ELSE UNCHANGED <<elements, overdrawn>>

(* The timeout comes after the nodes that go have gone; those that stay,   *)
(* under their successors, may outlast it a little.                        *)
DrawnOnMap ==
  /\ Drawn
  /\ draws = 1 => \A i \in 1..Len(elements) : elements[i].class # "toGo"
  /\ UNCHANGED <<elements, overdrawn>>

(* The end of a fading node's transition. *)
Removed(i) ==
  /\ elements[i].class # "node"
  /\ elements' = RemoveAt(elements, i)
  /\ UNCHANGED <<vars, overdrawn>>

(* A click on a node that is there, fading or not. *)
ClickOnMap(i) ==
  /\ ClickNode(elements[i].data) \/ DoubleClickNode(elements[i].data)
  /\ UNCHANGED <<elements, overdrawn>>

Elsewhere ==
  /\ \/ Search
     \/ ChooseService
     \/ \E other \in BOOLEAN : ClickLink(other)
     \/ \E k \in 1..Len(requests) : AnswerFails(k) \/ AnswerNoPath(k)
  /\ UNCHANGED <<elements, overdrawn>>

MapNext ==
  \/ Elsewhere
  \/ \E k \in 1..Len(requests) : \E a \in Answers(requests[k]) : Draw(k, a)
  \/ DrawnOnMap
  \/ \E i \in 1..Len(elements) : Removed(i)
  \/ \E i \in 1..Len(elements) : ClickOnMap(i)

MapSpec == MapInit /\ [][MapNext]_mapVars

-----------------------------------------------------------------------------
(* The map shows every node of the graph once, under the artist it is      *)
(* named after.  This needs every node of the last graph to be found by    *)
(* its id and to fade, so that no new node is joined with an old element;  *)
(* it is lost only when an answer is drawn while nodes are fading.         *)
MapIsTheGraph ==
  ~overdrawn =>
    LET shown == {i \in 1..Len(elements) : elements[i].class = "node"}
    IN  /\ {elements[i].id : i \in shown} = newGraph
        /\ \A i, k \in shown : elements[i].id = elements[k].id => i = k
        /\ \A i \in shown : elements[i].data = elements[i].id

(* Once the map is unlocked, every node that can be clicked, also one that *)
(* still fades, is an artist the page knows the name of: loadArtistInfo    *)
(* does not throw.  Nobody hurries and no answer is drawn over fading      *)
(* nodes.                                                                  *)
ClickableIsKnown ==
  (clickable /\ ~hurried /\ ~overdrawn) =>
    \A i \in 1..Len(elements) : elements[i].data \in artist

(* What is on the map is what the page knows, as long as no answer is      *)
(* drawn over nodes that still fade (start_Vis, oldNode and toGo).         *)
MapAgrees == MapIsTheGraph /\ ClickableIsKnown
=============================================================================

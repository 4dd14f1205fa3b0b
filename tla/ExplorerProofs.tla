--------------------------- MODULE ExplorerProofs ---------------------------
(***************************************************************************)
(* Proofs about Explorer and MapView, for any artists and any bounds.      *)
(***************************************************************************)
EXTENDS MapView, SequenceTheorems, FiniteSetTheorems, TLAPS

(* RemoveAt drops position n and moves what follows down by one. *)
LEMMA RemoveAtProperties ==
  ASSUME NEW T, NEW list \in Seq(T), NEW n \in 1..Len(list)
 PROVE /\ RemoveAt(list,n) \in Seq(T) /\ Len(RemoveAt(list,n)) = Len(list)-1
       /\ \A k \in 1..(n-1) : RemoveAt(list,n)[k] = list[k]
       /\ \A k \in n..(Len(list)-1) : RemoveAt(list,n)[k] = list[k+1]
<1> DEFINE a == SubSeq(list,1,n-1)
           b == SubSeq(list,n+1,Len(list))
<1>1. a \in Seq(T) /\ Len(a) = n-1 /\ \A k \in 1..(n-1) : a[k] = list[k]
  BY SubSeqProperties
<1>2. b \in Seq(T) /\ Len(b) = Len(list)-n /\ \A k \in 1..(Len(list)-n) : b[k] = list[n+k]
  BY SubSeqProperties
<1>3. RemoveAt(list,n) = a \o b
  BY DEF RemoveAt
<1> HIDE DEF a, b
<1>4. RemoveAt(list,n) \in Seq(T) /\ Len(RemoveAt(list,n)) = Len(list)-1
  BY <1>1, <1>2, <1>3, ConcatProperties
<1>5. \A k \in 1..(n-1) : RemoveAt(list,n)[k] = a[k]
  BY <1>1, <1>2, <1>3, ConcatProperties
<1>6. \A k \in n..(Len(list)-1) : RemoveAt(list,n)[k] = b[k - n + 1]
  BY <1>1, <1>2, <1>3, ConcatProperties
<1> QED
  BY <1>1, <1>2, <1>4, <1>5, <1>6

-----------------------------------------------------------------------------
(***************************************************************************)
(* The inductive invariant.  As long as nobody hurries there is one thing  *)
(* under way at most; a request under way was made with the route and the  *)
(* source of now; the artist of a neighbourhood that is being drawn is in  *)
(* it, and so is the current artist of one that is on the unlocked map;    *)
(* and gv.artist has the nodes of the map.                                 *)
(***************************************************************************)
OneAtATime ==
  /\ clickable => requests = <<>> /\ draws = 0
  /\ requests # <<>> => Len(requests) = 1 /\ draws = 0
  /\ draws > 0 => draws = 1

AskedAsNow ==
  requests # <<>> =>
    /\ requests[1].route = route
    /\ route = "path" => requests[1].who = source

DrawingKnown ==
  /\ (draws > 0 /\ route = "neighbourhood") => currentArtist \in artist
  /\ (clickable /\ route = "neighbourhood") => Loadable

TitleKept ==
  /\ ~(draws > 0 /\ route = "neighbourhood") /\ currentArtist # Nobody => title = currentArtist
  /\ currentLink # "none" => pane = "edge"

Calm == OneAtATime /\ AskedAsNow /\ DrawingKnown /\ TitleKept /\ artist = newGraph /\ ~crashed

IInv == TypeOK /\ LockedIsBusy /\ (~hurried => Calm)

(* What the parts of the invariant come to. *)
LEMMA IInvGives == IInv => TypeOK /\ LockedIsBusy /\ UnlockedIsDone /\ NoCrash /\ SidebarFollows
                         /\ ServiceFinds
  BY DEF IInv, Calm, OneAtATime, TitleKept, DrawingKnown, Loadable, TypeOK, UnlockedIsDone, NoCrash, SidebarFollows,
     ServiceFinds, Busy

-----------------------------------------------------------------------------
(* The page asks for its first graph as soon as it is loaded. *)
LEMMA InitIInv == Init => IInv
<1> SUFFICES ASSUME Init PROVE IInv
  OBVIOUS
<1> USE ExplorerAssumption
<1>1. requests \in Seq(Request) /\ Len(requests) = 1 /\ requests[1].route = route
  BY DEF Init, Request, Route, flaskURL
<1>2. TypeOK
  BY <1>1 DEF Init, TypeOK, Route
<1>3. requests # <<>>
  BY DEF Init
<1> QED
  BY <1>1, <1>2, <1>3 DEF Init, IInv, Calm, OneAtATime, AskedAsNow, DrawingKnown, Loadable,
     TitleKept, LockedIsBusy, Busy

(* A search that locks the map. *)
LEMMA ReloadType ==
  ASSUME TypeOK, reload, route' \in Route, origin' \in Artist \cup {Nobody}
  PROVE  /\ clickable' = FALSE
         /\ requests' \in Seq(Request)
         /\ requests' # <<>>
         /\ Len(requests') = Len(requests) + 1
         /\ requests = <<>> => /\ requests'[1].route = route'
                               /\ route' = "path" => requests'[1].who = source
         /\ stuck' = FALSE
         /\ source' = source
<1> DEFINE r == flaskURL(route', origin', source)
<1>1. r \in Request /\ r.route = route' /\ (route' = "path" => r.who = source)
  BY DEF flaskURL, Request, Route, TypeOK
<1>2. requests' = Append(requests, r)
  BY DEF reload
<1> HIDE DEF r
<1>3. requests \in Seq(Request)
  BY DEF TypeOK
<1>4. /\ requests' \in Seq(Request)
      /\ Len(requests') = Len(requests) + 1
      /\ requests'[Len(requests) + 1] = r
  BY <1>1, <1>2, <1>3, AppendProperties
<1>5. requests' # <<>>
  BY <1>3, <1>4
<1>6. requests = <<>> => requests'[1] = r
  BY <1>4
<1> QED
  BY <1>1, <1>4, <1>5, <1>6 DEF reload

(* A search from the boxes, the lists, the button or a double click. *)
LEMMA SearchIInv ==
  ASSUME IInv, reload, route' \in Route, origin' \in Artist \cup {Nobody},
         UNCHANGED <<showing, sidebar, crashed>>,
         ~hurried' => ~hurried /\ ~Busy,
         hurried' \in BOOLEAN
  PROVE  IInv'
<1> USE ExplorerAssumption
<1>1. TypeOK
  BY DEF IInv
<1>2. /\ clickable' = FALSE
      /\ requests' \in Seq(Request)
      /\ requests' # <<>>
      /\ Len(requests') = Len(requests) + 1
      /\ requests = <<>> => /\ requests'[1].route = route'
                            /\ route' = "path" => requests'[1].who = source
      /\ stuck' = FALSE
      /\ source' = source
  BY <1>1, ReloadType
<1>3. TypeOK'
  BY <1>1, <1>2 DEF TypeOK, showing, sidebar
<1>4. LockedIsBusy'
  BY <1>2 DEF LockedIsBusy, Busy
<1>5. ASSUME ~hurried' PROVE Calm'
  <2>1. Calm /\ requests = <<>> /\ draws = 0
    BY <1>1, <1>5 DEF IInv, Busy, TypeOK
  <2>2. Len(requests') = 1 /\ draws' = 0
    BY <1>2, <2>1 DEF showing
  <2>3. OneAtATime' /\ AskedAsNow' /\ DrawingKnown'
    BY <1>2, <2>1, <2>2 DEF OneAtATime, AskedAsNow, DrawingKnown, Loadable
  <2>4. TitleKept' /\ (artist = newGraph)' /\ ~crashed'
    BY <2>1, <2>2 DEF Calm, TitleKept, showing, sidebar
  <2> QED
    BY <2>3, <2>4 DEF Calm
<1> QED
  BY <1>3, <1>4, <1>5 DEF IInv

(* Taking one of the requests away leaves requests, and one fewer. *)
LEMMA WithoutOne ==
  ASSUME TypeOK, NEW k \in 1..Len(requests), requests' = Without(k)
  PROVE  /\ requests' \in Seq(Request)
         /\ Len(requests') = Len(requests) - 1
         /\ Len(requests) = 1 => requests' = <<>>
<1>1. requests \in Seq(Request)
  BY DEF TypeOK
<1>2. requests' \in Seq(Request) /\ Len(requests') = Len(requests) - 1
  BY <1>1, RemoveAtProperties DEF Without
<1> QED
  BY <1>1, <1>2

(* A request fails: the callback of reload throws and the map stays locked. *)
LEMMA AnswerFailsIInv ==
  ASSUME IInv, NEW k \in 1..Len(requests), AnswerFails(k)
  PROVE  IInv'
<1> USE DEF AnswerFails
<1>1. TypeOK
  BY DEF IInv
<1>2. /\ requests' \in Seq(Request)
      /\ Len(requests) = 1 => requests' = <<>>
  BY <1>1, WithoutOne
<1>3. TypeOK'
  BY <1>1, <1>2 DEF TypeOK, showing, sidebar
<1>4. LockedIsBusy'
  BY DEF LockedIsBusy
<1>5. ASSUME ~hurried' PROVE Calm'
  <2>1. Calm /\ requests # <<>>
    BY <1>1, <1>5 DEF IInv, TypeOK
  <2>2. requests' = <<>> /\ draws = 0 /\ ~clickable
    BY <1>2, <2>1 DEF Calm, OneAtATime
  <2> QED
    BY <2>1, <2>2 DEF Calm, OneAtATime, AskedAsNow, DrawingKnown, Loadable, TitleKept, showing, sidebar
<1> QED
  BY <1>3, <1>4, <1>5 DEF IInv

(* The server has found no path: the map is unlocked. *)
LEMMA AnswerNoPathIInv ==
  ASSUME IInv, NEW k \in 1..Len(requests), AnswerNoPath(k)
  PROVE  IInv'
<1> USE DEF AnswerNoPath
<1>1. TypeOK
  BY DEF IInv
<1>2. /\ requests' \in Seq(Request)
      /\ Len(requests) = 1 => requests' = <<>>
  BY <1>1, WithoutOne
<1>3. TypeOK'
  BY <1>1, <1>2 DEF TypeOK, showing, sidebar
<1>4. LockedIsBusy'
  BY DEF LockedIsBusy
<1>5. ASSUME ~hurried' PROVE Calm'
  <2>1. Calm /\ requests # <<>>
    BY <1>1, <1>5 DEF IInv, TypeOK
  <2>2. requests' = <<>> /\ draws = 0
    BY <1>2, <2>1 DEF Calm, OneAtATime
  <2>3. route' = "path"
    <3>1. Len(requests) = 1 /\ requests[1].route = route
      BY <2>1 DEF Calm, OneAtATime, AskedAsNow
    <3>2. k = 1
      BY <3>1
    <3> QED
      BY <3>1, <3>2
  <2>4. DrawingKnown'
    BY <2>2, <2>3 DEF DrawingKnown, showing
  <2> QED
    BY <2>1, <2>2, <2>4 DEF Calm, OneAtATime, AskedAsNow, TitleKept, showing, sidebar
<1> QED
  BY <1>3, <1>4, <1>5 DEF IInv

(* A graph arrives: it is laid out, because the route and the source have  *)
(* not changed, and the artist of a neighbourhood is among its nodes.      *)
LEMMA AnswerGraphIInv ==
  ASSUME IInv, NEW k \in 1..Len(requests), NEW a \in Answers(requests[k]),
         AnswerGraph(k, a)
  PROVE  IInv'
<1> USE DEF AnswerGraph
<1>1. TypeOK
  BY DEF IInv
<1>2. /\ requests' \in Seq(Request)
      /\ Len(requests) = 1 => requests' = <<>>
  BY <1>1, WithoutOne
<1>3. requests[k] \in Request
  BY <1>1 DEF TypeOK
<1>4. /\ a.origin \in Artist \cup {Nobody}
      /\ a.nodes \subseteq Artist
      /\ requests[k].route = "neighbourhood" => a.origin \in a.nodes
      /\ requests[k].route = "path" => requests[k].who \in a.nodes
      /\ requests[k].route # "neighbourhood" => a.origin = Nobody
  BY <1>3, ExplorerAssumption DEF Answers, Request
<1>5. PICK placed \in Placed(requests[k], a.nodes) :
        IF placed
        THEN /\ newGraph' = a.nodes
             /\ draws' = draws + 1
             /\ currentLink' = IF currentLink = "none" THEN "none" ELSE "gone"
             /\ UNCHANGED <<stuck, crashed>>
        ELSE /\ stuck' = TRUE
             /\ crashed' = TRUE
             /\ UNCHANGED <<newGraph, draws, currentLink>>
  OBVIOUS
<1>6. placed \in BOOLEAN
  BY <1>5 DEF Placed
<1>7. /\ newGraph' \subseteq Artist
      /\ draws' \in Nat
      /\ currentLink' \in {"none", "drawn", "gone"}
      /\ stuck' \in BOOLEAN
      /\ crashed' \in BOOLEAN
      /\ draws' > 0 \/ stuck'
  <2>1. CASE placed
    BY <1>1, <1>4, <1>5, <2>1 DEF TypeOK
  <2>2. CASE ~placed
    BY <1>1, <1>5, <2>2 DEF TypeOK
  <2> QED
    BY <2>1, <2>2
<1>8. TypeOK'
  BY <1>1, <1>2, <1>4, <1>7 DEF TypeOK
<1>9. LockedIsBusy'
  BY <1>7 DEF LockedIsBusy, Busy
<1>10. ASSUME ~hurried' PROVE Calm'
  <2>1. Calm /\ requests # <<>>
    BY <1>1, <1>10 DEF IInv, TypeOK
  <2>2. k = 1 /\ requests' = <<>> /\ draws = 0 /\ ~clickable
    <3>1. OneAtATime
      BY <2>1 DEF Calm
    <3>2. Len(requests) = 1 /\ draws = 0 /\ ~clickable
      BY <2>1, <3>1 DEF OneAtATime
    <3> QED
      BY <1>2, <3>2
  <2>3. requests[k].route = route /\ (route = "path" => requests[k].who = source)
    BY <2>1, <2>2 DEF Calm, AskedAsNow
  <2>4. route = "path" => source \in a.nodes
    BY <1>4, <2>3
  <2>5. placed = TRUE
    BY <1>5, <2>3, <2>4 DEF Placed
  <2>6. /\ newGraph' = a.nodes
        /\ draws' = 1
        /\ currentLink' = IF currentLink = "none" THEN "none" ELSE "gone"
        /\ crashed' = crashed
    BY <1>5, <2>2, <2>5
  <2>7. route = "neighbourhood" => currentArtist' \in artist'
    BY <1>4, <2>3, ExplorerAssumption
  <2>8. OneAtATime' /\ AskedAsNow' /\ DrawingKnown'
    BY <2>2, <2>6, <2>7 DEF OneAtATime, AskedAsNow, DrawingKnown, Loadable
  <2>9. TitleKept'
    BY <1>4, <2>1, <2>2, <2>3, <2>6 DEF Calm, TitleKept
  <2> QED
    BY <2>1, <2>6, <2>8, <2>9 DEF Calm
<1> QED
  BY <1>8, <1>9, <1>10 DEF IInv

(* The timeout of a drawing. *)
LEMMA DrawnIInv == ASSUME IInv, Drawn PROVE IInv'
<1>1. TypeOK
  BY DEF IInv
<1>2. /\ draws' \in Nat
      /\ title' \in Artist \cup {Nobody}
      /\ clickable' \in BOOLEAN /\ stuck' \in BOOLEAN /\ crashed' \in BOOLEAN
      /\ clickable' \/ stuck'
  <2>1. CASE route = "neighbourhood" /\ currentArtist \notin artist
    BY <1>1, <2>1 DEF TypeOK, Drawn
  <2>2. CASE ~(route = "neighbourhood" /\ currentArtist \notin artist)
    <3>1. /\ clickable' = TRUE /\ stuck' = FALSE /\ crashed' = crashed
          /\ title' = (IF route = "neighbourhood" THEN currentArtist ELSE title)
          /\ draws > 0 /\ draws' = draws - 1
      BY <2>2, Zenon DEF Drawn
    <3>2. draws' \in Nat
      BY <1>1, <3>1 DEF TypeOK
    <3>3. title' \in Artist \cup {Nobody}
      BY <1>1, <3>1 DEF TypeOK
    <3>4. crashed \in BOOLEAN
      BY <1>1 DEF TypeOK
    <3> QED
      BY <3>1, <3>2, <3>3, <3>4, Zenon
  <2> QED
    BY <2>1, <2>2
<1>3. TypeOK' /\ LockedIsBusy'
  BY <1>1, <1>2 DEF TypeOK, Drawn, asking, LockedIsBusy
<1>4. ASSUME ~hurried' PROVE Calm'
  <2>1. Calm
    BY <1>4 DEF IInv, Drawn
  <2>2. draws = 1 /\ draws' = 0 /\ requests' = <<>>
    BY <1>1, <2>1 DEF Calm, OneAtATime, Drawn, asking, TypeOK
  <2>3. route = "neighbourhood" => currentArtist \in artist
    BY <2>1, <2>2 DEF Calm, DrawingKnown, Loadable
  <2>4. title' = (IF route = "neighbourhood" THEN currentArtist ELSE title) /\ ~crashed'
    BY <2>1, <2>3 DEF Drawn, Calm
  <2> QED
    BY <2>1, <2>2, <2>4 DEF Calm, OneAtATime, AskedAsNow, DrawingKnown, Loadable, TitleKept, Drawn, asking
<1> QED
  BY <1>3, <1>4 DEF IInv

(* A click on a node, whose artist is in gv.artist unless the user hurries. *)
LEMMA ClickNodeIInv ==
  ASSUME IInv, NEW a \in Artist, ~hurried => a \in newGraph, ClickNode(a)
  PROVE  IInv'
<1> USE DEF ClickNode, tabSwitch
<1>1. TypeOK
  BY DEF IInv
<1>2. CASE currentArtist # a
  <2>1. TypeOK'
    BY <1>1, <1>2 DEF TypeOK, loadArtistInfo, asking, showing
  <2>2. LockedIsBusy'
    BY DEF LockedIsBusy
  <2>3. ASSUME ~hurried' PROVE Calm'
    <3>1. Calm /\ a \in artist
      BY <2>3 DEF IInv, Calm
    <3>2. draws = 0 /\ requests = <<>>
      BY <3>1 DEF Calm, OneAtATime
    <3>3. title' = a /\ currentArtist' = a /\ crashed' = crashed
      BY <1>2, <3>1 DEF loadArtistInfo
    <3> QED
      BY <3>1, <3>2, <3>3 DEF Calm, OneAtATime, AskedAsNow, DrawingKnown, Loadable, TitleKept, asking, showing
  <2> QED
    BY <2>1, <2>2, <2>3 DEF IInv
<1>3. CASE currentArtist = a
  <2>1. TypeOK'
    BY <1>1, <1>3 DEF TypeOK, asking, showing
  <2>2. LockedIsBusy'
    BY DEF LockedIsBusy
  <2>3. ASSUME ~hurried' PROVE Calm'
    BY <1>3, <2>3 DEF IInv, Calm, OneAtATime, AskedAsNow, DrawingKnown, Loadable, TitleKept, asking, showing
  <2> QED
    BY <2>1, <2>2, <2>3 DEF IInv
<1> QED
  BY <1>2, <1>3

(* A double click on a node starts a search, when the map is not locked. *)
LEMMA DoubleClickIInv ==
  ASSUME IInv, NEW a \in Artist, DoubleClickNode(a)
  PROVE  IInv'
<1>1. TypeOK
  BY DEF IInv
<1>2. ~hurried => ~Busy
  BY DEF IInv, Calm, OneAtATime, Busy, DoubleClickNode
<1> QED
  BY <1>1, <1>2, SearchIInv DEF DoubleClickNode, TypeOK, Route

(* A click on a link of the map. *)
LEMMA ClickLinkIInv ==
  ASSUME IInv, NEW other \in BOOLEAN, ClickLink(other)
  PROVE  IInv'
<1> USE DEF ClickLink, tabSwitch
<1>1. TypeOK'
  BY DEF IInv, TypeOK, asking, showing
<1>2. LockedIsBusy'
  BY DEF LockedIsBusy
<1>3. ASSUME ~hurried' PROVE Calm'
  <2>1. Calm /\ draws = 0 /\ requests = <<>>
    BY <1>3 DEF IInv, Calm, OneAtATime
  <2>2. currentLink' # "none" => pane' = "edge"
    BY <2>1 DEF Calm, TitleKept
  <2> QED
    BY <2>1, <2>2 DEF Calm, OneAtATime, AskedAsNow, DrawingKnown, Loadable, TitleKept, asking, showing
<1> QED
  BY <1>1, <1>2, <1>3 DEF IInv

(* The two ends of a path: a choice made while something is under way is   *)
(* a hurry.                                                                *)
LEMMA ChooseEndIInv ==
  ASSUME IInv, (\E a \in Artist : ChooseSource(a)) \/ ChooseDestination
  PROVE  IInv'
<1> USE DEF ChooseSource, ChooseDestination
<1>1. TypeOK'
  BY DEF IInv, TypeOK, showing, sidebar, Hurry, Busy, Route
<1>2. LockedIsBusy'
  BY DEF IInv, LockedIsBusy, Busy, showing
<1>3. ASSUME ~hurried' PROVE Calm'
  <2>1. hurried' = (hurried \/ Busy)
    BY DEF Hurry
  <2>2. ~hurried /\ ~Busy
    BY <1>3, <2>1
  <2>3. Calm /\ requests = <<>> /\ draws = 0
    BY <2>2 DEF IInv, Busy, TypeOK
  <2> QED
    BY <2>3 DEF Calm, OneAtATime, AskedAsNow, DrawingKnown, Loadable, TitleKept, showing, sidebar
<1> QED
  BY <1>1, <1>2, <1>3 DEF IInv

-----------------------------------------------------------------------------
(* The choice of a service names the current artist or leaves the sidebar. *)
LEMMA ChooseServiceIInv ==
  ASSUME IInv, ChooseService
  PROVE  IInv'
<1>1. /\ title' = currentArtist \/ title' = title
      /\ title' # title => currentArtist # Nobody
      /\ UNCHANGED <<asking, clickable, showing, currentArtist, currentLink, pane, stuck, crashed, hurried>>
  BY DEF ChooseService
<1>2. TypeOK'
  BY <1>1 DEF IInv, TypeOK, asking, showing
<1>3. LockedIsBusy'
  BY <1>1 DEF IInv, LockedIsBusy, Busy, asking, showing
<1>4. ASSUME ~hurried' PROVE Calm'
  BY <1>1, <1>4 DEF IInv, Calm, OneAtATime, AskedAsNow, DrawingKnown, Loadable, TitleKept, asking, showing
<1> QED
  BY <1>2, <1>3, <1>4 DEF IInv

(* Every step keeps the invariant. *)
LEMMA NextIInv == IInv /\ [Next]_vars => IInv'
<1> SUFFICES ASSUME IInv, [Next]_vars PROVE IInv'
  OBVIOUS
<1>1. TypeOK
  BY DEF IInv
<1>2. ASSUME NEW a \in Artist, SearchArtist(a) PROVE IInv'
  BY <1>1, <1>2, SearchIInv DEF SearchArtist, Hurry, Busy, Route, TypeOK
<1>3. CASE SearchTerm
  BY <1>1, <1>3, SearchIInv DEF SearchTerm, Hurry, Busy, Route, TypeOK
<1>4. CASE ChooseGenre
  BY <1>1, <1>4, SearchIInv DEF ChooseGenre, Hurry, Busy, Route, TypeOK
<1>5. CASE SearchButton
  BY <1>1, <1>5, SearchIInv DEF SearchButton, Hurry, Busy, TypeOK
<1>6. CASE ChooseSize
  <2>1. ~hurried => ~Busy
    BY <1>6 DEF IInv, Calm, OneAtATime, Busy, ChooseSize
  <2> QED
    BY <1>1, <1>6, <2>1, SearchIInv DEF ChooseSize, TypeOK
<1>7. newGraph \subseteq Artist
  BY <1>1 DEF TypeOK
<1>8. CASE (\E a \in Artist : ChooseSource(a)) \/ ChooseDestination
  BY <1>8, ChooseEndIInv
<1>9. CASE Answer
  BY <1>9, AnswerFailsIInv, AnswerNoPathIInv, AnswerGraphIInv DEF Answer
<1>10. CASE Drawn
  BY <1>10, DrawnIInv
<1>11. CASE Click
  BY <1>7, <1>11, ClickNodeIInv, DoubleClickIInv, ClickLinkIInv DEF Click
<1>12. CASE UNCHANGED vars
  BY <1>12 DEF vars, IInv, TypeOK, LockedIsBusy, Busy, Calm, OneAtATime, AskedAsNow,
     DrawingKnown, Loadable, TitleKept
<1>13. CASE ChooseService
  BY <1>13, ChooseServiceIInv
<1> QED
  BY <1>2, <1>3, <1>4, <1>5, <1>6, <1>8, <1>9, <1>10, <1>11, <1>12, <1>13 DEF Next, Search

(* The invariant holds at all times. *)
LEMMA SpecIInv == Spec => []IInv
  BY InitIInv, NextIInv, PTL DEF Spec

-----------------------------------------------------------------------------
(* The variables of the map keep their types. *)
THEOREM TypeCorrect == Spec => []TypeOK
  BY SpecIInv, IInvGives, PTL

(* The map is locked only while an answer or a timeout will come that      *)
(* unlocks it, or after a handler has thrown.                              *)
THEOREM LockHasAReason == Spec => []LockedIsBusy
  BY SpecIInv, IInvGives, PTL

(* A user who waits finds the map unlocked only when nothing is under way. *)
THEOREM UnlockedWhenDone == Spec => []UnlockedIsDone
  BY SpecIInv, IInvGives, PTL

(* For a user who waits no answer, drawing or click throws once its graph  *)
(* is there, however the answers and the clicks follow each other.         *)
THEOREM WaitingNeverCrashes == Spec => []NoCrash
  BY SpecIInv, IInvGives, PTL

(* For a user who waits the node pane names the current artist, and the    *)
(* edge pane is open while there is a current link, on the map or gone.    *)
THEOREM SidebarIsRight == Spec => []SidebarFollows
  BY SpecIInv, IInvGives, PTL

(* The lock of the map is kept, for every number of artists, requests and  *)
(* drawings: it is closed exactly while something is under way.            *)
THEOREM LockIsKept == Spec => []LockKept
<1>1. TypeOK /\ LockedIsBusy /\ UnlockedIsDone => LockKept
  BY DEF LockKept
<1> QED
  BY TypeCorrect, LockHasAReason, UnlockedWhenDone, <1>1, PTL

(* For a user who waits the choice of a service finds the current artist   *)
(* of a neighbourhood.                                                     *)
THEOREM ServiceIsFound == Spec => []ServiceFinds
  BY SpecIInv, IInvGives, PTL

(* For a user who waits for every search to be over no answer, drawing or  *)
(* click throws, the choice of a service finds the artist of a             *)
(* neighbourhood, and the node pane names the current artist.  Nothing is  *)
(* said of an edge pane whose link a search has taken off the map.         *)
THEOREM WaitingStaysSafe == Spec => []WaitingIsSafe
<1>1. NoCrash /\ SidebarFollows /\ ServiceFinds => WaitingIsSafe
  BY DEF WaitingIsSafe
<1> QED
  BY WaitingNeverCrashes, SidebarIsRight, ServiceIsFound, <1>1, PTL

-----------------------------------------------------------------------------
(***************************************************************************)
(* The nodes on the map.  As long as no answer is drawn over fading nodes, *)
(* Explorer's invariant holds on the map as well, a node that fades under  *)
(* its successor is an artist of the graph, and a node that goes is gone   *)
(* when the timeout of its drawing has run.                                *)
(***************************************************************************)
FadingKnown ==
  \A i \in 1..Len(elements) : elements[i].class = "oldNode" => elements[i].data \in newGraph

GoneInTime ==
  draws = 0 => \A i \in 1..Len(elements) : elements[i].class # "toGo"

Right == IInv /\ elements \in Seq(Element) /\ MapIsTheGraph /\ FadingKnown /\ GoneInTime

MapInv == ~overdrawn => Right

(* On such a map every click falls on an artist the page knows. *)
LEMMA MapInvGives == MapInv => MapAgrees
<1> SUFFICES ASSUME MapInv PROVE MapAgrees
  OBVIOUS
<1>1. MapIsTheGraph
  BY DEF MapInv, Right, MapIsTheGraph
<1>2. ASSUME clickable, ~hurried, ~overdrawn, NEW i \in 1..Len(elements)
      PROVE  elements[i].data \in artist
  <2>1. Right /\ Calm /\ draws = 0 /\ artist = newGraph
    BY <1>2 DEF MapInv, Right, IInv, Calm, OneAtATime
  <2>2. elements[i] \in Element
    BY <2>1 DEF Right
  <2>3. elements[i].class \in {"node", "oldNode"}
    BY <2>1, <2>2 DEF Right, GoneInTime, Element
  <2>4. CASE elements[i].class = "node"
    BY <1>1, <1>2, <2>1, <2>4 DEF MapIsTheGraph
  <2>5. CASE elements[i].class = "oldNode"
    BY <2>1, <2>5 DEF Right, FadingKnown
  <2> QED
    BY <2>3, <2>4, <2>5
<1> QED
  BY <1>1, <1>2 DEF MapAgrees, ClickableIsKnown

(* An injection into a finite set from as many positions meets everything. *)
LEMMA OrderMeetsAll ==
  ASSUME NEW S, IsFiniteSet(S), NEW order \in SetToSeqs(S)
  PROVE  /\ order \in Seq(S)
         /\ \A k, l \in 1..Len(order) : order[k] = order[l] => k = l
         /\ \A x \in S : \E k \in 1..Len(order) : order[k] = x
<1> DEFINE n == Cardinality(S)
<1>1. /\ order \in [1..n -> S]
      /\ \A k, l \in 1..n : k # l => order[k] # order[l]
  BY DEF SetToSeqs
<1>2. n \in Nat
  BY FS_CardinalityType
<1>3. order \in Seq(S) /\ Len(order) = n
  BY <1>1, <1>2
<1>4. ASSUME NEW x \in S, \A k \in 1..n : order[k] # x PROVE FALSE
  <2> DEFINE T == S \ {x}
  <2>1. IsFiniteSet(T) /\ Cardinality(T) = n - 1
    BY FS_RemoveElement
  <2>2. order \in [1..n -> T]
    BY <1>1, <1>4
  <2>3. IsFiniteSet(1..n) /\ Cardinality(1..n) = n
    BY <1>2, FS_Interval
  <2>4. Cardinality(1..n) > Cardinality(T)
    BY <1>2, <2>1, <2>3
  <2> HIDE DEF T, n
  <2>5. \E k, l \in 1..n : k # l /\ order[k] = order[l]
    BY <2>1, <2>2, <2>3, <2>4, FS_PigeonHole
  <2> QED
    BY <1>1, <2>5
<1> QED
  BY <1>1, <1>3, <1>4

(* The steps that leave the nodes and the graph alone. *)
LEMMA MapUnchanged ==
  ASSUME Right, IInv', UNCHANGED <<elements, overdrawn, newGraph>>,
         draws' = 0 => \A i \in 1..Len(elements) : elements[i].class # "toGo"
  PROVE  Right'
BY DEF Right, MapIsTheGraph, FadingKnown, GoneInTime

(* A graph is drawn over nodes that all stand: each one fades, none is     *)
(* joined with new data, and every node of the new graph enters.           *)
LEMMA DrawnOverNodes ==
  ASSUME Right, ~overdrawn, newGraph' \subseteq Artist,
         \A i \in 1..Len(elements) : elements[i].class = "node",
         NEW order \in SetToSeqs(newGraph'),
         elements' = Joined(Fading(elements, newGraph, newGraph'), order)
  PROVE  /\ elements' \in Seq(Element)
         /\ Len(elements') = Len(elements) + Len(order)
         /\ Len(order) \in Nat
         /\ \A i \in 1..Len(elements) :
              /\ elements'[i].class \in {"oldNode", "toGo"}
              /\ elements'[i].class = "oldNode" => elements'[i].data \in newGraph'
         /\ \A k \in 1..Len(order) :
              elements'[Len(elements) + k] = [id |-> order[k], data |-> order[k], class |-> "node"]
<1> DEFINE n == Len(elements)
           F == Fading(elements, newGraph, newGraph')
           E == Entered(F, order)
           J == [i \in 1..Len(F) |->
                   IF F[i].class = "node" /\ Nodes(F, i) <= Len(order)
                   THEN [F[i] EXCEPT !.data = order[Nodes(F, i)]]
                   ELSE F[i]]
<1>1. elements \in Seq(Element) /\ n \in Nat /\ \A i \in 1..n : elements[i] \in Element
  BY DEF Right
<1>2. /\ \A i \in 1..n : elements[i].id \in newGraph /\ elements[i].data = elements[i].id
      /\ \A i, k \in 1..n : elements[i].id = elements[k].id => i = k
  BY DEF Right, MapIsTheGraph
<1>3. \A i \in 1..n : IsFirst(elements, i)
  BY <1>1, <1>2 DEF IsFirst
<1>4. /\ F = [i \in 1..n |-> [elements[i] EXCEPT !.class =
                IF elements[i].id \in newGraph' THEN "oldNode" ELSE "toGo"]]
  BY <1>2, <1>3 DEF Fading
<1>5. /\ F \in Seq(Element) /\ Len(F) = n
      /\ \A i \in 1..n : /\ F[i] \in Element
                         /\ F[i].class \in {"oldNode", "toGo"}
                         /\ F[i].class = "oldNode" => F[i].data \in newGraph'
  <2>1. ASSUME NEW i \in 1..n
        PROVE  /\ F[i] \in Element
               /\ F[i].class \in {"oldNode", "toGo"}
               /\ F[i].class = "oldNode" => F[i].data \in newGraph'
    <3>1. F[i] = [elements[i] EXCEPT !.class =
                    IF elements[i].id \in newGraph' THEN "oldNode" ELSE "toGo"]
      BY <1>4
    <3>2. elements[i] \in Element /\ elements[i].data = elements[i].id
      BY <1>1, <1>2
    <3> HIDE DEF F
    <3> QED
      BY <3>1, <3>2 DEF Element
  <2>2. F \in [1..n -> Element]
    BY <1>4, <2>1
  <2> QED
    BY <1>1, <2>1, <2>2
<1> HIDE DEF F
<1>6. J = F
  <2>1. J = [i \in 1..n |-> F[i]]
    BY <1>5
  <2> QED
    BY <1>5, <2>1
<1>7. Nodes(F, Len(F)) = 0
  <2>1. {i \in 1..Len(F) : F[i].class = "node"} = {}
    BY <1>5
  <2> QED
    BY <2>1, FS_EmptySet DEF Nodes
<1>8. order \in Seq(newGraph') /\ Len(order) \in Nat
  <2>1. IsFiniteSet(newGraph')
    BY FS_Subset, MapViewAssumption
  <2> QED
    BY <2>1, OrderMeetsAll
<1>9. E = [k \in 1..Len(order) |-> [id |-> order[k], data |-> order[k], class |-> "node"]]
  <2>1. (IF 0 < Len(order) THEN Len(order) - 0 ELSE 0) = Len(order)
    BY <1>8
  <2>2. E = [k \in 1..Len(order) |->
               [id |-> order[0 + k], data |-> order[0 + k], class |-> "node"]]
    BY <1>7, <2>1 DEF Entered
  <2>3. \A k \in 1..Len(order) : 0 + k = k
    BY <1>8
  <2> QED
    BY <2>2, <2>3
<1>10. E \in Seq(Element) /\ Len(E) = Len(order)
  <2>1. \A k \in 1..Len(order) : E[k] \in Element
    BY <1>8, <1>9 DEF Element
  <2>2. E \in [1..Len(order) -> Element]
    BY <1>9, <2>1
  <2> QED
    BY <1>8, <2>2
<1> HIDE DEF J, E
<1>11. elements' = F \o E
  <2>1. elements' = J \o E
    BY DEF Joined, F, J, E
  <2> QED
    BY <1>6, <2>1
<1>12. /\ elements' \in Seq(Element)
       /\ Len(elements') = n + Len(order)
       /\ \A i \in 1..n : elements'[i] = F[i]
       /\ \A k \in 1..Len(order) : elements'[n + k] = E[k]
  BY <1>1, <1>5, <1>8, <1>10, <1>11
<1> QED
  BY <1>5, <1>8, <1>9, <1>12

(* Once drawn, the map shows the new graph. *)
LEMMA DrawRight ==
  ASSUME Right, ~overdrawn, IInv', draws' > 0, ~overdrawn',
         \A i \in 1..Len(elements) : elements[i].class = "node",
         NEW order \in SetToSeqs(newGraph'),
         elements' = Joined(Fading(elements, newGraph, newGraph'), order)
  PROVE  Right'
<1> DEFINE n == Len(elements)
<1>1. newGraph' \subseteq Artist /\ IsFiniteSet(newGraph')
  <2>1. newGraph' \subseteq Artist
    BY DEF IInv, TypeOK
  <2> QED
    BY <2>1, FS_Subset, MapViewAssumption
<1>2. /\ elements' \in Seq(Element)
      /\ Len(elements') = n + Len(order)
      /\ Len(order) \in Nat
      /\ \A i \in 1..n :
            /\ elements'[i].class \in {"oldNode", "toGo"}
            /\ elements'[i].class = "oldNode" => elements'[i].data \in newGraph'
      /\ \A k \in 1..Len(order) :
            elements'[n + k] = [id |-> order[k], data |-> order[k], class |-> "node"]
  BY <1>1, DrawnOverNodes
<1>3. /\ order \in Seq(newGraph')
      /\ \A k, l \in 1..Len(order) : order[k] = order[l] => k = l
      /\ \A x \in newGraph' : \E k \in 1..Len(order) : order[k] = x
  BY <1>1, OrderMeetsAll
<1>4. n \in Nat
  BY DEF Right
<1>5. ASSUME NEW i \in 1..Len(elements')
      PROVE  \/ i \in 1..n
             \/ i - n \in 1..Len(order) /\ i = n + (i - n)
  BY <1>2, <1>4
<1> DEFINE shown == {i \in 1..Len(elements') : elements'[i].class = "node"}
<1>6. ASSUME NEW i \in shown
      PROVE  /\ i - n \in 1..Len(order)
             /\ elements'[i].id = order[i - n]
             /\ elements'[i].data = elements'[i].id
  <2>1. i \in 1..Len(elements') /\ i \notin 1..n
    BY <1>2
  <2>2. i - n \in 1..Len(order) /\ i = n + (i - n)
    BY <1>5, <2>1
  <2>3. elements'[i] = [id |-> order[i-n], data |-> order[i-n], class |-> "node"]
    BY <1>2, <2>2
  <2> QED
    BY <2>2, <2>3
<1>7. ASSUME NEW k \in 1..Len(order)
      PROVE  n + k \in shown /\ elements'[n + k].id = order[k]
  <2>1. elements'[n + k] = [id |-> order[k], data |-> order[k], class |-> "node"]
    BY <1>2
  <2>2. n + k \in 1..Len(elements')
    BY <1>2, <1>4
  <2> QED
    BY <2>1, <2>2
<1>8. {elements'[i].id : i \in shown} = newGraph'
  <2>1. ASSUME NEW i \in shown PROVE elements'[i].id \in newGraph'
    BY <1>3, <1>6
  <2>2. ASSUME NEW x \in newGraph' PROVE \E i \in shown : elements'[i].id = x
    <3>1. PICK k \in 1..Len(order) : order[k] = x
      BY <1>3
    <3>2. n + k \in shown /\ elements'[n + k].id = x
      BY <1>7, <3>1
    <3> HIDE DEF shown
    <3> QED
      BY <3>2
  <2> HIDE DEF shown
  <2> QED
    BY <2>1, <2>2
<1>9. ASSUME NEW i \in shown, NEW k \in shown, elements'[i].id = elements'[k].id
      PROVE  i = k
  <2>1. order[i - n] = order[k - n] /\ i - n \in 1..Len(order) /\ k - n \in 1..Len(order)
    BY <1>6, <1>9
  <2>2. i - n = k - n
    BY <1>3, <2>1
  <2>3. i \in Nat /\ k \in Nat
    BY <1>2
  <2> QED
    BY <1>4, <2>2, <2>3
<1>10. MapIsTheGraph'
  BY <1>6, <1>8, <1>9 DEF MapIsTheGraph
<1>11. FadingKnown'
  <2>1. ASSUME NEW i \in 1..Len(elements'), elements'[i].class = "oldNode"
        PROVE  elements'[i].data \in newGraph'
    <3>1. i \in 1..n
      <4>1. CASE i - n \in 1..Len(order) /\ i = n + (i - n)
        <5>1. elements'[i] = [id |-> order[i-n], data |-> order[i-n], class |-> "node"]
          BY <1>2, <4>1
        <5> QED
          BY <2>1, <5>1
      <4> QED
        BY <1>5, <4>1
    <3> QED
      BY <1>2, <2>1, <3>1
  <2> QED
    BY <2>1 DEF FadingKnown
<1>12. GoneInTime'
  BY DEF GoneInTime
<1> QED
  BY <1>2, <1>10, <1>11, <1>12 DEF Right

(* A fading node is taken away; the nodes of the graph stay. *)
LEMMA RemovedRight ==
  ASSUME Right, ~overdrawn, NEW x \in 1..Len(elements), Removed(x)
  PROVE  Right'
<1> DEFINE n == Len(elements)
           Old(i) == IF i < x THEN i ELSE i + 1
           New(i) == IF i < x THEN i ELSE i - 1
<1>1. elements \in Seq(Element) /\ n \in Nat
  BY DEF Right
<1>2. elements[x].class # "node" /\ elements' = RemoveAt(elements, x) /\ UNCHANGED <<vars, overdrawn>>
  BY DEF Removed
<1>3. /\ elements' \in Seq(Element) /\ Len(elements') = n - 1
      /\ \A k \in 1..(x-1) : elements'[k] = elements[k]
      /\ \A k \in x..(n-1) : elements'[k] = elements[k+1]
  BY <1>1, <1>2, RemoveAtProperties
<1>4. ASSUME NEW i \in 1..(n-1)
      PROVE  Old(i) \in 1..n /\ Old(i) # x /\ elements'[i] = elements[Old(i)]
  BY <1>1, <1>3
<1>5. ASSUME NEW i \in 1..n, i # x
      PROVE  New(i) \in 1..(n-1) /\ elements'[New(i)] = elements[i]
  <2>1. CASE i < x
    BY <1>1, <1>3, <2>1
  <2>2. CASE i > x
    <3>1. New(i) = i - 1 /\ i - 1 \in x..(n-1) /\ (i - 1) + 1 = i
      BY <1>1, <2>2
    <3> QED
      BY <1>1, <1>3, <3>1
  <2> QED
    BY <1>1, <1>5, <2>1, <2>2
<1>6. ASSUME NEW i \in 1..(n-1), NEW k \in 1..(n-1), Old(i) = Old(k)
      PROVE  i = k
  BY <1>1, <1>6
<1>7. /\ newGraph' = newGraph /\ draws' = draws /\ overdrawn' = overdrawn /\ IInv'
  <2>1. IInv /\ [Next]_vars
    BY <1>2 DEF Right
  <2> QED
    BY <1>2, <2>1, NextIInv DEF vars
<1> HIDE DEF Old, New
<1>8. MapIsTheGraph'
  <2> DEFINE shown == {i \in 1..n : elements[i].class = "node"}
             left == {i \in 1..(n-1) : elements'[i].class = "node"}
  <2>1. /\ {elements[i].id : i \in shown} = newGraph
        /\ \A i, k \in shown : elements[i].id = elements[k].id => i = k
        /\ \A i \in shown : elements[i].data = elements[i].id
    BY DEF Right, MapIsTheGraph
  <2>2. \A i \in left : Old(i) \in shown /\ elements'[i] = elements[Old(i)]
    BY <1>4
  <2>3. \A i \in shown : New(i) \in left /\ elements'[New(i)] = elements[i]
    BY <1>2, <1>5
  <2>4. \A i, k \in left : Old(i) = Old(k) => i = k
    BY <1>6
  <2> HIDE DEF shown, left
  <2>5. {elements'[i].id : i \in left} = newGraph'
    BY <1>7, <2>1, <2>2, <2>3
  <2>6. \A i, k \in left : elements'[i].id = elements'[k].id => i = k
    BY <2>1, <2>2, <2>4
  <2>7. \A i \in left : elements'[i].data = elements'[i].id
    BY <2>1, <2>2
  <2> QED
    BY <1>3, <2>5, <2>6, <2>7 DEF MapIsTheGraph, left
<1>9. FadingKnown'
  BY <1>3, <1>4, <1>7 DEF Right, FadingKnown
<1>10. GoneInTime'
  BY <1>3, <1>4, <1>7 DEF Right, GoneInTime
<1> QED
  BY <1>3, <1>7, <1>8, <1>9, <1>10 DEF Right

(* Every step on the map keeps the invariant. *)
LEMMA MapNextInv == MapInv /\ [MapNext]_mapVars => MapInv'
<1> SUFFICES ASSUME MapInv, [MapNext]_mapVars, ~overdrawn' PROVE Right'
  BY DEF MapInv
<1>1. ~overdrawn
  BY DEF MapNext, mapVars, Elsewhere, Draw, DrawnOnMap, Removed, ClickOnMap
<1>2. Right
  BY <1>1 DEF MapInv
<1>3. CASE UNCHANGED mapVars
  <2>1. IInv'
    BY <1>2, <1>3, NextIInv DEF mapVars, Right
  <2> QED
    BY <1>2, <1>3, <2>1, MapUnchanged DEF mapVars, vars, Right, GoneInTime
<1>4. CASE Elsewhere
  <2>1. Next /\ UNCHANGED <<elements, overdrawn>>
    BY <1>4 DEF Elsewhere, Next, Click, Answer
  <2>2. UNCHANGED <<newGraph, draws>>
    BY <1>4 DEF Elsewhere, Search, SearchArtist, SearchTerm, ChooseGenre, ChooseSource,
       ChooseDestination, SearchButton, ChooseSize, ChooseService, ClickLink, AnswerFails, AnswerNoPath, showing
  <2>3. IInv'
    BY <1>2, <2>1, NextIInv DEF Right
  <2> QED
    BY <1>2, <2>1, <2>2, <2>3, MapUnchanged DEF Right, GoneInTime
<1>5. ASSUME NEW k \in 1..Len(requests), NEW a \in Answers(requests[k]), Draw(k, a)
      PROVE  Right'
  <2>1. AnswerGraph(k, a)
    BY <1>5 DEF Draw
  <2>2. IInv'
    BY <1>2, <2>1, AnswerGraphIInv DEF Right
  <2>3. draws \in Nat
    BY <1>2 DEF Right, IInv, TypeOK
  <2>4. CASE draws' > draws
    <3>1. PICK order \in SetToSeqs(newGraph') :
            elements' = Joined(Fading(elements, newGraph, newGraph'), order)
      BY <1>5, <2>4 DEF Draw
    <3>2. \A i \in 1..Len(elements) : elements[i].class = "node"
      BY <1>5, <2>4 DEF Draw
    <3>3. draws' > 0
      BY <2>2, <2>3, <2>4 DEF IInv, TypeOK
    <3> QED
      BY <1>1, <1>2, <2>2, <3>1, <3>2, <3>3, DrawRight
  <2>5. CASE ~(draws' > draws)
    <3>1. UNCHANGED <<elements, overdrawn>>
      BY <1>5, <2>5 DEF Draw
    <3>2. newGraph' = newGraph /\ draws' = draws
      <4>1. ~(draws + 1 > draws) => FALSE
        BY <2>3
      <4> QED
        BY <2>1, <2>5, <4>1 DEF AnswerGraph
    <3> QED
      BY <1>2, <2>2, <3>1, <3>2, MapUnchanged DEF Right, GoneInTime
  <2> QED
    BY <2>4, <2>5
<1>6. CASE DrawnOnMap
  <2>1. IInv'
    BY <1>2, <1>6, DrawnIInv DEF DrawnOnMap, Right
  <2>2. UNCHANGED <<elements, overdrawn, newGraph>> /\ draws' = draws - 1 /\ draws \in Nat
    BY <1>2, <1>6 DEF DrawnOnMap, Drawn, Right, IInv, TypeOK
  <2>3. draws' = 0 => \A i \in 1..Len(elements) : elements[i].class # "toGo"
    BY <1>6, <2>2 DEF DrawnOnMap
  <2> QED
    BY <1>2, <2>1, <2>2, <2>3, MapUnchanged
<1>7. ASSUME NEW i \in 1..Len(elements), Removed(i) PROVE Right'
  BY <1>1, <1>2, <1>7, RemovedRight
<1>8. ASSUME NEW i \in 1..Len(elements), ClickOnMap(i) PROVE Right'
  <2>1. clickable
    BY <1>8 DEF ClickOnMap, ClickNode, DoubleClickNode
  <2>2. elements[i].data \in Artist
    <3>1. elements[i] \in Element
      BY <1>2 DEF Right
    <3> QED
      BY <3>1 DEF Element
  <2>3. ~hurried => elements[i].data \in newGraph
    <3>1. ~hurried => elements[i].data \in artist
      BY <1>1, <2>1, MapInvGives DEF MapAgrees, ClickableIsKnown
    <3> QED
      BY <1>2, <3>1 DEF Right, IInv, Calm
  <2>4. IInv'
    BY <1>2, <1>8, <2>2, <2>3, ClickNodeIInv, DoubleClickIInv DEF ClickOnMap, Right
  <2>5. UNCHANGED <<elements, overdrawn, newGraph, draws>>
    BY <1>8 DEF ClickOnMap, ClickNode, DoubleClickNode, showing
  <2> QED
    BY <1>2, <2>4, <2>5, MapUnchanged DEF Right, GoneInTime
<1> QED
  BY <1>3, <1>4, <1>5, <1>6, <1>7, <1>8 DEF MapNext

(* What is on the map is what the page knows, for any number of artists,   *)
(* requests and drawings, until an answer is drawn over fading nodes.      *)
THEOREM MapShowsTheGraph == MapSpec => []MapAgrees
<1>1. MapInit => MapInv
  <2> SUFFICES ASSUME MapInit PROVE Right
    BY DEF MapInv
  <2>1. IInv
    BY InitIInv DEF MapInit
  <2> QED
    BY <2>1 DEF MapInit, Init, Right, MapIsTheGraph, FadingKnown, GoneInTime
<1> QED
  BY <1>1, MapNextInv, MapInvGives, PTL DEF MapSpec
=============================================================================

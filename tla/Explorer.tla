------------------------------ MODULE Explorer ------------------------------
(***************************************************************************)
(* The map of the browser (phonograph.js): the searches and clicks that    *)
(* ask the server for a graph, the answers that come back in any order,    *)
(* the lock gv.clickable and what the sidebar is about.  MapView adds the  *)
(* nodes on the map.                                                       *)
(*                                                                         *)
(* An action is one handler, run to its end or to the TypeError that stops *)
(* it half way.  What a handler reads when it runs late (gv.route,         *)
(* gv.source, gv.currentArtist) may have changed since it was set up.      *)
(***************************************************************************)
EXTENDS Naturals, Sequences, FiniteSets, SequencesExt

CONSTANTS
  Artist,
  Nobody,        \* null
  MaxRequests,   \* bound on the requests under way
  MaxDraws       \* bound on the drawings under way

ASSUME ExplorerAssumption ==
  /\ Nobody \notin Artist
  /\ MaxRequests \in Nat \ {0}
  /\ MaxDraws \in Nat \ {0}

VARIABLES
  route,          \* gv.route
  origin,         \* gv.origin
  source,         \* gv.source
  clickable,      \* gv.clickable
  requests,       \* what the page has asked the server for
  draws,          \* drawings whose setTimeout has not run yet
  artist,         \* the keys of gv.artist
  newGraph,       \* the nodes of gv.newGraph, which gv.oldGraph follows
  currentArtist,  \* gv.currentArtist
  currentLink,    \* gv.currentLink: "none", a link "drawn" now or one "gone"
  title,          \* the artist named in the sidebar
  pane,           \* the tab of the sidebar
  stuck,          \* history: an answer or a click has thrown since the map last moved on
  crashed,        \* history: one has thrown though the server had answered
  hurried         \* history: see Hurry

vars == <<route, origin, source, clickable, requests, draws, artist, newGraph,
          currentArtist, currentLink, title, pane, stuck, crashed, hurried>>

asking  == <<route, origin, source, requests>>
showing == <<draws, artist, newGraph>>
sidebar == <<currentArtist, currentLink, title, pane>>

Route   == {"neighbourhood", "path", "termsubgraph"}
Request == [route : Route, who : Artist \cup {Nobody}]

Busy == requests # <<>> \/ draws > 0

(* History: the user searches, or changes what an answer is read with,     *)
(* before the last search is over.                                         *)
Hurry == hurried' = (hurried \/ Busy)

-----------------------------------------------------------------------------
(* flaskURL: of what it sends, the server reads the origin of a            *)
(* neighbourhood and the source of a path.                                 *)
flaskURL(rt, o, s) ==
  [route |-> rt,
   who   |-> IF rt = "neighbourhood" THEN o ELSE IF rt = "path" THEN s ELSE Nobody]

\* Faulty variant: the map is not locked.
reloadUnlocked ==
  /\ Len(requests) < MaxRequests
  /\ requests' = Append(requests, flaskURL(route', origin', source))
  /\ stuck' = FALSE
  /\ UNCHANGED <<clickable, source>>

reload ==
  /\ Len(requests) < MaxRequests
  /\ clickable' = FALSE
  /\ requests' = Append(requests, flaskURL(route', origin', source))
  /\ stuck' = FALSE
  /\ UNCHANGED source

Init ==
  /\ route = "neighbourhood"
  /\ origin = Nobody
  /\ source = Nobody
  /\ clickable = FALSE
  /\ requests = <<flaskURL(route, origin, source)>>
  /\ draws = 0
  /\ artist = {}
  /\ newGraph = {}
  /\ currentArtist = Nobody
  /\ currentLink = "none"
  /\ title = Nobody
  /\ pane = "node"
  /\ stuck = FALSE
  /\ crashed = FALSE
  /\ hurried = FALSE

-----------------------------------------------------------------------------
(***************************************************************************)
(* Searches.  The boxes and the button work at any time, a double click    *)
(* and the number of artists only when the map is not locked.              *)
(***************************************************************************)
(* The box of class artist. *)
SearchArtist(a) ==
  /\ route' = "neighbourhood"
  /\ origin' = a
  /\ reload
  /\ Hurry
  /\ UNCHANGED <<showing, sidebar, crashed>>

(* The box of class term. *)
SearchTerm ==
  /\ route' = "termsubgraph"
  /\ origin' = Nobody
  /\ reload
  /\ Hurry
  /\ UNCHANGED <<showing, sidebar, crashed>>

(* The list #genre; the genre chosen always differs from gv.genre. *)
ChooseGenre ==
  /\ route' = "neighbourhood"
  /\ origin' = Nobody
  /\ reload
  /\ Hurry
  /\ UNCHANGED <<showing, sidebar, crashed>>

(* The box of class path: the first end of a path. *)
ChooseSource(a) ==
  /\ source' = a
  /\ Hurry
  /\ UNCHANGED <<route, origin, requests, clickable, showing, sidebar, stuck, crashed>>

(* The box #destination: the other end.  Nothing is asked for yet. *)
ChooseDestination ==
  /\ route' = "path"
  /\ Hurry
  /\ UNCHANGED <<origin, source, requests, clickable, showing, sidebar, stuck, crashed>>

(* The button #search-button. *)
SearchButton ==
  /\ UNCHANGED <<route, origin>>
  /\ reload
  /\ Hurry
  /\ UNCHANGED <<showing, sidebar, crashed>>

(* The list #ns. *)
ChooseSize ==
  /\ clickable
  /\ UNCHANGED <<route, origin>>
  /\ reload
  /\ UNCHANGED <<showing, sidebar, crashed, hurried>>

(* A double click on a node. *)
DoubleClickNode(a) ==
  /\ clickable
  /\ a # origin
  /\ origin' = a
  /\ route' = "neighbourhood"
  /\ reload
  /\ UNCHANGED <<showing, sidebar, crashed, hurried>>

-----------------------------------------------------------------------------
(* loadArtistInfo throws, before anything else, for an artist who is not   *)
(* in gv.artist; what it asks the other services for comes later.          *)
loadArtistInfo ==
  IF currentArtist' \in artist
  THEN /\ title' = currentArtist'
       /\ UNCHANGED <<stuck, crashed>>
  ELSE /\ stuck' = TRUE
       /\ crashed' = TRUE
       /\ UNCHANGED title

tabSwitch(p) == pane' = p

(* A click on a node: clickNode. *)
ClickNode(a) ==
  /\ clickable
  /\ currentLink' = "none"
  /\ IF currentArtist # a
     THEN /\ currentArtist' = a
          /\ loadArtistInfo
          /\ tabSwitch(IF a \in artist THEN "node" ELSE pane)
     ELSE UNCHANGED <<currentArtist, title, pane, stuck, crashed>>
  /\ UNCHANGED <<asking, clickable, showing, hurried>>

(* A click on a link, other or not than the last one: clickLink. *)
ClickLink(other) ==
  /\ clickable
  /\ Cardinality(newGraph) > 1
  /\ currentArtist' = Nobody
  /\ IF other THEN currentLink' = "drawn" /\ tabSwitch("edge")
     ELSE currentLink = "drawn" /\ UNCHANGED <<currentLink, pane>>
  /\ UNCHANGED <<asking, clickable, showing, title, stuck, crashed, hurried>>

(* The choice of another service (musicplaybar.js) loads the sidebar again *)
(* for the current link and the current artist, at any time.  It throws,   *)
(* and leaves the sidebar as it is, for an artist who is not in gv.artist; *)
(* and the numbers a link of an earlier graph has for its nodes may be too *)
(* large for those of now.                                                 *)
Loadable == currentArtist \in artist \cup {Nobody}

ChooseService ==
  /\ \E found \in IF currentLink = "gone" THEN BOOLEAN ELSE {TRUE} :
       title' = IF found /\ Loadable /\ currentArtist # Nobody THEN currentArtist ELSE title
  /\ UNCHANGED <<asking, clickable, showing, currentArtist, currentLink, pane,
                 stuck, crashed, hurried>>

-----------------------------------------------------------------------------
(***************************************************************************)
(* Answers.                                                                *)
(***************************************************************************)
Without(k) == RemoveAt(requests, k)

(* What the server may answer to a request; Connected of Neighbourhood and *)
(* OrderIsPath of PathSearch say why.                                      *)
Answers(r) ==
  {a \in [origin : Artist \cup {Nobody}, nodes : (SUBSET Artist) \ {{}}] :
     /\ r.route = "neighbourhood" => /\ a.origin \in a.nodes
                                     /\ r.who # Nobody => a.origin = r.who
     /\ r.route # "neighbourhood" => a.origin = Nobody
     /\ r.route = "path" => r.who \in a.nodes /\ Cardinality(a.nodes) > 1}

(* The request fails: the callback throws on the missing graph. *)
AnswerFails(k) ==
  /\ requests' = Without(k)
  /\ stuck' = TRUE
  /\ UNCHANGED <<route, origin, source, clickable, showing, sidebar, crashed, hurried>>

(* There is no path. *)
\* Faulty variant: the map stays locked.
AnswerNoPathLocked(k) ==
  /\ requests[k].route = "path"
  /\ requests' = Without(k)
  /\ origin' = Nobody
  /\ UNCHANGED <<route, source, clickable, stuck, showing, sidebar, crashed, hurried>>

AnswerNoPath(k) ==
  /\ requests[k].route = "path"
  /\ requests' = Without(k)
  /\ origin' = Nobody
  /\ clickable' = TRUE
  /\ stuck' = FALSE
  /\ UNCHANGED <<route, source, showing, sidebar, crashed, hurried>>

(* pathPositions, in the order of the path from gv.source, throws when     *)
(* gv.source is not in the graph; in a graph that was not asked for as a   *)
(* path from there it may get lost and throw as well.                      *)
Placed(r, g) ==
  IF route # "path" THEN {TRUE}
  ELSE IF source \notin g THEN {FALSE}
  ELSE IF r.route = "path" /\ r.who = source THEN {TRUE}
  ELSE BOOLEAN

AnswerGraph(k, a) ==
  /\ draws < MaxDraws
  /\ requests' = Without(k)
  /\ origin' = a.origin
  /\ currentArtist' = IF a.origin = Nobody THEN currentArtist ELSE a.origin
  /\ artist' = a.nodes
  /\ \E placed \in Placed(requests[k], a.nodes) :
       IF placed
       THEN /\ newGraph' = a.nodes
            /\ draws' = draws + 1
            /\ currentLink' = IF currentLink = "none" THEN "none" ELSE "gone"
            /\ UNCHANGED <<stuck, crashed>>
       ELSE /\ stuck' = TRUE
            /\ crashed' = TRUE
            /\ UNCHANGED <<newGraph, draws, currentLink>>
  /\ UNCHANGED <<route, source, clickable, title, pane, hurried>>

(* The setTimeout of a drawing.  It reads the route and the artist of      *)
(* the moment, not those the graph was asked for with.                     *)
\* Faulty variant: the timeout does not unlock.
DrawnLocked ==
  /\ draws > 0
  /\ draws' = draws - 1
  /\ UNCHANGED <<asking, clickable, artist, newGraph, sidebar, stuck, crashed, hurried>>

Drawn ==
  /\ draws > 0
  /\ draws' = draws - 1
  /\ IF route = "neighbourhood" /\ currentArtist \notin artist
     THEN /\ stuck' = TRUE
          /\ crashed' = TRUE
          /\ UNCHANGED <<clickable, title>>
     ELSE /\ title' = IF route = "neighbourhood" THEN currentArtist ELSE title
          /\ clickable' = TRUE
          /\ stuck' = FALSE
          /\ UNCHANGED crashed
  /\ UNCHANGED <<asking, artist, newGraph, currentArtist, currentLink,
                 pane, hurried>>

-----------------------------------------------------------------------------
Search ==
  \/ \E a \in Artist : SearchArtist(a)
  \/ SearchTerm
  \/ ChooseGenre
  \/ \E a \in Artist : ChooseSource(a)
  \/ ChooseDestination
  \/ SearchButton
  \/ ChooseSize

Click ==
  \/ \E a \in newGraph : DoubleClickNode(a)
  \/ \E a \in newGraph : ClickNode(a)
  \/ \E other \in BOOLEAN : ClickLink(other)

Answer ==
  \E k \in 1..Len(requests) :
    \/ AnswerFails(k)
    \/ AnswerNoPath(k)
    \/ \E a \in Answers(requests[k]) : AnswerGraph(k, a)

Next == Search \/ Click \/ ChooseService \/ Answer \/ Drawn

(* A request is answered or fails, and a timeout runs. *)
Fairness == WF_vars(Answer) /\ WF_vars(Drawn)

Spec == Init /\ [][Next]_vars /\ Fairness

-----------------------------------------------------------------------------
(***************************************************************************)
(* Properties.                                                             *)
(***************************************************************************)
(* Every variable has its type; the current artist, the origin and the     *)
(* source are ids, whatever handler sets them.                             *)
TypeOK ==
  /\ route \in Route
  /\ origin \in Artist \cup {Nobody}
  /\ source \in Artist \cup {Nobody}
  /\ clickable \in BOOLEAN
  /\ requests \in Seq(Request)
  /\ draws \in Nat
  /\ artist \subseteq Artist
  /\ newGraph \subseteq Artist
  /\ currentArtist \in Artist \cup {Nobody}
  /\ currentLink \in {"none", "drawn", "gone"}
  /\ title \in Artist \cup {Nobody}
  /\ pane \in {"node", "edge"}
  /\ stuck \in BOOLEAN
  /\ crashed \in BOOLEAN
  /\ hurried \in BOOLEAN

(* The map is locked only while something is under way that will unlock    *)
(* it, or after a handler has thrown: reload locks it, and "no path" and   *)
(* the timeout of a drawing are all that unlocks it.                       *)
LockedIsBusy == ~clickable => Busy \/ stuck

(* The other way round: the map unlocks only when the last search is over, *)
(* as long as no search was begun before the one before it was over.       *)
UnlockedIsDone == (clickable /\ ~hurried) => ~Busy

(* The lock of the map (gv.clickable) and the searches under way agree,    *)
(* however requests, answers, drawings and clicks interleave.              *)
LockKept == TypeOK /\ LockedIsBusy /\ UnlockedIsDone

(* An answer, a drawing or a click never throws, as long as nobody         *)
(* hurries: the route, the source and the current artist are still those   *)
(* the graph was asked for with, and a node that can be clicked is in      *)
(* gv.artist.                                                              *)
NoCrash == ~hurried => ~crashed

(* Once the map is unlocked the node pane names the current artist.  The   *)
(* edge pane is open as long as there is a current link, be it on the map  *)
(* or one of an earlier graph: a search leaves it and its pane as they are.*)
SidebarFollows ==
  (clickable /\ ~hurried) =>
    /\ currentArtist # Nobody => title = currentArtist
    /\ currentLink # "none" => pane = "edge"

(* On the unlocked map of a neighbourhood the choice of a service finds    *)
(* the current artist in gv.artist.  (On that of a path or a term, and for *)
(* a link of an earlier graph, it may throw.)                              *)
ServiceFinds == (clickable /\ ~hurried /\ route = "neighbourhood") => Loadable

(* For a user who waits for each search to be over, answers, drawings and  *)
(* clicks do not throw, nor does the choice of a service on the map of a   *)
(* neighbourhood for its artists and links; and the node pane names the    *)
(* current artist, also after searches that have replaced the map under a  *)
(* link.  The edge pane may still be about a link that is gone.            *)
WaitingIsSafe == NoCrash /\ SidebarFollows /\ ServiceFinds

(* A locked map is unlocked, or a handler throws. *)
UnlockedAgain == ~clickable ~> (clickable \/ stuck)
=============================================================================

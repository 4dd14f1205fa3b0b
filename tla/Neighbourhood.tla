--------------------------- MODULE Neighbourhood ---------------------------
(***************************************************************************)
(* The handler of the route /neighbourhood (app.py, function               *)
(* neighbourhood) with everything it calls: the draw of a random origin    *)
(* (random_origin, genre_origin), the filter on genres (genre_neighbours)  *)
(* and the loop that grows the set of artists around the origin (step).    *)
(*                                                                         *)
(* One behaviour is one request.  The Redis data set is read only for this *)
(* handler, so it is a variable that Init chooses and no action changes.   *)
(* An iteration of the while loop is one action: the server runs a request *)
(* to its end before it looks at the next one.                             *)
(***************************************************************************)
EXTENDS Integers, FiniteSets, Functions

CONSTANTS
  Artist,          \* artist ids
  Genre,           \* the genres of random_origin's list and of the #genre menu
  Null,            \* the string 'null' of an absent query argument
  Databases,       \* the data sets considered
  Requests,        \* the query strings considered
  MinNeighbours,   \* 5 in random_origin: an origin has more neighbours
  MinGenreNeighbours \* 10 in genre_origin: an origin has at least as many

(***************************************************************************)
(* What the handler reads from Redis: the sets artist.neighbours:<a>, the  *)
(* field genre of artist.info:<a> (Null when absent), the artists whose    *)
(* field popularity is above 25, and the first 501 members of the sorted   *)
(* set term.artists:<g>.                                                   *)
(***************************************************************************)
Database ==
  [neighbours : [Artist -> SUBSET Artist],
   genre      : [Artist -> Genre \cup {Null}],
   popular    : SUBSET Artist,
   top        : [Genre -> SUBSET Artist]]

Request ==
  [size : Int, genre : Genre \cup {Null}, origin : Artist \cup {Null}]

ASSUME NeighbourhoodAssumption ==
  /\ IsFiniteSet(Artist)
  /\ Null \notin Artist
  /\ Null \notin Genre
  /\ Databases \subseteq Database
  /\ Requests \subseteq Request
  /\ MinNeighbours \in Nat
  /\ MinGenreNeighbours \in Nat

VARIABLES
  db,             \* the Redis data set
  req,            \* the query string
  pc,             \* "route", "draw", "grow", "done" or "error" (HTTP 500)
  pool,           \* the artists random.choice draws the origin from
  origin,         \* Null until it is known
  currentstep,    \* score of each artist of the current frontier
  neighbourhood,  \* the artists chosen so far
  visited         \* the artists met so far

vars == <<db, req, pc, pool, origin, currentstep, neighbourhood, visited>>

-----------------------------------------------------------------------------
(* The neighbours of a that have genre g, all of them when g is Null. *)
genre_neighbours(a, g) ==
  IF g = Null THEN db.neighbours[a]
              ELSE {n \in db.neighbours[a] : db.genre[n] = g}

(* The test both drawing loops wait for. *)
Eligible(a) ==
  /\ a \in db.popular
  /\ IF req.genre = Null
     THEN Cardinality(db.neighbours[a]) > MinNeighbours
     ELSE /\ Cardinality(genre_neighbours(a, req.genre)) >= MinGenreNeighbours
          /\ db.genre[a] = req.genre

(* Every artist next to the frontier, with the sum of the scores it hears. *)
\* Faulty variant: each neighbour counts once.
StepWithoutSum(frontier, g) ==
  [a \in UNION {genre_neighbours(n, g) : n \in DOMAIN frontier} |-> 1]

step(frontier, g) ==
  [a \in UNION {genre_neighbours(n, g) : n \in DOMAIN frontier} |->
     SumFunctionOnSet(frontier,
       {n \in DOMAIN frontier : a \in genre_neighbours(n, g)})]

(* The n best of the candidates, all of them when there are fewer.  Equal  *)
(* scores keep the order of a dict, which is arbitrary.                    *)
BestOf(score, candidates, n) ==
  {S \in SUBSET candidates :
     /\ Cardinality(S) = IF Cardinality(candidates) < n
                         THEN Cardinality(candidates) ELSE n
     /\ \A a \in S, b \in candidates \ S : score[a] >= score[b]}

-----------------------------------------------------------------------------
Init ==
  /\ db \in Databases
  /\ req \in Requests
  /\ pc = "route"
  /\ pool = {}
  /\ origin = Null
  /\ currentstep = [a \in {} |-> 1]
  /\ neighbourhood = {}
  /\ visited = {}

StartAt(a) ==
  /\ pc' = "grow"
  /\ origin' = a
  /\ currentstep' = [n \in {a} |-> 1]
  /\ neighbourhood' = {a}
  /\ visited' = {a}
  /\ UNCHANGED <<db, req, pool>>

(* The query names the origin. *)
OriginGiven ==
  /\ pc = "route"
  /\ req.origin # Null
  /\ StartAt(req.origin)

(* It does not: draw one from the top artists of the genre asked for, or   *)
(* of a genre chosen at random once.                                       *)
OriginDrawn ==
  /\ pc = "route"
  /\ req.origin = Null
  /\ \E g \in IF req.genre = Null THEN Genre ELSE {req.genre} :
       pool' = db.top[g]
  /\ pc' = "draw"
  /\ UNCHANGED <<db, req, origin, currentstep, neighbourhood, visited>>

(* random.choice of an empty list raises an exception. *)
NothingToDraw ==
  /\ pc = "draw"
  /\ pool = {}
  /\ pc' = "error"
  /\ UNCHANGED <<db, req, pool, origin, currentstep, neighbourhood, visited>>

Draw ==
  /\ pc = "draw"
  /\ \E a \in pool : Eligible(a) /\ StartAt(a)

(* The loop draws again; only the random generator has changed. *)
Redraw ==
  /\ pc = "draw"
  /\ \E a \in pool : ~Eligible(a)
  /\ UNCHANGED vars

-----------------------------------------------------------------------------
Wanted == req.size - Cardinality(neighbourhood)

NextStep == step(currentstep, req.genre)

ToConsider == DOMAIN NextStep \ visited

(* One iteration of the loop that finds somebody new. *)
Grow ==
  /\ pc = "grow"
  /\ Wanted > 0
  /\ \E to_add \in BestOf(NextStep, ToConsider, Wanted) :
       /\ to_add # {}
       /\ neighbourhood' = neighbourhood \cup to_add
       /\ visited' = visited \cup DOMAIN NextStep
       /\ currentstep' = [a \in to_add |-> NextStep[a]]
  /\ UNCHANGED <<db, req, pc, pool, origin>>

(* An iteration that finds nobody leaves the loop. *)
\* Faulty variant: the loop has no break.
ExhaustedWithoutBreak ==
  /\ pc = "grow"
  /\ Wanted > 0
  /\ ToConsider = {}
  /\ currentstep' = [a \in {} |-> 1]
  /\ visited' = visited \cup DOMAIN NextStep
  /\ UNCHANGED <<db, req, pc, pool, origin, neighbourhood>>

\* Faulty variant: the loop breaks too early.
ExhaustedByOne ==
  /\ pc = "grow"
  /\ Wanted > 0
  /\ Cardinality(ToConsider) <= 1
  /\ currentstep' = NextStep
  /\ pc' = "done"
  /\ UNCHANGED <<db, req, pool, origin, neighbourhood, visited>>

Exhausted ==
  /\ pc = "grow"
  /\ Wanted > 0
  /\ ToConsider = {}
  /\ currentstep' = NextStep
  /\ pc' = "done"
  /\ UNCHANGED <<db, req, pool, origin, neighbourhood, visited>>

(* The loop condition is false. *)
Enough ==
  /\ pc = "grow"
  /\ Wanted <= 0
  /\ pc' = "done"
  /\ UNCHANGED <<db, req, pool, origin, currentstep, neighbourhood, visited>>

Answered ==
  /\ pc \in {"done", "error"}
  /\ UNCHANGED vars

Next ==
  \/ OriginGiven
  \/ OriginDrawn
  \/ NothingToDraw
  \/ Draw
  \/ Redraw
  \/ Grow
  \/ Exhausted
  \/ Enough
  \/ Answered

(***************************************************************************)
(* The handler is a thread of the server that keeps running.  Fairness of  *)
(* Draw is that of random.choice: each member of the pool is drawn again   *)
(* and again, with probability 1.                                          *)
(***************************************************************************)
Fairness ==
  /\ WF_vars(OriginGiven \/ OriginDrawn \/ NothingToDraw)
  /\ WF_vars(Draw)
  /\ WF_vars(Grow \/ Exhausted \/ Enough)

Spec == Init /\ [][Next]_vars /\ Fairness

-----------------------------------------------------------------------------
(***************************************************************************)
(* Properties.                                                             *)
(***************************************************************************)
(* Every variable has its type; currentstep scores a set of artists and    *)
(* the chosen artists are among those the loop has met.                    *)
TypeOK ==
  /\ db \in Database
  /\ req \in Request
  /\ pc \in {"route", "draw", "grow", "done", "error"}
  /\ pool \subseteq Artist
  /\ origin \in Artist \cup {Null}
  /\ DOMAIN currentstep \subseteq Artist
  /\ neighbourhood \subseteq visited
  /\ visited \subseteq Artist

(* An artist the answer may join to a: a neighbour of the genre asked for. *)
Joined(a, b) ==
  /\ b \in db.neighbours[a]
  /\ req.genre # Null => db.genre[b] = req.genre

(* The loop never takes more artists than the query asks for; only the     *)
(* origin is there whatever the size is (the loop of neighbourhood()).     *)
NeverTooMany ==
  pc \in {"grow", "done"} =>
    Cardinality(neighbourhood) <= IF req.size > 1 THEN req.size ELSE 1

(* The graph sent to the browser hangs together: a set of chosen artists   *)
(* that holds the origin and is closed under joining is all of them, so    *)
(* every artist is reached from the origin through chosen artists of the   *)
(* genre (step() only proposes neighbours of what was chosen before).      *)
Connected ==
  pc \in {"grow", "done"} =>
    \A S \in SUBSET neighbourhood :
      (/\ origin \in S
       /\ \A a \in S, b \in neighbourhood : Joined(a, b) => b \in S)
      => S = neighbourhood

(* An answer with fewer artists than asked for is not the loop giving up   *)
(* early: nobody outside it is joined to somebody inside.                  *)
ShortOnlyIfExhausted ==
  (pc = "done" /\ Cardinality(neighbourhood) < req.size) =>
    \A a \in neighbourhood, b \in Artist : Joined(a, b) => b \in neighbourhood

(* What an answer of /neighbourhood is, whatever was asked: no larger than *)
(* asked for, connected from the origin, and smaller only if nobody is     *)
(* left to join, with the variables of the handler in their types.         *)
GoodNeighbourhood == TypeOK /\ NeverTooMany /\ Connected /\ ShortOnlyIfExhausted

(* The artists within k hops of o in a graph, for each k.  These and the   *)
(* walks below are the references for who is chosen first.                 *)
BallsAround(links, o) ==
  LET ball[k \in Nat] ==
        IF k = 0 THEN {o}
        ELSE LET near == ball[k-1]
             IN  near \cup UNION {links[a] : a \in near}
  IN  ball

(* The number of walks of k hops from o to each artist of a graph. *)
WalksFrom(links, o) ==
  LET walks[k \in Nat] ==
        IF k = 0 THEN [b \in Artist |-> IF b = o THEN 1 ELSE 0]
        ELSE LET shorter == walks[k-1]
             IN  [b \in Artist |->
                    SumFunctionOnSet(shorter, {a \in Artist : b \in links[a]})]
  IN  walks

(* The graph of the query: the artists joined to each artist. *)
Links == [a \in Artist |-> {b \in Artist : Joined(a, b)}]

Ball == BallsAround(Links, origin)

(* Nearest first: an artist k+1 hops away is only taken once everybody     *)
(* within k hops is, whatever the scores are.                              *)
NearestFirst ==
  pc \in {"grow", "done"} =>
    \E k \in 0..Cardinality(Artist) :
      Ball[k] \subseteq neighbourhood /\ neighbourhood \subseteq Ball[k+1]

Walks == WalksFrom(Links, origin)

(* The artists k hops from the origin and no fewer. *)
Sphere(k) == Ball[k] \ Ball[k-1]

(* Best connected first: of two artists equally far from the origin, the   *)
(* one with more shortest paths from it is not left out for the other.     *)
(* The scores that step() hands on from layer to layer count these paths,  *)
(* as long as the frontier is a whole layer and never goes back.           *)
BestConnectedFirst ==
  pc \in {"grow", "done"} =>
    \A k \in 1..Cardinality(Artist) :
      \A a \in Sphere(k) \cap neighbourhood, b \in Sphere(k) \ neighbourhood :
        Walks[k][a] >= Walks[k][b]

(* Who is chosen first: the artists nearest to the origin, and among the   *)
(* equally near the best connected (the loop of neighbourhood(), step()).  *)
ClosestFirst == NearestFirst /\ BestConnectedFirst

(* The request is answered, unless no artist of the pool passes the test   *)
(* the drawing loop waits for: then while True never ends.                 *)
NoCandidate == pc = "draw" /\ pool # {} /\ \A a \in pool : ~Eligible(a)

AnsweredUnlessNoCandidate == <>(pc \in {"done", "error"} \/ NoCandidate)

-----------------------------------------------------------------------------
(***************************************************************************)
(* Values for the constants Databases and Requests where Artist = 1..5 and *)
(* Genre has one member: every graph on the artists, and every size that   *)
(* makes a difference: nobody but the origin, a first or a second layer    *)
(* cut short, more than there are.  All artists but 4 are of the genre,    *)
(* which tells filtered from unfiltered neighbours; the pool of the genre  *)
(* holds artist 4 and artist 3, who is not popular.  Neighbours are        *)
(* artists with a track in common, hence symmetric.                        *)
(***************************************************************************)
SmallGraphs ==
  {[a \in Artist |-> {b \in Artist : {a, b} \in E}] :
     E \in SUBSET {P \in SUBSET Artist : Cardinality(P) = 2}}

SmallDatabases ==
  {[neighbours |-> f,
    genre      |-> [a \in Artist |-> IF a = 4 THEN Null ELSE CHOOSE g \in Genre : TRUE],
    popular    |-> Artist \ {3},
    top        |-> [g \in Genre |-> p]] :
     f \in SmallGraphs, p \in {{}, {1, 3, 4}}}

SmallRequests ==
  {[size |-> n, genre |-> g, origin |-> o] :
     n \in {0, 2, 3, 4, 6}, g \in Genre \cup {Null}, o \in {1, 4, Null}}
=============================================================================

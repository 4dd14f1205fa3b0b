--------------------------- MODULE PlaylistProofs ---------------------------
(***************************************************************************)
(* Proofs about Playlist, for any tracks, any length of the list and any   *)
(* number of events under way.                                             *)
(*                                                                         *)
(* As long as the user has not strayed (InStepNow): the table has a row    *)
(* for every track of the list; a list with tracks has a player that holds *)
(* the current one, and the bar names it or an event is under way that     *)
(* will.  Whatever the user does, the rows number the tracks without       *)
(* repetition (TableRight), which makes a drag a permutation.              *)
(***************************************************************************)
EXTENDS Playlist, SequenceTheorems, FiniteSetTheorems, WellFoundedInduction, TLAPS

Event == {"cued", "ended"}

GoodIndex(x) ==
  /\ x \in TrackIndex
  /\ x.val >= -1
  /\ x.kind # "number" => x.val >= 0

TableRight ==
  /\ rows \in Seq(Nat)
  /\ Len(rows) <= MaxLen
  /\ \A k \in 1..Len(rows) : rows[k] \in 0..(Len(rows) - 1)
  /\ \A k, l \in 1..Len(rows) : rows[k] = rows[l] => k = l
  /\ shown = [k \in 1..Len(rows) |-> shown[k]]

Pending == \E k \in 1..Len(events) : events[k] = "cued"

InStepNow ==
  /\ Len(rows) = Len(customPlaylist)
  /\ customPlaylist = <<>> => currentTrack = Null
  /\ customPlaylist # <<>> =>
       /\ currentTrack.kind = "number"
       /\ currentTrack.val \in 0..(Len(customPlaylist) - 1)
       /\ video = Entry(customPlaylist, currentTrack)
       /\ ready
       /\ playMode = "playlist"
       /\ label = video \/ Pending

IInv ==
  /\ TypeOK
  /\ GoodIndex(currentTrack)
  /\ TableRight
  /\ Len(customPlaylist) <= MaxLen
  /\ Len(rows) >= 2 => Len(rows) <= Len(customPlaylist)
  /\ ~strayed => InStepNow

(* What the invariant comes to. *)
LEMMA IInvGives == IInv => PlayerAgrees
<1> SUFFICES ASSUME IInv PROVE PlayerAgrees
  OBVIOUS
<1>1. TypeOK
  BY DEF IInv
<1>2. InStep
  BY DEF IInv, InStepNow, InStep
<1>3. AnnouncedIsPlaying
  BY DEF IInv, InStepNow, Pending, AnnouncedIsPlaying
<1> QED
  BY <1>1, <1>2, <1>3 DEF PlayerAgrees

-----------------------------------------------------------------------------
(***************************************************************************)
(* Splices.                                                                *)
(***************************************************************************)
(* InsertAt puts t at position n and moves what follows up by one. *)
LEMMA InsertAtProperties ==
  ASSUME NEW T, NEW list \in Seq(T), NEW n \in 1..(Len(list)+1), NEW t \in T
 PROVE /\ InsertAt(list,n,t) \in Seq(T) /\ Len(InsertAt(list,n,t)) = Len(list)+1
       /\ \A k \in 1..(n-1) : InsertAt(list,n,t)[k] = list[k]
       /\ InsertAt(list,n,t)[n] = t
       /\ \A k \in (n+1)..(Len(list)+1) : InsertAt(list,n,t)[k] = list[k-1]
<1> DEFINE a == SubSeq(list,1,n-1)
           b == SubSeq(list,n,Len(list))
           c == a \o <<t>>
<1>1. a \in Seq(T) /\ Len(a) = n-1 /\ \A k \in 1..(n-1) : a[k] = list[k]
  BY SubSeqProperties
<1>2. b \in Seq(T) /\ Len(b) = Len(list)-n+1 /\ \A k \in 1..(Len(list)-n+1) : b[k] = list[n+k-1]
  BY SubSeqProperties
<1>3. <<t>> \in Seq(T) /\ Len(<<t>>) = 1 /\ <<t>>[1] = t
  OBVIOUS
<1>4. c \in Seq(T) /\ Len(c) = n /\ (\A k \in 1..(n-1) : c[k] = list[k]) /\ c[n] = t
  BY <1>1, <1>3, ConcatProperties
<1>5. InsertAt(list,n,t) = c \o b
  BY DEF InsertAt
<1> HIDE DEF a, b, c
<1>6. InsertAt(list,n,t) \in Seq(T) /\ Len(InsertAt(list,n,t)) = Len(list)+1
  <2>1. c \o b \in Seq(T) /\ Len(c \o b) = Len(c) + Len(b)
    BY <1>2, <1>4, ConcatProperties
  <2>2. Len(c) + Len(b) = Len(list) + 1
    <3>1. Len(list) \in Nat
      OBVIOUS
    <3> QED
      BY <3>1, <1>2, <1>4
  <2> QED
    BY <2>1, <2>2, <1>5
<1>7. \A k \in 1..n : InsertAt(list,n,t)[k] = c[k]
  BY <1>2, <1>4, <1>5, ConcatProperties
<1>8. \A k \in (n+1)..(Len(list)+1) : InsertAt(list,n,t)[k] = b[k - n]
  BY <1>2, <1>4, <1>5, ConcatProperties
<1> QED
  BY <1>2, <1>4, <1>6, <1>7, <1>8

(* RemoveAt drops position n and moves what follows down by one. *)
LEMMA RemoveAtProperties ==
  ASSUME NEW T, NEW list \in Seq(T), NEW n \in 1..Len(list)
 PROVE /\ RemoveAt(list,n) \in Seq(T) /\ Len(RemoveAt(list,n)) = Len(list)-1
       /\ \A k \in 1..(n-1) : RemoveAt(list,n)[k] = list[k]
       /\ \A k \in n..(Len(list)-1) : RemoveAt(list,n)[k] = list[k+1]
<1> DEFINE a == SubSeq(list,1,n-1)
           b == SubSeq(list,n+1,Len(list))
<1>1. a \in Seq(T) /\ Len(a) = n-1 /\ \A k \in 1..(n-1) : a[k] = list[k]
  BY SubSeqProperties
<1>2. b \in Seq(T) /\ Len(b) = Len(list)-n /\ \A k \in 1..(Len(list)-n) : b[k] = list[n+k]
  BY SubSeqProperties
<1>3. RemoveAt(list,n) = a \o b
  BY DEF RemoveAt
<1> HIDE DEF a, b
<1>4. RemoveAt(list,n) \in Seq(T) /\ Len(RemoveAt(list,n)) = Len(list)-1
  BY <1>1, <1>2, <1>3, ConcatProperties
<1>5. \A k \in 1..(n-1) : RemoveAt(list,n)[k] = a[k]
  BY <1>1, <1>2, <1>3, ConcatProperties
<1>6. \A k \in n..(Len(list)-1) : RemoveAt(list,n)[k] = b[k - n + 1]
  BY <1>1, <1>2, <1>3, ConcatProperties
<1> QED
  BY <1>1, <1>2, <1>4, <1>5, <1>6

(* list.splice(n, 0, t): what stands before n stays, t follows it. *)
LEMMA SpliceInProperties ==
  ASSUME NEW T, NEW list \in Seq(T), NEW n \in Nat, NEW t \in T
  PROVE  /\ SpliceIn(list, n, t) \in Seq(T)
         /\ Len(SpliceIn(list, n, t)) = Len(list) + 1
         /\ \A k \in 1..Len(list) : k <= n => SpliceIn(list, n, t)[k] = list[k]
<1> DEFINE m == (IF n < Len(list) THEN n ELSE Len(list)) + 1
<1>1. m \in 1..(Len(list)+1) /\ Len(list) \in Nat
  OBVIOUS
<1>2. SpliceIn(list, n, t) = InsertAt(list, m, t)
  BY DEF SpliceIn
<1>4. \A k \in 1..Len(list) : k <= n => k \in 1..(m-1)
  <2>1. CASE n < Len(list)
    BY <1>1, <2>1
  <2>2. CASE ~(n < Len(list))
    BY <1>1, <2>2
  <2> QED
    BY <2>1, <2>2
<1> HIDE DEF m
<1>3. /\ InsertAt(list, m, t) \in Seq(T) /\ Len(InsertAt(list, m, t)) = Len(list)+1
      /\ \A k \in 1..(m-1) : InsertAt(list, m, t)[k] = list[k]
  BY <1>1, InsertAtProperties
<1> QED
  BY <1>2, <1>3, <1>4

(* list.splice(n, 1): what follows n moves down by one. *)
LEMMA SpliceOutProperties ==
  ASSUME NEW T, NEW list \in Seq(T), NEW n \in Nat
  PROVE  /\ SpliceOut(list, n) \in Seq(T)
         /\ n >= Len(list) => SpliceOut(list, n) = list
         /\ n < Len(list) => Len(SpliceOut(list, n)) = Len(list) - 1
         /\ \A k \in 1..(Len(list)-1) : k <= n => SpliceOut(list, n)[k] = list[k]
         /\ \A k \in 1..(Len(list)-1) : k > n => SpliceOut(list, n)[k] = list[k+1]
<1>1. Len(list) \in Nat
  OBVIOUS
<1>2. CASE n >= Len(list)
  <2>1. SpliceOut(list, n) = list
    BY <1>1, <1>2 DEF SpliceOut
  <2> QED
    BY <1>1, <1>2, <2>1
<1>3. CASE n < Len(list)
  <2>1. SpliceOut(list, n) = RemoveAt(list, n+1) /\ n + 1 \in 1..Len(list)
    BY <1>1, <1>3 DEF SpliceOut
  <2>2. /\ RemoveAt(list, n+1) \in Seq(T) /\ Len(RemoveAt(list, n+1)) = Len(list)-1
        /\ \A k \in 1..((n+1)-1) : RemoveAt(list, n+1)[k] = list[k]
        /\ \A k \in (n+1)..(Len(list)-1) : RemoveAt(list, n+1)[k] = list[k+1]
    BY <2>1, RemoveAtProperties
  <2>3. \A k \in 1..(Len(list)-1) : k <= n => k \in 1..((n+1)-1)
    BY <1>1
  <2>4. \A k \in 1..(Len(list)-1) : k > n => k \in (n+1)..(Len(list)-1)
    BY <1>1
  <2> QED
    BY <1>1, <1>3, <2>1, <2>2, <2>3, <2>4
<1> QED
  BY <1>1, <1>2, <1>3

(* A set of positions that is not empty has a last one. *)
LEMMA GreatestExists ==
  ASSUME NEW n \in Nat, NEW S \in SUBSET (1..n), S # {}
  PROVE  \E k \in S : \A l \in S : l <= k
<1> DEFINE R == OpToRel(<, Nat)
           T == {n - k : k \in S}
<1>1. T \subseteq Nat /\ T # {}
  <2>1. \A k \in S : n - k \in Nat
    OBVIOUS
  <2>2. PICK k \in S : TRUE
    OBVIOUS
  <2>3. n - k \in T
    OBVIOUS
  <2> QED
    BY <2>1, <2>3
<1>2. \A x, y \in Nat : x < y => <<x, y>> \in R
  BY DEF OpToRel
<1>3. IsWellFoundedOn(R, Nat)
  BY NatLessThanWellFounded
<1> HIDE DEF R, T
<1>4. PICK x \in T : \A y \in T : ~(<<y, x>> \in R)
  BY <1>1, <1>3, WFMin
<1>5. PICK k \in S : x = n - k
  BY DEF T
<1>6. ASSUME NEW l \in S PROVE l <= k
  <2>1. n - l \in T /\ n - l \in Nat /\ x \in Nat
    BY <1>1 DEF T
  <2>2. ~(n - l < x)
    BY <1>2, <1>4, <2>1
  <2> QED
    BY <1>5, <2>1, <2>2
<1> QED
  BY <1>6

(* The position in s of what stands at k once the row at p is at q. *)
From(p, q, k) ==
  IF k = q THEN p
  ELSE LET m == IF k < q THEN k ELSE k - 1 IN IF m < p THEN m ELSE m + 1

(* No two rows come from the same one. *)
LEMMA FromOneToOne ==
  ASSUME NEW n \in Nat, NEW p \in 1..n, NEW q \in 1..n, NEW k \in 1..n, NEW l \in 1..n,
         From(p, q, k) = From(p, q, l)
  PROVE  k = l
BY DEF From

(* A drag moves the entries and changes none. *)
LEMMA MovedProperties ==
  ASSUME NEW T, NEW s \in Seq(T), NEW p \in 1..Len(s), NEW q \in 1..Len(s)
  PROVE  /\ Moved(s, p, q) \in Seq(T)
         /\ Len(Moved(s, p, q)) = Len(s)
         /\ \A k \in 1..Len(s) : /\ From(p, q, k) \in 1..Len(s)
                                 /\ Moved(s, p, q)[k] = s[From(p, q, k)]
<1> DEFINE r == RemoveAt(s, p)
           n == Len(s)
           e == s[p]
<1>1. /\ r \in Seq(T) /\ Len(r) = n - 1 /\ n \in Nat
      /\ \A k \in 1..(p-1) : r[k] = s[k]
      /\ \A k \in p..(n-1) : r[k] = s[k+1]
  BY RemoveAtProperties
<1> HIDE DEF r
<1>2. q \in 1..(Len(r)+1) /\ e \in T
  BY <1>1
<1> HIDE DEF e
<1>3. /\ InsertAt(r, q, e) \in Seq(T) /\ Len(InsertAt(r, q, e)) = Len(r)+1
      /\ \A k \in 1..(q-1) : InsertAt(r, q, e)[k] = r[k]
      /\ InsertAt(r, q, e)[q] = e
      /\ \A k \in (q+1)..(Len(r)+1) : InsertAt(r, q, e)[k] = r[k-1]
  <2>1. r \in Seq(T)
    BY <1>1
  <2> HIDE DEF n
  <2> QED
    BY ONLY <2>1, <1>2, InsertAtProperties
<1>4. Moved(s, p, q) = InsertAt(r, q, e)
  BY DEF Moved, r, e
<1>5. ASSUME NEW k \in 1..n
      PROVE  From(p, q, k) \in 1..n /\ Moved(s, p, q)[k] = s[From(p, q, k)]
  <2>1. CASE k = q
    BY <1>3, <1>4, <2>1 DEF From, e
  <2>2. CASE k < q
    <3>1. From(p, q, k) = (IF k < p THEN k ELSE k + 1)
      BY <1>1, <2>2 DEF From
    <3>2. Moved(s, p, q)[k] = r[k]
      <4>1. k \in 1..(q-1)
        BY <1>1, <2>2
      <4> QED
        BY <4>1, <1>3, <1>4
    <3>3. CASE k < p
      BY <1>1, <3>1, <3>2, <3>3
    <3>4. CASE k >= p
      <4>1. From(p, q, k) = k + 1 /\ k \in p..(n-1)
        BY <1>1, <2>2, <3>1, <3>4
      <4> QED
        BY <1>1, <3>2, <4>1
    <3> QED
      BY <1>1, <3>3, <3>4
  <2>3. CASE k > q
    <3>1. From(p, q, k) = (IF k - 1 < p THEN k - 1 ELSE (k - 1) + 1)
      BY <1>1, <2>3 DEF From
    <3>2. Moved(s, p, q)[k] = r[k - 1] /\ k - 1 \in 1..(n-1)
      BY <1>1, <1>3, <1>4, <2>3
    <3>3. CASE k - 1 < p
      <4>1. From(p, q, k) = k - 1 /\ k - 1 \in 1..(p-1)
        BY <1>1, <3>1, <3>2, <3>3
      <4> QED
        BY <1>1, <3>2, <4>1
    <3>4. CASE k - 1 >= p
      <4>1. From(p, q, k) = (k - 1) + 1 /\ k - 1 \in p..(n-1)
        BY <1>1, <3>1, <3>2, <3>4
      <4> QED
        BY <1>1, <3>2, <4>1
    <3> QED
      BY <1>1, <3>3, <3>4
  <2> QED
    BY <1>1, <2>1, <2>2, <2>3
<1> QED
  BY <1>1, <1>3, <1>4, <1>5

-----------------------------------------------------------------------------
(***************************************************************************)
(* Indices, the table and the player.                                      *)
(***************************************************************************)
(* A number from -1 on is an index. *)
LEMMA NumberGood ==
  ASSUME NEW v \in Int, v >= -1
  PROVE  GoodIndex(Number(v)) /\ Number(v).kind = "number" /\ Number(v).val = v
BY DEF GoodIndex, Number, TrackIndex

(* x + 1 is an index again, not a negative one. *)
LEMMA PlusOneGood ==
  ASSUME NEW x, GoodIndex(x)
  PROVE  /\ GoodIndex(PlusOne(x))
         /\ PlusOne(x).val \in Nat
         /\ x.kind = "number" => PlusOne(x) = Number(x.val + 1)
<1>1. /\ x \in TrackIndex /\ x.val \in Int /\ x.text \in Seq(0..9)
      /\ x.kind \in {"number", "null", "undefined", "text"}
      /\ x.val >= -1 /\ (x.kind # "number" => x.val >= 0)
  BY DEF GoodIndex, TrackIndex
<1>2. CASE x.kind = "text"
  <2>1. PlusOne(x) = [x EXCEPT !.val = 10 * x.val + 1, !.text = Append(x.text, 1)]
    BY <1>2 DEF PlusOne
  <2>2. 10 * x.val + 1 \in Nat /\ Append(x.text, 1) \in Seq(0..9)
    BY <1>1, <1>2
  <2>3. /\ PlusOne(x) \in TrackIndex
        /\ PlusOne(x).val = 10 * x.val + 1
    <3> DEFINE v == 10 * x.val + 1
               u == Append(x.text, 1)
    <3>1. v \in Int /\ u \in Seq(0..9) /\ PlusOne(x) = [x EXCEPT !.val = v, !.text = u]
      BY <2>1, <2>2
    <3> HIDE DEF v, u
    <3>2. PlusOne(x) \in TrackIndex /\ PlusOne(x).val = v
      BY <1>1, <3>1 DEF TrackIndex
    <3> QED
      BY <3>2 DEF v
  <2> QED
    BY <1>2, <2>2, <2>3 DEF GoodIndex
<1>3. CASE x.kind = "undefined"
  <2>1. PlusOne(x) = x
    BY <1>3 DEF PlusOne
  <2> QED
    BY <1>1, <1>3, <2>1
<1>4. CASE x.kind \in {"number", "null"}
  <2>1. PlusOne(x) = Number(x.val + 1)
    BY <1>4 DEF PlusOne
  <2>2. x.val + 1 \in Nat
    BY <1>1
  <2> QED
    BY <2>1, <2>2, NumberGood
<1> QED
  BY <1>1, <1>2, <1>3, <1>4

(* The text of an index of a row is an index. *)
LEMMA TextGood ==
  ASSUME NEW n \in 0..98
  PROVE  GoodIndex(Text(n))
<1>1. Decimal(n) \in Seq(0..9)
  <2>1. CASE n < 10
    BY <2>1 DEF Decimal
  <2>2. CASE n >= 10
    <3>1. n \div 10 \in 0..9 /\ n % 10 \in 0..9
      BY <2>2
    <3>2. Decimal(n) = <<n \div 10, n % 10>>
      BY <2>2 DEF Decimal
    <3>3. ASSUME NEW a \in 0..9, NEW b \in 0..9 PROVE <<a, b>> \in Seq(0..9)
      OBVIOUS
    <3> QED
      BY <3>1, <3>2, <3>3
  <2> QED
    BY <2>1, <2>2
<1> QED
  BY <1>1 DEF GoodIndex, Text, TrackIndex

(* Null and undefined count as indices. *)
LEMMA NothingGood == GoodIndex(Null) /\ GoodIndex(Undefined)
BY DEF GoodIndex, Null, Undefined, TrackIndex

(* A table that is filled again has a row for every track. *)
LEMMA RefilledTable ==
  ASSUME NEW list \in Seq(Track), Len(list) <= MaxLen, NEW order, Refilled(list, order)
  PROVE  TableRight' /\ Len(rows') = Len(list) /\ DOMAIN shown' = DOMAIN rows'
<1> DEFINE n == Len(list)
<1>1. n \in Nat /\ rows' = [k \in 1..n |-> k - 1] /\ shown' = Displayed(list, order)
  BY DEF Refilled
<1>2. rows' \in [1..n -> Nat]
  BY <1>1
<1>3. rows' \in Seq(Nat) /\ Len(rows') = n
  BY <1>1, <1>2
<1>4. \A k \in 1..n : rows'[k] = k - 1
  BY <1>1
<1>5. shown' = [k \in 1..n |-> shown'[k]]
  <2>1. CASE order = "none"
    BY <1>1, <2>1 DEF Displayed
  <2>2. CASE order # "none"
    BY <1>1, <2>2 DEF Displayed
  <2> QED
    BY <2>1, <2>2
<1>6. /\ \A k \in 1..n : rows'[k] \in 0..(n - 1)
      /\ \A k, l \in 1..n : rows'[k] = rows'[l] => k = l
  BY <1>1, <1>4
<1>7. DOMAIN shown' = DOMAIN rows'
  BY <1>1, <1>5
<1> QED
  BY <1>3, <1>5, <1>6, <1>7 DEF TableRight

(* A cued video is in the player and an event for it under way. *)
LEMMA Cueing ==
  ASSUME TypeOK, NEW v \in Track, NEW pending \in Seq(Event), cueVideoById(v, pending)
  PROVE  /\ video' \in Track \cup {NoVideo}
         /\ state' \in {"unstarted", "cued", "playing", "paused", "ended"}
         /\ events' \in Seq(Event)
         /\ ready => video' = v /\ Pending'
<1>1. CASE ready
  <2>1. video' = v /\ state' = "cued" /\ events' = Append(pending, "cued")
    BY <1>1 DEF cueVideoById
  <2>2. /\ events' \in Seq(Event) /\ Len(events') = Len(pending) + 1
        /\ events'[Len(pending) + 1] = "cued" /\ Len(pending) \in Nat
    BY <2>1 DEF Event
  <2>3. Pending'
    BY <2>2 DEF Pending
  <2> QED
    BY <2>1, <2>2, <2>3
<1>2. CASE ~ready
  BY <1>2 DEF cueVideoById, TypeOK
<1> QED
  BY <1>1, <1>2

(* Moving on: the index stays an index, and from a number in the list the  *)
(* next track is cued, the first one after the last.                       *)
LEMMA MovingOn ==
  ASSUME TypeOK, NEW list \in Seq(Track), NEW x, GoodIndex(x), NEW mode,
         NEW pending \in Seq(Event), playNextTrack(list, x, mode, pending)
  PROVE  /\ GoodIndex(currentTrack')
         /\ video' \in Track \cup {NoVideo}
         /\ state' \in {"unstarted", "cued", "playing", "paused", "ended"}
         /\ events' \in Seq(Event)
         /\ label' \in Track \cup {NoVideo}
         /\ (mode = "playlist" /\ list # <<>> /\ ready /\ x.kind = "number" /\ x.val < Len(list)) =>
              /\ currentTrack'.kind = "number"
              /\ currentTrack'.val \in 0..(Len(list) - 1)
              /\ video' = Entry(list, currentTrack')
              /\ Pending'
         /\ (mode = "playlist" /\ list = <<>>) => currentTrack' = x
<1>1. CASE mode # "playlist"
  BY <1>1 DEF playNextTrack, TypeOK, Event
<1>2. CASE mode = "playlist" /\ list = <<>>
  <2>1. /\ currentTrack' = x /\ stopVideo(pending)
        /\ label' = IF ready THEN NoVideo ELSE label
    BY <1>2 DEF playNextTrack
  <2>2. label' \in Track \cup {NoVideo} /\ video' = video
    BY <2>1 DEF TypeOK, stopVideo
  <2>3. Append(pending, "cued") \in Seq(Event)
    BY DEF Event
  <2>4. events' \in Seq(Event)
    BY <2>1, <2>3 DEF stopVideo
  <2>5. state' \in {"unstarted", "cued", "playing", "paused", "ended"}
    BY <2>1 DEF stopVideo, TypeOK
  <2> QED
    BY <1>2, <2>1, <2>2, <2>4, <2>5 DEF TypeOK
<1>3. CASE mode = "playlist" /\ list # <<>>
  <2> DEFINE y == PlusOne(x)
             z == IF Below(y, Len(list)) THEN y ELSE Number(0)
  <2>1. /\ currentTrack' = z
        /\ IF Resolves(list, currentTrack')
           THEN cueVideoById(Entry(list, currentTrack'), pending)
           ELSE events' = pending /\ UNCHANGED <<video, state>>
        /\ label' = label
    BY <1>3 DEF playNextTrack
  <2>2. GoodIndex(y) /\ (x.kind = "number" => y = Number(x.val + 1))
    BY PlusOneGood
  <2>3. GoodIndex(z)
    BY <2>2, NumberGood
  <2>4. Len(list) \in Nat /\ Len(list) > 0
    BY <1>3
  <2>5. Resolves(list, z) => Entry(list, z) \in Track
    BY <2>4 DEF Resolves, Entry
  <2> HIDE DEF z
  <2>6. /\ video' \in Track \cup {NoVideo}
        /\ state' \in {"unstarted", "cued", "playing", "paused", "ended"}
        /\ events' \in Seq(Event)
        /\ (Resolves(list, z) /\ ready) => video' = Entry(list, z) /\ Pending'
    <3>1. CASE Resolves(list, z)
      <4>1. cueVideoById(Entry(list, z), pending)
        BY <2>1, <3>1
      <4> QED
        BY <2>5, <3>1, <4>1, Cueing
    <3>2. CASE ~Resolves(list, z)
      BY <2>1, <3>2 DEF TypeOK
    <3> QED
      BY <3>1, <3>2
  <2>7. (x.kind = "number" /\ x.val < Len(list)) =>
          z.kind = "number" /\ z.val \in 0..(Len(list) - 1) /\ Resolves(list, z)
    <3> SUFFICES ASSUME x.kind = "number", x.val < Len(list)
                 PROVE  z.kind = "number" /\ z.val \in 0..(Len(list) - 1) /\ Resolves(list, z)
      OBVIOUS
    <3>1. x.val \in Int /\ x.val >= -1 /\ y.kind = "number" /\ y.val = x.val + 1
      BY <2>2 DEF GoodIndex, TrackIndex, Number
    <3>2. z.kind = "number" /\ z.val \in 0..(Len(list) - 1)
      <4>1. CASE Below(y, Len(list))
        BY <2>4, <3>1, <4>1 DEF z, Below
      <4>2. CASE ~Below(y, Len(list))
        BY <2>4, <4>2 DEF z, Number
      <4> QED
        BY <4>1, <4>2
    <3> QED
      BY <3>2 DEF Resolves
  <2>8. label' \in Track \cup {NoVideo}
    BY <2>1 DEF TypeOK
  <2> QED
    BY <1>3, <2>1, <2>3, <2>6, <2>7, <2>8
<1> QED
  BY <1>1, <1>2, <1>3 DEF playNextTrack

-----------------------------------------------------------------------------
(***************************************************************************)
(* The invariant, action by action.                                        *)
(***************************************************************************)
(* What the invariant asks of the types of the player. *)
PlayerType ==
  /\ video \in Track \cup {NoVideo}
  /\ state \in {"unstarted", "cued", "playing", "paused", "ended"}
  /\ events \in Seq(Event)
  /\ label \in Track \cup {NoVideo}

(* The parts of the invariant, put together after a step. *)
LEMMA IInvParts ==
  ASSUME customPlaylist' \in Seq(Track), Len(customPlaylist') <= MaxLen,
         GoodIndex(currentTrack'), TableRight', PlayerType',
         DOMAIN shown' = DOMAIN rows',
         playMode' \in {"undefined", "playlist"},
         sorting' \in {"none", "asc", "desc"},
         open' \in BOOLEAN, ready' \in BOOLEAN, strayed' \in BOOLEAN,
         Len(rows') >= 2 => Len(rows') <= Len(customPlaylist'),
         ~strayed' => InStepNow'
  PROVE  IInv'
BY DEF IInv, TypeOK, GoodIndex, TableRight, PlayerType, Event

(* The invariant, taken apart. *)
LEMMA IInvFacts ==
  ASSUME IInv
  PROVE  /\ customPlaylist \in Seq(Track) /\ Len(customPlaylist) \in Nat
         /\ Len(customPlaylist) <= MaxLen
         /\ GoodIndex(currentTrack) /\ TableRight /\ PlayerType
         /\ DOMAIN shown = DOMAIN rows
         /\ playMode \in {"undefined", "playlist"}
         /\ sorting \in {"none", "asc", "desc"}
         /\ open \in BOOLEAN /\ ready \in BOOLEAN /\ strayed \in BOOLEAN
         /\ Len(rows) \in Nat
         /\ Len(rows) >= 2 => Len(rows) <= Len(customPlaylist)
         /\ ~strayed => InStepNow
BY DEF IInv, TypeOK, TableRight, PlayerType, Event

(* The first state. *)
LEMMA InitInv == Init => IInv
<1> SUFFICES ASSUME Init PROVE IInv
  OBVIOUS
<1>1. customPlaylist = <<>> /\ rows = <<>> /\ shown = <<>> /\ events = <<>>
  BY DEF Init
<1>2. customPlaylist \in Seq(Track) /\ Len(customPlaylist) = 0 /\ 0 <= MaxLen
  BY <1>1, PlaylistAssumption
<1>3. GoodIndex(currentTrack)
  BY NothingGood DEF Init
<1>4. TableRight
  BY <1>1, <1>2 DEF TableRight
<1>5. PlayerType
  BY <1>1 DEF PlayerType, Init
<1>6. InStepNow
  BY <1>1, <1>2 DEF InStepNow, Init
<1>7. TypeOK
  <2>1. currentTrack \in TrackIndex
    BY <1>3 DEF GoodIndex
  <2>2. rows \in Seq(Nat) /\ DOMAIN shown = DOMAIN rows
    BY <1>1
  <2> QED
    BY <2>1, <2>2, <1>2, <1>5 DEF Init, TypeOK, PlayerType, Event
<1> QED
  BY <1>1, <1>2, <1>3, <1>4, <1>6, <1>7 DEF IInv

(* A step that leaves the invariant's part of the state alone. *)
LEMMA Untouched ==
  ASSUME IInv, open' \in BOOLEAN, sorting' \in {"none", "asc", "desc"},
         state' \in {"unstarted", "cued", "playing", "paused", "ended"},
         UNCHANGED <<customPlaylist, currentTrack, playMode, rows, shown, video, events,
                     label, ready, strayed>>
  PROVE  IInv'
BY DEF IInv, TypeOK, TableRight, InStepNow, Pending, Entry

LEMMA PlayerReadyInv == ASSUME IInv, PlayerReady PROVE IInv'
BY DEF IInv, TypeOK, TableRight, InStepNow, Pending, Entry, PlayerReady

(* A refresh: the table has a row for every track of the list. *)
LEMMA RefillInv ==
  ASSUME NEW list \in Seq(Track), Len(list) <= MaxLen, NEW order,
         Refilled(list, order), customPlaylist' = list,
         GoodIndex(currentTrack'), PlayerType',
         playMode' \in {"undefined", "playlist"},
         sorting' \in {"none", "asc", "desc"},
         open' \in BOOLEAN, ready' \in BOOLEAN, strayed' \in BOOLEAN,
         (~strayed' /\ Len(rows') = Len(list)) => InStepNow'
  PROVE  IInv'
<1>1. TableRight' /\ Len(rows') = Len(list) /\ DOMAIN shown' = DOMAIN rows'
  BY RefilledTable
<1>2. Len(rows') >= 2 => Len(rows') <= Len(customPlaylist')
  BY <1>1
<1> QED
  BY <1>1, <1>2, IInvParts

LEMMA RefreshInv ==
  ASSUME IInv, NEW order, Refilled(customPlaylist, order), customPlaylist' = customPlaylist,
         GoodIndex(currentTrack'), PlayerType',
         playMode' \in {"undefined", "playlist"},
         sorting' \in {"none", "asc", "desc"},
         open' \in BOOLEAN, ready' \in BOOLEAN, strayed' \in BOOLEAN,
         (~strayed' /\ Len(rows') = Len(customPlaylist)) => InStepNow'
  PROVE  IInv'
<1>1. PICK list \in Seq(Track) : list = customPlaylist /\ Len(list) <= MaxLen
  BY IInvFacts
<1> QED
  BY <1>1, RefillInv

LEMMA ClickPlaylistInv == ASSUME IInv, ClickPlaylist PROVE IInv'
<1>1. InStepNow => (Len(rows') = Len(customPlaylist) => InStepNow')
  BY DEF InStepNow, ClickPlaylist, Entry, Pending
<1>2. PlayerType'
  BY IInvFacts DEF PlayerType, ClickPlaylist
<1>3. GoodIndex(currentTrack')
  BY IInvFacts DEF ClickPlaylist, GoodIndex
<1> QED
  BY <1>1, <1>2, <1>3, IInvFacts, RefreshInv DEF ClickPlaylist, refreshPlaylist

LEMMA SortByTitleInv == ASSUME IInv, SortByTitle PROVE IInv'
<1>1. InStepNow => (Len(rows') = Len(customPlaylist) => InStepNow')
  BY DEF InStepNow, SortByTitle, Entry, Pending
<1>2. PlayerType'
  BY IInvFacts DEF PlayerType, SortByTitle
<1>3. GoodIndex(currentTrack') /\ sorting' \in {"none", "asc", "desc"}
  BY IInvFacts DEF SortByTitle, GoodIndex
<1>4. PICK order : order = sorting' /\ Refilled(customPlaylist, order)
  BY DEF SortByTitle
<1> QED
  BY <1>1, <1>2, <1>3, <1>4, IInvFacts, RefreshInv DEF SortByTitle

LEMMA DoubleClickRowInv ==
  ASSUME IInv, NEW p \in 1..Len(rows), DoubleClickRow(p) PROVE IInv'
<1>1. rows[p] \in 0..98
  <2>1. rows[p] \in 0..(Len(rows) - 1) /\ Len(rows) \in Nat /\ Len(rows) <= MaxLen
    BY IInvFacts DEF TableRight
  <2>2. MaxLen \in Int /\ MaxLen <= 99
    BY PlaylistAssumption
  <2>3. ASSUME NEW v \in 0..(Len(rows) - 1) PROVE v \in 0..98
    BY <2>1, <2>2
  <2> QED
    BY <2>1, <2>3
<1>2. GoodIndex(currentTrack')
  BY <1>1, TextGood DEF DoubleClickRow
<1>3. PlayerType'
  BY IInvFacts DEF PlayerType, DoubleClickRow
<1>4. strayed' = TRUE /\ open' \in BOOLEAN
  BY DEF DoubleClickRow, Stray
<1> QED
  BY <1>2, <1>3, <1>4, IInvFacts, RefreshInv DEF DoubleClickRow, refreshPlaylist

LEMMA DoubleClickHeaderInv == ASSUME IInv, DoubleClickHeader PROVE IInv'
<1>1. GoodIndex(currentTrack')
  BY NothingGood DEF DoubleClickHeader
<1>2. PlayerType'
  BY IInvFacts DEF PlayerType, DoubleClickHeader
<1>3. strayed' = TRUE /\ open' \in BOOLEAN
  BY DEF DoubleClickHeader, Stray
<1> QED
  BY <1>1, <1>2, <1>3, IInvFacts, RefreshInv DEF DoubleClickHeader, refreshPlaylist

LEMMA VideoEndsInv == ASSUME IInv, VideoEnds PROVE IInv'
<1>1. events \in Seq(Event) /\ events' = Append(events, "ended") /\ state' = "ended"
  BY IInvFacts DEF PlayerType, VideoEnds
<1>2. /\ events' \in Seq(Event) /\ Len(events') = Len(events) + 1 /\ Len(events) \in Nat
      /\ \A k \in 1..Len(events) : events'[k] = events[k]
  BY <1>1 DEF Event
<1>3. Pending => Pending'
  BY <1>2 DEF Pending
<1>4. PlayerType'
  BY <1>1, <1>2, IInvFacts DEF PlayerType, VideoEnds
<1>5. InStepNow => InStepNow'
  BY <1>3 DEF InStepNow, VideoEnds, Entry
<1>6. TableRight' /\ GoodIndex(currentTrack')
  BY IInvFacts DEF TableRight, VideoEnds
<1> QED
  BY <1>4, <1>5, <1>6, IInvFacts, IInvParts DEF VideoEnds

(* The event of a cued video that is the last one under way names it. *)
LEMMA OnCuedInv == ASSUME IInv, OnCued PROVE IInv'
<1>1. events \in Seq(Event) /\ events # <<>> /\ events' = Tail(events) /\ Head(events) = "cued"
  BY IInvFacts DEF PlayerType, OnCued
<1>2. events' \in Seq(Event)
  BY <1>1
<1>3. Resolves(customPlaylist, currentTrack) => Entry(customPlaylist, currentTrack) \in Track
  BY IInvFacts DEF Resolves, Entry
<1>4. PlayerType'
  BY <1>2, <1>3, IInvFacts DEF PlayerType, OnCued
<1>5. InStepNow => InStepNow'
  <2> SUFFICES ASSUME InStepNow PROVE InStepNow'
    OBVIOUS
  <2>1. customPlaylist # <<>> => label' = video'
    BY DEF InStepNow, OnCued, Resolves
  <2> QED
    BY <2>1 DEF InStepNow, OnCued, Entry
<1>6. TableRight' /\ GoodIndex(currentTrack')
  BY IInvFacts DEF TableRight, OnCued
<1> QED
  BY <1>4, <1>5, <1>6, IInvFacts, IInvParts DEF OnCued

(* Moving on, from the button or at the end of a video. *)
LEMMA MoveOnInv ==
  ASSUME IInv, NEW pending \in Seq(Event),
         playNextTrack(customPlaylist, currentTrack, playMode, pending),
         IF playMode = "playlist" THEN refreshPlaylist(customPlaylist)
         ELSE UNCHANGED <<rows, shown>>,
         UNCHANGED <<customPlaylist, playMode, sorting, open, ready, strayed>>
  PROVE  IInv'
<1>0. PICK list \in Seq(Track) : list = customPlaylist
  BY IInvFacts
<1>1. PICK mode, x : list = customPlaylist /\ mode = playMode /\ x = currentTrack
  BY <1>0
<1>2. TypeOK /\ GoodIndex(x) /\ playNextTrack(list, x, mode, pending)
  BY <1>1 DEF IInv
<1>3. /\ GoodIndex(currentTrack')
      /\ video' \in Track \cup {NoVideo}
      /\ state' \in {"unstarted", "cued", "playing", "paused", "ended"}
      /\ events' \in Seq(Event)
      /\ label' \in Track \cup {NoVideo}
      /\ (mode = "playlist" /\ list # <<>> /\ ready /\ x.kind = "number" /\ x.val < Len(list)) =>
           /\ currentTrack'.kind = "number"
           /\ currentTrack'.val \in 0..(Len(list) - 1)
           /\ video' = Entry(list, currentTrack')
           /\ Pending'
      /\ (mode = "playlist" /\ list = <<>>) => currentTrack' = x
  BY <1>2, MovingOn
<1>4. PlayerType'
  BY <1>3 DEF PlayerType
<1>5. CASE playMode = "playlist"
  <2>1. InStepNow => (Len(rows') = Len(customPlaylist) => InStepNow')
    BY <1>1, <1>3, <1>5 DEF InStepNow, Entry
  <2> QED
    BY <1>3, <1>4, <1>5, <2>1, IInvFacts, RefreshInv DEF refreshPlaylist
<1>6. CASE playMode # "playlist"
  <2>1. currentTrack' = currentTrack
    BY <1>6 DEF playNextTrack
  <2>2. InStepNow => customPlaylist = <<>> /\ currentTrack = Null
    BY <1>6 DEF InStepNow
  <2>3. InStepNow => InStepNow'
    BY <1>6, <2>1, <2>2 DEF InStepNow
  <2>4. TableRight'
    BY <1>6, IInvFacts DEF TableRight
  <2> QED
    BY <1>3, <1>4, <1>6, <2>3, <2>4, IInvFacts, IInvParts
<1> QED
  BY <1>5, <1>6

LEMMA PlayNextTrackInv == ASSUME IInv, PlayNextTrack PROVE IInv'
<1>1. PICK pending \in Seq(Event) : pending = events
  BY IInvFacts DEF PlayerType
<1> QED
  BY <1>1, MoveOnInv DEF PlayNextTrack

LEMMA OnEndedInv == ASSUME IInv, OnEnded PROVE IInv'
<1>1. PICK pending \in Seq(Event) : pending = Tail(events)
  <2>1. events \in Seq(Event) /\ events # <<>>
    BY IInvFacts DEF PlayerType, OnEnded
  <2>2. Tail(events) \in Seq(Event)
    BY <2>1
  <2> QED
    BY <2>2
<1> QED
  BY <1>1, MoveOnInv DEF OnEnded

LEMMA PlayPreviousTrackInv == ASSUME IInv, PlayPreviousTrack PROVE IInv'
<1>1. /\ customPlaylist \in Seq(Track) /\ Len(customPlaylist) \in Nat /\ PlayerType
      /\ currentTrack.val \in Int /\ currentTrack.val >= -1 /\ TypeOK
  BY IInvFacts DEF GoodIndex, TrackIndex, IInv
<1>2. GoodIndex(currentTrack')
  <2>1. CASE currentTrack.kind # "undefined" /\ currentTrack.val > 0
    <3>1. currentTrack' = Number(currentTrack.val - 1) /\ currentTrack.val - 1 \in Int
          /\ currentTrack.val - 1 >= -1
      BY <1>1, <2>1 DEF PlayPreviousTrack
    <3> QED
      BY <3>1, NumberGood
  <2>2. CASE ~(currentTrack.kind # "undefined" /\ currentTrack.val > 0)
    <3>1. currentTrack' = Number(Len(customPlaylist) - 1) /\ Len(customPlaylist) - 1 \in Int
          /\ Len(customPlaylist) - 1 >= -1
      BY <1>1, <2>2 DEF PlayPreviousTrack
    <3> QED
      BY <3>1, NumberGood
  <2> QED
    BY <2>1, <2>2
<1>3. PICK z : z = currentTrack'
  OBVIOUS
<1>4. /\ PlayerType'
      /\ (Resolves(customPlaylist, z) /\ ready) => video' = Entry(customPlaylist, z) /\ Pending'
  <2>1. CASE Resolves(customPlaylist, z)
    <3>1. PICK v \in Track : v = Entry(customPlaylist, z)
      BY <1>1, <2>1 DEF Resolves, Entry
    <3>2. PICK pending \in Seq(Event) : pending = events
      BY <1>1 DEF PlayerType
    <3>3. cueVideoById(v, pending)
      BY <1>3, <2>1, <3>1, <3>2 DEF PlayPreviousTrack
    <3>4. /\ video' \in Track \cup {NoVideo}
          /\ state' \in {"unstarted", "cued", "playing", "paused", "ended"}
          /\ events' \in Seq(Event)
          /\ ready => video' = v /\ Pending'
      BY <1>1, <3>3, Cueing
    <3> QED
      BY <1>1, <3>1, <3>4 DEF PlayerType, PlayPreviousTrack
  <2>2. CASE ~Resolves(customPlaylist, z)
    BY <1>1, <1>3, <2>2 DEF PlayPreviousTrack, PlayerType
  <2> QED
    BY <2>1, <2>2
<1>5. strayed' = (strayed \/ customPlaylist = <<>>) /\ strayed' \in BOOLEAN
  BY DEF PlayPreviousTrack, Stray
<1>6. (~strayed' /\ Len(rows') = Len(customPlaylist)) => InStepNow'
  <2> SUFFICES ASSUME ~strayed', Len(rows') = Len(customPlaylist) PROVE InStepNow'
    OBVIOUS
  <2>1. customPlaylist # <<>> /\ InStepNow
    BY <1>5, IInvFacts
  <2>2. z.kind = "number" /\ z.val \in 0..(Len(customPlaylist) - 1)
    <3>1. CASE currentTrack.val > 0
      <4>1. z = Number(currentTrack.val - 1) /\ currentTrack.val <= Len(customPlaylist) - 1
        BY <1>3, <2>1, <3>1 DEF PlayPreviousTrack, InStepNow
      <4> QED
        BY <1>1, <3>1, <4>1 DEF Number
    <3>2. CASE ~(currentTrack.val > 0)
      <4>1. z = Number(Len(customPlaylist) - 1) /\ Len(customPlaylist) > 0
        BY <1>1, <1>3, <2>1, <3>2 DEF PlayPreviousTrack
      <4> QED
        BY <1>1, <4>1 DEF Number
    <3> QED
      BY <3>1, <3>2
  <2>3. Resolves(customPlaylist, z)
    BY <2>2 DEF Resolves
  <2>4. ready /\ playMode = "playlist"
    BY <2>1 DEF InStepNow
  <2> QED
    BY <1>3, <1>4, <2>1, <2>2, <2>3, <2>4 DEF InStepNow, PlayPreviousTrack, Entry
<1> QED
  BY <1>2, <1>4, <1>5, <1>6, IInvFacts, RefreshInv DEF PlayPreviousTrack, refreshPlaylist

(* One more track: what stood in the list up to the current track stays.   *)
LEMMA PlayNowInv ==
  ASSUME IInv, NEW t \in Track, NEW fromMenu \in BOOLEAN, PlayNow(t, fromMenu)
  PROVE  IInv'
<1>1. PICK pl, x0 : pl = customPlaylist /\ x0 = currentTrack
  OBVIOUS
<1> DEFINE list == IF IsNull(x0) THEN Append(pl, t) ELSE SpliceIn(pl, PlusOne(x0).val, t)
           x    == IF IsNull(x0) THEN Number(0) ELSE x0
<1>2. /\ customPlaylist' = list /\ Refilled(list, sorting)
      /\ playNextTrack(list, x, "playlist", events)
      /\ playMode' = "playlist" /\ Len(pl) < MaxLen
  BY <1>1 DEF PlayNow, refreshPlaylist
<1>3. /\ pl \in Seq(Track) /\ Len(pl) \in Nat /\ GoodIndex(x0) /\ TypeOK
  BY <1>1, IInvFacts DEF IInv
<1>4. list \in Seq(Track) /\ Len(list) = Len(pl) + 1
  <2>1. CASE IsNull(x0)
    BY <1>3, <2>1
  <2>2. CASE ~IsNull(x0)
    <3>1. PICK n \in Nat : n = PlusOne(x0).val
      BY <1>3, PlusOneGood
    <3>2. SpliceIn(pl, n, t) \in Seq(Track) /\ Len(SpliceIn(pl, n, t)) = Len(pl) + 1
      BY <1>3, SpliceInProperties
    <3> QED
      BY <2>2, <3>1, <3>2
  <2> QED
    BY <2>1, <2>2
<1>5. GoodIndex(x)
  BY <1>3, NumberGood
<1>6. Len(list) <= MaxLen /\ list # <<>>
  <2>1. MaxLen \in Int
    BY PlaylistAssumption
  <2> QED
    BY <1>2, <1>3, <1>4, <2>1
<1>7. PICK pending \in Seq(Event) : pending = events
  BY IInvFacts DEF PlayerType
<1>8. (~strayed' => ready /\ InStepNow) /\ strayed' \in BOOLEAN
  BY IInvFacts DEF PlayNow, Stray
<1>9. InStepNow => x.kind = "number" /\ x.val < Len(list)
  <2> SUFFICES ASSUME InStepNow PROVE x.kind = "number" /\ x.val < Len(list)
    OBVIOUS
  <2>1. CASE IsNull(x0)
    BY <1>3, <1>4, <2>1 DEF Number
  <2>2. CASE ~IsNull(x0)
    <3>1. pl # <<>>
      BY <1>1, <2>2 DEF InStepNow, IsNull, Null
    <3> QED
      BY <1>1, <1>3, <1>4, <2>2, <3>1 DEF InStepNow
  <2> QED
    BY <2>1, <2>2
<1> HIDE DEF list, x
<1>10. /\ GoodIndex(currentTrack')
       /\ video' \in Track \cup {NoVideo}
       /\ state' \in {"unstarted", "cued", "playing", "paused", "ended"}
       /\ events' \in Seq(Event)
       /\ label' \in Track \cup {NoVideo}
       /\ (list # <<>> /\ ready /\ x.kind = "number" /\ x.val < Len(list)) =>
            /\ currentTrack'.kind = "number"
            /\ currentTrack'.val \in 0..(Len(list) - 1)
            /\ video' = Entry(list, currentTrack')
            /\ Pending'
  BY <1>2, <1>3, <1>4, <1>5, <1>7, MovingOn
<1>11. (~strayed' /\ Len(rows') = Len(list)) => InStepNow'
  <2> SUFFICES ASSUME ~strayed', Len(rows') = Len(list) PROVE InStepNow'
    OBVIOUS
  <2>1. ready' = ready /\ ready
    BY <1>8 DEF PlayNow
  <2> QED
    BY <1>2, <1>6, <1>8, <1>9, <1>10, <2>1 DEF InStepNow, Entry
<1>12. PlayerType' /\ open' \in BOOLEAN
  BY <1>10, IInvFacts DEF PlayerType, PlayNow
<1>13. sorting' = sorting /\ ready' = ready
  BY DEF PlayNow
<1> QED
  BY <1>2, <1>4, <1>6, <1>8, <1>10, <1>11, <1>12, <1>13, IInvFacts, RefillInv

(* A track that goes behind the current one, or to the end. *)
LEMMA AddedInv ==
  ASSUME IInv, NEW list \in Seq(Track), Len(list) = Len(customPlaylist) + 1,
         Len(customPlaylist) < MaxLen, ~IsNull(currentTrack),
         customPlaylist' = list, Refilled(list, sorting),
         currentTrack.kind = "number" =>
           \A k \in 1..Len(customPlaylist) :
              k <= currentTrack.val + 1 => list[k] = customPlaylist[k],
         playMode' \in {playMode, "playlist"}, open' \in BOOLEAN,
         UNCHANGED <<currentTrack, sorting, ready, video, state, events, label, strayed>>
  PROVE  IInv'
<1>1. Len(list) <= MaxLen /\ Len(customPlaylist) \in Nat
  BY IInvFacts, PlaylistAssumption
<1>2. GoodIndex(currentTrack')
  BY IInvFacts
<1>3. PlayerType'
  BY IInvFacts DEF PlayerType
<1>4. (~strayed' /\ Len(rows') = Len(list)) => InStepNow'
  <2> SUFFICES ASSUME ~strayed, Len(rows') = Len(list) PROVE InStepNow'
    OBVIOUS
  <2>1. InStepNow /\ customPlaylist # <<>>
    BY IInvFacts DEF InStepNow, IsNull, Null
  <2>2. /\ currentTrack.kind = "number" /\ currentTrack.val \in 0..(Len(customPlaylist) - 1)
        /\ video = customPlaylist[currentTrack.val + 1] /\ ready /\ playMode = "playlist"
        /\ label = video \/ Pending
    BY <2>1 DEF InStepNow, Entry
  <2>3. video' = list[currentTrack.val + 1] /\ currentTrack.val \in 0..(Len(list) - 1)
    <3>1. PICK v \in 0..(Len(customPlaylist) - 1) : v = currentTrack.val
      BY <2>2
    <3>2. v + 1 \in 1..Len(customPlaylist) /\ v \in 0..(Len(list) - 1) /\ v + 1 <= v + 1
      BY <1>1
    <3>3. list[v + 1] = customPlaylist[v + 1]
      BY <2>2, <3>1, <3>2
    <3> QED
      BY <2>2, <3>1, <3>2, <3>3
  <2>4. Pending' <=> Pending
    BY DEF Pending
  <2>5. list # <<>>
    BY <1>1
  <2> QED
    BY <2>2, <2>3, <2>4, <2>5 DEF InStepNow, Entry
<1> QED
  BY <1>1, <1>2, <1>3, <1>4, IInvFacts, RefillInv

LEMMA PlayNextFromDropdownInv ==
  ASSUME IInv, NEW t \in Track, PlayNextFromDropdown(t) PROVE IInv'
<1>1. /\ customPlaylist \in Seq(Track) /\ Len(customPlaylist) \in Nat /\ PlayerType
      /\ TypeOK /\ GoodIndex(currentTrack) /\ MaxLen \in Int
      /\ Len(customPlaylist) < MaxLen
  <2>1. MaxLen \in Int
    BY PlaylistAssumption
  <2>2. TypeOK
    BY DEF IInv
  <2>3. Len(customPlaylist) < MaxLen
    BY DEF PlayNextFromDropdown
  <2> QED
    BY <2>1, <2>2, <2>3, IInvFacts
<1>2. CASE IsNull(currentTrack)
  <2>0. Append(customPlaylist, t) \in Seq(Track)
    BY <1>1
  <2>1. PICK list \in Seq(Track) : list = Append(customPlaylist, t)
    BY <2>0
  <2>2. Len(list) = Len(customPlaylist) + 1 /\ Len(list) <= MaxLen
        /\ list[Len(customPlaylist) + 1] = t /\ list # <<>>
    BY <1>1, <2>1
  <2>3. /\ currentTrack' = Number(0) /\ customPlaylist' = list /\ playMode' = "playlist"
        /\ cueVideoById(t, events)
        /\ IF ready THEN Refilled(list, sorting) ELSE UNCHANGED <<rows, shown>>
        /\ strayed' = (strayed \/ ~ready)
        /\ UNCHANGED <<sorting, open, ready, label>>
    BY <1>2, <2>1 DEF PlayNextFromDropdown, refreshPlaylist, Stray
  <2>4. PICK pending \in Seq(Event) : pending = events
    BY <1>1 DEF PlayerType
  <2>5. /\ video' \in Track \cup {NoVideo}
        /\ state' \in {"unstarted", "cued", "playing", "paused", "ended"}
        /\ events' \in Seq(Event)
        /\ ready => video' = t /\ Pending'
    BY <1>1, <2>3, <2>4, Cueing
  <2>6. PlayerType'
    BY <1>1, <2>3, <2>5 DEF PlayerType
  <2>7. GoodIndex(currentTrack') /\ currentTrack'.kind = "number" /\ currentTrack'.val = 0
    BY <2>3, NumberGood
  <2>8. CASE ready
    <3>1. (~strayed' /\ Len(rows') = Len(list)) => InStepNow'
      <4> SUFFICES ASSUME ~strayed', Len(rows') = Len(list) PROVE InStepNow'
        OBVIOUS
      <4>1. InStepNow
        BY <2>3, IInvFacts
      <4>2. customPlaylist = <<>>
        BY <1>2, <4>1 DEF InStepNow, IsNull
      <4>3. Len(list) = 1 /\ list[1] = t
        BY <2>2, <4>2
      <4> QED
        BY <2>2, <2>3, <2>5, <2>7, <2>8, <4>3 DEF InStepNow, Entry
    <3>2. Refilled(list, sorting) /\ strayed' \in BOOLEAN
      BY <2>3, <2>8
    <3> QED
      BY <2>2, <2>3, <2>6, <2>7, <3>1, <3>2, IInvFacts, RefillInv
  <2>9. CASE ~ready
    <3>1. strayed' = TRUE /\ rows' = rows /\ shown' = shown
      BY <2>3, <2>9
    <3>2. TableRight' /\ DOMAIN shown' = DOMAIN rows'
      BY <3>1, IInvFacts DEF TableRight
    <3>3. Len(rows') >= 2 => Len(rows') <= Len(list)
      BY <1>1, <2>2, <3>1, IInvFacts
    <3> QED
      BY <2>2, <2>3, <2>6, <2>7, <3>1, <3>2, <3>3, IInvFacts, IInvParts
  <2> QED
    BY <2>8, <2>9
<1>3. CASE ~IsNull(currentTrack)
  <2>1. PICK n \in Nat, pl \in Seq(Track) : n = PlusOne(currentTrack).val /\ pl = customPlaylist
    BY <1>1, PlusOneGood
  <2>2. /\ SpliceIn(pl, n, t) \in Seq(Track)
        /\ Len(SpliceIn(pl, n, t)) = Len(pl) + 1
        /\ \A k \in 1..Len(pl) : k <= n => SpliceIn(pl, n, t)[k] = pl[k]
    BY SpliceInProperties
  <2>3. PICK list \in Seq(Track) : list = SpliceIn(pl, n, t)
    BY <2>2
  <2>4. /\ customPlaylist' = list /\ Refilled(list, sorting) /\ playMode' = "playlist"
        /\ UNCHANGED <<currentTrack, sorting, open, ready, video, state, events, label, strayed>>
    BY <1>3, <2>1, <2>3 DEF PlayNextFromDropdown, refreshPlaylist
  <2>5. currentTrack.kind = "number" => n = currentTrack.val + 1
    BY <1>1, <2>1, PlusOneGood DEF Number
  <2> QED
    BY <1>1, <1>3, <2>1, <2>2, <2>3, <2>4, <2>5, IInvFacts, AddedInv
<1> QED
  BY <1>2, <1>3

LEMMA AddTrackToPlaylistInv ==
  ASSUME IInv, NEW t \in Track, AddTrackToPlaylist(t) PROVE IInv'
<1>1. CASE PlayNextFromDropdown(t)
  BY <1>1, PlayNextFromDropdownInv
<1>2. CASE ~IsNull(currentTrack) /\ ~PlayNextFromDropdown(t)
  <2>1. customPlaylist \in Seq(Track) /\ Len(customPlaylist) \in Nat
    BY IInvFacts
  <2>0. Append(customPlaylist, t) \in Seq(Track)
    BY <2>1
  <2>2. PICK list \in Seq(Track) : list = Append(customPlaylist, t)
    BY <2>0
  <2>3. /\ Len(list) = Len(customPlaylist) + 1
        /\ \A k \in 1..Len(customPlaylist) : list[k] = customPlaylist[k]
    BY <2>1, <2>2
  <2>4. /\ Len(customPlaylist) < MaxLen
        /\ customPlaylist' = list /\ Refilled(list, sorting) /\ open' \in BOOLEAN
        /\ UNCHANGED <<currentTrack, playMode, sorting, ready, video, state,
                       events, label, strayed>>
    BY <1>2, <2>2 DEF AddTrackToPlaylist, refreshPlaylist
  <2> QED
    BY <1>2, <2>3, <2>4, AddedInv
<1> QED
  BY <1>1, <1>2 DEF AddTrackToPlaylist

(* The row at p, while the user has not strayed. *)
LEMMA RowFacts ==
  ASSUME IInv, NEW p \in 1..Len(rows)
  PROVE  /\ rows[p] \in Nat /\ rows[p] < Len(rows) /\ Len(rows) \in Nat
         /\ ~strayed => rows[p] < Len(customPlaylist)
BY IInvFacts DEF TableRight, InStepNow

LEMMA RemoveOnlyInv ==
  ASSUME IInv, NEW p \in 1..Len(rows), RemoveOnly(p) PROVE IInv'
<1>1. /\ Len(customPlaylist) = 1 /\ customPlaylist # <<>> /\ customPlaylist' = <<>>
      /\ currentTrack' = Null /\ label' = NoVideo /\ stopVideo(events)
      /\ strayed' = (strayed /\ ~ready)
      /\ UNCHANGED <<playMode, sorting, open, ready>>
  BY DEF RemoveOnly
<1>2. <<>> \in Seq(Track) /\ Len(<<>>) = 0 /\ 0 <= MaxLen
  BY PlaylistAssumption
<1>3. events' \in Seq(Event) /\ video' = video
      /\ state' \in {"unstarted", "cued", "playing", "paused", "ended"}
  <2>1. events \in Seq(Event) /\ Append(events, "cued") \in Seq(Event)
        /\ state \in {"unstarted", "cued", "playing", "paused", "ended"}
    BY IInvFacts DEF PlayerType, Event
  <2> QED
    BY <1>1, <2>1 DEF stopVideo
<1>4. PlayerType' /\ GoodIndex(currentTrack')
  BY <1>1, <1>3, IInvFacts, NothingGood DEF PlayerType
<1>5. CASE ready
  <2>1. Refilled(<<>>, sorting) /\ strayed' \in BOOLEAN
    BY <1>1, <1>5 DEF RemoveOnly, refreshPlaylist
  <2>2. Len(rows') = Len(<<>>) => InStepNow'
    BY <1>1 DEF InStepNow
  <2> QED
    BY <1>1, <1>2, <1>4, <2>1, <2>2, IInvFacts, RefillInv
<1>6. CASE ~ready
  <2>1. rows' = rows /\ shown' = shown
    BY <1>6 DEF RemoveOnly
  <2>2. strayed' = TRUE
    BY <1>1, <1>6, IInvFacts DEF InStepNow
  <2>3. TableRight' /\ DOMAIN shown' = DOMAIN rows'
    BY <2>1, IInvFacts DEF TableRight
  <2>4. Len(rows') >= 2 => Len(rows') <= Len(customPlaylist')
    BY <1>1, <2>1, IInvFacts
  <2> QED
    BY <1>1, <1>2, <1>4, <2>2, <2>3, <2>4, IInvFacts, IInvParts
<1> QED
  BY <1>5, <1>6

(* The list without the track of a row. *)
LEMMA Shortened ==
  ASSUME IInv, NEW n \in Nat, NEW list, list = SpliceOut(customPlaylist, n)
  PROVE  /\ list \in Seq(Track) /\ Len(list) \in Nat /\ Len(list) <= MaxLen
         /\ n < Len(customPlaylist) => Len(list) = Len(customPlaylist) - 1
         /\ \A k \in 1..(Len(customPlaylist)-1) : k <= n => list[k] = customPlaylist[k]
         /\ \A k \in 1..(Len(customPlaylist)-1) : k > n => list[k] = customPlaylist[k+1]
<1>1. PICK pl \in Seq(Track) : pl = customPlaylist /\ Len(pl) \in Nat /\ Len(pl) <= MaxLen
  BY IInvFacts
<1>2. /\ SpliceOut(pl, n) \in Seq(Track)
      /\ n >= Len(pl) => SpliceOut(pl, n) = pl
      /\ n < Len(pl) => Len(SpliceOut(pl, n)) = Len(pl) - 1
      /\ \A k \in 1..(Len(pl)-1) : k <= n => SpliceOut(pl, n)[k] = pl[k]
      /\ \A k \in 1..(Len(pl)-1) : k > n => SpliceOut(pl, n)[k] = pl[k+1]
  BY SpliceOutProperties
<1>3. list = SpliceOut(pl, n) /\ MaxLen \in Int
  BY <1>1, PlaylistAssumption
<1>4. Len(list) \in Nat /\ Len(list) <= MaxLen
  <2>1. CASE n >= Len(pl)
    BY <1>1, <1>2, <1>3, <2>1
  <2>2. CASE n < Len(pl)
    BY <1>1, <1>2, <1>3, <2>2
  <2> QED
    BY <1>1, <2>1, <2>2
<1> QED
  BY <1>1, <1>2, <1>3, <1>4

LEMMA RemoveCurrentInv ==
  ASSUME IInv, NEW p \in 1..Len(rows), RemoveCurrent(p) PROVE IInv'
<1>0. PICK n \in Nat : n = rows[p]
  BY RowFacts
<1>1. PICK list, mode, x0 : /\ n = rows[p] /\ list = SpliceOut(customPlaylist, n)
                            /\ mode = playMode /\ x0 = currentTrack
  BY <1>0
<1>2. /\ list \in Seq(Track) /\ Len(list) \in Nat /\ Len(list) <= MaxLen
      /\ n < Len(customPlaylist) => Len(list) = Len(customPlaylist) - 1
  BY <1>1, Shortened
<1>3. /\ ~(n = 0 /\ Len(customPlaylist) = 1) /\ RowEquals(n, x0)
      /\ customPlaylist' = list
      /\ playNextTrack(list, Number(x0.val - 1), mode, events)
      /\ Refilled(list, sorting)
      /\ UNCHANGED <<playMode, sorting, open, ready, strayed>>
  BY <1>1 DEF RemoveCurrent, refreshPlaylist
<1>4. TypeOK /\ GoodIndex(x0) /\ x0.val \in Nat /\ (x0.kind = "number" => x0.val = n)
  BY <1>1, <1>3, IInvFacts DEF IInv, GoodIndex, TrackIndex, RowEquals
<1>5. PICK x : x = Number(x0.val - 1)
  OBVIOUS
<1>6. GoodIndex(x) /\ x.kind = "number" /\ x.val = x0.val - 1
  BY <1>4, <1>5, NumberGood
<1>7. PICK pending \in Seq(Event) : pending = events
  BY IInvFacts DEF PlayerType
<1>8. /\ GoodIndex(currentTrack')
      /\ video' \in Track \cup {NoVideo}
      /\ state' \in {"unstarted", "cued", "playing", "paused", "ended"}
      /\ events' \in Seq(Event)
      /\ label' \in Track \cup {NoVideo}
      /\ (mode = "playlist" /\ list # <<>> /\ ready /\ x.kind = "number" /\ x.val < Len(list)) =>
           /\ currentTrack'.kind = "number"
           /\ currentTrack'.val \in 0..(Len(list) - 1)
           /\ video' = Entry(list, currentTrack')
           /\ Pending'
  BY <1>2, <1>3, <1>4, <1>5, <1>6, <1>7, MovingOn
<1>9. PlayerType'
  BY <1>8 DEF PlayerType
<1>10. (~strayed' /\ Len(rows') = Len(list)) => InStepNow'
  <2> SUFFICES ASSUME ~strayed, Len(rows') = Len(list) PROVE InStepNow'
    BY <1>3
  <2>1. InStepNow /\ n < Len(customPlaylist) /\ Len(customPlaylist) \in Nat
    BY <1>1, IInvFacts, RowFacts
  <2>2. customPlaylist # <<>>
    BY <2>1
  <2>3. x0.kind = "number" /\ ready /\ mode = "playlist"
    BY <1>1, <2>1, <2>2 DEF InStepNow
  <2>4. Len(list) = Len(customPlaylist) - 1 /\ Len(customPlaylist) >= 2 /\ x.val < Len(list)
    BY <1>2, <1>3, <1>4, <1>6, <2>1, <2>3
  <2>5. list # <<>>
    BY <2>4
  <2>6. playMode' = "playlist" /\ ready'
    BY <1>1, <1>3, <2>3
  <2> QED
    BY <1>3, <1>6, <1>8, <2>3, <2>4, <2>5, <2>6 DEF InStepNow, Entry
<1> QED
  BY <1>2, <1>3, <1>8, <1>9, <1>10, IInvFacts, RefillInv

LEMMA RemoveOtherInv ==
  ASSUME IInv, NEW p \in 1..Len(rows), RemoveOther(p) PROVE IInv'
<1>0. PICK n \in Nat : n = rows[p]
  BY RowFacts
<1>1. PICK list, x0 : /\ n = rows[p] /\ list = SpliceOut(customPlaylist, n)
                      /\ x0 = currentTrack
  BY <1>0
<1>2. /\ list \in Seq(Track) /\ Len(list) \in Nat /\ Len(list) <= MaxLen
      /\ n < Len(customPlaylist) => Len(list) = Len(customPlaylist) - 1
      /\ \A k \in 1..(Len(customPlaylist)-1) : k <= n => list[k] = customPlaylist[k]
      /\ \A k \in 1..(Len(customPlaylist)-1) : k > n => list[k] = customPlaylist[k+1]
  BY <1>1, Shortened
<1>3. /\ ~(n = 0 /\ Len(customPlaylist) = 1) /\ ~RowEquals(n, x0)
      /\ customPlaylist' = list
      /\ currentTrack' = IF RowBelow(n, x0) THEN Number(x0.val - 1) ELSE x0
      /\ Refilled(list, sorting)
      /\ UNCHANGED <<playMode, sorting, open, ready, video, state, events, label, strayed>>
  BY <1>1 DEF RemoveOther, refreshPlaylist
<1>4. GoodIndex(x0) /\ x0.val \in Int /\ x0.val >= -1
  BY <1>1, IInvFacts DEF GoodIndex, TrackIndex
<1>5. GoodIndex(currentTrack')
  <2>1. CASE RowBelow(n, x0)
    <3>1. x0.val - 1 \in Int /\ x0.val - 1 >= -1
      BY <1>4, <2>1 DEF RowBelow, GoodIndex
    <3> QED
      BY <1>3, <2>1, <3>1, NumberGood
  <2>2. CASE ~RowBelow(n, x0)
    BY <1>3, <1>4, <2>2
  <2> QED
    BY <2>1, <2>2
<1>6. PlayerType'
  BY <1>3, IInvFacts DEF PlayerType
<1>7. (~strayed' /\ Len(rows') = Len(list)) => InStepNow'
  <2> SUFFICES ASSUME ~strayed, Len(rows') = Len(list) PROVE InStepNow'
    BY <1>3
  <2>1. InStepNow /\ n < Len(customPlaylist) /\ Len(customPlaylist) \in Nat
    BY <1>1, IInvFacts, RowFacts
  <2>2. customPlaylist # <<>>
    BY <2>1
  <2>3. /\ x0.kind = "number" /\ x0.val \in 0..(Len(customPlaylist) - 1)
        /\ video = customPlaylist[x0.val + 1] /\ ready /\ playMode = "playlist"
        /\ label = video \/ Pending
    BY <1>1, <2>1, <2>2 DEF InStepNow, Entry
  <2>4. n # x0.val
    BY <1>3, <2>3 DEF RowEquals
  <2>5. RowBelow(n, x0) <=> n < x0.val
    BY <2>3 DEF RowBelow
  <2>6. Len(list) = Len(customPlaylist) - 1 /\ Len(customPlaylist) >= 2 /\ list # <<>>
    BY <1>2, <1>3, <2>1, <2>3, <2>4
  <2>7. PICK v \in 0..(Len(customPlaylist) - 1) : v = x0.val
    BY <2>3
  <2>8. PICK w : w = currentTrack'
    OBVIOUS
  <2>9. /\ w.kind = "number" /\ w.val \in 0..(Len(list) - 1)
        /\ list[w.val + 1] = customPlaylist[v + 1]
    <3>1. CASE n < v
      <4>1. w.kind = "number" /\ w.val = v - 1
        BY <1>3, <2>5, <2>7, <2>8, <3>1 DEF Number
      <4>2. v \in 1..(Len(customPlaylist) - 1) /\ v > n /\ v - 1 \in 0..(Len(list) - 1)
        BY <2>1, <2>6, <3>1
      <4>3. list[v] = customPlaylist[v + 1] /\ (v - 1) + 1 = v
        BY <1>2, <4>2
      <4> QED
        BY <4>1, <4>2, <4>3
    <3>2. CASE ~(n < v)
      <4>1. w = x0
        BY <1>3, <2>5, <2>7, <2>8, <3>2
      <4>2. v + 1 \in 1..(Len(customPlaylist) - 1) /\ v + 1 <= n /\ v \in 0..(Len(list) - 1)
        BY <2>1, <2>4, <2>6, <2>7, <3>2
      <4>3. list[v + 1] = customPlaylist[v + 1]
        BY <1>2, <4>2
      <4> QED
        BY <2>3, <2>7, <4>1, <4>2, <4>3
    <3> QED
      BY <3>1, <3>2
  <2>10. Pending' <=> Pending
    BY <1>3 DEF Pending
  <2> QED
    BY <1>3, <2>3, <2>6, <2>7, <2>8, <2>9, <2>10 DEF InStepNow, Entry
<1> QED
  BY <1>2, <1>3, <1>5, <1>6, <1>7, IInvFacts, RefillInv

(* Numbering 1..n by its own elements without repetition misses none. *)
LEMMA Permutation ==
  ASSUME NEW n \in Nat, NEW f \in [1..n -> 1..n],
         \A k, l \in 1..n : f[k] = f[l] => k = l
  PROVE  \A j \in 1..n : \E k \in 1..n : f[k] = j
<1>1. f \in Injection(1..n, 1..n)
  BY DEF Injection, IsInjective
<1>2. IsFiniteSet(1..n)
  BY FS_Interval
<1>3. f \in Surjection(1..n, 1..n)
  BY <1>1, <1>2, FS_Injection
<1> QED
  BY <1>3 DEF Surjection

(* Two rows or more that number the tracks without repetition. *)
Numbering(r) ==
  /\ r \in Seq(Nat) /\ Len(r) = Len(rows) /\ Len(r) \in Nat
  /\ Len(r) >= 2 /\ Len(r) <= Len(customPlaylist) /\ Len(r) <= MaxLen
  /\ \A k \in 1..Len(r) : r[k] \in 0..(Len(r) - 1)
  /\ \A k, l \in 1..Len(r) : r[k] = r[l] => k = l

(* The rows after a drag do. *)
LEMMA DraggedRows ==
  ASSUME IInv, NEW p \in 1..Len(rows), NEW q \in 1..Len(rows), p # q,
         NEW r, r = Moved(rows, p, q)
  PROVE  Numbering(r)
<1>1. PICK s \in Seq(Nat) : s = rows
  BY IInvFacts DEF TableRight
<1>2. /\ Len(s) \in Nat /\ Len(s) <= MaxLen
      /\ Len(s) >= 2 => Len(s) <= Len(customPlaylist)
      /\ \A k \in 1..Len(s) : s[k] \in 0..(Len(s) - 1)
      /\ \A k, l \in 1..Len(s) : s[k] = s[l] => k = l
      /\ p \in 1..Len(s) /\ q \in 1..Len(s) /\ r = Moved(s, p, q)
  BY <1>1, IInvFacts DEF TableRight
<1>3. /\ r \in Seq(Nat) /\ Len(r) = Len(s)
      /\ \A k \in 1..Len(s) : From(p, q, k) \in 1..Len(s) /\ r[k] = s[From(p, q, k)]
      /\ \A k, l \in 1..Len(s) : From(p, q, k) = From(p, q, l) => k = l
  <2>1. p \in 1..Len(s) /\ q \in 1..Len(s)
    BY <1>2
  <2>2. Moved(s, p, q) \in Seq(Nat) /\ Len(Moved(s, p, q)) = Len(s)
    BY <2>1, MovedProperties
  <2>3. \A k \in 1..Len(s) : From(p, q, k) \in 1..Len(s)
    BY <2>1, MovedProperties
  <2>4. \A k \in 1..Len(s) : Moved(s, p, q)[k] = s[From(p, q, k)]
    BY <2>1, MovedProperties
  <2>5. \A k, l \in 1..Len(s) : From(p, q, k) = From(p, q, l) => k = l
    BY <1>2, <2>1, FromOneToOne
  <2> QED
    BY <1>2, <2>2, <2>3, <2>4, <2>5
<1>4. Len(s) >= 2 /\ Len(r) \in Nat
  BY <1>2, <1>3
<1>5. \A k \in 1..Len(r) : r[k] \in 0..(Len(r) - 1)
  BY <1>2, <1>3
<1>6. \A k, l \in 1..Len(r) : r[k] = r[l] => k = l
  <2> SUFFICES ASSUME NEW k \in 1..Len(s), NEW l \in 1..Len(s), r[k] = r[l] PROVE k = l
    BY <1>3
  <2>1. s[From(p, q, k)] = s[From(p, q, l)]
    BY <1>3
  <2>2. From(p, q, k) = From(p, q, l)
    BY <1>2, <1>3, <2>1
  <2> QED
    BY <1>3, <2>2
<1> QED
  BY <1>1, <1>2, <1>3, <1>4, <1>5, <1>6 DEF Numbering

(* The list in the order of these rows. *)
LEMMA ReorderedList ==
  ASSUME IInv, NEW r \in Seq(Nat), Len(r) <= Len(customPlaylist),
         \A k \in 1..Len(r) : r[k] \in 0..(Len(r) - 1)
  PROVE  /\ Reordered(r) \in Seq(Track) /\ Len(Reordered(r)) = Len(r)
         /\ \A k \in 1..Len(r) : /\ r[k] + 1 \in 1..Len(r)
                                 /\ Reordered(r)[k] = customPlaylist[r[k] + 1]
<1>1. Len(r) \in Nat /\ Len(customPlaylist) \in Nat /\ customPlaylist \in Seq(Track)
  BY IInvFacts
<1>2. \A k \in 1..Len(r) : r[k] + 1 \in 1..Len(r) /\ customPlaylist[r[k] + 1] \in Track
  <2> SUFFICES ASSUME NEW k \in 1..Len(r)
               PROVE  r[k] + 1 \in 1..Len(r) /\ customPlaylist[r[k] + 1] \in Track
    OBVIOUS
  <2>1. PICK v \in 0..(Len(r) - 1) : v = r[k]
    OBVIOUS
  <2>2. v + 1 \in 1..Len(r) /\ v + 1 \in 1..Len(customPlaylist)
    BY <1>1
  <2> QED
    BY <1>1, <2>1, <2>2
<1>3. Reordered(r) \in [1..Len(r) -> Track]
  BY <1>2 DEF Reordered
<1>4. \A k \in 1..Len(r) : Reordered(r)[k] = customPlaylist[r[k] + 1]
  BY DEF Reordered
<1> QED
  BY <1>1, <1>2, <1>3, <1>4

LEMMA DragInv ==
  ASSUME IInv, NEW p \in 1..Len(rows), NEW q \in 1..Len(rows), Drag(p, q) PROVE IInv'
<1>1. PICK r : r = Moved(rows, p, q)
  OBVIOUS
<1>2. p # q
  BY DEF Drag
<1>3. /\ r \in Seq(Nat) /\ Len(r) = Len(rows) /\ Len(r) \in Nat
      /\ Len(r) >= 2 /\ Len(r) <= Len(customPlaylist) /\ Len(r) <= MaxLen
      /\ \A k \in 1..Len(r) : r[k] \in 0..(Len(r) - 1)
      /\ \A k, l \in 1..Len(r) : r[k] = r[l] => k = l
  <2>1. Numbering(r)
    BY <1>1, <1>2, DraggedRows
  <2> QED
    BY <2>1 DEF Numbering
<1>4. /\ Reordered(r) \in Seq(Track) /\ Len(Reordered(r)) = Len(r)
      /\ \A k \in 1..Len(r) : /\ r[k] + 1 \in 1..Len(r)
                              /\ Reordered(r)[k] = customPlaylist[r[k] + 1]
  BY <1>3, ReorderedList
<1>5. PlayerType' /\ UNCHANGED <<playMode, sorting, open, ready, video, state, events, label, strayed>>
  BY IInvFacts DEF PlayerType, Drag
<1> DEFINE current == Entry(customPlaylist, currentTrack)
           same    == {k \in 1..Len(r) : Reordered(r)[k] = current}
<1>6. CASE Resolves(customPlaylist, currentTrack)
  <2>1. PICK list \in Seq(Track), S \in SUBSET (1..Len(r)) : list = Reordered(r) /\ S = same
    BY <1>4
  <2>2. /\ customPlaylist' = list
        /\ currentTrack' = IF S = {} THEN currentTrack
                           ELSE Number((CHOOSE k \in S : \A l \in S : l <= k) - 1)
        /\ Refilled(list, sorting)
    BY <1>1, <1>6, <2>1 DEF Drag, refreshPlaylist
  <2>3. S # {} => \E m \in S : m \in 1..Len(r) /\ list[m] = current /\ currentTrack' = Number(m - 1)
    <3> SUFFICES ASSUME S # {}
                 PROVE  \E m \in S : m \in 1..Len(r) /\ list[m] = current
                                       /\ currentTrack' = Number(m - 1)
      OBVIOUS
    <3>1. \E k \in S : \A l \in S : l <= k
      BY <1>3, GreatestExists
    <3>2. PICK m : m = CHOOSE k \in S : \A l \in S : l <= k
      OBVIOUS
    <3>3. m \in S
      BY <3>1, <3>2
    <3>4. m \in 1..Len(r) /\ Reordered(r)[m] = current
      BY <2>1, <3>3
    <3>5. currentTrack' = Number(m - 1)
      BY <2>2, <3>2
    <3> QED
      BY <2>1, <3>3, <3>4, <3>5
  <2>4. GoodIndex(currentTrack')
    <3>1. CASE S = {}
      BY <2>2, <3>1, IInvFacts
    <3>2. CASE S # {}
      <4>1. PICK m \in 1..Len(r) : currentTrack' = Number(m - 1)
        BY <2>3, <3>2
      <4>2. m - 1 \in Int /\ m - 1 >= -1
        BY <1>3
      <4> QED
        BY <4>1, <4>2, NumberGood
    <3> QED
      BY <3>1, <3>2
  <2>5. (~strayed' /\ Len(rows') = Len(list)) => InStepNow'
    <3> SUFFICES ASSUME ~strayed, Len(rows') = Len(list) PROVE InStepNow'
      BY <1>5
    <3>1. InStepNow /\ Len(r) = Len(customPlaylist)
      BY <1>3, IInvFacts DEF InStepNow
    <3>2. customPlaylist # <<>>
      BY <1>3
    <3>3. /\ currentTrack.val \in 0..(Len(r) - 1) /\ video = current
          /\ ready /\ playMode = "playlist"
          /\ label = video \/ Pending
      BY <3>1, <3>2 DEF InStepNow
    <3>4. PICK j \in 1..Len(r) : current = customPlaylist[j]
      <4>1. PICK v \in 0..(Len(r) - 1) : v = currentTrack.val
        BY <3>3
      <4>2. v + 1 \in 1..Len(r)
        BY <1>3
      <4> QED
        BY <4>1, <4>2 DEF Entry
    <3>5. PICK k \in 1..Len(r) : r[k] + 1 = j
      <4> DEFINE f == [k \in 1..Len(r) |-> r[k] + 1]
      <4>1. f \in [1..Len(r) -> 1..Len(r)]
        BY <1>4
      <4>2. \A k \in 1..Len(r) : f[k] = r[k] + 1
        OBVIOUS
      <4>3. \A m \in 1..Len(r) : r[m] \in Int
        <5>1. r \in [1..Len(r) -> Nat]
          BY <1>3
        <5> QED
          BY <5>1
      <4> HIDE DEF f
      <4>4. \A k, l \in 1..Len(r) : f[k] = f[l] => k = l
        <5> SUFFICES ASSUME NEW k \in 1..Len(r), NEW l \in 1..Len(r), f[k] = f[l] PROVE k = l
          OBVIOUS
        <5>1. f[k] = r[k] + 1 /\ f[l] = r[l] + 1
          BY <4>2
        <5>2. r[k] \in Int /\ r[l] \in Int
          BY <4>3, Zenon
        <5>3. r[k] = r[l]
          <6>1. ASSUME NEW a \in Int, NEW b \in Int, a + 1 = b + 1 PROVE a = b
            BY <6>1
          <6>2. r[k] + 1 = r[l] + 1
            BY <5>1, Zenon
          <6> QED
            BY <5>2, <6>1, <6>2
        <5> QED
          BY <1>3, <5>3
      <4>5. \A i \in 1..Len(r) : \E k \in 1..Len(r) : f[k] = i
        BY <1>3, <4>1, <4>4, Permutation
      <4> QED
        BY <4>2, <4>5
    <3>6. k \in same
      BY <1>4, <3>4, <3>5
    <3>7. PICK m \in 1..Len(r) : list[m] = current /\ currentTrack' = Number(m - 1)
      BY <2>1, <2>3, <3>6
    <3>8. /\ currentTrack'.kind = "number" /\ currentTrack'.val = m - 1
          /\ m - 1 \in 0..(Len(list) - 1) /\ (m - 1) + 1 = m
      BY <1>3, <1>4, <2>1, <3>7 DEF Number
    <3>9. Pending' <=> Pending
      BY <1>5 DEF Pending
    <3>10. list # <<>>
      BY <1>3, <1>4, <2>1
    <3> HIDE DEF current, same
    <3>11. video' = Entry(list, currentTrack')
      BY <1>5, <3>3, <3>7, <3>8 DEF Entry
    <3>12. label' = video' \/ Pending'
      BY <1>5, <3>3, <3>9
    <3>13. ready' /\ playMode' = "playlist"
      BY <1>5, <3>3
    <3> QED
      BY <2>2, <3>8, <3>10, <3>11, <3>12, <3>13 DEF InStepNow
  <2>6. Len(list) <= MaxLen
    BY <1>3, <1>4, <2>1
  <2> QED
    BY <1>5, <2>2, <2>4, <2>5, <2>6, IInvFacts, RefillInv
<1>7. CASE ~Resolves(customPlaylist, currentTrack)
  <2>1. /\ rows' = r /\ shown' = Moved(shown, p, q)
        /\ customPlaylist' = customPlaylist /\ currentTrack' = currentTrack
    BY <1>1, <1>7 DEF Drag
  <2>2. strayed
    <3>1. customPlaylist # <<>>
      BY <1>3
    <3> QED
      BY <1>7, <3>1, IInvFacts DEF InStepNow, Resolves
  <2>3. shown' = [k \in 1..Len(r) |-> shown'[k]]
    <3>1. PICK sh : sh = shown
      OBVIOUS
    <3> DEFINE n == Len(r)
    <3> DEFINE V == {sh[k] : k \in 1..n}
    <3>2. sh = [k \in 1..n |-> sh[k]] /\ n \in Nat
      BY <1>3, <3>1, IInvFacts DEF TableRight
    <3>3. sh \in [1..n -> V]
      BY <3>2
    <3> HIDE DEF V
    <3>4. sh \in Seq(V) /\ Len(sh) = n
      BY <3>2, <3>3
    <3>5. Moved(sh, p, q) \in Seq(V) /\ Len(Moved(sh, p, q)) = Len(sh)
      <4>1. p \in 1..Len(sh) /\ q \in 1..Len(sh)
        BY <1>3, <3>4
      <4> HIDE DEF n
      <4>2. sh \in Seq(V)
        BY <3>4
      <4> QED
        BY <4>1, <4>2, MovedProperties
    <3> QED
      BY <1>3, <2>1, <3>1, <3>4, <3>5
  <2>4. TableRight'
    BY <1>3, <2>1, <2>3 DEF TableRight
  <2>5. DOMAIN shown' = DOMAIN rows'
    BY <1>3, <2>1, <2>3
  <2> QED
    BY <1>3, <1>5, <2>1, <2>2, <2>4, <2>5, IInvFacts, IInvParts
<1> QED
  BY <1>6, <1>7

LEMMA PlayPauseInv == ASSUME IInv, PlayPause PROVE IInv'
<1>1. state' \in {"unstarted", "cued", "playing", "paused", "ended"}
  BY DEF PlayPause
<1> QED
  BY <1>1, IInvFacts, Untouched DEF PlayPause

LEMMA FoldInv == ASSUME IInv, ClickIcon \/ ClickMap PROVE IInv'
<1>1. open' \in BOOLEAN /\ state' \in {"unstarted", "cued", "playing", "paused", "ended"}
  BY IInvFacts DEF ClickIcon, ClickMap, PlayerType
<1> QED
  BY <1>1, IInvFacts, Untouched DEF ClickIcon, ClickMap

(* Every step keeps the invariant. *)
LEMMA NextInv == IInv /\ [Next]_vars => IInv'
<1> SUFFICES ASSUME IInv, [Next]_vars PROVE IInv'
  OBVIOUS
<1>1. CASE PlayerReady
  BY <1>1, PlayerReadyInv
<1>2. ASSUME NEW t \in Track, NEW fromMenu \in BOOLEAN, PlayNow(t, fromMenu) PROVE IInv'
  BY <1>2, PlayNowInv
<1>3. ASSUME NEW t \in Track, PlayNextFromDropdown(t) PROVE IInv'
  BY <1>3, PlayNextFromDropdownInv
<1>4. ASSUME NEW t \in Track, AddTrackToPlaylist(t) PROVE IInv'
  BY <1>4, AddTrackToPlaylistInv
<1>5. CASE PlayNextTrack
  BY <1>5, PlayNextTrackInv
<1>6. CASE PlayPreviousTrack
  BY <1>6, PlayPreviousTrackInv
<1>7. ASSUME NEW p \in 1..Len(rows), DoubleClickRow(p) PROVE IInv'
  BY <1>7, DoubleClickRowInv
<1>8. CASE DoubleClickHeader
  BY <1>8, DoubleClickHeaderInv
<1>9. ASSUME NEW p \in 1..Len(rows), RemoveFromPlaylist(p) PROVE IInv'
  BY <1>9, RemoveOnlyInv, RemoveCurrentInv, RemoveOtherInv DEF RemoveFromPlaylist
<1>10. ASSUME NEW p \in 1..Len(rows), NEW q \in 1..Len(rows), Drag(p, q) PROVE IInv'
  BY <1>10, DragInv
<1>11. CASE SortByTitle
  BY <1>11, SortByTitleInv
<1>12. CASE ClickPlaylist
  BY <1>12, ClickPlaylistInv
<1>13. CASE ClickIcon \/ ClickMap
  BY <1>13, FoldInv
<1>14. CASE PlayPause
  BY <1>14, PlayPauseInv
<1>15. CASE VideoEnds
  BY <1>15, VideoEndsInv
<1>16. CASE OnCued
  BY <1>16, OnCuedInv
<1>17. CASE OnEnded
  BY <1>17, OnEndedInv
<1>18. CASE UNCHANGED vars
  <2>1. UNCHANGED <<customPlaylist, currentTrack, playMode, rows, shown, sorting, open,
                    ready, video, state, events, label, strayed>>
    BY <1>18 DEF vars
  <2> QED
    BY <2>1, IInvFacts, Untouched DEF PlayerType
<1> QED
  BY <1>1, <1>2, <1>3, <1>4, <1>5, <1>6, <1>7, <1>8, <1>9, <1>10, <1>11, <1>12, <1>13,
     <1>14, <1>15, <1>16, <1>17, <1>18 DEF Next

(* The invariant holds throughout. *)
THEOREM InvariantHolds == Spec => []IInv
<1>1. Init => IInv
  BY InitInv
<1>2. IInv /\ [Next]_vars => IInv'
  BY NextInv
<1> QED
  BY <1>1, <1>2, PTL DEF Spec

(* The list, the player and the bar agree on what plays, for any tracks,   *)
(* any length of the list and any number of events under way, until the    *)
(* user strays into one of the ways out of step (musicplaybar.js).         *)
THEOREM PlayerStaysInStep == Spec => []PlayerAgrees
BY InvariantHolds, IInvGives, PTL

-----------------------------------------------------------------------------
(***************************************************************************)
(* No track is lost.                                                       *)
(***************************************************************************)
(* Two lists of the same length, one in the order of rows that number the  *)
(* other without repetition, hold every track equally often.               *)
LEMMA SameTracks ==
  ASSUME NEW n \in Nat, NEW a \in Seq(Track), NEW b \in Seq(Track),
         Len(a) = n, Len(b) = n, NEW f \in [1..n -> 1..n],
         \A k, l \in 1..n : f[k] = f[l] => k = l,
         \A k \in 1..n : b[k] = a[f[k]],
         NEW t \in Track
  PROVE  Count(b, t) = Count(a, t)
<1> DEFINE S == {k \in 1..n : b[k] = t}
           T == {k \in 1..n : a[k] = t}
           g == [k \in S |-> f[k]]
<1>1. Count(b, t) = Cardinality(S) /\ Count(a, t) = Cardinality(T)
  BY DEF Count
<1>2. IsFiniteSet(S)
  BY FS_Interval, FS_Subset
<1>3. g \in [S -> T]
  OBVIOUS
<1>4. \A k, l \in S : g[k] = g[l] => k = l
  OBVIOUS
<1>5. \A j \in 1..n : \E k \in 1..n : f[k] = j
  BY Permutation
<1>6. \A j \in T : \E k \in S : g[k] = j
  <2> SUFFICES ASSUME NEW j \in T PROVE \E k \in S : g[k] = j
    OBVIOUS
  <2>1. j \in 1..n /\ a[j] = t
    OBVIOUS
  <2>2. PICK k \in 1..n : f[k] = j
    BY <1>5, <2>1
  <2>3. k \in S
    BY <2>1, <2>2
  <2> QED
    BY <2>2, <2>3
<1> HIDE DEF S, T, g
<1>7. g \in Bijection(S, T)
  BY <1>3, <1>4, <1>6 DEF Bijection, Injection, Surjection, IsInjective
<1>8. Cardinality(T) = Cardinality(S)
  BY <1>2, <1>7, FS_Bijection DEF ExistsBijection
<1> QED
  BY <1>1, <1>8

(* A step that keeps the length of the list leaves it alone, or is a drag. *)
LEMMA StepKeepsTracks ==
  ASSUME IInv, [Next]_vars, Len(customPlaylist') = Len(customPlaylist), NEW t \in Track
  PROVE  Count(customPlaylist', t) = Count(customPlaylist, t)
<1> DEFINE Same == customPlaylist' = customPlaylist
<1>1. /\ customPlaylist \in Seq(Track) /\ Len(customPlaylist) \in Nat
      /\ GoodIndex(currentTrack)
  BY IInvFacts
<1>2. ASSUME NEW u \in Track, customPlaylist' = Append(customPlaylist, u) PROVE FALSE
  BY <1>1, <1>2
<1>3. ASSUME NEW u \in Track, customPlaylist' = SpliceIn(customPlaylist, PlusOne(currentTrack).val, u)
      PROVE  FALSE
  <2>1. PICK n \in Nat, pl \in Seq(Track) : n = PlusOne(currentTrack).val /\ pl = customPlaylist
    BY <1>1, PlusOneGood
  <2>2. Len(SpliceIn(pl, n, u)) = Len(pl) + 1
    BY SpliceInProperties
  <2> QED
    BY <1>1, <1>3, <2>1, <2>2
<1>4. ASSUME NEW p \in 1..Len(rows), customPlaylist' = SpliceOut(customPlaylist, rows[p])
      PROVE  Same
  <2>1. PICK n \in Nat, pl \in Seq(Track) : n = rows[p] /\ pl = customPlaylist
    BY <1>1, RowFacts
  <2>2. /\ n >= Len(pl) => SpliceOut(pl, n) = pl
        /\ n < Len(pl) => Len(SpliceOut(pl, n)) = Len(pl) - 1
    BY SpliceOutProperties
  <2>3. ~(n < Len(pl))
    BY <1>1, <1>4, <2>1, <2>2
  <2> QED
    BY <1>1, <1>4, <2>1, <2>2, <2>3
<1>5. ASSUME NEW p \in 1..Len(rows), NEW q \in 1..Len(rows), Drag(p, q)
      PROVE  Same \/ Count(customPlaylist', t) = Count(customPlaylist, t)
  <2>1. PICK r : r = Moved(rows, p, q)
    OBVIOUS
  <2>2. p # q
    BY <1>5 DEF Drag
  <2>3. Numbering(r)
    BY <2>1, <2>2, DraggedRows
  <2>4. CASE customPlaylist' = Reordered(r)
    <3>1. /\ r \in Seq(Nat) /\ Len(r) \in Nat /\ Len(r) <= Len(customPlaylist)
          /\ \A k \in 1..Len(r) : r[k] \in 0..(Len(r) - 1)
          /\ \A k, l \in 1..Len(r) : r[k] = r[l] => k = l
      BY <2>3 DEF Numbering
    <3>2. /\ Reordered(r) \in Seq(Track) /\ Len(Reordered(r)) = Len(r)
          /\ \A k \in 1..Len(r) : /\ r[k] + 1 \in 1..Len(r)
                                  /\ Reordered(r)[k] = customPlaylist[r[k] + 1]
      BY <3>1, ReorderedList
    <3> DEFINE f == [k \in 1..Len(r) |-> r[k] + 1]
    <3>3. f \in [1..Len(r) -> 1..Len(r)] /\ \A k \in 1..Len(r) : f[k] = r[k] + 1
      BY <3>2
    <3> HIDE DEF f
    <3>4. \A k, l \in 1..Len(r) : f[k] = f[l] => k = l
      <4> SUFFICES ASSUME NEW k \in 1..Len(r), NEW l \in 1..Len(r), f[k] = f[l] PROVE k = l
        OBVIOUS
      <4>1. r[k] + 1 = r[l] + 1
        BY <3>3, Zenon
      <4>2. ASSUME NEW x \in Int, NEW y \in Int, x + 1 = y + 1 PROVE x = y
        BY <4>2
      <4>3. r[k] \in Int /\ r[l] \in Int
        BY <3>1
      <4> QED
        BY <3>1, <4>1, <4>2, <4>3
    <3>5. PICK a \in Seq(Track), b \in Seq(Track) : a = customPlaylist /\ b = Reordered(r)
      BY <1>1, <3>2
    <3>6. Len(a) = Len(r) /\ Len(b) = Len(r) /\ \A k \in 1..Len(r) : b[k] = a[f[k]]
      BY <2>4, <3>2, <3>3, <3>5
    <3>7. Count(b, t) = Count(a, t)
      <4>1. PICK n \in Nat : n = Len(r)
        BY <3>1
      <4>2. /\ f \in [1..n -> 1..n] /\ Len(a) = n /\ Len(b) = n
            /\ \A k, l \in 1..n : f[k] = f[l] => k = l
            /\ \A k \in 1..n : b[k] = a[f[k]]
        BY <3>3, <3>4, <3>6, <4>1
      <4> QED
        BY <4>2, SameTracks
    <3> QED
      BY <2>4, <3>5, <3>7
  <2> QED
    BY <1>5, <2>1, <2>4 DEF Drag
<1>6. ASSUME NEW p \in 1..Len(rows), RemoveOnly(p) PROVE FALSE
  BY <1>6 DEF RemoveOnly
<1>7. ASSUME NEW u \in Track, NEW fromMenu \in BOOLEAN, PlayNow(u, fromMenu) PROVE FALSE
  BY <1>2, <1>3, <1>7 DEF PlayNow
<1>8. ASSUME NEW u \in Track, PlayNextFromDropdown(u) PROVE FALSE
  BY <1>2, <1>3, <1>8 DEF PlayNextFromDropdown
<1>9. ASSUME NEW u \in Track, AddTrackToPlaylist(u) PROVE FALSE
  BY <1>2, <1>8, <1>9 DEF AddTrackToPlaylist
<1>10. ASSUME NEW p \in 1..Len(rows), RemoveFromPlaylist(p) PROVE Same
  BY <1>4, <1>6, <1>10 DEF RemoveFromPlaylist, RemoveCurrent, RemoveOther
<1>11. ASSUME NEW p \in 1..Len(rows), DoubleClickRow(p) PROVE Same
  BY <1>11 DEF DoubleClickRow
<1>12. CASE PlayerReady \/ PlayNextTrack \/ PlayPreviousTrack \/ DoubleClickHeader \/ SortByTitle
  BY <1>12 DEF PlayerReady, PlayNextTrack, PlayPreviousTrack, DoubleClickHeader, SortByTitle
<1>13. CASE ClickPlaylist \/ ClickIcon \/ ClickMap \/ PlayPause \/ VideoEnds \/ OnCued \/ OnEnded
  BY <1>13 DEF ClickPlaylist, ClickIcon, ClickMap, PlayPause, VideoEnds, OnCued, OnEnded
<1>14. CASE UNCHANGED vars
  BY <1>14 DEF vars
<1>15. Same \/ Count(customPlaylist', t) = Count(customPlaylist, t)
  BY <1>5, <1>7, <1>8, <1>9, <1>10, <1>11, <1>12, <1>13, <1>14 DEF Next
<1> QED
  BY <1>15

(* Reordering by drag and drop neither loses nor doubles a track, for any  *)
(* list and any order of the rows (the rows' data-index, musicplaybar.js). *)
THEOREM DragLosesNoTrack == Spec => NoTrackLost
<1> DEFINE Keeps == Len(customPlaylist') = Len(customPlaylist) =>
                      \A t \in Track : Count(customPlaylist', t) = Count(customPlaylist, t)
<1>1. IInv /\ [Next]_vars => [Keeps]_vars
  BY StepKeepsTracks
<1>2. Spec => [][Keeps]_vars
  BY <1>1, InvariantHolds, PTL DEF Spec
<1> QED
  BY <1>2 DEF NoTrackLost
=============================================================================

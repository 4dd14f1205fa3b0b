------------------------------ MODULE Playlist ------------------------------
(***************************************************************************)
(* The playlist and the player bar of the browser (musicplaybar.js): the   *)
(* list of tracks, the current track, the table that shows the list, and   *)
(* the YouTube player with the events it sends back.                       *)
(*                                                                         *)
(* A handler runs to its end, or to the TypeError that stops it half way;  *)
(* an action is one handler with all the functions it calls.  The player   *)
(* answers later: what it reports waits in events.                         *)
(***************************************************************************)
EXTENDS Integers, Sequences, FiniteSets, SequencesExt

CONSTANTS
  Track,      \* the tracks of the tables, numbered in the order of their titles
  NoVideo,    \* the player holds no track of the tables
  MaxLen,     \* bound on the length of the playlist
  MaxEvents   \* bound on the events under way

ASSUME PlaylistAssumption ==
  /\ Track \subseteq Nat
  /\ NoVideo \notin Track
  /\ MaxLen \in 0..99
  /\ MaxEvents \in Nat

VARIABLES
  customPlaylist,  \* gv.customPlaylist
  currentTrack,    \* an index, or what the handlers make of it
  playMode,        \* gv.playMode: "undefined" or "playlist"
  rows,            \* data-index of the rows of the table, from top to bottom
  shown,           \* the tracks these rows show
  sorting,         \* "none", or the order the table was last sorted in
  open,            \* the playlist is unfolded
  ready,           \* the YouTube API has made the player
  video,           \* what the player holds
  state,           \* the player's state
  events,          \* state changes the page has not handled yet
  label,           \* the track whose name stands in the player bar
  strayed          \* history: see Stray

vars == <<customPlaylist, currentTrack, playMode, rows, shown, sorting, open,
          ready, video, state, events, label, strayed>>

-----------------------------------------------------------------------------
(***************************************************************************)
(* currentTrack is null at first and a number most of the time, but a      *)
(* double click makes it the text of the attribute data-index, or          *)
(* undefined where there is no such attribute.  Text adds by               *)
(* concatenation, and text compares with text character by character.      *)
(***************************************************************************)
Number(n)  == [kind |-> "number", val |-> n, text |-> <<>>]
Null       == [kind |-> "null", val |-> 0, text |-> <<>>]
Undefined  == [kind |-> "undefined", val |-> 0, text |-> <<>>]
Decimal(n) == IF n < 10 THEN <<n>> ELSE <<n \div 10, n % 10>>
Text(n)    == [kind |-> "text", val |-> n, text |-> Decimal(n)]

TrackIndex ==
  [kind : {"number", "null", "undefined", "text"}, val : Int, text : Seq(0..9)]

IsNull(x) == x.kind \in {"null", "undefined"}      \* x == null

PlusOne(x) ==                                      \* x + 1
  CASE x.kind = "text"      -> [x EXCEPT !.val = 10 * x.val + 1,
                                         !.text = Append(x.text, 1)]
    [] x.kind = "undefined" -> x
    [] x.kind \in {"number", "null"} -> Number(x.val + 1)

Below(x, n) == x.kind # "undefined" /\ x.val < n   \* x < n

(* s < t for texts *)
TextBelow(s, t) ==
  \E k \in 1..(Len(s) + 1) :
    /\ k <= Len(t)
    /\ \A m \in 1..(k-1) : s[m] = t[m]
    /\ k <= Len(s) => s[k] < t[k]

(* The index n of a row, a text, against x. *)
RowEquals(n, x) ==
  \/ x.kind = "number" /\ n = x.val
  \/ x.kind = "text" /\ Decimal(n) = x.text

RowBelow(n, x) ==
  \/ x.kind = "text" /\ TextBelow(Decimal(n), x.text)
  \/ x.kind \in {"number", "null"} /\ n < x.val

(* list[x] is an entry of the list; list["01"] is not. *)
Resolves(list, x) ==
  /\ x.kind = "number" \/ (x.kind = "text" /\ x.text = Decimal(x.val))
  /\ x.val \in 0..(Len(list) - 1)

Entry(list, x) == list[x.val + 1]

(* list.splice(n, 0, t) and list.splice(n, 1) *)
SpliceIn(list, n, t) == InsertAt(list, (IF n < Len(list) THEN n ELSE Len(list)) + 1, t)

SpliceOut(list, n) == IF n < Len(list) THEN RemoveAt(list, n + 1) ELSE list

-----------------------------------------------------------------------------
(* refreshPlaylist: the table is filled again and, once it has been        *)
(* sorted, sorts itself; the rows are numbered as they are displayed.      *)
StandsAbove(list, order, l, k) ==
  \/ order = "asc"  /\ list[l] < list[k]
  \/ order = "desc" /\ list[l] > list[k]
  \/ list[l] = list[k] /\ l < k

Displayed(list, order) ==
  IF order = "none" THEN list ELSE
  [n \in 1..Len(list) |->
     list[CHOOSE k \in 1..Len(list) :
            Cardinality({l \in 1..Len(list) : StandsAbove(list, order, l, k)}) = n - 1]]

Refilled(list, order) ==
  /\ rows' = [k \in 1..Len(list) |-> k - 1]
  /\ shown' = Displayed(list, order)

refreshPlaylist(list) == Refilled(list, sorting)

(* player.cueVideoById, with the events the page has still to handle;      *)
(* nothing comes of it while there is no player.                           *)
cueVideoById(v, pending) ==
  IF ready
  THEN /\ video' = v
       /\ state' = "cued"
       /\ events' = Append(pending, "cued")
  ELSE /\ events' = pending
       /\ UNCHANGED <<video, state>>

(* player.stopVideo leaves the player cued or unstarted. *)
stopVideo(pending) ==
  /\ \/ ready /\ state' = "cued" /\ events' = Append(pending, "cued")
     \/ ready /\ state' = "unstarted" /\ events' = pending
     \/ ~ready /\ state' = state /\ events' = pending
  /\ UNCHANGED video

(* There is no event before there is a player. *)
RoomForEvent == ready => Len(events) < MaxEvents

(* History: the user has done something that may leave the player out of   *)
(* step with the current track.                                            *)
Stray(b) == strayed' = (strayed \/ b)

(* playNextTrack, from a list and an index the handler has just made. *)
playNextTrack(list, x, mode, pending) ==
  \/ /\ mode # "playlist"
     /\ currentTrack' = x
     /\ events' = pending
     /\ UNCHANGED <<video, state, label>>
  \/ /\ mode = "playlist" /\ list = <<>>
     /\ currentTrack' = x
     /\ stopVideo(pending)
     /\ label' = IF ready THEN NoVideo ELSE label
  \/ /\ mode = "playlist" /\ list # <<>>
     /\ currentTrack' = IF Below(PlusOne(x), Len(list)) THEN PlusOne(x) ELSE Number(0)
     /\ IF Resolves(list, currentTrack')
        THEN cueVideoById(Entry(list, currentTrack'), pending)
        ELSE events' = pending /\ UNCHANGED <<video, state>>
     /\ UNCHANGED label

-----------------------------------------------------------------------------
Init ==
  /\ customPlaylist = <<>>
  /\ currentTrack = Null
  /\ playMode = "undefined"
  /\ rows = <<>>
  /\ shown = <<>>
  /\ sorting = "none"
  /\ open = FALSE
  /\ ready = FALSE
  /\ video = NoVideo
  /\ state = "unstarted"
  /\ events = <<>>
  /\ label = NoVideo
  /\ strayed = FALSE

(* The YouTube API arrives: onYouTubeIframeAPIReady. *)
PlayerReady ==
  /\ ~ready
  /\ ready' = TRUE
  /\ UNCHANGED <<customPlaylist, currentTrack, playMode, rows, shown, sorting,
                 open, video, state, events, label, strayed>>

(* The play button of a track, or "Play Now" in its menu, which also       *)
(* clicks the icon of the playlist.                                        *)
PlayNow(t, fromMenu) ==
  /\ Len(customPlaylist) < MaxLen
  /\ RoomForEvent
  /\ LET list == IF IsNull(currentTrack) THEN Append(customPlaylist, t)
                 ELSE SpliceIn(customPlaylist, PlusOne(currentTrack).val, t)
         x    == IF IsNull(currentTrack) THEN Number(0) ELSE currentTrack
     IN  /\ customPlaylist' = list
         /\ refreshPlaylist(list)
         /\ playNextTrack(list, x, "playlist", events)
  /\ playMode' = "playlist"
  /\ open' = IF fromMenu THEN ~open ELSE open
  /\ Stray(~ready)
  /\ UNCHANGED <<sorting, ready>>

(* playNextFromDropdown; the two clicks on the icon cancel each other. *)
PlayNextFromDropdown(t) ==
  /\ Len(customPlaylist) < MaxLen
  /\ RoomForEvent
  /\ playMode' = "playlist"
  /\ IF IsNull(currentTrack)
     THEN /\ currentTrack' = Number(0)
          /\ customPlaylist' = Append(customPlaylist, t)
          /\ cueVideoById(t, events)
          /\ IF ready THEN refreshPlaylist(customPlaylist') ELSE UNCHANGED <<rows, shown>>
          /\ Stray(~ready)
     ELSE /\ customPlaylist' = SpliceIn(customPlaylist, PlusOne(currentTrack).val, t)
          /\ refreshPlaylist(customPlaylist')
          /\ UNCHANGED <<currentTrack, video, state, events, strayed>>
  /\ UNCHANGED <<sorting, open, ready, label>>

(* "Add to Playlist" in the menu of a track: addTrackToPlaylist. *)
AddTrackToPlaylist(t) ==
  \/ /\ IsNull(currentTrack)
     /\ PlayNextFromDropdown(t)
  \/ /\ ~IsNull(currentTrack)
     /\ Len(customPlaylist) < MaxLen
     /\ customPlaylist' = Append(customPlaylist, t)
     /\ refreshPlaylist(customPlaylist')
     /\ open' = ~open
     /\ UNCHANGED <<currentTrack, playMode, sorting, ready, video, state,
                    events, label, strayed>>

(* The button #next. *)
PlayNextTrack ==
  /\ RoomForEvent
  /\ playNextTrack(customPlaylist, currentTrack, playMode, events)
  /\ IF playMode = "playlist" THEN refreshPlaylist(customPlaylist)
     ELSE UNCHANGED <<rows, shown>>
  /\ UNCHANGED <<customPlaylist, playMode, sorting, open, ready, strayed>>

(* The button #previous: playPreviousTrack.  In an empty list it moves to  *)
(* index -1 and stops there with a TypeError.                              *)
PlayPreviousTrack ==
  /\ RoomForEvent
  /\ refreshPlaylist(customPlaylist)
  /\ currentTrack' = IF currentTrack.kind # "undefined" /\ currentTrack.val > 0
                     THEN Number(currentTrack.val - 1)
                     ELSE Number(Len(customPlaylist) - 1)
  /\ IF Resolves(customPlaylist, currentTrack')
     THEN cueVideoById(Entry(customPlaylist, currentTrack'), events)
     ELSE UNCHANGED <<video, state, events>>
  /\ Stray(customPlaylist = <<>>)
  /\ UNCHANGED <<customPlaylist, playMode, sorting, open, ready, label>>

(* A double click on the row at p.  It cues customPlaylist[...][0], which  *)
(* no track has, so the player is left without a video.                    *)
DoubleClickRow(p) ==
  /\ currentTrack' = Text(rows[p])
  /\ refreshPlaylist(customPlaylist)
  /\ playMode' = "playlist"
  /\ open' = ~open
  /\ IF ready /\ Resolves(customPlaylist, currentTrack')
     THEN video' = NoVideo /\ state' = "unstarted"
     ELSE UNCHANGED <<video, state>>
  /\ Stray(TRUE)
  /\ UNCHANGED <<customPlaylist, sorting, ready, events, label>>

(* A double click on the header, or on the row that says that there is     *)
(* nothing, stops with a TypeError before it cues anything.  The header    *)
(* keeps a handler of every refresh, and each one clicks the icon.         *)
DoubleClickHeader ==
  /\ currentTrack' = Undefined
  /\ refreshPlaylist(customPlaylist)
  /\ playMode' = "playlist"
  /\ open' \in BOOLEAN
  /\ Stray(TRUE)
  /\ UNCHANGED <<customPlaylist, sorting, ready, video, state, events, label>>

(* The X of the only song. *)
RemoveOnly(p) ==
  /\ rows[p] = 0 /\ Len(customPlaylist) = 1
  /\ currentTrack' = Null
  /\ customPlaylist' = <<>>
  /\ label' = NoVideo
  /\ stopVideo(events)
  /\ IF ready THEN refreshPlaylist(<<>>) ELSE UNCHANGED <<rows, shown>>
  /\ strayed' = (strayed /\ ~ready)
  /\ UNCHANGED <<playMode, sorting, open, ready>>

(* The X of the current track: the list moves on to the next one. *)
RemoveCurrent(p) ==
  /\ ~(rows[p] = 0 /\ Len(customPlaylist) = 1)
  /\ RowEquals(rows[p], currentTrack)
  /\ customPlaylist' = SpliceOut(customPlaylist, rows[p])
  /\ playNextTrack(customPlaylist', Number(currentTrack.val - 1), playMode, events)
  /\ refreshPlaylist(customPlaylist')
  /\ UNCHANGED <<playMode, sorting, open, ready, strayed>>

(* The X of another track. *)
\* Faulty variant: the current index is not moved.
RemoveOtherKeep(p) ==
  /\ ~(rows[p] = 0 /\ Len(customPlaylist) = 1)
  /\ ~RowEquals(rows[p], currentTrack)
  /\ customPlaylist' = SpliceOut(customPlaylist, rows[p])
  /\ refreshPlaylist(customPlaylist')
  /\ UNCHANGED <<currentTrack, playMode, sorting, open, ready, video, state,
                 events, label, strayed>>

RemoveOther(p) ==
  /\ ~(rows[p] = 0 /\ Len(customPlaylist) = 1)
  /\ ~RowEquals(rows[p], currentTrack)
  /\ customPlaylist' = SpliceOut(customPlaylist, rows[p])
  /\ currentTrack' = IF RowBelow(rows[p], currentTrack)
                     THEN Number(currentTrack.val - 1) ELSE currentTrack
  /\ refreshPlaylist(customPlaylist')
  /\ UNCHANGED <<playMode, sorting, open, ready, video, state, events, label,
                 strayed>>

RemoveFromPlaylist(p) ==
  \/ RoomForEvent /\ (RemoveOnly(p) \/ RemoveCurrent(p))
  \/ RemoveOther(p)

(* The row at p is dragged to q. *)
Moved(s, p, q) == InsertAt(RemoveAt(s, p), q, s[p])

(* The playlist in the order of the rows r; the last row with the video of *)
(* the current track becomes the current track.                            *)
Reordered(r) == [k \in 1..Len(r) |-> customPlaylist[r[k] + 1]]

\* Faulty variant: one entry overwrites another.
DragOverwriting(p, q) ==
  /\ p # q
  /\ Resolves(customPlaylist, currentTrack)
  /\ customPlaylist' = [customPlaylist EXCEPT ![q] = customPlaylist[p]]
  /\ \E k \in 1..Len(rows) :
       /\ customPlaylist'[k] = Entry(customPlaylist, currentTrack)
       /\ currentTrack' = Number(k - 1)
  /\ refreshPlaylist(customPlaylist')
  /\ UNCHANGED <<playMode, sorting, open, ready, video, state, events, label,
                 strayed>>

Drag(p, q) ==
  /\ p # q
  /\ LET r       == Moved(rows, p, q)
         current == Entry(customPlaylist, currentTrack)
         same    == {k \in 1..Len(r) : Reordered(r)[k] = current}
     IN  IF Resolves(customPlaylist, currentTrack)
         THEN /\ customPlaylist' = Reordered(r)
              /\ currentTrack' = IF same = {} THEN currentTrack
                                 ELSE Number((CHOOSE k \in same : \A l \in same : l <= k) - 1)
              /\ refreshPlaylist(customPlaylist')
         ELSE /\ rows' = r
              /\ shown' = Moved(shown, p, q)
              /\ UNCHANGED <<customPlaylist, currentTrack>>
  /\ UNCHANGED <<playMode, sorting, open, ready, video, state, events, label,
                 strayed>>

(* A click on the header of the titles; the first one sorts downwards. *)
SortByTitle ==
  /\ sorting' = IF sorting = "desc" THEN "asc" ELSE "desc"
  /\ Refilled(customPlaylist, sorting')
  /\ UNCHANGED <<customPlaylist, currentTrack, playMode, open, ready, video,
                 state, events, label, strayed>>

(* A click elsewhere in the playlist refreshes the table. *)
ClickPlaylist ==
  /\ refreshPlaylist(customPlaylist)
  /\ UNCHANGED <<customPlaylist, currentTrack, playMode, sorting, open, ready,
                 video, state, events, label, strayed>>

ClickIcon ==
  /\ open' = ~open
  /\ UNCHANGED <<customPlaylist, currentTrack, playMode, rows, shown, sorting,
                 ready, video, state, events, label, strayed>>

(* A click on the map folds the playlist away. *)
ClickMap ==
  /\ open
  /\ open' = FALSE
  /\ UNCHANGED <<customPlaylist, currentTrack, playMode, rows, shown, sorting,
                 ready, video, state, events, label, strayed>>

-----------------------------------------------------------------------------
(* The button #play-pause. *)
PlayPause ==
  /\ ready
  /\ state # "cued"
  /\ state' = IF state = "playing" THEN "paused" ELSE "playing"
  /\ UNCHANGED <<customPlaylist, currentTrack, playMode, rows, shown, sorting,
                 open, ready, video, events, label, strayed>>

(* The player comes to the end of its video. *)
VideoEnds ==
  /\ state = "playing"
  /\ RoomForEvent
  /\ state' = "ended"
  /\ events' = Append(events, "ended")
  /\ UNCHANGED <<customPlaylist, currentTrack, playMode, rows, shown, sorting,
                 open, ready, video, label, strayed>>

(* onPlayerStateChange: a cued video is announced and played.  When the    *)
(* current track has gone meanwhile, a TypeError comes first.              *)
\* Faulty variant: the cued video is not played.
OnCuedSilent ==
  /\ events # <<>> /\ Head(events) = "cued"
  /\ events' = Tail(events)
  /\ IF Resolves(customPlaylist, currentTrack)
     THEN label' = Entry(customPlaylist, currentTrack)
     ELSE UNCHANGED label
  /\ UNCHANGED <<customPlaylist, currentTrack, playMode, rows, shown, sorting,
                 open, ready, video, state, strayed>>

OnCued ==
  /\ events # <<>> /\ Head(events) = "cued"
  /\ events' = Tail(events)
  /\ IF Resolves(customPlaylist, currentTrack)
     THEN /\ label' = Entry(customPlaylist, currentTrack)
          /\ state' = "playing"
     ELSE UNCHANGED <<label, state>>
  /\ UNCHANGED <<customPlaylist, currentTrack, playMode, rows, shown, sorting,
                 open, ready, video, strayed>>

(* onPlayerStateChange: the end of a video moves on to the next track,     *)
(* even when the user has chosen another one meanwhile.                    *)
OnEnded ==
  /\ events # <<>> /\ Head(events) = "ended"
  /\ playNextTrack(customPlaylist, currentTrack, playMode, Tail(events))
  /\ IF playMode = "playlist" THEN refreshPlaylist(customPlaylist)
     ELSE UNCHANGED <<rows, shown>>
  /\ UNCHANGED <<customPlaylist, playMode, sorting, open, ready, strayed>>

-----------------------------------------------------------------------------
Next ==
  \/ PlayerReady
  \/ \E t \in Track, fromMenu \in BOOLEAN : PlayNow(t, fromMenu)
  \/ \E t \in Track : PlayNextFromDropdown(t)
  \/ \E t \in Track : AddTrackToPlaylist(t)
  \/ PlayNextTrack
  \/ PlayPreviousTrack
  \/ \E p \in 1..Len(rows) : DoubleClickRow(p)
  \/ DoubleClickHeader
  \/ \E p \in 1..Len(rows) : RemoveFromPlaylist(p)
  \/ \E p, q \in 1..Len(rows) : Drag(p, q)
  \/ SortByTitle
  \/ ClickPlaylist
  \/ ClickIcon
  \/ ClickMap
  \/ PlayPause
  \/ VideoEnds
  \/ OnCued
  \/ OnEnded

(* The browser handles the events it receives, in their order. *)
Fairness == WF_vars(OnCued \/ OnEnded)

Spec == Init /\ [][Next]_vars /\ Fairness

-----------------------------------------------------------------------------
(***************************************************************************)
(* Properties.                                                             *)
(***************************************************************************)
(* Every variable has its type, and every row of the table shows a track:   *)
(* filling the table again replaces what it showed.                        *)
TypeOK ==
  /\ customPlaylist \in Seq(Track)
  /\ currentTrack \in TrackIndex
  /\ playMode \in {"undefined", "playlist"}
  /\ rows \in Seq(Nat)
  /\ DOMAIN shown = DOMAIN rows
  /\ sorting \in {"none", "asc", "desc"}
  /\ open \in BOOLEAN
  /\ ready \in BOOLEAN
  /\ video \in Track \cup {NoVideo}
  /\ state \in {"unstarted", "cued", "playing", "paused", "ended"}
  /\ events \in Seq({"cued", "ended"})
  /\ label \in Track \cup {NoVideo}
  /\ strayed \in BOOLEAN

(* The player holds the video of the current track, and there is one       *)
(* whenever the list is not empty: through additions, removals, drags, the *)
(* buttons and the end of a video.  The only ways out of step are a first  *)
(* track added before the player exists, Previous in an empty list, and a  *)
(* double click in the table.                                              *)
InStep ==
  ~strayed =>
    IF customPlaylist = <<>>
    THEN currentTrack = Null
    ELSE /\ currentTrack.kind = "number"
         /\ currentTrack.val \in 0..(Len(customPlaylist) - 1)
         /\ video = Entry(customPlaylist, currentTrack)

(* The name in the player bar is that of the video that plays: the event   *)
(* of a cued video looks the current track up when it arrives, not when    *)
(* the video was cued, and still names the right one.                      *)
AnnouncedIsPlaying ==
  (~strayed /\ customPlaylist # <<>> /\ state = "playing"
     /\ \A k \in 1..Len(events) : events[k] # "cued")
  => label = video

(* The list, the player and the bar agree on what plays, until the user    *)
(* strays into one of the ways out of step.                                *)
PlayerAgrees == TypeOK /\ InStep /\ AnnouncedIsPlaying

(* A list that keeps its length keeps its tracks: reordering by drag and   *)
(* drop, through the indices written in the rows, neither loses nor        *)
(* doubles one, whatever has become of the current track.                  *)
Count(list, t) == Cardinality({k \in 1..Len(list) : list[k] = t})

NoTrackLost ==
  [][Len(customPlaylist') = Len(customPlaylist) =>
       \A t \in Track : Count(customPlaylist', t) = Count(customPlaylist, t)]_vars

(* musicplaybar.js:389, "IF DELETING THE PLAYING TRACK PLAY THE PREVIOUS   *)
(* TRACK": the track before the one that is removed is cued.               *)
RemovalPlaysPrevious ==
  [][\A p \in 1..Len(rows) :
       (RemoveCurrent(p) /\ ready /\ ~strayed /\ currentTrack.val > 0)
         => video' = customPlaylist[currentTrack.val]]_vars

(* A video that has been cued is played, unless the list is emptied or the *)
(* user strays.                                                            *)
CuedIsPlayed ==
  (state = "cued" /\ ~strayed /\ customPlaylist # <<>>)
    ~> (state = "playing" \/ strayed \/ customPlaylist = <<>>)
=============================================================================

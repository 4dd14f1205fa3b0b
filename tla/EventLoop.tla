----------------------------- MODULE EventLoop ------------------------------
(***************************************************************************)
(* File events (ae.c, ae_epoll.c): what is registered and what the kernel  *)
(* watches, and one pass over the events that fired, in which a handler    *)
(* may register, remove and close what the rest of the list names.  A      *)
(* descriptor that was closed is given to the next connection.             *)
(***************************************************************************)
EXTENDS Integers, Sequences, FiniteSets, SequencesExt, FiniteSetsExt

CONSTANTS
  MaxFd,      \* descriptors the system gives out: 0 .. MaxFd, 0 listens
  SetSizes,   \* values of setsize; CONFIG SET maxclients resizes from one to a larger one
  Moves       \* zrealloc may move the array of events

EventLoopAssumption ==
  MaxFd \in Nat /\ SetSizes \subseteq (Nat \ {0}) /\ SetSizes # {} /\ Moves \in BOOLEAN

Fd == 0..MaxFd

VARIABLES
  kind,      \* what a descriptor is: none (closed), listen, client, sync (one handler for both events)
  mask,      \* eventLoop->events[fd].mask
  kernel,    \* the events epoll watches
  maxfd, setsize,
  avail,     \* idle, data to read, or hup
  fired,     \* events of the last poll not yet handled
  stage,     \* poll, or the event of Head(fired) to look at next: r, w
  rfired,    \* the handler of the readable event was called
  moved,     \* the array of events was reallocated since fe was computed
  call       \* the last call of a handler

vars == <<kind, mask, kernel, maxfd, setsize, avail, fired, stage, rfired, moved, call>>

NoCall == [fd |-> -1, ev |-> "none", valid |-> TRUE, again |-> FALSE]

Init ==
  /\ kind = [fd \in Fd |-> IF fd = 0 THEN "listen" ELSE "none"]
  /\ mask = [fd \in Fd |-> IF fd = 0 THEN {"r"} ELSE {}] /\ kernel = mask
  /\ maxfd = 0 /\ setsize \in SetSizes
  /\ avail = [fd \in Fd |-> "idle"]
  /\ fired = <<>> /\ stage = "poll" /\ rfired = FALSE /\ moved = FALSE /\ call = NoCall

-----------------------------------------------------------------------------
(* The loop as a record that handlers thread *)
Loop == [kind |-> kind, mask |-> mask, kernel |-> kernel, maxfd |-> maxfd, avail |-> avail,
         setsize |-> setsize, moved |-> moved]

Store(L) ==
  /\ kind' = L.kind /\ mask' = L.mask /\ kernel' = L.kernel
  /\ maxfd' = L.maxfd /\ avail' = L.avail /\ setsize' = L.setsize /\ moved' = L.moved

Stay == UNCHANGED <<kind, mask, kernel, maxfd, avail, setsize, moved>>

(* aeApiAddEvent *)
ApiAddEvent(L, fd, evs) == [L EXCEPT !.kernel[fd] = evs \cup L.mask[fd]]

(* aeApiDelEvent *)
ApiDelEvent(L, fd, evs) == [L EXCEPT !.kernel[fd] = L.mask[fd] \ evs]

(* aeCreateFileEvent; the caller looks at fd < setsize *)
CreateFileEvent(L, fd, evs) ==
  LET l1 == ApiAddEvent(L, fd, evs)
  IN  [l1 EXCEPT !.mask[fd] = @ \cup evs, !.maxfd = IF fd > @ THEN fd ELSE @]

(* aeDeleteFileEvent *)
DeleteFileEvent(L, fd, evs) ==
  LET l1 == [ApiDelEvent(L, fd, evs) EXCEPT !.mask[fd] = @ \ evs]
  IN  IF fd >= L.setsize \/ L.mask[fd] = {} THEN L
      ELSE IF fd = L.maxfd /\ l1.mask[fd] = {}
           THEN [l1 EXCEPT !.maxfd = Max({-1} \cup {j \in 0..(fd - 1) : l1.mask[j] # {}})]
           ELSE l1

\* freeClient: the events, then close
Close(L, fd) ==
  [DeleteFileEvent(DeleteFileEvent(L, fd, {"r"}), fd, {"w"}) EXCEPT !.kind[fd] = "none", !.avail[fd] = "idle"]

Lowest(L) == {fd \in Fd : L.kind[fd] = "none" /\ \A g \in Fd : L.kind[g] = "none" => fd <= g}

\* accept, or connectWithMaster for kind "sync": the lowest free descriptor; refused beyond setsize
Open(L, k, evs) ==
  IF \E fd \in Lowest(L) : fd < L.setsize
  THEN LET fd == CHOOSE fd \in Lowest(L) : TRUE
       IN  CreateFileEvent([L EXCEPT !.kind[fd] = k], fd, evs)
  ELSE L

Peers(L) == {fd \in Fd : L.kind[fd] \in {"client", "sync"}}

(* CONFIG SET maxclients: aeResizeSetSize; the block may move, also under the feet of aeProcessEvents *)
ResizeSetSize(L) ==
  LET sizes == {z \in SetSizes : L.setsize < z /\ L.maxfd < z}
  IN  {[L EXCEPT !.setsize = z] : z \in sizes} \cup {[L EXCEPT !.setsize = z, !.moved = Moves] : z \in sizes}

\* What the handlers of Redis do with descriptors: accept; read a request, then reply to or free some
\* client or change maxclients; write, and be done, wait or give up; the steps of a synchronisation.
Outcomes(L, fd, ev) ==
  IF L.kind[fd] = "listen" THEN {Open([L EXCEPT !.avail[0] = "idle"], "client", {"r"})}
  ELSE IF ev = "r" /\ L.avail[fd] = "hup" THEN {Close(L, fd)}
  ELSE IF L.kind[fd] = "sync" THEN
    {Close(L, fd)} \cup {DeleteFileEvent([L EXCEPT !.avail[fd] = "idle"], fd, evs) : evs \in {{}, {"w"}}}
  ELSE IF ev = "r" THEN
    LET l1 == [L EXCEPT !.avail[fd] = "idle"]
    IN  {l1} \cup {Close(l1, d) : d \in Peers(l1)} \cup {CreateFileEvent(l1, d, {"w"}) : d \in Peers(l1)}
          \cup ResizeSetSize(l1)
  ELSE {L, Close(L, fd), DeleteFileEvent(L, fd, {"w"})}

-----------------------------------------------------------------------------
(* The environment: data arrives, a peer hangs up; the listening socket has connections *)
Arrive(fd) ==
  /\ kind[fd] # "none" /\ avail[fd] = "idle"
  /\ avail' = [avail EXCEPT ![fd] = "data"]
  /\ UNCHANGED <<kind, mask, kernel, maxfd, setsize, fired, stage, rfired, moved, call>>

HangUp(fd) ==
  /\ fd # 0 /\ kind[fd] # "none" /\ avail[fd] # "hup"
  /\ avail' = [avail EXCEPT ![fd] = "hup"]
  /\ UNCHANGED <<kind, mask, kernel, maxfd, setsize, fired, stage, rfired, moved, call>>

(* aeApiPoll: what the kernel watches and is there; sockets can always be written to; EPOLLHUP, which *)
(* comes with EPOLLIN, is reported as writable too *)
FiredMask(fd) ==
  (kernel[fd] \cap (IF avail[fd] = "idle" THEN {"w"} ELSE {"r", "w"}))
    \cup (IF kernel[fd] # {} /\ avail[fd] = "hup" THEN {"w"} ELSE {})

Poll ==
  /\ stage = "poll"
  /\ LET ready == {fd \in Fd : FiredMask(fd) # {}}
     IN  /\ ready # {}
         /\ \E order \in SetToSeqs(ready) :
              fired' = [i \in DOMAIN order |-> [fd |-> order[i], mask |-> FiredMask(order[i])]]
  /\ stage' = "r" /\ rfired' = FALSE /\ call' = NoCall
  /\ UNCHANGED <<kind, mask, kernel, maxfd, setsize, avail, moved>>

Called(fd, ev, again) ==
  call' = [fd |-> fd, ev |-> ev, valid |-> ~moved /\ kind[fd] # "none" /\ ev \in mask[fd],
           again |-> again]

(* aeProcessEvents: the readable event of the next entry *)
ProcessReadable ==
  /\ stage = "r"
  /\ LET e == Head(fired) IN
     IF "r" \in mask[e.fd] \cap e.mask
     THEN /\ Called(e.fd, "r", FALSE) /\ rfired' = TRUE
          /\ \E L \in Outcomes(Loop, e.fd, "r") : Store(L)
     ELSE call' = NoCall /\ rfired' = FALSE /\ Stay
  /\ stage' = "w" /\ UNCHANGED fired

SameProc(fd) == kind[fd] = "sync"   \* wfileProc = rfileProc

(* ... and its writable event: registered still, and not the same handler once more *)
Writable(e) == "w" \in mask[e.fd] \cap e.mask /\ ~(rfired /\ SameProc(e.fd))

(* If the array moved, fe points to freed memory, which may hold anything. *)
ProcessWritable ==
  /\ stage = "w"
  /\ LET e == Head(fired)
         L == [Loop EXCEPT !.moved = FALSE]
     IN  \E w \in (IF moved THEN BOOLEAN ELSE {Writable(e)}) :
           IF w THEN /\ Called(e.fd, "w", rfired /\ SameProc(e.fd))
                     /\ \E O \in (IF moved THEN {L} ELSE Outcomes(L, e.fd, "w")) : Store(O)
                ELSE call' = NoCall /\ Store(L)
  /\ fired' = Tail(fired) /\ rfired' = FALSE
  /\ stage' = IF Len(fired) = 1 THEN "poll" ELSE "r"

(* Time events come after the file events (serverCron connects to the master) *)
Connect ==
  /\ stage = "poll" /\ ~\E fd \in Fd : kind[fd] = "sync"
  /\ Store(Open(Loop, "sync", {"r", "w"})) /\ call' = NoCall
  /\ UNCHANGED <<fired, stage, rfired>>

Next ==
  \/ \E fd \in Fd : Arrive(fd) \/ HangUp(fd)
  \/ Poll \/ ProcessReadable \/ ProcessWritable \/ Connect

(* The loop goes on (aeMain); nothing is said of the environment. *)
Step == Poll \/ ProcessReadable \/ ProcessWritable

Spec == Init /\ [][Next]_vars /\ WF_vars(Step)

-----------------------------------------------------------------------------
(* A handler is called only for an open descriptor and an event that is    *)
(* registered at that moment, whatever the handlers before it did with the *)
(* rest of the list (ae.c:407, networking.c:668 frees the clientData).     *)
CallsRegistered == call.valid

(* The handler of both events runs once for a descriptor (ae.c:415).       *)
OneHandlerOnce == ~call.again

(* The kernel watches what is registered, no more and no less, and a       *)
(* closed descriptor has nothing registered: ae_epoll.c computes the set   *)
(* anew from the mask at every change.                                     *)
KernelAgrees == kernel = mask /\ \A fd \in Fd : kind[fd] = "none" => mask[fd] = {}

(* maxfd is the largest registered descriptor, and inside the arrays that  *)
(* aeResizeSetSize reallocates (ae.c:110).                                 *)
MaxFdExact == maxfd = Max({-1} \cup {fd \in Fd : mask[fd] # {}}) /\ maxfd < setsize

(* What makes them hold where the array does not move.  The handlers keep  *)
(* the tables exact, and a descriptor that is open fits into the arrays;   *)
(* a pass handles events of the list until it is empty.                    *)
Loops ==
  [kind : [Fd -> {"none", "listen", "client", "sync"}], mask : [Fd -> SUBSET {"r", "w"}],
   kernel : [Fd -> SUBSET {"r", "w"}], maxfd : {-1} \cup Fd, avail : [Fd -> {"idle", "data", "hup"}],
   setsize : SetSizes, moved : BOOLEAN]

Exact(L) ==
  /\ L \in Loops /\ ~L.moved /\ L.kernel = L.mask
  /\ \A fd \in Fd :
       /\ L.kind[fd] = "none" => L.mask[fd] = {}
       /\ L.kind[fd] # "none" => fd < L.setsize
       /\ L.mask[fd] # {} => fd <= L.maxfd
  /\ L.maxfd # -1 => L.mask[L.maxfd] # {}

LoopInvariant ==
  /\ Exact(Loop)
  /\ fired \in Seq([fd : Fd, mask : SUBSET {"r", "w"}])
  /\ stage \in {"poll", "r", "w"} /\ rfired \in BOOLEAN
  /\ fired = <<>> <=> stage = "poll"
  /\ CallsRegistered /\ OneHandlerOnce

(* Whoever has sent something is listened to (ae.c:401 handles all that    *)
(* fired).                                                                 *)
HasSent(fd) == avail[fd] = "data"
=============================================================================

# Phonograph: a TLA+ verification project

Phonograph is a map of artists who have recorded tracks together. A Flask server
(`src/app.py`) reads a Redis data set and answers with graphs of artists; a page
(`src/static/phonograph.js`, `src/static/musicplaybar.js`) draws them with d3, shows
what is known of an artist or of a pair of artists in a sidebar, and plays their tracks
through the YouTube player. The repository also holds the source of the Redis server it
runs on (`src/redis-stable`, with Redis Sentinel), which is by far its largest part. This
directory models the logic of both: the program itself, and of Redis everything in which
something runs concurrently, fails, is retried, is kept twice or has an invariant across
calls. d3, jQuery, bootstrap-table, hiredis, Lua and the other libraries are outside,
except for what the modelled code depends on.

## Inventory

### The program

| component | state | operations | what is hard | what makes it correct |
|---|---|---|---|---|
| Neighbourhood search, `app.py` 71-79, 157-182, 240-272 | origin, frontier with scores, chosen and met artists | draw an origin, grow by one layer, break, answer | a drawing loop without end, components smaller than the size, cutting a layer short, scores handed on from layer to layer | connected, not larger than asked for, short only when nobody is left, nearest and best connected first, ends |
| Path search, `app.py` 11-48, 90-123, 226-238 | layers with predecessors, visited, unfinished paths | extend a layer, give up, meet, unwind, second call, draw one | the hop limit, source = destination, order of `visited` and `extend` | exactly the shortest paths; "No path found." only when it is so |
| Path layout, `phonograph.js` 862-886 | `gv.pathOrder` | place the source, place the next artist | the answer does not carry the order of the path | the order found is that of the path; the script never stops |
| Map: requests, lock, answers, `phonograph.js` 2-27, 29-118, 246-290, 359-369, 423-427, 671-680, 994-1089, 1273-1290; `musicplaybar.js` 576-608 | `gv.route/origin/source`, `gv.clickable`, requests and timeouts under way, `gv.artist`, `gv.newGraph`, `gv.currentArtist`, `gv.currentLink`, title and tab of the sidebar | searches, clicks, choice of a service, answers, failures, timeouts | half of the controls ignore the lock; answers in any order; handlers that read globals late; exceptions half way | the lock has a reason and goes; no exception and a right sidebar for a user who waits |
| Map: nodes, `phonograph.js` 84-143, 173-258 | the `g` elements with id, datum and class | fade, join, enter, remove, click | the join by position; fading nodes that outlast the lock | every node once and under its own artist |
| Playlist and player, `musicplaybar.js` 1-24, 86-265, 304-457, 610-613; `phonograph.js` 1328-1357 | list, current track, table rows, player, events | add, play, next, previous, double click, remove, drag, sort, player events | events that arrive late, text indices, equal tracks, a sorted table, a player that is not there yet | the player holds the current track; nothing is lost |
| Sidebar, `phonograph.js` 423-596, 648-669 | `gv.requestTracks`, `gv.tableData` | four answers per artist, a chain of YouTube searches | chains that share arrays, stale answers | not modelled, see below |
| Term subgraph, zoom, custom, look-ups, drawing, accounts, markup, title matching | none that lasts | one request each | | not modelled, see below |

The page calls the server over HTTP. The server runs one request to its end before the next
(`app.run` of a Flask before 1.0), so a request is a behaviour of its own and its temporary
Redis keys are never shared. The page runs one handler at a time; answers, timeouts,
transitions and player events come between handlers, in an order nobody controls.

### Redis

| component | state | operations | what is hard | what makes it correct |
|---|---|---|---|---|
| Sentinel: election, `sentinel.c` | epochs, votes, down states, configuration file | timer, vote requests and answers, forced failover, restart | votes across crashes, epochs that move on meanwhile | one vote per epoch, one leader per epoch |
| Sentinel: failover, `sentinel.c` | state of the failover, promoted slave, flags of the slaves | select, promote, reconfigure, switch, abort, reset, announcements | lost commands, a failover given up half way | flags and pointers agree, the master changes only with the epoch, a failover ends |
| Sentinel: links, `sentinel.c` | links, pending commands, times of PINGs and INFOs, tilt | reconnect, INFO or PING, answers, time | lost links restart clocks, the clock jumps, INFO goes before PING | an instance that leaves a PING unanswered is noticed, a live one is not called dead |
| Replication, master and slave side, `replication.c` | slaves with states and buffers, backlog, child, cached master, sockets | feed, SYNC, PSYNC, saves, drops, handshake, SLAVEOF, timeouts | a circular backlog, slaves that share a save, everything in any order | what a slave has plus what is queued for it is the master's data; no socket is forgotten |
| Append only file, `aof.c` | buffer, file, what is synced, rewrite child and its differences | append, flush, sync, rewrite, switch, crash, load | crashes between any two steps, commands during a rewrite | a crash leaves a past state; what is acknowledged survives with `always` |
| Script cache and scripts, `scripting.c`, `replication.c` | running script, hook, kill flag; which scripts are known where | EVAL, EVALSHA, SCRIPT KILL and FLUSH, event loop under a script | other clients run inside the script | a stopped script has written nothing, its client is still there when it ends; no unknown EVALSHA is sent |
| Transactions and dispatch, `multi.c`, `redis.c` | queues, watched keys on both sides, flags | MULTI, EXEC, DISCARD, WATCH, refused commands | any client touches any key in between | EXEC fails exactly when a watched key changed; slaves never see half of it |
| Blocking lists, `t_list.c` | blocked clients per key, ready keys | BLPOP, BRPOP, BRPOPLPUSH, pushes, timeouts | chains of ready keys while clients are served | nobody waits for a list that is there; first come first served; no element lost |
| Networking, `networking.c` | query buffer, output buffer and list, lists of clients | read, parse, reply, send, close, CLIENT KILL | requests in fragments, limits, clients freed inside loops | executed as sent, replies in order, lists exact |
| Publish/subscribe, notifications, `pubsub.c`, `notify.c` | subscriptions kept with client and server | SUBSCRIBE, PUBLISH, notifications, CONFIG | two copies of everything | the copies agree; every message reaches each subscription once |
| Event loop, `ae.c`, `ae_epoll.c` | masks, what the kernel watches, fired events | register, remove, poll, call, resize | handlers that close what is still to be handled | only registered handlers run, once each; who has sent is read |
| Background threads, `bio.c` | queue, mutex, condition, pending counts | create, wait, work, pending | lost wake-ups | jobs are done, in order; what is not pending is done |
| Snapshots, `rdb.c`, `redis.c`, `db.c` | data, `dirty`, child, temporary file, dump | SAVE, BGSAVE, cron, FLUSHALL, SHUTDOWN, crash, start | a counter corrected when the child ends | no change is forgotten, no half written dump, never an older one |
| Types: strings, lists, hashes, sets, sorted sets, `t_*.c` | objects in two encodings | all commands | conversions, iterators that delete, overflow, random choices, spans of a skiplist | the promised sequence, map or set whatever the encoding; the replica has the same |
| Key space, SCAN, `db.c` | keys, times to live, on master and slave | SET, DEL, EXPIRE, RENAME, MOVE, SCAN... | a key that a slave sees expired before the DEL of its master, an iteration under changes | the slave converges; SCAN misses nothing that stays |
| Hash table, `dict.c`; ziplist, `ziplist.c` | two tables and an index; bytes | insert, delete, rehash, resize, scan, iterate; cascades | every operation moves a bucket; lengths that change length | the hash table is a map; the bytes hold the elements, from both ends |

Redis executes commands in one thread; what interleaves are clients between commands, the
children and background threads, the event loop, other servers, and crashes. Components
interact through `call` (propagation to slaves and file), `signalModifiedKey` (watched
keys), `signalListAsReady` (blocked clients), `freeClient` (everything that refers to a
client) and the cron (children, failovers, timeouts); each of these is part of every module
it matters to. The hazards all this leads to are listed at their lines in `PROJECT.json`.

## Modules

| module | models | uses |
|---|---|---|
| `Neighbourhood`, `NeighbourhoodProofs` | `/neighbourhood` and what it calls, with the data sets of its run; theorems | |
| `PathSearch` | `/path`, `find_paths`, the links of `igrapher` | |
| `PathLayout`, `PathSearchProofs` | `pathPositions` and `nextNode`, composed with the search; theorems about both | `PathSearch` |
| `Explorer` | requests, lock, answers and the subject of the sidebar | |
| `MapView`, `ExplorerProofs` | the nodes on the map, composed with the requests; theorems about both | `Explorer` |
| `Playlist`, `PlaylistProofs` | playlist, table, player and player events; theorems | |
| `SentinelElection` | who leads a failover | |
| `SentinelFailover`, `SentinelLink` | the other parts of Redis Sentinel | |
| `Replication`, `SlaveRole` | a master with its slaves; a server as a slave | |
| `AppendOnlyFile`, `Snapshots` | the two ways to the disk | |
| `Scripting`, `ScriptCache` | running scripts; where scripts are known | |
| `Transactions` | WATCH, MULTI and EXEC | |
| `BlockingLists`, `PubSub` | the other commands that involve several clients | |
| `QueryParser`, `ReplyBuffers`, `Clients` | a connection: in, out, and its life | |
| `EventLoop`, `BackgroundJobs` | events; threads | |
| `Strings`, `ListCommands`, `Hashes`, `Sets`, `SortedSets` | the types | |
| `Keyspace`, `ScanCommand` | keys, expiration, SCAN | |
| `Dict`, `Ziplist` | data structures | |
| `AbstractLists`, `AbstractMap`, `AbstractSortedSets` | what lists, hash tables and sorted sets promise | implemented by `ListCommands`, `Dict`, `SortedSets` |
| `MCTypes`, `MCRequests`, `MCReplicas`, `MCProgress` | suites: instances of the Redis modules for TLC; `MCTypes` serves two runs, `structures` and `types` | all of them; `MCRequests` extends `Transactions` and `MCReplicas` extends `SentinelElection` |
| `RequestsProofs`, `ReplicasProofs`, `ProgressProofs` | theorems about the suites: transactions, scripts and replies; the election, the slave side and the script cache; every component of `MCProgress` | `MCRequests`, `MCReplicas`, `MCProgress` |

Definitions marked "Faulty variant" are not part of any specification: each is the
definition that follows it with a plausible mistake, and shows that a property notices it.

**Suites.** Every Redis module is a specification of its own. A suite holds instances of
several, side by side: `Init` chooses the variable `component`, the chosen module runs, and
the variables of the others keep the value `Off`. The behaviours of a suite are those of its
modules, each checked as it would be alone, and the properties of a suite are conjunctions
of theirs, each under `component = ...`. Where a module needs different instances to reach
all of its cases (a table that grows and one that shrinks, saves to disk and to sockets) the
suite has one instance for each. In `MCReplicas` and `MCProgress`, and for the components of
`MCRequests` that theorems are about, the parameters of the components are constants of the
suite, with values in the `.cfg`, so that a theorem about the suite is one about its
components for every value.

### How state and actions correspond to the code

* **Neighbourhood.** The data set and the query are variables that `Init` chooses and no
  action changes. `OriginGiven`, `OriginDrawn`, `NothingToDraw`, `Draw` and `Redraw` are
  the choice of the origin, `Grow` and `Exhausted` the two ways an iteration of the `while`
  loop goes, `Enough` its condition. `sorted(...)[0:n]` is `BestOf`: any set of `n`
  best scores, because equal scores keep the arbitrary order of a Python 2 `dict`. The
  test `popularity > 25` is a set of artists, the first 501 members of `term.artists:<g>`
  a set per genre. An origin the data set does not know would make `d3_dictify` fail after
  the loop; queries name artists the page has been sent before. A query that has neither
  origin nor genre chooses one genre at random and goes on without it, as `random_origin`
  does.
* **PathSearch.** One action per iteration of the loops of `find_paths`. A list of
  predecessors is a set: `extend` finds each predecessor once. `path_finder` calls
  `find_paths` twice, once for the test and once for the choice (`CallAgain`). `igrapher`
  links two artists of the answer when they share a track, which is what
  `artist.neighbours` records; the links are pairs of positions, as in the answer.
* **PathLayout.** `PlaceNext` takes any link that leads on, as the order of `graph.links`
  is that of igraph; if none did, there would be no step, and TLC would report a deadlock.
* **Explorer.** One action per handler, with the exception that may stop it. Of a request
  the page's later steps only depend on the route and on the artist it is about
  (`flaskURL`). `Answers` says what the server may send back: a neighbourhood contains its
  origin, a path its source and at least two artists. `Placed` is `pathPositions`: it
  throws when `gv.source` is not in the graph, works when the graph is a path from there,
  and may do either in any other graph. `stuck` and `crashed` remember exceptions;
  `hurried` remembers that the user searched, or changed the ends of a path, before the
  last search was over. `ChooseService` loads the sidebar again, at any time; it throws for an
  artist who is not in `gv.artist` (`Loadable`), and perhaps for a link of an earlier graph,
  whose numbers may be too large for the nodes of now. `currentLink` tells a link that is on the
  map from one that is gone.
* **MapView.** An element has the id it was made with, the datum of the last join and a
  class. `Fading` is `d3.select('#a' + id)`, which finds the first element of the document
  with that id; `Joined` is `selectAll(".node").data(nodes)`, which joins by position.
  `Removed` is the end of a transition; `DrawnOnMap` says the one thing about time that
  the delays guarantee: the nodes that go (removed after `FadeOut`) are gone before the
  timeout of their drawing (`FadeOut + FadeIn + NodeSlide`) runs, while those that stay are
  removed at about the same moment or a little later.
* **Playlist.** `currentTrack` is a JavaScript value: a number, `null`, `undefined` or a
  text, with `+`, `<` and `==` as the language defines them. A refresh fills the table
  again, sorted once the user has sorted it. The player is external: `cueVideoById`,
  `stopVideo` and `VideoEnds` say which events it sends. An event waits in `events` until
  the browser handles it. Everything before `player` exists stops at the first use of it.
  `strayed` remembers the three things that take the player out of step: a first track
  before the player exists, Previous in an empty list, and a double click in the table.
* **Sentinels.** An action is a run of the timer for one instance, an answer, a restart or
  an operator's command. Periods are not measured in `SentinelElection` and
  `SentinelFailover`: a period may be over at any tick; `SentinelLink` has ages in ticks.
  It sends INFO when it is due and only otherwise a PING, and both wait for their answers.
  `disk` is what `sentinelFlushConfig` has written and `Restart` reads. A command to an
  instance takes its effect later or is lost with the link.
* **Replication.** The stream is a sequence of items of one byte each; the data set is the
  sequence of the writes in it, so "the slave has the master's data" compares sequences.
  `Replication` has the master and what slaves load and apply; `SlaveRole` the states of a
  slave's link, where a data set is only a number, and a socket a fresh number, so that one
  that is never closed shows.
* **Files.** An item of the append only file takes two bytes, so that a write or a crash can
  cut it. A crash keeps a prefix of the file that is at least what was synced. The end of a
  rewrite is two steps, `Rename` and `RewriteEnds`, with a crash possible in between. In
  `Snapshots` a data set is the number of changes that made it; the child's writing, flushing,
  syncing and renaming are steps of their own, and a dump carries what had been done to the
  file when it was renamed.
* **Clients.** Commands are actions. `BlockingLists` runs `handleClientsBlockedOnLists` to
  its end inside the action, as the code does. `Scripting` has one action per step of a
  script, because the hook lets other clients in between. `QueryParser` reads any number of
  characters of `ReadSizes` per step; `ReplyBuffers` numbers the bytes of the stream.
* **Types.** `ListCommands` and `SortedSets` alternate between `Send`, a command that
  arrives, and `Execute`; `cmd` keeps the command, with its reply, for the refinement.
  `Strings`, `Hashes`, `Sets` and `Keyspace` also have a replica that executes what is
  propagated. A node of the skiplist of `SortedSets` has all of its levels, spans and back
  pointers. `Ziplist` has a cell per byte.
* **Dict.** `Hash` is a constant; buckets, masks, `rehashidx`, the reversed increment of the
  cursor and the counting of safe iterators are those of the code.

## Runs

| run | checks | what it shows |
|---|---|---|
| `neighbourhood` | `GoodNeighbourhood`, `ClosestFirst`, `AnsweredUnlessNoCandidate` | all 1024 graphs on five artists, with and without a genre, given and drawn origins, sizes 0, 2, 3, 4 and 6 |
| `path` | `SearchSound`, `SearchComplete`, `OrderIsPath`, `DrawnOrRefused` | all graphs on five artists, every source and destination (also the same one) |
| `explorer` | `LockKept`, `WaitingIsSafe`, `UnlockedAgain` | two artists, up to two requests and two drawings under way |
| `map_view` | `MapAgrees` | one graph drawn over another that still fades |
| `playlist` | `PlayerAgrees`, `NoTrackLost`, `CuedIsPlayed` | two tracks, which may be there several times, lists of up to three, two events under way |
| `structures` | `SortedSetsRight`, `WalksComplete`, `ZiplistRight`, `ImplementsSortedSets`, `ImplementsMap` | skiplists, hash tables under rehashing, cascades of ziplists; the first two implement their abstract specifications |
| `types` | `ReplicasAgree`, `ObjectsRight`, `CommandsExact`, `ImplementsLists` | the commands of the types and of the key space, with a replica; lists implement plain sequences |
| `requests` | `ExecutedAsSent`, `TransactionsSafe`, `NoLostWakeup`, `ScriptsStopCleanly`, `RepliesInOrder`, `ListsExact`, `ServedFairly` | a request from its first byte to the last byte of its reply, with two or three clients |
| `replicas` | `ElectionSafe`, `SlavesConverge`, `LinkMatches`, `CrashLeavesAPast`, `ScriptsKnown` | copies of data and of decisions under lost connections, crashes and restarts |
| `progress` | `Consistent`, `FailoverEnds`, `DeathIsNoticed`, `LeftIsDone`, `NeverBack` | what must happen in the end, and the invariants of the same components |
| `removal_plays_previous` | `RemovalPlaysPrevious`, violated | a comment the code does not keep |
| `sentinel_same_epoch` | `MajorityForTheSameEpoch`, violated | a comment the code does not keep |

The properties of the program's runs are conjunctions of named parts: `GoodNeighbourhood` is
`TypeOK`, `NeverTooMany`, `Connected` and `ShortOnlyIfExhausted`; `ClosestFirst` is
`NearestFirst` and `BestConnectedFirst`; `SearchSound` is `TypeOK`, `LayersExact` and
`PathsAreReal`; `SearchComplete` is `AllShortestPaths` and `NoPathOnlyIfTooFar`; `LockKept`
is `TypeOK`, `LockedIsBusy` and `UnlockedIsDone`; `WaitingIsSafe` is `NoCrash`,
`SidebarFollows` and `ServiceFinds`; `MapAgrees` is `MapIsTheGraph` and `ClickableIsKnown`; `PlayerAgrees` is
`TypeOK`, `InStep` and `AnnouncedIsPlaying`. `TransactionsSafe` is `TypeOK`,
`OptimisticLock`, `WatchesAgree`, `SlaveFollows` and `RefusedAborts`; `ElectionSafe` is
`TypeOK`, `OneVotePerEpoch`, `ElectedByMajority` and `OneLeaderPerEpoch`. The other
properties of the suites name their parts in the suite's module; those of
`ScriptsStopCleanly`, `RepliesInOrder`, `LinkMatches`, `ScriptsKnown` and `Consistent`
contain the inductive invariants of the proofs (`ScriptInvariant`, `BuffersInvariant`,
`RoleInvariant`, `CacheInvariant`, `FailoverInvariant`, `LinkInvariant`,
`SnapshotsInvariant`, `JobsInvariant`, `LoopInvariant`), so that TLC checks them too.

**Refinement.** `ImplementsLists`, `ImplementsMap` and `ImplementsSortedSets` say that the
initial states map to initial states of the abstract specification and every step to a step
or a stutter of it. The mapping of a list forgets the encoding, that of a sorted set takes
the scores from the ziplist or the dictionary, that of a hash table looks up every key as
`dictFind` does, in both tables.

**Bounds.** Five artists are the least with a second layer that is cut short and two
different numbers of shortest paths into it, and with a path one hop too long for
`MaxHops = 3` (8 in the code). The thresholds 5 and 10 on the neighbours of an origin are
1 in the run: the pool has members on both sides of them. With two requests under way
every pair of searches meets in both orders; a third adds no new pair. Two artists tell
"the artist asked for" from "another one". In `map_view` one request at a time is enough
to draw over fading nodes, since the lock goes before they do; `MaxElements` bounds the
fading nodes that are drawn over. A playlist of three with two tracks has equal tracks,
a first, a middle and a last one.

In the suites, every limit of the code (entries of a ziplist, 254 bytes, sizes of buffers,
chunks and backlogs, bits of a number, the events of a set) is scaled down to where two or
three steps cross it, and sizes lie on both sides. Three Sentinels with a quorum of two are
the least that can be cut off by one and still elect; two candidates and one crash, lost
link or forced failover make them compete. Two slaves are enough for one to come while a
save for the other runs. Three clients are a chain of BRPOPLPUSH (one served, one waiting
for the target, one that pushes). One crash per behaviour is enough for what a crash leaves:
after the restart the state is one that a crash may come from again, except for the counters
of the bound. Counters that would grow for ever are bounded in the guards by constants
called `Max...`. In `SentinelLink` one trouble is enough, since the links to a dead instance
fail as often as they like; `INFO_PERIOD` is longer than `PING_PERIOD` and as long as the down period, so that
an INFO may or may not be due when an instance falls silent.

**Fairness.** The server thread keeps running (`Neighbourhood`, `PathSearch`); `Draw` is
taken when it stays possible because `random.choice` draws every member of the pool again
and again, with probability 1. A request is answered or fails, a timeout runs
(`Explorer`), the browser handles the events of the player (`Playlist`). Nothing is
assumed of the user or of the end of a video. In `progress`: the timer of a Sentinel keeps
running and its timeouts pass, time passes, a live instance answers, and a link that is
established again and again is at some time established in both of its parts
(`BothLinksUp`, the one strong fairness: every reconnection is a new attempt); the cron
runs and a child that has not failed ends; threads that hold or can take their mutex go on;
the event loop goes on. Nothing is assumed of clients, operators, networks or crashes.
`LeftIsDone` is checked for the snapshots with `DEBUG RELOAD` in use.

**Deadlock** is checked in every run but `progress` and `sentinel_same_epoch`, where the
bounds on elections, jobs and epochs leave nothing to do. In `types`, `requests` and
`replicas` the components that reach their bounds, or whose input, server or client comes to
an end, may stutter there explicitly; in the others every state has a next step. `Answered`
and `Finished` are the ends of a request of the program.

**Symmetry** is used in `types`, `requests` and `replicas`, for sets of model values of
which no definition names or orders a member (the keys of `Strings`, the clients, the
Sentinels that are cut off, the slaves). Their properties are invariants and action
properties. In `requests` a `VIEW` leaves out what the last step of `PubSub` has delivered,
which no step and no invariant reads; TLC checks `ServedFairly` on every step it generates,
also on those to states it has seen.

### Comments the code does not keep

| run | comment | what the code does |
|---|---|---|
| `removal_plays_previous` | `musicplaybar.js:389` "IF DELETING THE PLAYING TRACK PLAY THE PREVIOUS TRACK" | the index goes down and `playNextTrack` moves it up again: the next track plays |
| `sentinel_same_epoch` | `sentinel.c:3227` "...the majority of the Sentinels we know ... that reported the same instance as leader for the same epoch." | the votes of the others are counted by `current_epoch`, the own one by the epoch of the failover: two epochs may be mixed |

### What holds only under a condition

`WaitingIsSafe` is about behaviours that are not `hurried`, `MapAgrees` also about those
where no answer is drawn over fading nodes, `InStep`, `AnnouncedIsPlaying` and `CuedIsPlayed`
about those that have not `strayed`. The conditions are history variables that change exactly
at the actions named above, and TLC refutes each of these properties without its condition:
the autocompletes, the list of genres and the search button ignore the lock. `LockKept`,
`UnlockedAgain` and `NoTrackLost` hold for everybody. `SidebarFollows` does not say that the
link in the edge pane is on the map: a search leaves the pane and the link of the graph before
(`phonograph.js:364`). `ServiceFinds` is about the maps of neighbourhoods: on that of a path or a
term the artist of the sidebar may be one who is not drawn, and the choice of a service throws.

In Redis the modules say more than the properties hold for: a constant of the module, or a
condition in the property, switches off what is known to break it. TLC has refuted each of
these properties with the other value of the constant or without the condition. Files are those of `redis-stable/src`.

| constant or condition | what the code does otherwise |
|---|---|
| `RefusedAborts` if every `Reason` flags the transaction | a command refused with -READONLY or -LOADING (`redis.c:2113`, `2142`) does not flag the transaction, and EXEC runs the rest |
| `Scripting.Pcall` | a script that catches the error of SCRIPT KILL can write and is then killed by the next hook (`scripting.c:523`) |
| `Scripting.Pipelining` | with replies of earlier commands waiting, the client of a running script can be freed (`scripting.c:520`) |
| `Clients.KillsMaster` | CLIENT KILL of the master removes other nodes of the list it iterates (`networking.c:1399`) |
| `Clients.BlocksAgain` | a client that was just served and has more commands in its buffer may block and be served again before `beforeSleep`, which puts it into `unblocked_clients` twice (`t_list.c:842`, `networking.c:1082`); `freeClient` takes it out once (`707`) |
| `EventLoop.Moves` | `fe` is used after CONFIG SET maxclients has reallocated the array (`ae.c:414`) |
| `CallsRegistered` is about what is registered now, not about the connection the event was for | a descriptor that was closed and given away in the same pass gets the event of the old one (`ae.c:410`) |
| `QueryParser` lines end in CR LF | after a line that ends in LF alone one character too many is dropped (`networking.c:906`) |
| soft limits are not among `RepliesInOrder`; no reply of length 0 | the time of the soft limit is only looked at when something is appended (`networking.c:1575`); an empty object stays in `reply_bytes` (`801`) |
| `sortstore` is not among the `Cmds` of the suite | SORT STORE over a string that became a list wakes nobody (`db.c:121`) |
| the mode of a subscriber is not looked at inside EXEC | EXEC runs PUBLISH after SUBSCRIBE (`redis.c:2118`) |
| `Replication.SyncDuringSave`, no drops when saves are shared or diskless | a slave that joins or waits for a save is given an offset of another moment (`replication.c:426`); when the next fork fails (`806`) or the next save is diskless (`751`) those that waited are not served |
| a slave's own slaves are a set | they are accepted with +CONTINUE over a data set they do not have (`replication.c:1317`) |
| `AppendOnlyFile.Transactions` without crashes | a truncated transaction stays in the file and swallows what follows (`aof.c:651`) |
| `AcknowledgedSurvives` between `Rename` and `RewriteEnds` | with `always` the new file replaces the old one (`aof.c:1248`) before its differences are synced (`1267`): a machine that stops there may lose what was executed since the rewrite began, though no more |
| `ScriptCache.ForkFails` | slaves are set to wait for the end of a save before it is started (`replication.c:751`, `rdb.c:1422`); when the fork fails the cache is not emptied (`replication.c:458`) and they are fed EVALSHA of scripts they do not know |
| `Snapshots.Debug` | DEBUG RELOAD resets `dirty` under a running child (`debug.c:266`) |
| save points within reach of the changes | after a failed save writes are refused that would lead to the next one (`redis.c:1127`) |
| `AnnouncedByEpoch` and `EpochGrows` but for `Overtaken` | while a promotion is waited for, another Sentinel may announce a configuration of the same address and of the same epoch or a newer one, which does not stop the failover (`sentinel.c:2166`); when the promotion is seen `config_epoch` is set back to the epoch of the failover (`1947`) |
| `AnnouncedByEpoch` but for `TakenBack` | SENTINEL RESET after the promotion forgets the slaves, and with them the address that was announced already |
| `SentinelFailover`: the promoted slave may get SLAVEOF itself | the last best effort loop does not skip it (`sentinel.c:3655`) |
| `SentinelLink`: a connection can be started | with no route to the instance no PING is sent and it is never down (`sentinel.c:2979`) |
| `DeathIsNoticed` but for `Overlooked` | an instance that goes silent after its last PONG and has an INFO due is sent INFO in place of every further PING (`sentinel.c:2367`): no PING waits, and while the link stays up it is never called down |
| `Dict.Shrinks` with a scan | a cursor of a larger table misses keys while it is rehashed into a much smaller one (`dict.c:786`) |
| `Ziplist.Payload` of two bytes or more | an entry of two or three bytes before one with a long length it no longer needs is resized too early (`ziplist.c:620`) |
| `SortedSets`: weights other than 0; `IntEncoded` | infinity times 0 depends on the order of the sources (`t_zset.c:1958`); elements that are numbers are not measured (`1973`) |
| `Keyspace.RandomOn` the master | RANDOMKEY on a slave whose keys have all expired never ends (`db.c:149`) |
| MOVE and PERSIST are not in `ModifiedIsSignalled` | they do not call `signalModifiedKey` (`db.c:738`) |
| `Strings.FloatVolatile`; `Offset`, `Decrement` | INCRBYFLOAT is replicated as a SET that drops the time to live (`t_string.c:403`); an offset near the largest number (`214`) and DECRBY of the least one (`372`) overflow |
| `Hashes.LongIncrby` | HINCRBY does not convert for a long field (`t_hash.c:545`) |

Of the playlist TLC has also shown that a double click cues nothing (`musicplaybar.js:355`),
that a removal in a sorted table takes another track (`364`), that after a double click
removal above the current track compares texts (`400`), and that Play Now folds an open
playlist away (`phonograph.js:1325`).

### Simplifications

What the modules leave out inside the code they model, beyond what their comments say:

* `SentinelLink`: a master that reports to be a slave is called down too (`sentinel.c:3017`);
* `AppendOnlyFile`: `no-appendfsync-on-rewrite`, with which nothing is synced while a child
  runs (`aof.c:372`);
* `Replication`: a save to disk serves all the slaves that wait for it or none;
* `BlockingLists`: a round forgets all of its ready keys at its start, the code each key when its
  turn comes (`t_list.c:971`); a key signalled before its turn is looked at once more here, when
  nobody is left to be served;
* `Scripting`: the refusals a write of a script may meet on a read-only slave, after a failed
  save or without memory (`scripting.c:296-321`); the eviction `processCommand` does before it
  refuses a command under a slow script (`redis.c:2064`);
* `ReplyBuffers`: one class of limits (`networking.c:1564`), and no failing writes (`830`), which
  end the client as any other disconnection does in `Clients`;
* `Dict`: no insertion while a safe iterator runs; `ListCommands`: one arithmetic of positions for
  both encodings (`t_list.c:252`);
* `Sets`: SRANDMEMBER only reads and is left out; `ScanCommand`: a table that keeps its size, so
  that no element comes twice, which the code does not promise (`dict.c:734`).

## Theorems

All are proved for every value of the constants that meets the named assumptions, so for
any number of artists, tracks, clients, keys, Sentinels, slaves and jobs, and for any value
of the bounds that the runs fix. The assumptions are `ASSUME`d in the module that declares
the constants, or in the suite that instantiates it, and TLC evaluates each of them in a
run.

**`NeighbourhoodProofs`**, from `NeighbourhoodAssumption` (finitely many artists; the data
sets and queries have their types): `TypeCorrect`, `SizeIsKept`, `AnswerIsConnected`,
`ShortAnswerIsAll`, together `NeighbourhoodIsGood`; and `NearestAndBestFirst`.
* `ShortOnlyIfExhausted` is not inductive: the last iteration looks at the neighbours of the
  frontier only. `Frontier` adds that, until the neighbourhood is full, the artists met are
  exactly those chosen and whoever was chosen before the frontier has all neighbours inside.
  The iteration that cuts a layer short makes the neighbourhood full and is the last one, so
  what `visited` holds too much never matters.
* `ClosestFirst` needs `Layered`: until then the neighbourhood is the ball of some radius
  `k`, the frontier is the `k`-th layer, and the scores of the frontier are the numbers of
  shortest ways from the origin. Balls and numbers of ways are recursive functions; the laws
  they obey (`BallLaw`, `WalksLaw`) are proved from their definitions.

**`PathSearchProofs`**, from `PathSearchAssumption` (the graphs are functions from artists to
sets of artists): `TypeCorrect`, `LayersAreExact`, `ReturnedPathsAreReal`, together
`SearchIsSound`; `SearchIsComplete`; and from `LayoutAssumption` (two artists who share a
track share it both ways) `LayoutFollowsPath`. The first two hold for graphs with a
direction too.
* Going out, `OutwardInv` says that `visited` is the union of the layers before `c`; coming
  back, `BackwardInv` says that the k-th artist of an unfinished path lies in the layer it
  was reached from. Layers are disjoint, so no artist comes twice.
* Nothing is missed because of `CompleteInv`: a walk of `n` hops from a layer ends at most
  `n` layers further, the unfinished paths are all the walks through the layers passed, and
  the destination is in no layer before the one it is met in.
* A path through the layers one by one has no shortcut, so each artist placed has one link
  that leads on (`LayoutInv`).

**`ExplorerProofs`**, from `ExplorerAssumption` and `MapViewAssumption`: `TypeCorrect`,
`LockHasAReason`, `UnlockedWhenDone`, `WaitingNeverCrashes`, `SidebarIsRight`, `ServiceIsFound`,
together `LockIsKept` and `WaitingStaysSafe`; `MapShowsTheGraph`.
* `Calm` is what the lock guarantees a user who waits: one request or one drawing at a time,
  a request made with the route and the source of now, the artist of a neighbourhood among
  the nodes that are drawn, `gv.artist` the nodes of the map. Each of the properties follows
  from it and none is inductive alone.
* For the map (`Right`): the nodes are those of the graph, each once and under its own id;
  what still fades but stays on the map shows an artist of that graph; with no drawing under
  way no element that has to go is left. `Calm` gives the order of drawings it needs.

**`PlaylistProofs`**, from `PlaylistAssumption` (lists of at most 99 tracks: `Decimal` writes
an index in one or two digits): `InvariantHolds`, `PlayerStaysInStep`, and the action property
`DragLosesNoTrack`. Until the user has strayed the table has a row for every track, a list
with tracks has a player that holds the current one, and the bar names it or an event is
under way that will (`InStepNow`). Always, the rows number tracks without repetition
(`TableRight`); so a drag is a permutation.

**`ReplicasProofs`**, from `ElectionAssumption`: `ElectionInvariant`, `ElectionIsSafe`. The
vote in the configuration file is the one in memory, so that a restart forgets none
(`VotesSaved`); a vote is only given in an epoch beyond all those voted in before
(`VotesRise`); what a Sentinel has heard of the votes of others are votes that were given
(`AnswersTrue`); two majorities of a finite set meet. The theorem is about leaders elected
with the votes of one epoch: the run `sentinel_same_epoch` shows that the code does not
always count so. About the other components of the suite:
* `LinkAlwaysMatches`, from `RoleAssumption`: for every step of the slave side, SLAVEOF at any
  point of a handshake or a transfer included, the state of the link says which socket is
  open, whether the temporary file exists, and whether a master is cached. Inductive with the
  types and two facts: a handshake has a socket, and a transfer no cached master.
* `ScriptsAreKnown`, from `CacheAssumption`, where no fork fails after slaves were set to wait for
  its end (`ForkFails` false, as in the run). `CacheIsKnown` is inductive with the types:
  whatever starts a copy that knows no scripts (a snapshot for a slave, a rewrite) empties
  the cache, what is cached is sent to all in full, and a slave that shares a snapshot gets
  what was kept for one that is fed.

**`RequestsProofs`**. From `TransactionsAssumption`: `TransactionsInvariant`,
`TransactionsAreSafe`. A command threads the whole state through the functions it calls, so
the lemmas say of each function that it keeps `Sound(w)`. The lock needs that every change
has a number nobody has seen (`Bounded`). `SlaveFollows` does not hold in the middle of EXEC,
where the slave queues: there the data it will have after its queue is that of the master
(`Mirrors`). That EXEC keeps the invariant is an induction over the queue. About the other
components of the suite:
* `ScriptsAlwaysStopCleanly`, from `ScriptsAssumption`, where scripts catch no errors and EVAL is sent with no reply
  outstanding (`Pcall` and `Pipelining` false, as in the run). `ScriptInvariant` says why the
  client of a script cannot be freed by the event loop that runs inside it: it has nothing to
  be sent, and once the script is slow it is the one client that is not read (`Attended`);
  the flag of SCRIPT KILL is only raised while nothing has been written, and is down again
  before the next command. `SlowEvents` says of one pass of the event loop that it keeps
  this.
* `RepliesAlwaysInOrder`, from `BuffersAssumption` (sizes are positive numbers, limits any numbers,
  0 for none included; no reply is empty), for one class of limits and a socket whose writes do
  not fail. Beside `InOrder` and the accounts, `BuffersInvariant` says that at most one
  node waits for its length, and exactly one when a length is deferred; that less than the
  first buffer has been sent of it, so that a length set later or a tail glued on never
  changes bytes that are gone; and that what waits has a handler unless the client waits for
  a BGSAVE. The lemmas are about all that is buffered as one line: every way to add a reply
  appends to it (`BufferGrows`, `ListGrows`, `TailGrows`, `ListDefers`), setting a length
  leaves it as it was (`LengthSet`), a write moves bytes from its front to the socket
  (`WritesPart`, `WritesWhole`). What joining the nodes and adding up their memory compute
  is proved from the definitions, by `NatInd` (`FlatCat`, `TotalCat`).

**`ProgressProofs`**, from `FailoverAssumption`, `LinkAssumption`, `SnapshotsAssumption`,
`ThreadsAssumption` and `LoopAssumption`: `AlwaysConsistent` (`Consistent`) and the action
property `NothingIsTakenBack` (`NeverBack`). One lemma per component says that its invariant
is kept by every step, and `SuiteStep` puts them together.
* Failover: at most one slave is promoted, and only in the states that have one; a slave is
  reconfigured only while `state` says so and to somebody who is not itself; and no epoch is
  beyond the current one. Announcements of other Sentinels may carry any
  epoch, that of the running failover included. The exceptions of `NeverBack` are a failover
  `Overtaken` and, for the address, a reset after the promotion (`TakenBack`).
* Link: until something goes wrong a PING is answered before its instance can be called down
  (`InTime`: how old a PING can be before and after the timer ran, with INFOs sent in its
  place). Beside the types this needs that an answer takes less time than `down_after_period`,
  which `LinkAssumption` says and without which the code does call a live instance down.
* Snapshots: `dirty` is at least the number of changes since the dump, and without what a
  child will take off it at least that since the fork (`Watched`, for `NothingForgotten`); a
  child that has not renamed its file yet has a snapshot no older than the dump, and the file is
  synced by then or was removed (`Harmless`, for `NeverOlder` and `WholeDump`).
* Threads: a mutex is held where the code between lock and unlock is (`Holders`); a queue is
  the jobs from the first one not removed to the last one created (`Queue`), and the thread has
  done those before it, and the first one of the queue too when it is about to remove it
  (`Carried`). `NoLostSignal` is the safety half of `LeftIsDone`: a thread that waits while
  there is work is about to be signalled.
* Event loop: what the kernel watches is what is registered, nothing is registered beyond
  `maxfd` or `setsize`, and `maxfd` is registered (`Exact`); in the middle of a pass `stage`
  says which handler of the first fired event comes next. Each operation is proved to keep
  `Exact` as a function of the loop, and resizing, closing and accepting inside a handler are
  compositions of them. It is inductive where the array stays in place (`Moves` false).

**Induction.** Facts about all numbers (walks of any length, queues of any length) are proved
by a least counterexample: `NatInd` says that a set of numbers with 0 that is closed under
successor is everything, and takes a set where the library's theorem takes an operator. That
a recursive function satisfies its equation is proved by constructing its finite
approximations (`Recursion`, `Chain`).

**Only model-checked**, and why:

* every liveness property (`AnsweredUnlessNoCandidate`, `DrawnOrRefused`, `UnlockedAgain`,
  `CuedIsPlayed`, `FailoverEnds`, `DeathIsNoticed`, `LeftIsDone`): the provers do not reason
  about fairness and ENABLED;
* the two violated properties;
* the refinements `ImplementsMap`, `ImplementsLists`, `ImplementsSortedSets`: their steps
  are folds over buckets, lists and skiplists, and need an induction for each loop;
* `ZiplistRight`, `SortedSetsRight`, `WalksComplete`: what loops over bytes, levels and
  buckets compute; each of these folds needs an induction over data of its own;
* `ReplicasAgree`, `ObjectsRight`, `CommandsExact`, `ExecutedAsSent`, `NoLostWakeup`,
  `ListsExact`, `SlavesConverge`, `CrashLeavesAPast`: their commands are loops over
  arguments, keys, clients or bytes of a file, each of which needs an induction of its own,
  not done so far; `ServedFairly`, about blocked clients and messages, for the same reason.

One limit of a model matters to its theorem: in `Transactions` a key expires between the
commands of clients, not between two commands of one EXEC.

## Not modelled

* The sidebar beyond its title and tab: what it keeps is decided by the texts of four
  services and the scores of their titles. `/termsubgraph` (its answer is any set of artists
  in `Explorer`), `/zoom` and `/custom` (their controls are commented out), look-ups: no
  state. Accounts, markup, title matching.
* Clicks on the empty map, highlighting, sizes, colours, labels, `optimiseRotation` and the
  layout: they change what things look like.
* The number of artists `gv.size` and the genre: no other step of the page depends on them.
  `#genre` and `#ns` are taken to be changed to something new.
* The radio: `gv.playMode` never becomes `"radio"`, the code that sets it is commented out.
* The scrubber, the volume, the pause when the service is switched, buffering.
* Redis: numerics and encodings of bytes (HyperLogLog, bit operations, the formats of
  snapshots and of DUMP, intsets, the integer encodings of ziplists), parsing and rewriting
  of configuration, statistics and diagnosis, SORT, eviction and active expiration (random
  samples bounded by the clock), notification scripts of Sentinel, reference counts, the
  command line tools, the other event back ends, the vendored dependencies.
* What a partly modelled component leaves out is said in its note in `PROJECT.json`.

## Plan

1. (done) The program and Redis modelled and checked; the three refinements; liveness.
2. (done) Theorems about the program: all safety properties of its runs.
3. (done) Theorems about Redis: election, slave side and script cache (`ReplicasProofs`);
   transactions, scripts and replies (`RequestsProofs`); failover, links, snapshots, threads
   and event loop (`ProgressProofs`).
4. Next: that `Dict` implements `AbstractMap` (a lookup looks at the bucket a key was put
   into, in the table it was put into; rehashing moves whole buckets), with `Rehash` written
   without a fold; `Agree` of `PubSub`; the queues of `BlockingLists`.
5. Later: notification scripts, intsets and SORT STORE.

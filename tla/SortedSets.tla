----------------------------- MODULE SortedSets -----------------------------
(***************************************************************************)
(* Sorted set objects and their commands (t_zset.c): the ziplist encoding, *)
(* a sequence of members and scores in order, the skiplist encoding with   *)
(* its dictionary, the conversions, the stores of unions and intersections *)
(* and the queries.                                                        *)
(*                                                                         *)
(* The text of a score in a ziplist has 17 digits and is read back as the  *)
(* same number, so a score stands for its text.                            *)
(*                                                                         *)
(* The skiplist is a record.  A node is known by its member; 0 is the      *)
(* header, and NULL in a pointer.  next and span are the levels of a node, *)
(* 1 the lowest; score and back are of the nodes.  The fields of members   *)
(* that are not in the list are 0.  Members are numbers, so that < stands  *)
(* for compareStringObjects.                                               *)
(***************************************************************************)
EXTENDS Integers, Sequences, FiniteSets, SequencesExt, FiniteSetsExt, Functions

CONSTANTS
  Member,      \* 1..n
  MaxLevel,    \* ZSKIPLIST_MAXLEVEL
  Key, Inf, AddScores, Weights, PlainSet, MaxIndex,
  Long,        \* members longer than zset_max_ziplist_value
  IntEncoded,  \* members that are numbers, kept as integer objects
  MaxZiplist   \* zset_max_ziplist_entries

SortedSetsAssumption ==
  /\ Member \subseteq Nat \ {0} /\ MaxLevel \in Nat \ {0}
  /\ Long \subseteq Member /\ IntEncoded \subseteq Member /\ PlainSet \subseteq Member
  /\ MaxZiplist \in Nat /\ MaxIndex \in Nat /\ Inf \in Nat \ {0}

VARIABLES
  obj,       \* the objects of the keys
  cmd,       \* the command that has arrived
  signalled, \* keys signalled as modified by the last command
  dirty      \* what the last command has added to server.dirty

vars == <<obj, cmd, signalled, dirty>>

-----------------------------------------------------------------------------
Node == {0} \cup Member
Levels == 1..MaxLevel

(* zslCreate *)
EmptyList ==
  [next |-> [n \in Node |-> [i \in Levels |-> 0]], span |-> [n \in Node |-> [i \in Levels |-> 0]],
   back |-> [n \in Member |-> 0], score |-> [n \in Member |-> 0],
   tail |-> 0, level |-> 1, length |-> 0]

-----------------------------------------------------------------------------
(* The loop all operations start with: from the highest level down, go     *)
(* forward while the next node, at the given rank, is one to pass.         *)
Walk(z, pass(_, _)) ==
  LET step(s, k) ==
        IF s.i = 0 THEN s
        ELSE LET n == z.next[s.x][s.i]
                 r == s.r + z.span[s.x][s.i]
             IN  IF n # 0 /\ pass(n, r) THEN [s EXCEPT !.x = n, !.r = r]
                 ELSE [s EXCEPT !.i = @ - 1, !.update[s.i] = s.x, !.rank[s.i] = s.r]
      start == [x |-> 0, i |-> z.level, r |-> 0,
                update |-> [i \in Levels |-> 0], rank |-> [i \in Levels |-> 0]]
  IN  FoldLeft(step, start, [k \in 1..(MaxLevel + Cardinality(Member)) |-> k])

Before(z, n, score, m) == z.score[n] < score \/ (z.score[n] = score /\ n < m)

\* Faulty variant: the spans over the new node on the levels above it stay.
InsertKeepingSpans(z, score, m, level) ==
  LET w == Walk(z, LAMBDA n, r : Before(z, n, score, m))
      span == [z.span EXCEPT ![0] = [i \in Levels |-> IF i > z.level /\ i <= level THEN z.length ELSE @[i]]]
      gap(i) == w.rank[1] - w.rank[i]
      prev == w.update[1]
      after == z.next[prev][1]
  IN  [next |-> [n \in Node |-> [i \in Levels |->
         IF i <= level /\ n = m THEN z.next[w.update[i]][i]
         ELSE IF i <= level /\ n = w.update[i] THEN m ELSE z.next[n][i]]],
       span |-> [n \in Node |-> [i \in Levels |->
         IF i <= level /\ n = m THEN span[w.update[i]][i] - gap(i)
         ELSE IF i <= level /\ n = w.update[i] THEN gap(i) + 1 ELSE span[n][i]]],
       back |-> [n \in Member |-> IF n = m THEN prev ELSE IF n = after THEN m ELSE z.back[n]],
       score |-> [z.score EXCEPT ![m] = score],
       tail |-> IF after = 0 THEN m ELSE z.tail,
       level |-> IF level > z.level THEN level ELSE z.level,
       length |-> z.length + 1]

(* zslInsert, with the level zslRandomLevel has chosen *)
InsertNode(z, score, m, level) ==
  LET w == Walk(z, LAMBDA n, r : Before(z, n, score, m))
      top == IF level > z.level THEN level ELSE z.level
      span == [z.span EXCEPT ![0] = [i \in Levels |-> IF i > z.level /\ i <= level THEN z.length ELSE @[i]]]
      gap(i) == w.rank[1] - w.rank[i]
      prev == w.update[1]
      after == z.next[prev][1]
  IN  [next |-> [n \in Node |-> [i \in Levels |->
         IF i <= level /\ n = m THEN z.next[w.update[i]][i]
         ELSE IF i <= level /\ n = w.update[i] THEN m ELSE z.next[n][i]]],
       span |-> [n \in Node |-> [i \in Levels |->
         IF i <= level /\ n = m THEN span[w.update[i]][i] - gap(i)
         ELSE IF i <= level /\ n = w.update[i] THEN gap(i) + 1
         ELSE IF i \in (level + 1)..top /\ n = w.update[i] THEN span[n][i] + 1
         ELSE span[n][i]]],
       back |-> [n \in Member |-> IF n = m THEN prev ELSE IF n = after THEN m ELSE z.back[n]],
       score |-> [z.score EXCEPT ![m] = score],
       tail |-> IF after = 0 THEN m ELSE z.tail,
       level |-> top,
       length |-> z.length + 1]

(* zslDeleteNode and zslFreeNode *)
DeleteNode(z, x, update) ==
  LET on(n, i) == i <= z.level /\ n = update[i]
      next == [n \in Node |-> [i \in Levels |->
                 IF n = x THEN 0
                 ELSE IF on(n, i) /\ z.next[n][i] = x THEN z.next[x][i] ELSE z.next[n][i]]]
      after == z.next[x][1]
  IN  [next |-> next,
       span |-> [n \in Node |-> [i \in Levels |->
         IF n = x THEN 0
         ELSE IF ~on(n, i) THEN z.span[n][i]
         ELSE z.span[n][i] - 1 + (IF z.next[n][i] = x THEN z.span[x][i] ELSE 0)]],
       back |-> [n \in Member |-> IF n = x THEN 0 ELSE IF n = after THEN z.back[x] ELSE z.back[n]],
       score |-> [z.score EXCEPT ![x] = 0],
       tail |-> IF after = 0 THEN z.back[x] ELSE z.tail,
       level |-> Max({1} \cup {i \in 1..z.level : next[0][i] # 0}),
       length |-> z.length - 1]

(* zslDelete: the list is left alone when there is no such node *)
Delete(z, score, m) ==
  LET w == Walk(z, LAMBDA n, r : Before(z, n, score, m))
      x == z.next[w.update[1]][1]
  IN  IF x = m /\ z.score[x] = score THEN DeleteNode(z, x, w.update) ELSE z

-----------------------------------------------------------------------------
(* zrangespec and zlexrangespec: zslValueGteMin, zslValueLteMax and their  *)
(* lexicographic forms                                                     *)
GteMin(v, range) == IF range.minex THEN v > range.min ELSE v >= range.min
LteMax(v, range) == IF range.maxex THEN v < range.max ELSE v <= range.max

(* A range is by score or by member. *)
Val(z, n, lex) == IF lex THEN n ELSE z.score[n]

(* Also of a range by member the case of min > max is left to the loops:   *)
(* the test at line 567 is for a difference of more than 1.                *)
EmptyRange(range, lex) ==
  \/ ~lex /\ range.min > range.max
  \/ range.min = range.max /\ (range.minex \/ range.maxex)

(* zslIsInRange, zslIsInLexRange *)
IsInRange(z, range, lex) ==
  /\ ~EmptyRange(range, lex)
  /\ z.tail # 0 /\ GteMin(Val(z, z.tail, lex), range)
  /\ z.next[0][1] # 0 /\ LteMax(Val(z, z.next[0][1], lex), range)

(* zslFirstInRange, zslFirstInLexRange *)
FirstInRange(z, range, lex) ==
  LET x == z.next[Walk(z, LAMBDA n, r : ~GteMin(Val(z, n, lex), range)).update[1]][1]
  IN  IF IsInRange(z, range, lex) /\ LteMax(Val(z, x, lex), range) THEN x ELSE 0

(* zslLastInRange, zslLastInLexRange *)
LastInRange(z, range, lex) ==
  LET x == Walk(z, LAMBDA n, r : LteMax(Val(z, n, lex), range)).update[1]
  IN  IF IsInRange(z, range, lex) /\ GteMin(Val(z, x, lex), range) THEN x ELSE 0

(* The second loop of zslDeleteRangeBy...: nodes go from after update[1]   *)
(* on, at the rank they had, with the same update for all of them; the     *)
(* result is the list and the members deleted.                             *)
DeleteWhile(z, w, cond(_, _)) ==
  LET step(s, k) ==
        LET x == s.z.next[w.update[1]][1]
        IN  IF s.done \/ x = 0 \/ ~cond(x, w.rank[1] + k) THEN [s EXCEPT !.done = TRUE]
            ELSE [s EXCEPT !.z = DeleteNode(s.z, x, w.update), !.gone = @ \cup {x}]
  IN  FoldLeft(step, [z |-> z, gone |-> {}, done |-> FALSE], [k \in 1..Cardinality(Member) |-> k])

(* zslDeleteRangeByScore, zslDeleteRangeByLex *)
DeleteRangeBy(z, range, lex) ==
  DeleteWhile(z, Walk(z, LAMBDA n, r : ~GteMin(Val(z, n, lex), range)),
              LAMBDA x, r : LteMax(Val(z, x, lex), range))

(* zslDeleteRangeByRank: ranks from 1 *)
DeleteRangeByRank(z, start, end) ==
  DeleteWhile(z, Walk(z, LAMBDA n, r : r < start), LAMBDA x, r : r <= end)

(* zslGetRank: 0 when the member is not met on the way *)
GetRank(z, score, m) ==
  LET w == Walk(z, LAMBDA n, r : Before(z, n, score, m) \/ (z.score[n] = score /\ n = m))
      hits == {i \in 1..z.level : w.update[i] = m}
  IN  IF hits = {} THEN 0 ELSE w.rank[Max(hits)]

(* zslGetElementByRank *)
GetElementByRank(z, rank) ==
  LET w == Walk(z, LAMBDA n, r : r <= rank)
      hits == {i \in 1..z.level : w.rank[i] = rank}
  IN  IF hits = {} THEN 0 ELSE w.update[Max(hits)]

-----------------------------------------------------------------------------
NoDict == <<>>
NoObj == [enc |-> "none", zl |-> <<>>, zsl |-> EmptyList, dict |-> NoDict]
ZiplistObj == [NoObj EXCEPT !.enc = "ziplist"]
SkiplistObj == [NoObj EXCEPT !.enc = "skiplist"]

Exists(k) == obj[k] # NoObj

ZlMap(zl) == [m \in {zl[i][1] : i \in DOMAIN zl} |-> zl[CHOOSE i \in DOMAIN zl : zl[i][1] = m][2]]

(* Members and scores: of a skiplist, the dictionary's *)
MapOf(o) == IF o.enc = "skiplist" THEN o.dict ELSE ZlMap(o.zl)

Abstract == INSTANCE AbstractSortedSets WITH zsets <- [k \in Key |-> MapOf(obj[k])]
None == Abstract!None
NaN == Abstract!NaN

Init ==
  /\ obj = [k \in Key |-> NoObj] /\ cmd = None
  /\ signalled = {} /\ dirty = 0

-----------------------------------------------------------------------------
(* zsetLength *)
LengthOf(o) == IF o.enc = "skiplist" THEN o.zsl.length ELSE Len(o.zl)

(* zzlFind: the position of a member, 0 for none *)
ZzlFind(zl, m) ==
  LET at == {i \in DOMAIN zl : zl[i][1] = m} IN IF at = {} THEN 0 ELSE Min(at)

(* zzlInsert: before the first pair that is larger *)
ZzlInsert(zl, m, score) ==
  LET at == {i \in DOMAIN zl : zl[i][2] > score \/ (zl[i][2] = score /\ zl[i][1] > m)}
  IN  IF at = {} THEN Append(zl, <<m, score>>) ELSE InsertAt(zl, Min(at), <<m, score>>)

(* A new node in the skiplist and the dictionary, on the level given *)
AddNode(o, m, score, level) ==
  [o EXCEPT !.zsl = InsertNode(@, score, m, level), !.dict = Abstract!With(@, m, score)]

(* zsetConvert, with the levels chosen for the nodes of a skiplist *)
Convert(o, levels) ==
  IF o.enc = "ziplist"
  THEN FoldLeft(LAMBDA p, e : AddNode(p, e[1], e[2], levels[e[1]]), SkiplistObj, o.zl)
  ELSE LET step(s, i) == IF s.x = 0 THEN s
                         ELSE [x |-> o.zsl.next[s.x][1], zl |-> Append(s.zl, <<s.x, o.zsl.score[s.x]>>)]
       IN  [ZiplistObj EXCEPT !.zl = FoldLeft(step, [x |-> o.zsl.next[0][1], zl |-> <<>>],
                                              [i \in 1..o.zsl.length |-> i]).zl]

-----------------------------------------------------------------------------
(* The end of a command that changes data: dbDelete of an empty sorted     *)
(* set, signalModifiedKey and server.dirty.                                *)
Store(k, o, changes) ==
  /\ obj' = [obj EXCEPT ![k] = IF LengthOf(o) = 0 THEN NoObj ELSE o]
  /\ signalled' = IF changes > 0 THEN {k} ELSE {}
  /\ dirty' = changes

Level == [Member -> Levels]

(* zaddGenericCommand for one member, in a ziplist *)
ZaddZiplist(o, m, score, levels) ==
  LET p == ZzlFind(o.zl, m)
      added == [o EXCEPT !.zl = ZzlInsert(@, m, score)]
  IN  IF p # 0
      THEN [o EXCEPT !.zl = IF @[p][2] = score THEN @ ELSE ZzlInsert(RemoveAt(@, p), m, score)]
      ELSE IF Len(added.zl) > MaxZiplist \/ m \in Long THEN Convert(added, levels) ELSE added

(* and in a skiplist *)
ZaddSkiplist(o, m, score, levels) ==
  IF m \notin DOMAIN o.dict THEN AddNode(o, m, score, levels[m])
  ELSE IF o.dict[m] = score THEN o
  ELSE AddNode([o EXCEPT !.zsl = Delete(@, o.dict[m], m)], m, score, levels[m])

(* zaddGenericCommand: a sum that is not a number leaves all as it was *)
Zadd(k, s, m, incr) ==
  LET o == IF Exists(k) THEN obj[k]
           ELSE IF MaxZiplist = 0 \/ m \in Long THEN SkiplistObj ELSE ZiplistObj
      has == m \in DOMAIN MapOf(o)
      score == IF incr /\ has THEN Abstract!Plus(s, MapOf(o)[m]) ELSE s
  IN  IF score = NaN THEN Store(k, o, 0)
      ELSE \E levels \in Level :
             Store(k, IF o.enc = "ziplist" THEN ZaddZiplist(o, m, score, levels)
                      ELSE ZaddSkiplist(o, m, score, levels),
                   IF has /\ MapOf(o)[m] = score THEN 0 ELSE 1)

(* zremCommand for one member *)
Zrem(k, m) ==
  LET o == obj[k]
      gone == m \in DOMAIN MapOf(o)
  IN  Store(k, IF ~gone THEN o
               ELSE IF o.enc = "ziplist" THEN [o EXCEPT !.zl = RemoveAt(@, ZzlFind(o.zl, m))]
               ELSE [o EXCEPT !.zsl = Delete(@, o.dict[m], m), !.dict = Restrict(@, DOMAIN @ \ {m})],
            IF gone THEN 1 ELSE 0)

(* The indexes of zremrangeGenericCommand and zrangeGenericCommand *)
Clip(llen, start, end) ==
  LET s == IF start < 0 THEN llen + start ELSE start
      e == IF end < 0 THEN llen + end ELSE end
      s0 == IF s < 0 THEN 0 ELSE s
  IN  [empty |-> s0 > e \/ s0 >= llen, start |-> s0, end |-> IF e >= llen THEN llen - 1 ELSE e]

ZlVal(zl, i, lex) == IF lex THEN zl[i][1] ELSE zl[i][2]

(* zzlIsInRange, zzlIsInLexRange *)
ZzlIsInRange(zl, range, lex) ==
  /\ ~EmptyRange(range, lex) /\ zl # <<>>
  /\ GteMin(ZlVal(zl, Len(zl), lex), range) /\ LteMax(ZlVal(zl, 1, lex), range)

(* zzlFirstInRange, zzlFirstInLexRange: 0 for none *)
ZzlFirstInRange(zl, range, lex) ==
  LET at == {i \in DOMAIN zl : GteMin(ZlVal(zl, i, lex), range)}
  IN  IF ZzlIsInRange(zl, range, lex) /\ at # {} /\ LteMax(ZlVal(zl, Min(at), lex), range)
      THEN Min(at) ELSE 0

(* zzlLastInRange, zzlLastInLexRange *)
ZzlLastInRange(zl, range, lex) ==
  LET at == {i \in DOMAIN zl : LteMax(ZlVal(zl, i, lex), range)}
  IN  IF ZzlIsInRange(zl, range, lex) /\ at # {} /\ GteMin(ZlVal(zl, Max(at), lex), range)
      THEN Max(at) ELSE 0

(* zzlDeleteRangeByScore, zzlDeleteRangeByLex *)
ZzlDeleteRange(zl, range, lex) ==
  LET first == ZzlFirstInRange(zl, range, lex)
      stop == {i \in first..Len(zl) : ~LteMax(ZlVal(zl, i, lex), range)}
  IN  IF first = 0 THEN zl
      ELSE SubSeq(zl, 1, first - 1) \o (IF stop = {} THEN <<>> ELSE SubSeq(zl, Min(stop), Len(zl)))

(* A skiplist with the members gone also deleted from the dictionary *)
Without(o, d) == [o EXCEPT !.zsl = d.z, !.dict = Restrict(@, DOMAIN @ \ d.gone)]

(* zremrangeGenericCommand by score or by member *)
ZremrangeBy(k, range, lex) ==
  LET o == obj[k]
      d == IF o.enc = "ziplist" THEN [o EXCEPT !.zl = ZzlDeleteRange(@, range, lex)]
           ELSE Without(o, DeleteRangeBy(o.zsl, range, lex))
  IN  Store(k, d, LengthOf(o) - LengthOf(d))

(* and by rank *)
ZremrangeByRank(k, start, end) ==
  LET o == obj[k]
      c == Clip(LengthOf(o), start, end)
      d == IF c.empty THEN o
           ELSE IF o.enc = "ziplist"
           THEN [o EXCEPT !.zl = SubSeq(@, 1, c.start) \o SubSeq(@, c.end + 2, Len(@))]
           ELSE Without(o, DeleteRangeByRank(o.zsl, c.start + 1, c.end + 1))
  IN  Store(k, d, LengthOf(o) - LengthOf(d))

-----------------------------------------------------------------------------
(* The members of a source in the order of zuiNext, with their scores, and *)
(* zuiFind in it *)
SourceSeq(s) ==
  IF s = "set" THEN [i \in 1..Cardinality(PlainSet) |-> <<SetToSortSeq(PlainSet, <)[i], 1>>]
  ELSE IF obj[s].enc = "skiplist" THEN Convert(obj[s], <<>>).zl ELSE obj[s].zl
SourceMap(s) == IF s = "set" THEN [m \in PlainSet |-> 1] ELSE MapOf(obj[s])

(* zunionInterAggregate *)
AggregateOf(target, val, aggr) ==
  LET sum == Abstract!Plus(target, val)
  IN  CASE aggr = "sum" -> IF sum = NaN THEN 0 ELSE sum
        [] aggr = "min" -> IF val < target THEN val ELSE target
        [] aggr = "max" -> IF val > target THEN val ELSE target

Weighted(score, weight) ==
  LET v == Abstract!Times(score, weight) IN IF v = NaN THEN 0 ELSE v

(* The sources and weights, sorted by cardinality *)
Sources(s1, s2, w) ==
  LET a == [src |-> s1, weight |-> 1]
      b == [src |-> s2, weight |-> w]
  IN  IF Len(SourceSeq(s2)) < Len(SourceSeq(s1)) THEN <<b, a>> ELSE <<a, b>>

\* Faulty variant: the members of the smaller source that are not in the other one stay.
InterKeeping(src, aggr) ==
  FoldLeft(LAMBDA f, e :
             LET score == Weighted(e[2], src[1].weight)
             IN  IF e[1] \notin DOMAIN SourceMap(src[2].src) THEN Abstract!With(f, e[1], score)
                 ELSE Abstract!With(f, e[1], AggregateOf(score,
                        Weighted(SourceMap(src[2].src)[e[1]], src[2].weight), aggr)),
           NoDict, SourceSeq(src[1].src))

(* ZINTERSTORE: the members of the smaller source that the other one has;  *)
(* of the other source the product is not tested for NaN, but the sum is.  *)
Inter(src, aggr) ==
  FoldLeft(LAMBDA f, e :
             LET score == Weighted(e[2], src[1].weight)
                 value == Abstract!Times(SourceMap(src[2].src)[e[1]], src[2].weight)
             IN  IF e[1] \notin DOMAIN SourceMap(src[2].src) THEN f
                 ELSE Abstract!With(f, e[1],
                        IF value = NaN THEN (IF aggr = "sum" THEN 0 ELSE score)
                        ELSE AggregateOf(score, value, aggr)),
           NoDict, SourceSeq(src[1].src))

(* ZUNIONSTORE: the accumulator over all sources *)
Union(src, aggr) ==
  LET add(f, e, w) ==
        LET score == Weighted(e[2], w)
        IN  Abstract!With(f, e[1], IF e[1] \in DOMAIN f THEN AggregateOf(f[e[1]], score, aggr) ELSE score)
      first == FoldLeft(LAMBDA f, e : add(f, e, src[1].weight), NoDict, SourceSeq(src[1].src))
  IN  FoldLeft(LAMBDA f, e : add(f, e, src[2].weight), first, SourceSeq(src[2].src))

(* The skiplist and dictionary of the result, which go into a ziplist when *)
(* it is short and its longest member too; integer objects are not         *)
(* measured (maxelelen).                                                   *)
ResultObj(f, levels) ==
  LET o == FoldLeft(LAMBDA p, m : AddNode(p, m, f[m], levels[m]), SkiplistObj,
                    SetToSortSeq(DOMAIN f, <))
  IN  IF o.zsl.length > 0 /\ o.zsl.length <= MaxZiplist /\ (DOMAIN f \ IntEncoded) \cap Long = {}
      THEN Convert(o, levels) ELSE o

(* zunionInterGenericCommand: the destination goes, also when the result   *)
(* is empty.                                                               *)
ZunionInter(k, op, s1, s2, w, aggr) ==
  LET src == Sources(s1, s2, w)
      f == IF op = "zinterstore" THEN Inter(src, aggr) ELSE Union(src, aggr)
      touched == IF Exists(k) THEN 1 ELSE 0
  IN  \E levels \in Level :
        Store(k, ResultObj(f, levels), touched + (IF DOMAIN f = {} THEN 0 ELSE 1))

-----------------------------------------------------------------------------
Send ==
  /\ cmd = None /\ cmd' \in Abstract!Commands \cup Abstract!StoreCommands
  /\ signalled' = {} /\ dirty' = 0 /\ UNCHANGED obj

Stores == {"zunionstore", "zinterstore"}

Execute ==
  /\ cmd # None /\ cmd' = None /\ Abstract!InRange(Abstract!New)
  /\ LET k == cmd[2]
     IN  \/ cmd[1] \in {"zadd", "zincrby"} /\ Zadd(k, cmd[3], cmd[4], cmd[1] = "zincrby")
         \/ cmd[1] \in Stores /\ ZunionInter(k, cmd[1], cmd[3], cmd[4], cmd[5], cmd[6])
         \/ /\ Exists(k)
            /\ \/ cmd[1] = "zrem" /\ Zrem(k, cmd[3])
               \/ cmd[1] = "zremrangebyrank" /\ ZremrangeByRank(k, cmd[3], cmd[4])
               \/ cmd[1] = "zremrangebyscore" /\ ZremrangeBy(k, cmd[3], FALSE)
               \/ cmd[1] = "zremrangebylex" /\ ZremrangeBy(k, cmd[3], TRUE)
         \/ /\ cmd[1] \notin {"zadd", "zincrby"} \cup Stores /\ ~Exists(k)
            /\ UNCHANGED <<obj, signalled, dirty>>

(* Only a bound of the model: finite scores stay small. *)
TakeBack ==
  /\ cmd # None /\ cmd' = None /\ ~Abstract!InRange(Abstract!New)
  /\ UNCHANGED <<obj, signalled, dirty>>

Next == Send \/ Execute \/ TakeBack

Spec == Init /\ [][Next]_vars

-----------------------------------------------------------------------------
(* Cursors of the queries: a position in a ziplist or a node of a          *)
(* skiplist, 0 at the end (zzlNext, zzlPrev, level[0].forward, backward).  *)
Following(o, x, reverse) ==
  IF o.enc = "ziplist"
  THEN LET i == IF reverse THEN x - 1 ELSE x + 1 IN IF i \in DOMAIN o.zl THEN i ELSE 0
  ELSE IF reverse THEN o.zsl.back[x] ELSE o.zsl.next[x][1]
MemberAt(o, x) == IF o.enc = "ziplist" THEN o.zl[x][1] ELSE x
ValueAt(o, x, lex) ==
  IF o.enc = "ziplist" THEN ZlVal(o.zl, x, lex) ELSE Val(o.zsl, x, lex)

(* The members at a cursor and after it, at most n, while they are in *)
Collect(o, x, n, reverse, in(_)) ==
  LET step(s, i) ==
        IF s.x = 0 \/ s.done \/ ~in(s.x) THEN [s EXCEPT !.done = TRUE]
        ELSE [s EXCEPT !.x = Following(o, s.x, reverse), !.reply = Append(@, MemberAt(o, s.x))]
  IN  FoldLeft(step, [x |-> x, reply |-> <<>>, done |-> FALSE], [i \in 1..n |-> i]).reply

(* zrangeGenericCommand *)
Zrange(o, start, end, reverse) ==
  LET llen == LengthOf(o)
      c == Clip(llen, start, end)
      first == IF o.enc = "ziplist" THEN (IF reverse THEN llen - c.start ELSE c.start + 1)
               ELSE IF c.start = 0 THEN (IF reverse THEN o.zsl.tail ELSE o.zsl.next[0][1])
               ELSE GetElementByRank(o.zsl, IF reverse THEN llen - c.start ELSE c.start + 1)
  IN  IF c.empty THEN <<>> ELSE Collect(o, first, c.end - c.start + 1, reverse, LAMBDA x : TRUE)

(* The element genericZrangebyscoreCommand and genericZrangebylexCommand   *)
(* start with                                                              *)
FirstOf(o, range, lex, reverse) ==
  IF o.enc = "ziplist"
  THEN IF reverse THEN ZzlLastInRange(o.zl, range, lex) ELSE ZzlFirstInRange(o.zl, range, lex)
  ELSE IF reverse THEN LastInRange(o.zsl, range, lex) ELSE FirstInRange(o.zsl, range, lex)

(* Their loops: offset elements are skipped without a look at the range,   *)
(* then at most limit ones are replied; a negative offset skips all, a     *)
(* negative limit replies all.                                             *)
Limited(o, range, lex, reverse, offset, limit) ==
  LET all == LengthOf(o)
      skip == IF offset < 0 THEN all ELSE offset
      x == FoldLeft(LAMBDA y, i : IF y = 0 THEN 0 ELSE Following(o, y, reverse),
                    FirstOf(o, range, lex, reverse), [i \in 1..skip |-> i])
      in(y) == IF reverse THEN GteMin(ValueAt(o, y, lex), range) ELSE LteMax(ValueAt(o, y, lex), range)
  IN  Collect(o, x, IF limit < 0 THEN all ELSE limit, reverse, in)

(* genericZrangebyscoreCommand, genericZrangebylexCommand *)
ZrangeBy(o, range, reverse, offset, limit) == Limited(o, range, FALSE, reverse, offset, limit)
ZrangeByLex(o, range, reverse, offset, limit) == Limited(o, range, TRUE, reverse, offset, limit)

(* zcountCommand and zlexcountCommand: in a skiplist from the ranks of the *)
(* first and the last element                                              *)
CountIn(o, range, lex) ==
  LET first == FirstOf(o, range, lex, FALSE)
      last == FirstOf(o, range, lex, TRUE)
      rank(x) == GetRank(o.zsl, o.zsl.score[x], x)
  IN  IF first = 0 THEN 0
      ELSE IF o.enc = "ziplist"
      THEN Len(Collect(o, first, Len(o.zl), FALSE, LAMBDA x : LteMax(ValueAt(o, x, lex), range)))
      ELSE (o.zsl.length - (rank(first) - 1))
             - (IF last = 0 THEN 0 ELSE o.zsl.length - rank(last))

Zcount(o, range) == CountIn(o, range, FALSE)
Zlexcount(o, range) == CountIn(o, range, TRUE)

(* zrankGenericCommand, for a member that is there *)
Zrank(o, m, reverse) ==
  LET rank == IF o.enc = "ziplist" THEN ZzlFind(o.zl, m) ELSE GetRank(o.zsl, o.dict[m], m)
  IN  IF reverse THEN LengthOf(o) - rank ELSE rank - 1

-----------------------------------------------------------------------------
(* The members in the order of their scores *)
Ordered(f) == SetToSortSeq(DOMAIN f, LAMBDA m, n : Abstract!Precedes(f, m, n))

(* The commands do what they do to functions from members to scores, in    *)
(* both encodings and through all conversions (zaddGenericCommand,         *)
(* zremrangeGenericCommand, zunionInterGenericCommand).                    *)
AbstractStep == Abstract!Next \/ UNCHANGED Abstract!vars

(* The skiplist and the dictionary of an object hold the same members with *)
(* the same scores; every level is a sublist in order, every span is the   *)
(* number of elements it passes, and the back pointers are the lowest      *)
(* level reversed (zslInsert, zslDeleteNode and their use in the commands).*)
SkiplistConsistent ==
  \A k \in {j \in Key : obj[j].enc = "skiplist"} :
    LET z == obj[k].zsl
        f == obj[k].dict
        order == Ordered(f)
        pos(n) == IF n = 0 THEN 0 ELSE CHOOSE i \in DOMAIN order : order[i] = n
    IN  /\ \A m \in DOMAIN f : z.score[m] = f[m]
        /\ z.length = Len(order)
        /\ \A i \in DOMAIN order :
             /\ z.next[IF i = 1 THEN 0 ELSE order[i - 1]][1] = order[i]
             /\ z.back[order[i]] = IF i = 1 THEN 0 ELSE order[i - 1]
        /\ z.tail = Last(<<0>> \o order)
        /\ \A n \in {0} \cup DOMAIN f, i \in 1..z.level :
             z.next[n][i] # 0 => z.span[n][i] = pos(z.next[n][i]) - pos(n) /\ z.span[n][i] > 0
        /\ z.level > 1 => z.next[0][z.level] # 0

(* A ziplist holds the pairs in their order, without repetition, within    *)
(* the limits of the configuration; no key has an empty sorted set         *)
(* (zzlInsert, zsetConvert, zunionInterGenericCommand).                    *)
EncodingFits ==
  \A k \in Key :
    LET o == obj[k]
    IN  /\ o.enc = "ziplist" =>
             /\ [i \in DOMAIN o.zl |-> o.zl[i][1]] = Ordered(MapOf(o))
             /\ Len(o.zl) <= MaxZiplist /\ DOMAIN MapOf(o) \cap Long = {}
        /\ o.enc # "none" => LengthOf(o) > 0

(* ZRANGE, ZREVRANGE, ZRANK and ZREVRANK reply what the order of the       *)
(* scores says, for every pair of indexes.                                 *)
RanksReply ==
  \A k \in Key : cmd = None /\ Exists(k) =>
    LET o == obj[k]
        f == MapOf(o)
        n == LengthOf(o)
        order(reverse) == IF reverse THEN Reverse(Ordered(f)) ELSE Ordered(f)
    IN  \A reverse \in BOOLEAN :
          /\ \A i, j \in (-MaxIndex)..MaxIndex :
               LET from == Max({1, IF i < 0 THEN n + i + 1 ELSE i + 1})
                   to == Min({n, IF j < 0 THEN n + j + 1 ELSE j + 1})
               IN  Zrange(o, i, j, reverse) = SubSeq(order(reverse), from, to)
          /\ \A m \in DOMAIN f : order(reverse)[Zrank(o, m, reverse) + 1] = m

(* ZRANGEBYSCORE with LIMIT, ZCOUNT and their reverse and lexicographic    *)
(* forms reply exactly the members in the range; by member only when all   *)
(* scores are the same, as the commands ask for.                           *)
RangesReply ==
  \A k \in Key : cmd = None /\ Exists(k) =>
    LET o == obj[k]
        f == MapOf(o)
        in(r, lex) == {m \in DOMAIN f : Abstract!In(IF lex THEN m ELSE f[m], r)}
        same == \A m, n \in DOMAIN f : f[m] = f[n]
        expected(r, lex, reverse) ==
          LET s == SelectSeq(Ordered(f), LAMBDA m : m \in in(r, lex))
          IN  IF reverse THEN Reverse(s) ELSE s
    IN  \A lex \in (IF same THEN BOOLEAN ELSE {FALSE}) :
        \A r \in (IF lex THEN Abstract!LexRange ELSE Abstract!ScoreRange) :
          /\ (IF lex THEN Zlexcount(o, r) ELSE Zcount(o, r)) = Cardinality(in(r, lex))
          /\ \A reverse \in BOOLEAN, offset \in 0..1, limit \in {-1, 1} :
               LET e == expected(r, lex, reverse)
                   l == IF limit < 0 THEN Len(e) ELSE limit
               IN  (IF lex THEN ZrangeByLex(o, r, reverse, offset, limit)
                    ELSE ZrangeBy(o, r, reverse, offset, limit))
                     = SubSeq(e, offset + 1, Min({Len(e), offset + l}))

(* A command that changes the data of a key signals the key to watching    *)
(* clients and is propagated (signalModifiedKey, server.dirty).            *)
ChangesAreSignalled ==
  \A k \in Key : MapOf(obj'[k]) # MapOf(obj[k]) => k \in signalled' /\ dirty' > 0
=============================================================================

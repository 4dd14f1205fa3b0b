------------------------------ MODULE MCTypes -------------------------------
(***************************************************************************)
(* The types of Redis, the key space and the data structures under them,   *)
(* side by side: a behaviour is one of the component that Init chooses,    *)
(* and the variables of the others rest.  Two runs share the module, one   *)
(* for the structures and one for the types.                               *)
(***************************************************************************)
EXTENDS Integers, TLC

CONSTANTS
  Components,  \* the components of a run
  StringKey,   \* the keys of Strings, interchangeable
  Off          \* the value of a variable that rests

VARIABLES
  component,
  master, replica, last,              \* Strings
  obj, cmd,                           \* ListCommands
  db, op, signalled,                  \* Sets, with replica; Hashes, with obj
  dict, expires, link, now, ops, random,                   \* Keyspace, with op, signalled
  kind, table, expired, cursor, always, replied, changes,  \* ScanCommand
  dirty,                   \* SortedSets, with obj, cmd, signalled
  d, resize, scan, iter,   \* Dict, with op
  zl, ref                  \* Ziplist

keyspace == <<dict, expires, link, now, ops, random>>
scanning == <<kind, table, expired, cursor, always, replied, changes>>
hashTable == <<d, resize, scan, iter>>
ziplist == <<zl, ref>>
structures == <<dirty, hashTable, ziplist>>
types == <<master, replica, last, db, keyspace, scanning>>
allVars == <<component, obj, cmd, op, signalled, types, structures>>

(* Numbers of three bits, strings of at most two characters *)
St == INSTANCE Strings
        WITH Key <- StringKey, Bits <- 3, MaxLen <- 2, Text <- {<<"1">>, <<"x">>}, Increment <- {3},
             Decrement <- {1}, Offset <- {1}, FloatAmount <- {1}, FloatVolatile <- FALSE

(* Two lists around the limit of a ziplist, one value too long for it *)
Li == INSTANCE ListCommands
        WITH Key <- {"a", "b"}, Value <- {"x", "z"}, Long <- {"z"}, MaxZiplist <- 2, MaxLen <- 3, MaxIndex <- 4

(* Two numbers, a short text and a long one *)
Ha == INSTANCE Hashes
        WITH Item <- {-1, 0, 10, 20}, Numbers <- -1..0, LMin <- -1, LMax <- 0, Long <- {20}, MaxZiplist <- 2,
             Field <- {-1, 0, 10}, LongIncrby <- FALSE

(* Sources that meet both algorithms of a difference, a repeated key and   *)
(* a key that is its own destination                                       *)
Se == INSTANCE Sets
        WITH Key <- {"a", "b"}, Elem <- 1..4, Numbers <- 1..3, MaxIntset <- 2,
             Sources <- {<<"a">>, <<"a", "b">>, <<"b", "a">>, <<"a", "b", "b", "b">>, <<"a", "a">>}

(* Two keys in two databases *)
Ke == INSTANCE Keyspace
        WITH Db <- {0, 1}, Key <- {"a", "b"}, MaxTime <- 2, MaxOps <- 3, RandomOn <- "master",
             Kinds <- {"set", "del", "expire", "expireat", "persist", "rename", "renamenx", "move", "flush",
                       "get", "keys"}

(* Five elements in four buckets, two of them with two elements, one empty *)
Sc == INSTANCE ScanCommand
        WITH Elem <- 1..5, BucketOf <- <<0, 1, 1, 3, 3>>, Matching <- {1, 2, 4, 5}, Counts <- 1..3,
             IterationsPerCount <- 1, MaxChanges <- 2

Apart == (1 :> 1) @@ (2 :> 2) @@ (3 :> 3)
Collide == (1 :> 1) @@ (2 :> 2) @@ (3 :> 1)

(* One sorted set, as a ziplist and with all choices of levels ... *)
One == INSTANCE SortedSets
         WITH Member <- 1..3, MaxLevel <- 2, Key <- {"a"}, Inf <- 3, AddScores <- {1, 2}, Weights <- {},
              PlainSet <- {}, MaxIndex <- 2, Long <- {3}, IntEncoded <- {}, MaxZiplist <- 2

(* ... and two, with infinite scores and negative weights *)
Two == INSTANCE SortedSets
         WITH Member <- 1..2, MaxLevel <- 1, Key <- {"a", "b"}, Inf <- 2, AddScores <- {1, 2}, Weights <- {1, -1},
              PlainSet <- {2}, MaxIndex <- 1, Long <- {2}, IntEncoded <- {}, MaxZiplist <- 1

(* A table that only grows, with keys in different buckets, and a SCAN ... *)
Growing == INSTANCE Dict
             WITH Key <- 1..3, Val <- {1}, Absent <- 0, Hash <- Apart, InitialSize <- 1, ForceRatio <- 1,
                  MaxBits <- 3, Shrinks <- FALSE, Walks <- {"scan"}

(* ... and one with keys that collide in every table, and an iterator *)
Resizing == INSTANCE Dict
              WITH Key <- 1..3, Val <- {1, 2}, Absent <- 0, Hash <- Collide, InitialSize <- 1, ForceRatio <- 1,
                   MaxBits <- 3, Shrinks <- TRUE, Walks <- {"iterate"}

Zip == INSTANCE Ziplist WITH BigLen <- 9, Payload <- {2, 3, 7}, MaxEntries <- 5, LenMax <- 3

ASSUME St!StringsAssumption /\ Li!ListAssumption /\ Ha!HashesAssumption
ASSUME Se!SetsAssumption /\ Ke!KeyspaceAssumption /\ Sc!ScanAssumption
ASSUME One!SortedSetsAssumption /\ Two!SortedSetsAssumption
ASSUME Growing!DictAssumption /\ Resizing!DictAssumption /\ Zip!ZiplistAssumption

KeyspaceRests == dict = Off /\ expires = Off /\ link = Off /\ now = Off /\ ops = Off /\ random = Off
ScanRests ==
  /\ kind = Off /\ table = Off /\ expired = Off /\ cursor = Off /\ always = Off /\ replied = Off
  /\ changes = Off

TypesRest ==
  /\ master = Off /\ replica = Off /\ last = Off /\ db = Off /\ KeyspaceRests /\ ScanRests

DictRests == d = Off /\ resize = Off /\ scan = Off /\ iter = Off
ZiplistRests == zl = Off /\ ref = Off
StructuresRest == dirty = Off /\ DictRests /\ ZiplistRests

Init ==
  /\ component \in Components
  /\ \/ /\ component = "strings" /\ St!Init /\ KeyspaceRests /\ ScanRests /\ StructuresRest
        /\ obj = Off /\ cmd = Off /\ db = Off /\ op = Off /\ signalled = Off
     \/ /\ component = "lists" /\ Li!Init /\ KeyspaceRests /\ ScanRests /\ StructuresRest
        /\ master = Off /\ replica = Off /\ last = Off /\ db = Off /\ op = Off /\ signalled = Off
     \/ /\ component = "hashes" /\ Ha!Init /\ KeyspaceRests /\ ScanRests /\ StructuresRest
        /\ master = Off /\ last = Off /\ cmd = Off /\ db = Off
     \/ /\ component = "sets" /\ Se!Init /\ KeyspaceRests /\ ScanRests /\ StructuresRest
        /\ master = Off /\ last = Off /\ obj = Off /\ cmd = Off
     \/ /\ component = "keyspace" /\ Ke!Init /\ ScanRests /\ StructuresRest
        /\ master = Off /\ replica = Off /\ last = Off /\ obj = Off /\ cmd = Off /\ db = Off
     \/ /\ component = "scan" /\ Sc!Init /\ KeyspaceRests /\ StructuresRest
        /\ master = Off /\ replica = Off /\ last = Off /\ obj = Off /\ cmd = Off /\ db = Off
        /\ op = Off /\ signalled = Off
     \/ component = "one" /\ One!Init /\ TypesRest /\ op = Off /\ DictRests /\ ZiplistRests
     \/ component = "two" /\ Two!Init /\ TypesRest /\ op = Off /\ DictRests /\ ZiplistRests
     \/ /\ component = "growing" /\ Growing!Init /\ TypesRest /\ ZiplistRests
        /\ obj = Off /\ cmd = Off /\ signalled = Off /\ dirty = Off
     \/ /\ component = "resizing" /\ Resizing!Init /\ TypesRest /\ ZiplistRests
        /\ obj = Off /\ cmd = Off /\ signalled = Off /\ dirty = Off
     \/ /\ component = "ziplist" /\ Zip!Init /\ TypesRest /\ DictRests
        /\ obj = Off /\ cmd = Off /\ signalled = Off /\ op = Off /\ dirty = Off

Next ==
  \/ component = "strings" /\ St!Next
     /\ UNCHANGED <<component, obj, cmd, db, op, signalled, keyspace, scanning, structures>>
  \/ component = "lists" /\ Li!Next
     /\ UNCHANGED <<component, master, replica, last, db, op, signalled, keyspace, scanning, structures>>
  \/ component = "hashes" /\ Ha!Next
     /\ UNCHANGED <<component, master, last, cmd, db, keyspace, scanning, structures>>
  \/ component = "sets" /\ Se!Next
     /\ UNCHANGED <<component, master, last, obj, cmd, keyspace, scanning, structures>>
  \/ component = "keyspace" /\ Ke!Next
     /\ UNCHANGED <<component, master, replica, last, obj, cmd, db, scanning, structures>>
  \/ component = "scan" /\ Sc!Next
     /\ UNCHANGED <<component, master, replica, last, obj, cmd, db, op, signalled, keyspace, structures>>
  \/ component = "one" /\ One!Next /\ UNCHANGED <<component, op, types, hashTable, ziplist>>
  \/ component = "two" /\ Two!Next /\ UNCHANGED <<component, op, types, hashTable, ziplist>>
  \/ component = "growing" /\ Growing!Next
     /\ UNCHANGED <<component, obj, cmd, signalled, dirty, types, ziplist>>
  \/ component = "resizing" /\ Resizing!Next
     /\ UNCHANGED <<component, obj, cmd, signalled, dirty, types, ziplist>>
  \/ component = "ziplist" /\ Zip!Next
     /\ UNCHANGED <<component, obj, cmd, op, signalled, dirty, types, hashTable>>
  \/ component \in {"keyspace", "scan"} /\ UNCHANGED allVars   \* their bounds may be reached

Spec == Init /\ [][Next]_allVars

Symmetry == Permutations(StringKey)

-----------------------------------------------------------------------------
(* A replica that executes what is propagated has the data of its master:  *)
(* commands with random choices (SPOP), floating point increments, values  *)
(* in any encoding, and expirations, which are left to the master          *)
(* (spopCommand, incrbyfloatCommand, hincrbyfloatCommand,                  *)
(* propagateExpire).                                                       *)
ReplicasAgree ==
  /\ component = "strings" => St!ReplicaAgrees
  /\ component = "hashes" => Ha!ReplicaSame
  /\ component = "sets" => Se!ReplicaSame
  /\ component = "keyspace" => Ke!SlaveConverges

(* The list commands implement the operations on plain sequences:          *)
(* conversions never show, LREM removes exactly the occurrences asked for  *)
(* in both directions, LTRIM keeps exactly the range.                      *)
ImplementsLists ==
  /\ component = "lists" => Li!Abstract!Init
  /\ [][component = "lists" => Li!AbstractStep]_allVars

(* Numbers are added exactly or refused, MSETNX sets all or none, a        *)
(* refused command changes nothing; the set commands are the operations of *)
(* set theory, also with the destination among the sources; and what       *)
(* changes is signalled (incrDecrCommand, msetGenericCommand,              *)
(* sunionDiffGenericCommand, signalModifiedKey).  Left out are DECRBY of   *)
(* the least number, which cannot be negated, and, from what is signalled, *)
(* MOVE and PERSIST, which signal nothing or one key only (db.c:230).      *)
CommandsExact ==
  [][/\ component = "strings" => St!Exact /\ St!AllOrNone /\ St!RefusedChangesNothing
     /\ component = "sets" => Se!SetAlgebra /\ Se!ChangesAreSignalled
     /\ component = "hashes" => Ha!ChangesAreSignalled
     /\ component = "keyspace" => Ke!ModifiedIsSignalled]_allVars

(* Encodings keep within their limits, readers agree with each other, what *)
(* is shared stays as it is, and no time to live is left without its key.  *)
(* A full iteration of SCAN, with any counts and while others add, delete  *)
(* and expire elements, replies every element that was there all the time, *)
(* at least once and in whole entries, in a table that keeps its size      *)
(* (hashTypeTryConversion, setTypeConvert, dbUnshareStringValue,           *)
(* getExpire, scanGenericCommand).                                         *)
ObjectsRight ==
  /\ component = "strings" => St!RangeIsSlice /\ St!LengthLimited /\ St!SharedUntouched
  /\ component = "lists" => Li!EncodingFits /\ Li!LrangeReplies
  /\ component = "hashes" => Ha!ReadersAgree /\ Ha!EncodingFits
  /\ component = "sets" => Se!EncodingFits
  /\ component = "keyspace" => Ke!ExpiresHaveKeys
  /\ component = "scan" => Sc!ScanComplete /\ Sc!EntriesWhole

(* The commands do what they do to functions from members to scores, in    *)
(* both encodings and through all conversions, and signal every key they   *)
(* change (zaddGenericCommand, zremrangeGenericCommand,                    *)
(* zunionInterGenericCommand).                                             *)
ImplementsSortedSets ==
  /\ component = "one" => One!Abstract!Init
  /\ component = "two" => Two!Abstract!Init
  /\ [][/\ component = "one" => One!AbstractStep /\ One!ChangesAreSignalled
        /\ component = "two" => Two!AbstractStep /\ Two!ChangesAreSignalled]_allVars

(* Skiplist and dictionary of an object hold the same members in order,    *)
(* with exact spans and back pointers (zslInsert, zslDeleteNode); the      *)
(* ziplist encoding keeps within its limits; and ranks, ranges and counts  *)
(* reply what the order of the scores says.                                *)
SortedSetsRight ==
  /\ component = "one" => One!SkiplistConsistent /\ One!EncodingFits /\ One!RanksReply /\ One!RangesReply
  /\ component = "two" => Two!SkiplistConsistent /\ Two!EncodingFits

(* As dictFind sees it a hash table is a map: rehashing, at any point and  *)
(* by any operation, neither loses, revives nor alters an entry.           *)
ImplementsMap ==
  /\ component = "growing" => Growing!Map!Init
  /\ component = "resizing" => Resizing!Map!Init
  /\ [][/\ component = "growing" => Growing!MapStep
        /\ component = "resizing" => Resizing!MapStep]_allVars

(* No key is in two buckets; a SCAN that is over has returned every key    *)
(* that was there all along (dictScan, in a table that does not shrink),   *)
(* and a safe iterator returns every key that stays once (dictNext).       *)
WalksComplete ==
  /\ component = "growing" => Growing!OneEntryPerKey /\ Growing!ScanReturnsAll
  /\ component = "resizing" => Resizing!OneEntryPerKey /\ Resizing!IterateOnce

(* After any insertions, deletions and cascades the bytes of a ziplist     *)
(* hold exactly the elements put in, and can be walked both ways           *)
(* (__ziplistInsert, __ziplistDelete, __ziplistCascadeUpdate).             *)
ZiplistRight ==
  component = "ziplist" => Zip!HoldsElements /\ Zip!LinkedBackwards /\ Zip!LengthExact
=============================================================================

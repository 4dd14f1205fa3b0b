------------------------------ MODULE Ziplist ------------------------------
(***************************************************************************)
(* The ziplist (ziplist.c), down to its bytes: every entry starts with the *)
(* length of the entry before it, in one byte or, from ZIP_BIGLEN on, in   *)
(* five, so an insertion or a deletion may make the next entries longer in *)
(* a cascade.                                                              *)
(*                                                                         *)
(* Memory is a sequence of cells, one per byte: <<"p", n>> a short         *)
(* previous length, <<"P", n>> a long one followed by four <<"x", n>>,     *)
(* <<"e", n>> the encoding of a payload of n bytes, <<"d", n>> one of      *)
(* them, <<"END", 0>>, and <<"?", 0>> memory with undefined content.       *)
(* Offsets count from 1, without the header.                               *)
(***************************************************************************)
EXTENDS Integers, Sequences, SequencesExt, FiniteSets

CONSTANTS
  BigLen,      \* ZIP_BIGLEN, scaled down; more than the 6 bytes of a long header
  Payload,     \* sizes of payloads; an element is known by its size
  MaxEntries,  \* bound on the entries
  LenMax       \* UINT16_MAX, scaled down

ZiplistAssumption ==
  /\ BigLen \in Nat /\ BigLen > 6 /\ Payload \subseteq Nat /\ MaxEntries \in Nat
  /\ LenMax \in Nat \ {0}

VARIABLES
  zl,   \* mem, tail (the offset of the last entry) and len, of the header
  ref   \* the elements that should be in it

vars == <<zl, ref>>

End == <<"END", 0>>
Undefined == <<"?", 0>>

(* ziplistNew *)
Init == zl = [mem |-> <<End>>, tail |-> 1, len |-> 0] /\ ref = <<>>

-----------------------------------------------------------------------------
(* zipPrevEncodeLength: size and bytes of a previous length *)
PrevSize(n) == IF n < BigLen THEN 1 ELSE 5
ForceLarge(n) == <<<<"P", n>>, <<"x", n>>, <<"x", n>>, <<"x", n>>, <<"x", n>>>>
PrevCells(n) == IF n < BigLen THEN <<<<"p", n>>>> ELSE ForceLarge(n)

(* ZIP_DECODE_PREVLENSIZE, ZIP_DECODE_PREVLEN, zipRawEntryLength, zipEntry *)
Cell(mem, p) == IF p \in DOMAIN mem THEN mem[p] ELSE Undefined
SizeAt(mem, p) == IF Cell(mem, p)[1] = "p" THEN 1 ELSE 5
PrevAt(mem, p) == Cell(mem, p)[2]
RawLength(mem, p) == SizeAt(mem, p) + 1 + Cell(mem, p + SizeAt(mem, p))[2]
AtEnd(mem, p) == Cell(mem, p) = End

(* memcpy and memmove *)
Write(mem, p, cells) ==
  [i \in DOMAIN mem |-> IF i >= p /\ i < p + Len(cells) THEN cells[i - p + 1] ELSE mem[i]]
Move(mem, dst, src, n) == Write(mem, dst, [i \in 1..n |-> Cell(mem, src + i - 1)])

(* ziplistResize: what realloc adds is undefined, the last byte is ZIP_END *)
Resize(mem, n) ==
  [i \in 1..n |-> IF i = n THEN End ELSE IF i \in DOMAIN mem THEN mem[i] ELSE Undefined]

(* ZIPLIST_INCR_LENGTH: the counter stays at its maximum *)
IncrLength(z, n) == IF z.len < LenMax THEN [z EXCEPT !.len = @ + n] ELSE z

\* Faulty variant: one entry is updated, without a cascade.
CascadeOnce(z, p) ==
  LET raw == RawLength(z.mem, p)
      np == p + raw
      size == SizeAt(z.mem, np)
      extra == PrevSize(raw) - size
      big == Resize(z.mem, Len(z.mem) + extra)
  IN  IF AtEnd(z.mem, p) \/ AtEnd(z.mem, np) \/ PrevAt(z.mem, np) = raw THEN z
      ELSE IF extra > 0
      THEN [z EXCEPT !.tail = IF @ # np THEN @ + extra ELSE @,
                     !.mem = Write(Move(big, np + PrevSize(raw), np + size, Len(z.mem) - np - size),
                                   np, PrevCells(raw))]
      ELSE [z EXCEPT !.mem = Write(@, np, IF extra < 0 THEN ForceLarge(raw) ELSE PrevCells(raw))]

(* __ziplistCascadeUpdate from the entry at p: the next entry gets room    *)
(* for the length of this one and may itself become too long; room that is *)
(* too large is kept.                                                      *)
CascadeUpdate(z, p) ==
  LET step(s, i) ==
        LET raw == RawLength(s.z.mem, s.p)
            np == s.p + raw
            size == SizeAt(s.z.mem, np)
            extra == PrevSize(raw) - size
            big == Resize(s.z.mem, Len(s.z.mem) + extra)
        IN  IF s.done \/ AtEnd(s.z.mem, s.p) \/ AtEnd(s.z.mem, np)
                 \/ PrevAt(s.z.mem, np) = raw THEN [s EXCEPT !.done = TRUE]
            ELSE IF extra > 0
            THEN [s EXCEPT
                    !.p = np,
                    !.z.tail = IF @ # np THEN @ + extra ELSE @,
                    !.z.mem = Write(Move(big, np + PrevSize(raw), np + size,
                                         Len(s.z.mem) - np - size),
                                    np, PrevCells(raw))]
            ELSE [s EXCEPT
                    !.done = TRUE,
                    !.z.mem = Write(@, np, IF extra < 0 THEN ForceLarge(raw) ELSE PrevCells(raw))]
  IN  FoldLeft(step, [z |-> z, p |-> p, done |-> FALSE], [i \in 1..(MaxEntries + 1) |-> i]).z

(* __ziplistInsert of a payload of n bytes at offset p *)
InsertAtOffset(z, p, n) ==
  LET last == AtEnd(z.mem, p)
      prev == IF ~last THEN PrevAt(z.mem, p)
              ELSE IF AtEnd(z.mem, z.tail) THEN 0 ELSE RawLength(z.mem, z.tail)
      req == n + PrevSize(prev) + 1
      diff == IF last THEN 0 ELSE PrevSize(req) - SizeAt(z.mem, p)
      sized == Resize(z.mem, Len(z.mem) + req + diff)
      moved == Write(Move(sized, p + req, p - diff, Len(z.mem) - p + diff), p + req, PrevCells(req))
      only == AtEnd(moved, p + req + RawLength(moved, p + req))
      placed == IF last THEN [z EXCEPT !.mem = sized, !.tail = p]
                ELSE [z EXCEPT !.mem = moved,
                               !.tail = @ + req + (IF only THEN 0 ELSE diff)]
      updated == IF diff = 0 THEN placed ELSE CascadeUpdate(placed, p + req)
      entry == PrevCells(prev) \o <<<<"e", n>>>> \o [i \in 1..n |-> <<"d", n>>]
  IN  IncrLength([updated EXCEPT !.mem = Write(@, p, entry)], 1)

(* __ziplistDelete of num entries from offset p *)
DeleteAtOffset(z, p, num) ==
  LET step(s, i) == IF AtEnd(z.mem, s.q) THEN s
                    ELSE [q |-> s.q + RawLength(z.mem, s.q), n |-> s.n + 1]
      to == FoldLeft(step, [q |-> p, n |-> 0], [i \in 1..num |-> i])
      q == to.q
      tot == q - p
      prev == PrevAt(z.mem, p)
      last == AtEnd(z.mem, q)
      diff == IF last THEN 0 ELSE PrevSize(prev) - SizeAt(z.mem, q)
      m1 == Write(z.mem, q - diff, PrevCells(prev))
      only == AtEnd(m1, (q - diff) + RawLength(m1, q - diff))
      m2 == Move(m1, p, q - diff, Len(z.mem) - (q - diff))
      cut == Resize(IF last THEN z.mem ELSE m2, Len(z.mem) - tot + diff)
      tail == IF last THEN p - prev ELSE z.tail - tot + (IF only THEN 0 ELSE diff)
      d == IncrLength([z EXCEPT !.mem = cut, !.tail = tail], -to.n)
  IN  IF tot = 0 THEN z ELSE IF diff = 0 THEN d ELSE CascadeUpdate(d, p)

-----------------------------------------------------------------------------
(* ziplistIndex: forwards from the head, or backwards from the tail by the *)
(* previous lengths; 0 for no such entry                                   *)
Index(z, i) ==
  LET fwd(p, j) == IF AtEnd(z.mem, p) THEN p ELSE p + RawLength(z.mem, p)
      back(s, j) == IF PrevAt(z.mem, s.p) = 0 THEN s
                    ELSE [p |-> s.p - PrevAt(z.mem, s.p), left |-> s.left - 1]
      f == FoldLeft(fwd, 1, [j \in 1..i |-> j])
      b == FoldLeft(back, [p |-> z.tail, left |-> -i - 1], [j \in 1..(-i - 1) |-> j])
  IN  IF i >= 0 THEN (IF AtEnd(z.mem, f) THEN 0 ELSE f)
      ELSE IF AtEnd(z.mem, z.tail) \/ b.left > 0 THEN 0 ELSE b.p

(* ziplistGet, as the payload's size *)
Get(z, p) == Cell(z.mem, p + SizeAt(z.mem, p))[2]

(* ziplistLen: a saturated counter makes it count *)
Length(z) ==
  IF z.len < LenMax THEN z.len
  ELSE LET step(s, i) == IF AtEnd(z.mem, s.p) THEN s
                         ELSE [p |-> s.p + RawLength(z.mem, s.p), n |-> s.n + 1]
       IN  FoldLeft(step, [p |-> 1, n |-> 0], [i \in 1..Len(z.mem) |-> i]).n

(* ziplistLen stores what it has counted when the counter can hold it *)
Count ==
  /\ zl.len = LenMax /\ Length(zl) < LenMax
  /\ zl' = [zl EXCEPT !.len = Length(zl)]
  /\ UNCHANGED ref

(* ziplistPush and ziplistInsert *)
Insert(i, n) ==
  /\ Len(ref) < MaxEntries /\ i \in 1..(Len(ref) + 1)
  /\ zl' = InsertAtOffset(zl, IF i = Len(ref) + 1 THEN Len(zl.mem) ELSE Index(zl, i - 1), n)
  /\ ref' = InsertAt(ref, i, n)

(* ziplistDeleteRange, which for one entry is ziplistDelete; a negative    *)
(* index counts from the tail.                                             *)
DeleteRange(i, num) ==
  LET p == Index(zl, i)
      from == IF i < 0 THEN Len(ref) + i + 1 ELSE i + 1
  IN  /\ p # 0
      /\ zl' = DeleteAtOffset(zl, p, num)
      /\ ref' = SubSeq(ref, 1, from - 1) \o SubSeq(ref, from + num, Len(ref))

Next ==
  \/ Count
  \/ \E i \in 1..(MaxEntries + 1), n \in Payload : Insert(i, n)
  \/ \E i \in (-MaxEntries)..(MaxEntries - 1), num \in 1..2 : DeleteRange(i, num)

Spec == Init /\ [][Next]_vars

-----------------------------------------------------------------------------
(* The walk forwards: offsets of the entries, with an end of 0 when the    *)
(* bytes make no sense.                                                    *)
Offsets ==
  LET step(s, i) ==
        LET p == Last(s)
            ok == Cell(zl.mem, p)[1] \in {"p", "P"} /\ Cell(zl.mem, p + SizeAt(zl.mem, p))[1] = "e"
        IN  IF p = 0 \/ AtEnd(zl.mem, p) THEN s
            ELSE IF ok THEN Append(s, p + RawLength(zl.mem, p)) ELSE Append(s, 0)
  IN  FoldLeft(step, <<1>>, [i \in 1..(MaxEntries + 1) |-> i])

Payloads == [i \in 1..(Len(Offsets) - 1) |-> Get(zl, Offsets[i])]

(* After any insertions and deletions the bytes hold exactly the elements  *)
(* put in, in their order, up to ZIP_END as the last byte, and every byte  *)
(* of a payload is its own (__ziplistInsert, __ziplistDelete and the       *)
(* cascade).                                                               *)
HoldsElements ==
  /\ Last(Offsets) = Len(zl.mem)
  /\ Payloads = ref
  /\ \A i \in 1..(Len(Offsets) - 1) :
       \A j \in 1..ref[i] :
         zl.mem[Offsets[i] + SizeAt(zl.mem, Offsets[i]) + j] = <<"d", ref[i]>>

(* Every entry knows the length of the one before it and the header knows  *)
(* the last one, so that the list can be walked backwards                  *)
(* (__ziplistCascadeUpdate, the offset of the tail).                       *)
LinkedBackwards ==
  LET n == Len(Offsets) - 1
  IN  /\ \A i \in 1..n :
           PrevAt(zl.mem, Offsets[i]) = IF i = 1 THEN 0 ELSE Offsets[i] - Offsets[i - 1]
      /\ zl.tail = IF n = 0 THEN 1 ELSE Offsets[n]
      /\ \A i \in 1..n : Index(zl, i - 1) = Offsets[i] /\ Index(zl, i - 1 - n) = Offsets[i]
      /\ Index(zl, -n - 1) = 0 /\ Index(zl, n) = 0

(* ziplistLen is the number of elements, also past the counter's maximum *)
LengthExact == Length(zl) = Len(ref)
=============================================================================

------------------------------- MODULE PbWire -------------------------------
(***************************************************************************)
(* Buffers and slices of pb (pb/c/pb.h, pb/c/pb.c): what is written item   *)
(* by item, with brackets whose length is known only when they close, is   *)
(* read item by item through views that are entered and left.  A byte has  *)
(* a digit and a flag that says whether more bytes of the number follow.   *)
(***************************************************************************)
EXTENDS Integers, Sequences, SequencesExt, FiniteSetsExt

CONSTANTS
  Base,       \* the digits of a byte, 128 in the code
  Mod32,      \* 2^32
  Mod64,      \* 2^64
  MaxBytes,   \* the bytes of a number, 10 in the code
  FixedBytes, \* 4 in the code
  Numbers,    \* the numbers of fields
  Values,     \* of varints
  Strings,    \* sequences of bytes
  MaxItems    \* the bound on what is written

VARIABLES bytes, open, told, reading, curr, views, at

Types == [varint |-> 0, bytes |-> 2, open |-> 2, gstart |-> 3, gend |-> 4, fixed |-> 5]
Failed == [ret |-> 0, value |-> 0]

----------------------------------------------------------------------------
\* Numbers.  pb_write32 and pb_write64.
Varint(n) ==
  LET digits[m \in 0 .. n] == IF m < Base THEN <<m>> ELSE <<Base + (m % Base)>> \o digits[m \div Base] IN digits[n]
Tag(number, type) == number * 8 + Types[type]

More(x) == x >= Base
\* What is read beyond the buffer is anything.
Byte(b, i) == IF i \in DOMAIN b THEN b[i] ELSE 0

\* The number that begins at p and is over before last.
Number(b, p, last, mod) ==
  LET ends == {i \in 1 .. MaxBytes : p + i - 1 < last /\ ~More(Byte(b, p + i - 1))}
  IN  IF ends = {} THEN Failed
      ELSE [ret |-> Min(ends),
            value |-> FoldRight(LAMBDA i, n : (n * Base) + (Byte(b, p + i - 1) % Base), [i \in 1 .. Min(ends) |-> i], 0) % mod]

\* pb_readvarint32 and pb_readvarint64: the fast way does not look where the slice ends, when
\* the number must be over before.
ReadVarint(b, s, mod) ==
  IF s.p >= s.end THEN Failed
  ELSE IF ~More(b[s.p]) THEN [ret |-> 1, value |-> b[s.p]]
  ELSE IF s.end - s.p >= MaxBytes \/ ~More(b[s.end - 1]) THEN Number(b, s.p, s.p + MaxBytes, mod)
  ELSE Number(b, s.p, s.end, mod)

\* pb_addfixed32 and pb_readfixed32: the lowest byte goes first.
Fixed(n) == [i \in 1 .. FixedBytes |-> (n \div (2 * Base)^(i - 1)) % (2 * Base)]
ReadFixed(b, s) ==
  IF s.p + FixedBytes > s.end THEN Failed
  ELSE [ret |-> FixedBytes,
        value |-> FoldRight(LAMBDA i, n : (n * 2 * Base) + b[s.p + i - 1], [i \in 1 .. FixedBytes |-> i], 0)]

\* pb_readbytes: the bytes themselves, as a slice.
ReadBytes(b, s) ==
  LET length == ReadVarint(b, s, Mod64)
      from == s.p + length.ret
  IN  IF length.ret = 0 \/ s.end - from < length.value THEN Failed
      ELSE [ret |-> length.ret + length.value, value |-> [p |-> from, start |-> from, end |-> from + length.value]]

\* pb_skipvalue and pb_readgroup: how far an item of this tag goes, 0 if it does not end.
RECURSIVE SkipValue(_, _, _)
RECURSIVE SkipGroup(_, _, _)
SkipVarint(b, s) ==
  LET ends == {i \in s.p .. s.end - 1 : ~More(b[i])} IN IF ends = {} THEN 0 ELSE Min(ends) - s.p + 1
SkipValue(b, s, tag) ==
  LET type == tag % 8
  IN  IF type = Types.varint THEN SkipVarint(b, s)
      ELSE IF type = Types.bytes THEN ReadBytes(b, s).ret
      ELSE IF type = Types.fixed THEN ReadFixed(b, s).ret
      ELSE IF type = Types.gstart THEN SkipGroup(b, s, tag \div 8) ELSE 0
SkipGroup(b, s, number) ==
  LET tag == ReadVarint(b, s, Mod32)
      item == SkipValue(b, [s EXCEPT !.p = @ + tag.ret], tag.value)
      rest == SkipGroup(b, [s EXCEPT !.p = @ + tag.ret + item], number)
  IN  IF tag.ret = 0 THEN 0
      ELSE IF tag.value % 8 = Types.gend THEN IF tag.value \div 8 = number THEN tag.ret ELSE 0
      ELSE IF item = 0 \/ rest = 0 THEN 0 ELSE tag.ret + item + rest

----------------------------------------------------------------------------
\* Writing: buffer:pack with the formats v, d, s, ( and ), and # for a length that is put
\* before what was written since.

\* pb_addlength: the length goes before the bytes from place, over prealloc bytes that were
\* kept free; what does not fit moves up.
AddLength(b, place, prealloc) ==
  LET length == Varint(Len(b) - place)
  IN  IF Len(length) > prealloc
      THEN SubSeq(b, 1, place - prealloc) \o length \o SubSeq(b, place + 1, Len(b))
      ELSE [i \in DOMAIN b |-> IF i \in place - prealloc + 1 .. place THEN length[i - place + prealloc] ELSE b[i]]

Add(item, more) ==
  /\ ~reading /\ Len(told) + Len(open) < MaxItems /\ item.number \in Numbers
  /\ told' = Append(told, item)
  /\ bytes' = bytes \o Varint(Tag(item.number, item.type)) \o more
  /\ UNCHANGED <<reading, curr, views, at>>
Item(number, type, value) == [number |-> number, type |-> type, value |-> value]

PutVarint(number, n) == Add(Item(number, "varint", n), Varint(n)) /\ UNCHANGED open
PutFixed(number, n) == Add(Item(number, "fixed", n), Fixed(n)) /\ UNCHANGED open
PutBytes(number, s) == Add(Item(number, "bytes", s), Varint(Len(s)) \o s) /\ UNCHANGED open
\* A bracket, which keeps one byte, or a place that the caller remembers.
Open(number, prealloc) ==
  /\ Add(Item(number, "open", 0), IF prealloc = 1 THEN <<0>> ELSE <<>>)
  /\ open' = Append(open, [place |-> Len(bytes'), prealloc |-> prealloc, number |-> number])
\* The tags of a group, which other programs write.
OpenGroup(number) ==
  Add(Item(number, "gstart", 0), <<>>) /\ open' = Append(open, [place |-> 0, prealloc |-> 0, number |-> number])
Close ==
  /\ open # <<>> /\ ~reading
  /\ told' = Append(told, Item(Last(open).number, IF Last(open).place = 0 THEN "gend" ELSE "close", 0))
  /\ bytes' = IF Last(open).place = 0 THEN bytes \o Varint(Tag(Last(open).number, "gend"))
              ELSE AddLength(bytes, Last(open).place, Last(open).prealloc)
  /\ open' = Front(open)
  /\ UNCHANGED <<reading, curr, views, at>>

----------------------------------------------------------------------------
\* Reading.  at is where in the told items the reader is.

\* pb.slice of the buffer.
NewSlice ==
  LET all == [p |-> 1, start |-> 1, end |-> Len(bytes) + 1]
  IN  /\ open = <<>> /\ ~reading /\ reading' = TRUE
      /\ curr' = all /\ views' = <<[slice |-> all, at |-> 1]>> /\ at' = 1
      /\ UNCHANGED <<bytes, open, told>>

HasMore == reading /\ curr.p < curr.end
NextTag == ReadVarint(bytes, curr, Mod32)
Behind(n) == [curr EXCEPT !.p = @ + n]
AtValue == Behind(NextTag.ret)
Opens == {"open", "gstart"}
Closes == {"close", "gend"}
\* The item that follows item i, with all that is in it.
After(i) ==
  LET depth[j \in i .. Len(told)] ==
        (IF j = i THEN 0 ELSE depth[j - 1])
          + (IF told[j].type \in Opens THEN 1 ELSE IF told[j].type \in Closes THEN -1 ELSE 0)
  IN  1 + Min({j \in i .. Len(told) : depth[j] = 0})
Moved(s, i) == curr' = s /\ at' = i /\ UNCHANGED <<bytes, open, told, reading>>

\* slice:unpack of a tag and its value.
ValueAt == [varint |-> ReadVarint(bytes, AtValue, Mod64), fixed |-> ReadFixed(bytes, AtValue),
            bytes |-> ReadBytes(bytes, AtValue), open |-> ReadBytes(bytes, AtValue)]
Unpack ==
  /\ HasMore /\ UNCHANGED views
  /\ IF told[at].type \in {"gstart", "gend"} THEN Moved(AtValue, at + 1)
     ELSE Moved([AtValue EXCEPT !.p = @ + ValueAt[told[at].type].ret], After(at))

\* A tag is read and its value left out, as lpbD_message does with a field it does not know.
Skip ==
  /\ HasMore /\ told[at].type # "gend" /\ UNCHANGED views
  /\ Moved([AtValue EXCEPT !.p = @ + SkipValue(bytes, AtValue, NextTag.value)], After(at))

\* slice:enter.
Enter ==
  /\ HasMore /\ told[at].type = "open"
  /\ views' = Append(views, [slice |-> [AtValue EXCEPT !.p = @ + ValueAt.open.ret], at |-> After(at)])
  /\ Moved(ValueAt.open.value, at + 1)

\* slice:leave, of all views back to the beginning.
Leave(count) ==
  /\ reading /\ count \in 1 .. Len(views)
  /\ views' = SubSeq(views, 1, IF count = Len(views) THEN 1 ELSE Len(views) - count)
  /\ Moved(views[Len(views) + 1 - count].slice, views[Len(views) + 1 - count].at)

----------------------------------------------------------------------------
wireVars == <<bytes, open, told, reading, curr, views, at>>
Nowhere == [p |-> 0, start |-> 0, end |-> 0]
Init ==
  /\ bytes = <<>> /\ open = <<>> /\ told = <<>> /\ reading = FALSE
  /\ curr = Nowhere /\ views = <<>> /\ at = 0
Next ==
  \/ \E number \in Numbers :
       \/ \E n \in Values : PutVarint(number, n)
       \/ \E n \in Values : n < Mod32 /\ PutFixed(number, n)
       \/ \E s \in Strings : PutBytes(number, s)
       \/ \E prealloc \in {0, 1} : Open(number, prealloc)
       \/ OpenGroup(number)
  \/ Close \/ NewSlice \/ Unpack \/ Skip \/ Enter
  \/ \E count \in 1 .. Len(views) : Leave(count)
Spec == Init /\ [][Next]_wireVars

----------------------------------------------------------------------------
TypeOK ==
  /\ \A i \in DOMAIN bytes : bytes[i] \in 0 .. 2 * Base - 1
  /\ reading \in BOOLEAN /\ (reading => open = <<>> /\ at \in 1 .. Len(told) + 1)

\* Wherever the reader is, the next item is the one that was written there, and a view is at
\* its end exactly where its bracket closes, though lengths moved what they were put before.
ReadsWhatWasWritten ==
  reading =>
    IF curr.p = curr.end THEN at = Len(told) + 1 \/ told[at].type = "close"
    ELSE LET item == told[at]
         IN  /\ curr.p < curr.end /\ NextTag.ret > 0 /\ NextTag.value = Tag(item.number, item.type)
             /\ item.type \in DOMAIN ValueAt =>
                  /\ ValueAt[item.type].ret > 0
                  /\ item.type \in {"varint", "fixed"} => ValueAt[item.type].value = item.value
                  /\ item.type = "bytes" =>
                       LET s == ValueAt.bytes.value IN SubSeq(bytes, s.p, s.end - 1) = item.value
             /\ item.type # "gend" => SkipValue(bytes, AtValue, NextTag.value) > 0

\* Of bytes that break off, nothing is read or skipped that is not there: what lies behind a
\* slice makes no difference.
NothingBeyond ==
  reading =>
    \A end \in curr.p .. curr.end :
      LET s == [curr EXCEPT !.end = end]
          cut == SubSeq(bytes, 1, end - 1)
          tag == ReadVarint(bytes, s, Mod32)
          value == [s EXCEPT !.p = @ + tag.ret]
      IN  /\ tag = ReadVarint(cut, s, Mod32) /\ value.p <= end
          /\ tag.ret > 0 =>
               LET skip == SkipValue(bytes, value, tag.value)
               IN  skip = SkipValue(cut, value, tag.value) /\ value.p + skip <= end
=============================================================================

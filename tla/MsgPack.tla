------------------------------ MODULE MsgPack ------------------------------
(***************************************************************************)
(* MessagePack twice: msgpack/msgpack.lua in Lua, and msgpack/cc in C++,   *)
(* whose encoder object keeps its buffer from call to call.  What one of   *)
(* them writes the other reads.                                            *)
(*                                                                         *)
(* A message is a sequence of bytes, in which the bytes of a string are    *)
(* one element: 256 + n stands for n bytes of UTF-8, and -1 - n for n that *)
(* are none.  An integer is its 8 bytes in two's complement, the highest   *)
(* first; a float is a number that single precision holds when it is even. *)
(***************************************************************************)
EXTENDS Integers, Sequences, SequencesExt

CONSTANTS
  Values,  \* the Lua values that are sent
  Seqs,    \* several of them, which Lua's encode takes in one call
  Lengths, \* lengths of arrays and maps
  Sizes,   \* the sizes that buffers are given
  MaxDep   \* how deep tables may lie in each other, by lmsgpack.cc

VARIABLES
  pack,    \* the encoder object's: buff is the first len_ bytes of its buffer
  asked,   \* the values of the last call
  answer   \* what it gave

----------------------------------------------------------------------------
\* Lua values.  A table has an array part and a sequence of nodes <<key, value>>.
Nil == [t |-> "nil"]
Bool(b) == [t |-> "boolean", is |-> b]
Whole(bytes) == [t |-> "integer", bytes |-> bytes]
Float(n) == [t |-> "float", n |-> n]
Str(token) == [t |-> "string", token |-> token]
Table(arr, node) == [t |-> "table", arr |-> arr, node |-> node]
Function == [t |-> "function"]

Fill(byte, n) == [i \in 1 .. n |-> byte]
RECURSIVE Digits(_, _)
Digits(n, count) == IF count = 0 THEN <<>> ELSE Append(Digits(n \div 256, count - 1), n % 256)
Number(bytes) == FoldLeft(LAMBDA n, byte : 256 * n + byte, 0, bytes)
Unsigned(bytes) == Whole(Fill(0, 8 - Len(bytes)) \o bytes)
Signed(bytes) == Whole(Fill(IF bytes[1] >= 128 THEN 255 ELSE 0, 8 - Len(bytes)) \o bytes)
Index(i) == Whole(Digits(i, 8))
Lowest(bytes, n) == SubSeq(bytes, 9 - n, 8)
IsUnsigned(bytes, n) == bytes = Unsigned(Lowest(bytes, n)).bytes
IsSigned(bytes, n) == bytes = Signed(Lowest(bytes, n)).bytes

Utf8(token) == token >= 256
StrLen(token) == IF Utf8(token) THEN token - 256 ELSE -1 - token
Size(tokens) == FoldLeft(LAMBDA n, x : n + (IF x \in 0 .. 255 THEN 1 ELSE StrLen(x)), 0, tokens)

Single(n) == n - (n % 2)

\* lua_traversal and next: the array part, then the nodes.
Traversal(v) == [i \in DOMAIN v.arr |-> <<Index(i), v.arr[i]>>] \o v.node
RawLen(v) ==
  LET keys == {v.node[i][1] : i \in DOMAIN v.node}
      border(n) == Index(n + 1) \notin keys /\ \A i \in Len(v.arr) + 1 .. n : Index(i) \in keys
  IN  CHOOSE n \in Len(v.arr) .. Len(v.arr) + Len(v.node) : border(n)

\* Two tables are the same for a program when they hold the same.
RECURSIVE Meaning(_)
Meaning(v) ==
  IF v.t = "table" THEN [t |-> "table", has |-> {<<p[1], Meaning(p[2])>> : p \in ToSet(Traversal(v))}]
  ELSE v

RECURSIVE Holds(_, _)
Holds(v, t) == v.t = t \/ (v.t = "table" /\ \E p \in ToSet(Traversal(v)) : Holds(p[2], t))
RECURSIVE Depth(_)
Depth(v) ==
  LET depths == {0} \cup {Depth(p[2]) : p \in ToSet(Traversal(v))}
  IN  IF v.t # "table" THEN 0 ELSE 1 + CHOOSE d \in depths : \A e \in depths : e <= d

Read(ok, value, position) == [ok |-> ok, value |-> value, position |-> position]
Broken == Read(FALSE, Nil, 0)

\* Values that follow each other, each read where the one before it ends; values is what
\* is read at each place.
ReadMany(values, position, count) ==
  FoldLeft(LAMBDA r, i :
             IF ~r.ok THEN r
             ELSE LET one == values[r.position]
                  IN  [ok |-> one.ok, got |-> Append(r.got, one.value), position |-> one.position],
           [ok |-> TRUE, got |-> <<>>, position |-> position], Fill(0, count))

\* A table is filled with keys and values in turn; nil is no key.
Filled(r) ==
  LET node == [i \in 1 .. Len(r.got) \div 2 |-> <<r.got[2 * i - 1], r.got[2 * i]>>]
  IN  IF r.ok /\ \A i \in DOMAIN node : node[i][1] # Nil THEN Read(TRUE, Table(<<>>, node), r.position) ELSE Broken
Listed(r) == IF r.ok THEN Read(TRUE, Table(r.got, <<>>), r.position) ELSE Broken

----------------------------------------------------------------------------
\* msgpack.lua.  pack writes the highest byte first.
Marked(marker, n, count) == <<marker>> \o Digits(n, count)

IsAnArray(v) == \A i \in DOMAIN Traversal(v) : Traversal(v)[i][1] = Index(i)

EncodeInteger(bytes) ==
  IF bytes[1] < 128
  THEN IF IsUnsigned(bytes, 1) /\ bytes[8] < 128 THEN <<bytes[8]>>
       ELSE IF IsUnsigned(bytes, 1) THEN <<204>> \o Lowest(bytes, 1)
       ELSE IF IsUnsigned(bytes, 2) THEN <<205>> \o Lowest(bytes, 2)
       ELSE IF IsUnsigned(bytes, 4) THEN <<206>> \o Lowest(bytes, 4)
       ELSE <<207>> \o bytes
  ELSE IF IsSigned(bytes, 1) /\ bytes[8] >= 224 THEN <<bytes[8]>>
       ELSE IF IsSigned(bytes, 1) THEN <<208>> \o Lowest(bytes, 1)
       ELSE IF IsSigned(bytes, 2) THEN <<209>> \o Lowest(bytes, 2)
       ELSE IF IsSigned(bytes, 4) THEN <<210>> \o Lowest(bytes, 4)
       ELSE <<211>> \o bytes

EncodeFloat(n) == IF Single(n) = n THEN Marked(202, n, 4) ELSE Marked(203, n, 8)

EncodeString(token) ==
  LET len == StrLen(token)
      sized(m1, m2, m4) ==
        IF len < 256 THEN Marked(m1, len, 1) ELSE IF len < 65536 THEN Marked(m2, len, 2) ELSE Marked(m4, len, 4)
  IN  (IF ~Utf8(token) THEN sized(196, 197, 198)
       ELSE IF len < 32 THEN <<160 + len>> ELSE sized(217, 218, 219)) \o <<token>>

ArrayHead(length) ==
  IF length < 16 THEN <<144 + length>> ELSE IF length < 65536 THEN Marked(220, length, 2) ELSE Marked(221, length, 4)
MapHead(length) ==
  IF length < 16 THEN <<128 + length>> ELSE IF length < 65536 THEN Marked(222, length, 2) ELSE Marked(223, length, 4)

RECURSIVE EncodeValue(_)
EncodeElements(v) ==
  LET pairs == Traversal(v)
  IN  IF IsAnArray(v)
      THEN ArrayHead(Len(pairs)) \o FlattenSeq([i \in DOMAIN pairs |-> EncodeValue(pairs[i][2])])
      ELSE MapHead(Len(pairs)) \o FlattenSeq([i \in DOMAIN pairs |-> EncodeValue(pairs[i][1]) \o EncodeValue(pairs[i][2])])
EncodeValue(v) ==
  CASE v.t = "nil" -> <<192>>
    [] v.t = "boolean" -> <<IF v.is THEN 195 ELSE 194>>
    [] v.t = "integer" -> EncodeInteger(v.bytes)
    [] v.t = "float" -> EncodeFloat(v.n)
    [] v.t = "string" -> EncodeString(v.token)
    [] v.t = "table" -> EncodeElements(v)

Raised == [ok |-> FALSE, data |-> <<>>]
\* A value of another type raises an error, which encode catches.
LuaEncode(values) ==
  IF \E i \in DOMAIN values : Holds(values[i], "function") THEN Raised
  ELSE [ok |-> TRUE, data |-> FlattenSeq([i \in DOMAIN values |-> EncodeValue(values[i])])]

\* The length that follows a marker, and where it ends: unpack raises an error at the end.
Counted(data, position, count) ==
  IF position + count - 1 > Len(data) THEN [ok |-> FALSE, bytes |-> <<0>>, position |-> 0]
  ELSE [ok |-> TRUE, bytes |-> SubSeq(data, position, position + count - 1), position |-> position + count]
\* Of the markers of a kind, the first is followed by 1 byte, the next by 2, 4, 8.
Width(marker, first) == 2 ^ (marker - first)

\* A length that is not that of the string which follows would take bytes of others.
StringAt(data, position, length) ==
  IF StrLen(data[position]) = length THEN Read(TRUE, Str(data[position]), position + 1) ELSE Broken
UnpackString(data, position, count) ==
  LET length == Counted(data, position, count)
  IN  IF ~length.ok \/ length.position > Len(data) THEN Broken
      ELSE StringAt(data, length.position, Number(length.bytes))
\* string.sub takes what there is.
FixString(data, position, length) ==
  IF position > Len(data) THEN Read(TRUE, Str(256), position + 1) ELSE StringAt(data, position, length)
FloatOf(bytes) == Float(Number(bytes))
NumberOf(kind, bytes) ==
  CASE kind = "float" -> FloatOf(bytes) [] kind = "unsigned" -> Unsigned(bytes) [] kind = "signed" -> Signed(bytes)
UnpackNumber(data, position, count, kind) ==
  LET bytes == Counted(data, position, count)
  IN  IF bytes.ok THEN Read(TRUE, NumberOf(kind, bytes.bytes), bytes.position) ELSE Broken

RECURSIVE DecodeValue(_, _)
DecodeValues(data) == [at \in Nat |-> DecodeValue(data, at)]
DecodeArray(data, position, length) == Listed(ReadMany(DecodeValues(data), position, length))
DecodeMap(data, position, length) == Filled(ReadMany(DecodeValues(data), position, 2 * length))
Sized(data, position, count, kind) ==
  LET length == Counted(data, position, count)
  IN  IF ~length.ok THEN Broken
      ELSE IF kind = "array" THEN DecodeArray(data, length.position, Number(length.bytes))
      ELSE DecodeMap(data, length.position, Number(length.bytes))

DecodeValue(data, at) ==
  LET m == data[at]
      position == at + 1
  IN  IF at > Len(data) THEN Broken ELSE
      CASE m \in 0 .. 127 -> Read(TRUE, Unsigned(<<m>>), position)
        [] m \in 128 .. 143 -> DecodeMap(data, position, m - 128)
        [] m \in 144 .. 159 -> DecodeArray(data, position, m - 144)
        [] m \in 160 .. 191 -> FixString(data, position, m - 160)
        [] m \in 224 .. 255 -> Read(TRUE, Signed(<<m>>), position)
        [] m = 192 -> Read(TRUE, Nil, position)
        [] m \in {194, 195} -> Read(TRUE, Bool(m = 195), position)
        [] m \in 196 .. 198 -> UnpackString(data, position, Width(m, 196))
        [] m \in 202 .. 203 -> UnpackNumber(data, position, Width(m, 200), "float")
        [] m \in 204 .. 207 -> UnpackNumber(data, position, Width(m, 204), "unsigned")
        [] m \in 208 .. 211 -> UnpackNumber(data, position, Width(m, 208), "signed")
        [] m \in 217 .. 219 -> UnpackString(data, position, Width(m, 217))
        [] m \in 220 .. 221 -> Sized(data, position, Width(m, 219), "array")
        [] m \in 222 .. 223 -> Sized(data, position, Width(m, 221), "map")
        [] OTHER -> Broken

\* decode gives the values of all of a message, but for those that are nil.
RECURSIVE LuaDecode(_, _)
LuaDecode(data, position) ==
  LET one == DecodeValue(data, position)
      rest == LuaDecode(data, one.position)
  IN  IF position > Len(data) THEN [ok |-> TRUE, values |-> <<>>]
      ELSE IF ~one.ok THEN [ok |-> FALSE, values |-> <<>>]
      ELSE IF ~rest.ok THEN rest
      ELSE [rest EXCEPT !.values = (IF one.value = Nil THEN <<>> ELSE <<one.value>>) \o @]

----------------------------------------------------------------------------
\* msgpack.cc.  Memory holds the lowest byte first; each thing is written by itself.
Memory(bytes) == Reverse(bytes)
EndianChange(memory) == Reverse(memory)
Marker(m) == <<m>>
Changed(bytes) == EndianChange(Memory(bytes))

\* Pack::write: what does not fit is left out, and all that comes after it.
Written(p, writes) ==
  LET upTo(n) == FlattenSeq(SubSeq(writes, 1, n))
      fits(n) == n = 0 \/ Size(p.buff \o upTo(n)) < p.size
      taken == CHOOSE n \in 0 .. Len(writes) : fits(n) /\ (n < Len(writes) => ~fits(n + 1))
  IN  IF p.over THEN p ELSE [p EXCEPT !.buff = @ \o upTo(taken), !.over = taken < Len(writes)]

PackInteger(bytes) ==
  LET val(marker, n) == <<Marker(marker), Changed(Lowest(bytes, n))>>
      negative == bytes[1] >= 128
  IN  IF ~negative
      THEN CASE IsUnsigned(bytes, 1) /\ bytes[8] < 128 -> <<Lowest(bytes, 1)>>
             [] IsUnsigned(bytes, 1) -> val(204, 1)
             [] IsUnsigned(bytes, 2) -> val(205, 2)
             [] IsUnsigned(bytes, 4) -> val(206, 4)
             [] OTHER -> val(207, 8)
      ELSE CASE IsSigned(bytes, 1) /\ bytes[8] >= 224 -> <<Lowest(bytes, 1)>>
             [] IsSigned(bytes, 1) -> val(208, 1)
             [] IsSigned(bytes, 2) -> val(209, 2)
             [] IsSigned(bytes, 4) -> val(210, 4)
             [] OTHER -> val(211, 8)

PackDouble(n) ==
  IF Single(n) = n THEN <<Marker(202), Changed(Digits(n, 4))>> ELSE <<Marker(203), Changed(Digits(n, 8))>>

PackLength(m1, m2, m4, len) ==
  IF len < 256 /\ m1 # 0 THEN <<Marker(m1), Changed(Digits(len, 1))>>
  ELSE IF len < 65536 THEN <<Marker(m2), Changed(Digits(len, 2))>>
  ELSE <<Marker(m4), Changed(Digits(len, 4))>>
PackString(token) ==
  LET len == StrLen(token)
  IN  (IF len < 32 THEN <<Marker(160 + len)>> ELSE PackLength(217, 218, 219, len)) \o <<<<token>>>>
PackArrHead(len) == IF len < 16 THEN <<Marker(144 + len)>> ELSE PackLength(0, 220, 221, len)
PackMapHead(len) == IF len < 16 THEN <<Marker(128 + len)>> ELSE PackLength(0, 222, 223, len)

\* What Pack writes for a value without others in it: pack_nil and pack_boolean too.
Packed(v) ==
  CASE v.t = "nil" -> <<Marker(192)>>
    [] v.t = "boolean" -> <<Marker(IF v.is THEN 195 ELSE 194)>>
    [] v.t = "integer" -> PackInteger(v.bytes)
    [] v.t = "float" -> PackDouble(v.n)
    [] v.t = "string" -> PackString(v.token)

\* Unpack::parse: the type of what comes, its data and where it ends.
Val(tp, data, ps) == [tp |-> tp, data |-> data, ps |-> ps]
ParseLen(data, ps, n) == EndianChange(Memory(SubSeq(data, ps, ps + n - 1)))
ParseNumber(data, at, m) ==
  LET n == Width(m, IF m < 204 THEN 200 ELSE IF m < 208 THEN 204 ELSE 208)
      bytes == ParseLen(data, at, n)
  IN  IF m < 204 THEN Val("DOU", FloatOf(bytes), at + n)
      ELSE Val("INT", IF m < 208 THEN Unsigned(bytes) ELSE Signed(bytes), at + n)
Parse(data, ps) ==
  LET m == data[ps]
      at == ps + 1
      length(n) == Number(ParseLen(data, at, n))
      sized(tp, n) == Val(tp, length(n), at + n)
      string(n, len) == IF StrLen(data[at + n]) = len THEN Val("STR", data[at + n], at + n + 1) ELSE Val("ERR", 0, ps)
  IN  IF ps > Len(data) THEN Val("ERR", 0, ps) ELSE
      CASE m \in 0 .. 127 -> Val("INT", Unsigned(<<m>>), at)
        [] m \in 224 .. 255 -> Val("INT", Signed(<<m>>), at)
        [] m \in 160 .. 191 -> string(0, m - 160)
        [] m \in 128 .. 143 -> Val("MAP", m - 128, at)
        [] m \in 144 .. 159 -> Val("ARR", m - 144, at)
        [] m = 192 -> Val("NIL", Nil, at)
        [] m \in {194, 195} -> Val("BOOL", Bool(m = 195), at)
        [] m \in {217, 196} -> string(1, length(1))
        [] m \in {218, 197} -> string(2, length(2))
        [] m \in {219, 198} -> string(4, length(4))
        [] m \in 202 .. 211 -> ParseNumber(data, at, m)
        [] m \in 220 .. 221 -> sized("ARR", Width(m, 219))
        [] m \in 222 .. 223 -> sized("MAP", Width(m, 221))
        [] OTHER -> Val("ERR", 0, ps)

----------------------------------------------------------------------------
\* lmsgpack.cc.
RECURSIVE Decode(_, _)
Decode(data, ps) ==
  LET val == Parse(data, ps)
      values == [at \in Nat |-> Decode(data, at)]
  IN  CASE val.tp = "ERR" -> Broken
        [] val.tp = "ARR" -> Listed(ReadMany(values, val.ps, val.data))
        [] val.tp = "MAP" -> Filled(ReadMany(values, val.ps, 2 * val.data))
        [] val.tp = "STR" -> Read(TRUE, Str(val.data), val.ps)
        [] OTHER -> Read(TRUE, val.data, val.ps)

TableLen(v) == Len(Traversal(v))

\* What Encode::encode writes for a value, inside dep tables.  Errors end it.
LuaError == <<>>
RECURSIVE Encode(_, _)
EncodeTable(v, dep) ==
  LET pairs == Traversal(v)
      len == TableLen(v)
  IN  IF dep > MaxDep THEN <<LuaError>>
      ELSE IF RawLen(v) = len THEN PackArrHead(len) \o FlattenSeq([i \in DOMAIN pairs |-> Encode(pairs[i][2], dep)])
      ELSE PackMapHead(len) \o FlattenSeq([i \in DOMAIN pairs |-> Encode(pairs[i][1], dep) \o Encode(pairs[i][2], dep)])
Encode(v, dep) ==
  IF v.t = "function" THEN <<LuaError>>
  ELSE IF v.t = "table" THEN EncodeTable(v, dep + 1)
  ELSE Packed(v)

----------------------------------------------------------------------------
\* create(0): the buffer gets its size by resize.
Init ==
  /\ pack = [size |-> 0, buff |-> <<>>, over |-> FALSE]
  /\ asked = <<>> /\ answer = [ok |-> TRUE, data |-> <<>>]

\* encode: what is left of the call before is put back first.
Ask(v) ==
  LET writes == Encode(v, 0)
      fails == LuaError \in ToSet(writes)
      done == IF fails THEN SubSeq(writes, 1, SelectInSeq(writes, LAMBDA w : w = LuaError) - 1) ELSE writes
  IN  /\ pack' = Written([pack EXCEPT !.buff = <<>>, !.over = FALSE], done)
      /\ asked' = <<v>>
      /\ answer' = IF fails \/ pack'.over THEN Raised ELSE [ok |-> TRUE, data |-> pack'.buff]

Resize(size) ==
  pack' = [pack EXCEPT !.size = size] /\ asked' = <<>> /\ answer' = [ok |-> TRUE, data |-> <<>>]

\* Lua's encode keeps nothing from call to call: it may as well be called first.
AskLua(values) ==
  /\ asked = <<>> /\ pack.buff = <<>>
  /\ asked' = values /\ answer' = LuaEncode(values) /\ UNCHANGED pack

\* Numbered nodes that lie in another order make RawLen equal to TableLen, and Encode
\* list them in their order: programs here have their lists in array parts.
InOrder(v) == RawLen(v) = TableLen(v) => v.node = <<>>

Next ==
  \/ \E v \in Values : (v.t = "table" => InOrder(v)) /\ Ask(v)
  \/ \E size \in Sizes : Resize(size)
  \/ \E values \in {<<v>> : v \in Values} \cup Seqs : AskLua(values)

TypeOK ==
  /\ pack.size \in Sizes \cup {0} /\ pack.over \in BOOLEAN
  /\ Len(asked) \in Nat /\ answer.ok \in BOOLEAN

\* A message is the whole of what it was made of, for the decoder of either language,
\* and whatever went wrong in the calls before (lmsgpack.cc's encode, msgpack.lua's encode).
ArrivesWhole ==
  answer.ok /\ asked # <<>> =>
    /\ LET all == LuaDecode(answer.data, 1)
           given == SelectSeq(asked, LAMBDA v : v # Nil)
       IN  /\ all.ok /\ Len(all.values) = Len(given)
           /\ \A i \in DOMAIN given : Meaning(all.values[i]) = Meaning(given[i])
    /\ LET one == Decode(answer.data, 1)
       IN  one.ok /\ Meaning(one.value) = Meaning(asked[1])

\* A value is refused for what it is, or since the buffer is too small for it.
RefusedForCause ==
  answer.ok \/ \E i \in DOMAIN asked : Holds(asked[i], "function") \/ Depth(asked[i]) > MaxDep
            \/ Size(LuaEncode(asked).data) >= pack.size
\* What was cut off is missed, but for the bytes of a short string at the end, of which
\* string.sub takes those there are (msgpack.lua's decode).
CutIsMissed ==
  Len(asked) = 1 =>
    \A n \in 1 .. Len(answer.data) - 1 :
      LuaDecode(SubSeq(answer.data, 1, n), 1).ok => n = Len(answer.data) - 1 /\ answer.data[n] \in 160 .. 191

\* The heads of long arrays and maps too.
HeadsArrive ==
  \A n \in Lengths :
    LET a == FlattenSeq(PackArrHead(n))
        m == FlattenSeq(PackMapHead(n))
        length(data) == IF data[1] < 192 THEN data[1] % 16 ELSE Number(Counted(data, 2, Len(data) - 1).bytes)
    IN  /\ a = ArrayHead(n) /\ m = MapHead(n)
        /\ Parse(a, 1) = Val("ARR", n, Len(a) + 1) /\ Parse(m, 1) = Val("MAP", n, Len(m) + 1)
        /\ length(a) = n /\ length(m) = n
=============================================================================

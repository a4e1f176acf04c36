------------------------------ MODULE PbCodec ------------------------------
(***************************************************************************)
(* Messages of pb (pb/c/pb.c, pb/c/pb.h): Lua tables are encoded to tagged *)
(* items and decoded again, by programs whose schemas may differ.  An item *)
(* is a number, a wire type and a value; a value of the wire type "bytes"  *)
(* is a string, a sequence of items or, for a packed field, one of values. *)
(* A buffer may take several messages, one after the other.                *)
(***************************************************************************)
EXTENDS Integers, Sequences, SequencesExt, FiniteSetsExt, Functions, TLC

CONSTANTS
  Schemas,  \* [version -> [types -> [proto3, map, fields]]], a set of fields for each type;
            \* a field's default is a set of at most one value
  Enum,     \* [version -> [names -> numbers]], of the one enumeration there is
  Messages, \* [version -> messages of type Top], as functions of the names of fields
  Top,
  Options,  \* how decoders fill tables: sets of "copy", "arrays" and "messages"
  MaxSent   \* the bound on the messages of a buffer

VARIABLES wire, told

NoName == "NoName"
IsMap(S, f) == f.kind = "message" /\ f.type \in DOMAIN S /\ S[f.type].map
Numbered(S, t, n) == IF t \in DOMAIN S THEN {f \in S[t].fields : f.number = n} ELSE {}
Unknown(S, f) == f.kind = "message" /\ f.type \notin DOMAIN S
KeyOrValue(S, f, n) == CHOOSE g \in Numbered(S, f.type, n) : TRUE
With(m, x, y) == [z \in DOMAIN m \cup {x} |-> IF z = x THEN y ELSE m[z]]
At(m, x, none) == IF x \in DOMAIN m THEN m[x] ELSE none

\* pb_wtypebytype.
WireType(kind) == IF kind \in {"string", "message"} THEN "bytes" ELSE IF kind = "fixed" THEN "32bit" ELSE "varint"

----------------------------------------------------------------------------
\* Encoding.  A table's fields and a map's keys go in some order: here up or down.
InOrder(names, down) == SetToSortSeq(names, LAMBDA x, y : IF down THEN x > y ELSE x < y)
FieldsInOrder(fields, down) ==
  [i \in 1 .. Cardinality(fields) |->
     CHOOSE f \in fields : f.number = InOrder({g.number : g \in fields}, down)[i]]

\* pexist: false is a value that is there, 0, "" and a message without items are not.
Exists(kind, raw) == kind = "bool" \/ (IF kind = "message" THEN raw # <<>> ELSE raw # 0)

\* lpbE_tagfield.
TagField(f, raw, ignorezero, full) ==
  IF ignorezero /\ ~full /\ ~Exists(f.kind, raw) THEN <<>>
  ELSE <<[number |-> f.number, wire |-> WireType(f.kind), value |-> raw]>>

\* lpbE_encode; full is the option encode_default_values.
RECURSIVE Encode(_, _, _, _, _)

\* lpbE_field.
Raw(v, f, x, full, down) ==
  IF f.kind = "message" THEN Encode(v, f.type, x, full, down)
  ELSE IF f.kind = "enum" THEN IF "name" \in DOMAIN x THEN Enum[v][x.name] ELSE x.number
  ELSE x

\* lpbE_map.
MapItem(v, f, k, x, full, down) ==
  LET value == KeyOrValue(Schemas[v], f, 2)
  IN  [number |-> f.number, wire |-> "bytes",
       value |-> TagField(KeyOrValue(Schemas[v], f, 1), k, TRUE, full)
                   \o TagField(value, Raw(v, value, x, full, down), TRUE, full)]

\* lpbE_repeated.
Repeated(f, raws, full) ==
  IF ~f.packed THEN [i \in DOMAIN raws |-> TagField(f, raws[i], FALSE, full)[1]]
  ELSE IF raws = <<>> /\ ~full THEN <<>>
  ELSE <<[number |-> f.number, wire |-> "bytes", value |-> raws]>>

\* lpb_encode_onefield.
OneField(v, t, f, x, full, down) ==
  IF IsMap(Schemas[v], f)
  THEN [i \in 1 .. Cardinality(DOMAIN x) |->
          LET k == InOrder(DOMAIN x, down)[i] IN MapItem(v, f, k, x[k], full, down)]
  ELSE IF f.repeated THEN Repeated(f, [i \in DOMAIN x |-> Raw(v, f, x[i], full, down)], full)
  ELSE IF Unknown(Schemas[v], f) THEN <<>>
  ELSE TagField(f, Raw(v, f, x, full, down), Schemas[v][t].proto3 /\ f.oneof = NoName, full)

Encode(v, t, m, full, down) ==
  FoldLeft(LAMBDA items, f : items \o OneField(v, t, f, m[f.name], full, down), <<>>,
           FieldsInOrder({f \in Schemas[v][t].fields : f.name \in DOMAIN m}, down))

----------------------------------------------------------------------------
\* Decoding.

EnumValue(v, n) ==
  LET names == {x \in DOMAIN Enum[v] : Enum[v][x] = n}
  IN  IF names = {} THEN [number |-> n] ELSE [name |-> CHOOSE x \in names : TRUE]

\* lpb_setdeffields from lpb_pushtypetable: what a table holds before it is filled.
RECURSIVE Defaults(_, _, _)

\* lpb_pushdeffield.
HasDefault(f, proto3) == f.kind = "message" \/ f.default # {} \/ proto3
Default(v, f, o) ==
  IF f.kind = "message" THEN Defaults(v, f.type, o)
  ELSE IF f.default # {} THEN CHOOSE x \in f.default : TRUE
  ELSE IF f.kind = "enum" THEN EnumValue(v, 0) ELSE IF f.kind = "bool" THEN FALSE ELSE 0

Defaults(v, t, o) ==
  LET S == Schemas[v]
      given(f) ==
        IF f.repeated THEN "arrays" \in o \/ S[t].proto3
        ELSE /\ f.oneof = NoName /\ HasDefault(f, S[t].proto3)
             /\ IF f.kind = "message" THEN "messages" \in o ELSE "copy" \in o \/ S[t].proto3
      value(f) == IF f.repeated THEN <<>> ELSE Default(v, f, o)
  IN  IF t \notin DOMAIN S THEN <<>>
      ELSE [n \in {f.name : f \in {g \in S[t].fields : given(g)}} |->
              value(CHOOSE f \in S[t].fields : f.name = n)]

\* Mutant: a packed field is read in the form of the schema only.
PackedOnly(f, item) == item.wire = "bytes" /\ f.packed

\* lpbD_repeated reads an item of a repeated field as packed, whatever the schema says.
Packed(f, item) == item.wire = "bytes" /\ (f.packed \/ WireType(f.kind) # "bytes")

\* lpbD_checktype, of every item that a decoder reads.
RECURSIVE Fits(_, _, _)
Fits(v, t, items) ==
  \A i \in DOMAIN items : \A f \in Numbered(Schemas[v], t, items[i].number) :
    /\ WireType(f.kind) = items[i].wire \/ (f.repeated /\ Packed(f, items[i]))
    /\ f.kind = "message" => Fits(v, f.type, items[i].value)

\* lpbD_message: items into a table.
RECURSIVE Into(_, _, _, _, _)

\* lpbD_rawfield.
Value(v, f, raw, o) ==
  IF f.kind = "message" THEN Into(v, f.type, Defaults(v, f.type, o), raw, o)
  ELSE IF f.kind = "enum" THEN EnumValue(v, raw) ELSE raw

\* lpbD_map: the last key and the last value of an entry count.
Half(v, f, g, items, o) ==
  LET is == {i \in DOMAIN items : items[i].number = g.number}
  IN  IF is = {} THEN Default(v, g, o) ELSE Value(v, g, items[Max(is)].value, o)
IntoMap(v, f, map, items, o) ==
  LET half(n) == Half(v, f, KeyOrValue(Schemas[v], f, n), items, o) IN With(map, half(1), half(2))

\* lpbD_repeated.
IntoArray(v, f, array, item, o) ==
  array \o IF Packed(f, item) THEN [i \in DOMAIN item.value |-> Value(v, f, item.value[i], o)]
           ELSE <<Value(v, f, item.value, o)>>

IntoField(v, f, m, item, o) ==
  IF IsMap(Schemas[v], f) THEN With(m, f.name, IntoMap(v, f, At(m, f.name, <<>>), item.value, o))
  ELSE IF f.repeated THEN With(m, f.name, IntoArray(v, f, At(m, f.name, <<>>), item, o))
  ELSE IF Unknown(Schemas[v], f) THEN Restrict(m, DOMAIN m \ {f.name})
  ELSE With(IF f.oneof = NoName THEN m ELSE With(m, f.oneof, f.name), f.name, Value(v, f, item.value, o))

Into(v, t, table, items, o) ==
  FoldLeft(LAMBDA m, item : FoldSet(LAMBDA f, u : IntoField(v, f, u, item, o), m, Numbered(Schemas[v], t, item.number)),
           table, items)

\* lpbD_decode.
Decode(v, items, o) == Into(v, Top, Defaults(v, Top, o), items, o)

\* lpbD_unpack and lpb_unpackfield: a value for each field, in the order of numbers.  One
\* that is read stays on the stack until an item of another field comes; a second value of
\* a field that is not repeated leaves the first behind, above the values that are returned.
Unpack(v, items, o) ==
  LET fields == Schemas[v][Top].fields
      store(u) ==
        [u EXCEPT !.got = FoldSet(LAMBDA f, m : IF Unknown(Schemas[v], f) THEN m ELSE With(m, f.name, u.top), @, u.last)]
      step(u, item) ==
        LET f == Numbered(Schemas[v], Top, item.number)
            w == IF u.last # {} /\ u.last # f THEN [store(u) EXCEPT !.last = {}, !.top = <<>>] ELSE u
            g == CHOOSE g \in f : TRUE
        IN  IF f = {} THEN w
            ELSE IF g.repeated
            THEN [w EXCEPT !.last = f, !.top = IF IsMap(Schemas[v], g) THEN IntoMap(v, g, @, item.value, o)
                                               ELSE IntoArray(v, g, @, item, o)]
            ELSE [w EXCEPT !.last = f, !.top = Value(v, g, item.value, o),
                           !.behind = IF u.last = f THEN @ + 1 ELSE @]
  IN  store(FoldLeft(step, [got |-> <<>>, last |-> {}, top |-> <<>>, behind |-> 0], items))

----------------------------------------------------------------------------
Init == wire = <<>> /\ told = <<>>

\* pb.encode to a buffer.
Send(v, m, full, down) ==
  /\ Len(told) < MaxSent
  /\ wire' = wire \o Encode(v, Top, m, full, down)
  /\ told' = Append(told, [version |-> v, type |-> Top, message |-> m, full |-> full])

Next == \E v \in DOMAIN Schemas, full, down \in BOOLEAN : \E m \in Messages[v] : Send(v, m, full, down)

codecVars == <<wire, told>>
Spec == Init /\ [][Next]_codecVars

----------------------------------------------------------------------------
\* What messages tell a reader, without their wire.

\* What the field with f's number holds of a message, if it is sent at all.
Sender(s, f) == Numbered(Schemas[s.version], s.type, f.number)
Tells(s, f) ==
  \E g \in Sender(s, f) :
    /\ g.name \in DOMAIN s.message
    /\ IF g.repeated THEN s.message[g.name] # <<>> \/ (s.full /\ g.packed)
       ELSE \/ s.full \/ ~Schemas[s.version][s.type].proto3 \/ g.oneof # NoName
            \/ Exists(g.kind, IF g.kind \in {"message", "enum"} THEN Raw(s.version, g, s.message[g.name], FALSE, FALSE)
                              ELSE s.message[g.name])

RECURSIVE Meaning(_, _, _, _)

\* A value of a field g of s as a reader's field f takes it.
Taken(v, f, s, g, x, o) ==
  IF f.kind = "message"
  THEN Meaning(v, f.type, <<[s EXCEPT !.type = g.type, !.message = x]>>, o)
  ELSE IF f.kind = "enum" THEN EnumValue(v, Raw(s.version, g, x, FALSE, FALSE)) ELSE x

\* A map's later entries replace earlier ones, an array's follow them, and of another field
\* the last is taken whole; of a type that the reader does not have nothing is left.
Meaning(v, t, ss, o) ==
  LET base == Defaults(v, t, o)
      fields == IF t \in DOMAIN Schemas[v] THEN Schemas[v][t].fields ELSE {}
      telling(f) == SelectSeq(ss, LAMBDA s : Tells(s, f))
      of(f, s) == CHOOSE g \in Sender(s, f) : TRUE
      said(f, s) == s.message[of(f, s).name]
      entries(f, s) == [k \in DOMAIN said(f, s) |->
        Taken(v, KeyOrValue(Schemas[v], f, 2), s, KeyOrValue(Schemas[s.version], of(f, s), 2), said(f, s)[k], o)]
      elements(f, s) == [i \in DOMAIN said(f, s) |-> Taken(v, f, s, of(f, s), said(f, s)[i], o)]
      value(f) ==
        IF IsMap(Schemas[v], f) THEN FoldLeft(LAMBDA m, s : entries(f, s) @@ m, <<>>, telling(f))
        ELSE IF f.repeated THEN FlattenSeq([i \in DOMAIN telling(f) |-> elements(f, telling(f)[i])])
        ELSE Taken(v, f, Last(telling(f)), of(f, Last(telling(f))), said(f, Last(telling(f))), o)
      heard == {f \in fields : telling(f) # <<>>}
      known == {f \in heard : ~Unknown(Schemas[v], f)}
      one(x) == {f \in known : f.oneof = x}
      lastOf(x) == Last(SelectSeq(ss, LAMBDA s : \E f \in one(x) : Tells(s, f)))
      named == [n \in {f.name : f \in known} |-> value(CHOOSE f \in known : f.name = n)]
      chosen == [x \in {f.oneof : f \in known} \ {NoName} |-> (CHOOSE f \in one(x) : Tells(lastOf(x), f)).name]
  IN  chosen @@ named @@ Restrict(base, DOMAIN base \ {f.name : f \in heard})

TypeOK == \A i \in DOMAIN wire : wire[i].wire \in {"varint", "32bit", "bytes"} /\ told[1].version \in DOMAIN Schemas

\* Whoever reads the buffer, with an older or a newer schema, in whatever order, form and
\* number the messages came, can read it all and gets what the messages told of the fields
\* it knows; and unpack gives the values that decode gives for one message.
RoundTrip ==
  \A v \in DOMAIN Schemas, o \in Options :
    /\ Fits(v, Top, wire)
    /\ Decode(v, wire, o) = Meaning(v, Top, told, o)
    /\ Len(told) = 1 => LET u == Unpack(v, wire, o)
                        IN  u.behind = 0 /\ u.got = Restrict(Decode(v, wire, o), DOMAIN u.got)
=============================================================================

----------------------------- MODULE PbSchema -----------------------------
(***************************************************************************)
(* The schema of pb (pb/c/pb.h, pb/c/pb.c): names that are counted, types, *)
(* and fields that a type knows by name and by number.  Files are loaded   *)
(* over what is there, types and fields are cleared, and a list of fields  *)
(* by number is kept for pack and unpack.  The tables are those of         *)
(* PbTable; here a table is a function.                                    *)
(***************************************************************************)
EXTENDS Integers, Sequences, SequencesExt, FiniteSetsExt, Functions

CONSTANTS
  Name,      \* names of types and fields, and default values
  HashOf,    \* [Name -> hashes]
  Files,     \* files, each a sequence of types in the order in which they are loaded
  Strings,   \* where the program's strings are: pairs of an address and a name
  MaxRefs,   \* the bound on how often a name is counted
  MaxFields  \* the bound on the fields of the pool

VARIABLES schema, cache

NoName == "NoName"
NotSorted == << >>
NewTypeRecord == [dead |-> FALSE, field_names |-> <<>>, field_tags |-> <<>>, field_sort |-> NotSorted,
                  field_count |-> 0, oneofs |-> <<>>, oneof_field |-> 0]
Empty == [names |-> [n \in Name |-> 0], types |-> <<>>, fields |-> <<>>, ok |-> TRUE]

At(f, x, none) == IF x \in DOMAIN f THEN f[x] ELSE none
With(f, x, y) == [z \in DOMAIN f \cup {x} |-> IF z = x THEN y ELSE f[z]]
Without(f, x) == Restrict(f, DOMAIN f \ {x})

----------------------------------------------------------------------------
\* Names: pb_newname counts a use, pb_delname takes one back and frees the name with the
\* last; a name that is counted 0 times is not there.
NewName(s, n) == IF n = NoName THEN s ELSE [s EXCEPT !.names[n] = @ + 1]
DelName(s, n) == IF n = NoName THEN s ELSE [s EXCEPT !.names[n] = IF @ <= 1 THEN 0 ELSE @ - 1]
\* pbN_getname with a hash that may be another string's.
GetName(s, n, hash) == IF s.names[n] > 0 /\ HashOf[n] = hash THEN n ELSE NoName

\* pb_name with its cache: two strings are remembered by where they are, with the hash
\* they had.  The result is [name, slots].
CachedName(s, slots, at, n) ==
  LET way == IF slots[1].at = at THEN 1 ELSE IF slots[2].at = at THEN 2 ELSE 0
      entry == IF way = 0 THEN NoName ELSE GetName(s, n, slots[way].hash)
      kept == IF way = 0 THEN <<[at |-> at, hash |-> slots[1].hash], slots[1]>> ELSE slots
  IN  IF entry # NoName THEN [name |-> entry, slots |-> kept]
      ELSE [name |-> GetName(s, n, HashOf[n]), slots |-> [kept EXCEPT ![Max({way, 1})].hash = HashOf[n]]]

----------------------------------------------------------------------------
\* Types and fields.

\* pb_newtype of a name that was counted: a type that is there lives again.
NewType(s, n) ==
  [s EXCEPT !.types = With(@, n, [At(@, n, NewTypeRecord) EXCEPT !.dead = FALSE])]

\* pbT_freefield.
FreeField(s, f) ==
  [DelName(DelName(s, s.fields[f].default), s.fields[f].name) EXCEPT !.fields = Without(@, f)]

ByName(s, t, n) == At(s.types[t].field_names, n, 0)
ByNumber(s, t, i) == At(s.types[t].field_tags, i, 0)
Unused(s) == Min(1 .. MaxFields + 1 \ DOMAIN s.fields)

\* The fields that nothing leads to once the name and the number are given to another.
Orphans(s, t, n, number) ==
  LET f == ByName(s, t, n)
      g == ByNumber(s, t, number)
  IN  {h \in {f} \ {0} : ByNumber(s, t, s.fields[h].number) # h}
        \cup {h \in {g} \ {0} : ByName(s, t, s.fields[h].name) # h}

\* pb_newfield of a name that was counted: the field that has both the name and the
\* number stays.
NewField(s, t, n, number) ==
  LET orphans == Orphans(s, t, n, number)
      f == Unused(s)
      new == [s EXCEPT !.fields = With(@, f, [name |-> n, number |-> number, default |-> NoName, oneof |-> 0]),
                       !.types[t].field_names = With(@, n, f), !.types[t].field_tags = With(@, number, f),
                       !.types[t].field_count = @ + 1 - Cardinality(orphans),
                       !.types[t].field_sort = NotSorted]
  IN  IF ByName(s, t, n) # 0 /\ ByName(s, t, n) = ByNumber(s, t, number)
      THEN [DelName(s, s.fields[ByName(s, t, n)].default) EXCEPT !.fields[ByName(s, t, n)].default = NoName]
      ELSE FoldSet(LAMBDA h, u : FreeField(u, h), new, orphans)

\* pb_delfield.
DelField(s, t, f) ==
  LET n == s.fields[f].name
      i == s.fields[f].number
      named == ByName(s, t, n) = f
      tagged == ByNumber(s, t, i) = f
  IN  FreeField([s EXCEPT !.types[t].field_names = IF named THEN Without(@, n) ELSE @,
                          !.types[t].field_tags = IF tagged THEN Without(@, i) ELSE @,
                          !.types[t].oneof_field = IF s.fields[f].oneof # 0 THEN @ - 1 ELSE @,
                          !.types[t].field_count = @ - 1, !.types[t].field_sort = NotSorted], f)

\* pb_deltype: the type stays, dead and without fields.
FieldsOf(s, t) == Range(s.types[t].field_names) \cup Range(s.types[t].field_tags)
DelType(s, t) ==
  LET freed == FoldSet(LAMBDA f, u : FreeField(u, f), s, FieldsOf(s, t))
      emptied == FoldFunction(LAMBDA n, u : DelName(u, n), freed, s.types[t].oneofs)
  IN  [emptied EXCEPT !.types[t] = [NewTypeRecord EXCEPT !.dead = TRUE]]

\* pb_sortfield.
Sorted(s, t) ==
  LET tags == s.types[t].field_tags
  IN  [s EXCEPT !.types[t].field_sort =
         IF @ = NotSorted THEN [i \in 1 .. Cardinality(DOMAIN tags) |-> tags[SetToSortSeq(DOMAIN tags, <)[i]]] ELSE @]

----------------------------------------------------------------------------
\* Loading.  A file that leaves out a name is loaded up to there.

\* pbL_loadField.
LoadField(s, t, d) ==
  LET typed == IF d.type = NoName THEN s ELSE NewType(NewName(s, d.type), d.type)
      made == NewField(NewName(typed, d.name), t, d.name, d.number)
      f == ByName(made, t, d.name)
  IN  IF ~s.ok THEN s
      ELSE IF d.name = NoName THEN [typed EXCEPT !.ok = FALSE]
      ELSE [NewName(made, d.default) EXCEPT !.fields[f].default = d.default, !.fields[f].oneof = d.oneof,
                                           !.types[t].oneof_field = IF d.oneof # 0 THEN @ + 1 ELSE @]

\* pbL_loadEnum and pbL_loadType.
LoadType(s, d) ==
  LET type == NewType(NewName(s, d.name), d.name)
      oneofs == [FoldLeft(NewName, type, d.oneofs) EXCEPT !.types[d.name].oneofs =
                   [i \in DOMAIN @ \cup DOMAIN d.oneofs |-> IF i \in DOMAIN d.oneofs THEN d.oneofs[i] ELSE @[i]]]
  IN  IF s.ok THEN FoldLeft(LAMBDA u, field : LoadField(u, d.name, field), oneofs, d.fields) ELSE s

\* pb_load.
Loaded(s, file) == FoldLeft(LoadType, [s EXCEPT !.ok = TRUE], file)

\* pb_free.
Freed(s) == Empty

----------------------------------------------------------------------------
Init == schema = Empty /\ cache = <<[at |-> 0, hash |-> 0], [at |-> 0, hash |-> 0]>>

\* pb.load.
Load(file) ==
  LET s == Loaded(schema, file)
  IN  /\ Max(Range(s.names)) <= MaxRefs /\ DOMAIN s.fields \subseteq 1 .. MaxFields
      /\ schema' = s /\ UNCHANGED cache

Live(n) == n \in DOMAIN schema.types /\ ~schema.types[n].dead

\* pb.clear of everything, of a type and of a field.
ClearAll == schema # Empty /\ schema' = Freed(schema) /\ UNCHANGED cache
Clear(t) == Live(t) /\ schema' = DelType(schema, t) /\ UNCHANGED cache
ClearField(t, f) == Live(t) /\ f \in FieldsOf(schema, t) /\ schema' = DelField(schema, t, f) /\ UNCHANGED cache

\* pb.pack and pb.unpack, of a type none of whose numbers was given to another name: the
\* list would have places that nobody fills.
Pack(t) ==
  /\ Live(t) /\ schema.types[t].field_count = Cardinality(DOMAIN schema.types[t].field_tags)
  /\ schema' = Sorted(schema, t) /\ UNCHANGED cache

\* A string of the program is looked up; others were where it is before.
LookUp(at, n) ==
  /\ cache' = CachedName(schema, cache, at, n).slots
  /\ UNCHANGED schema

Next ==
  \/ \E file \in Files : Load(file)
  \/ ClearAll
  \/ \E t \in DOMAIN schema.types : Clear(t) \/ Pack(t) \/ \E f \in DOMAIN schema.fields : ClearField(t, f)
  \/ \E string \in Strings : LookUp(string[1], string[2])

pbVars == <<schema, cache>>
Spec == Init /\ [][Next]_pbVars

----------------------------------------------------------------------------
TypeOK ==
  /\ schema.names \in [Name -> 0 .. MaxRefs] /\ DOMAIN schema.types \subseteq Name
  /\ DOMAIN schema.fields \subseteq 1 .. MaxFields /\ schema.ok \in BOOLEAN
  /\ \A i \in 1 .. 2 : cache[i].at \in {0} \cup {string[1] : string \in Strings}

\* What a type or a list of fields leads to was not freed, every field is led to and
\* counted once, and the names that fields, types and oneofs hold are there, as often as
\* they are held; the list is that of the fields by number; and a name is found, whatever
\* string was where it is.
NothingDangles ==
  LET types == DOMAIN schema.types
      fields == DOMAIN schema.fields
      uses(n) == Cardinality({f \in fields : schema.fields[f].name = n})
                   + Cardinality({f \in fields : schema.fields[f].default = n}) + Cardinality(types \cap {n})
                   + Cardinality({<<t, i>> \in types \X (1 .. 2) : At(schema.types[t].oneofs, i, NoName) = n})
  IN  /\ UNION {FieldsOf(schema, t) : t \in types} = fields
      /\ \A t \in types : schema.types[t].field_count = Cardinality(FieldsOf(schema, t))
      /\ \A n \in Name : schema.names[n] >= uses(n)
      /\ \A t \in types : schema.types[t].field_sort # NotSorted => schema = Sorted([schema EXCEPT !.types[t].field_sort = NotSorted], t)
      /\ \A string \in Strings :
           LET n == string[2]
           IN  CachedName(schema, cache, string[1], n).name = IF schema.names[n] > 0 THEN n ELSE NoName
=============================================================================

------------------------------ MODULE MCTables ------------------------------
(***************************************************************************)
(* The containers the server is built on, each on a small instance, in one *)
(* run: which part moves is chosen in the initial state, and the others    *)
(* stay as they began.                                                     *)
(***************************************************************************)
EXTENDS RaftLog, DbProxy, Rank, Timer, Lru, TLC

CONSTANTS entry1, entry2
MCEntry == {entry1, entry2}

VARIABLES
  part,
  arr, map, luaLatest,
  swiss, hash, node, nb,
  tree, wrong,
  pbTable, schema, cache, wire, told,
  bytes, open, items, reading, curr, views, at,
  sets, held, calls,
  pack, given, message,
  disk, typemap, loaded, contexts, order, infos, result, compiles

BestLua == INSTANCE RankLua WITH Id <- RankId, latest <- luaLatest
\* Two groups of slots, and keys of which one is beyond the last.
MCSlotGroup == [s \in {10, 20} |-> s \div 10]
MCSlotOf == [x |-> 25, y |-> 15]
MCMaster == [g \in {1, 2} |-> g]
\* Searches begin at five places.
Swiss == INSTANCE SwissTable WITH
  Key <- 1 .. 7, Values <- [k \in 1 .. 7 |-> {1 + k \div 4}],
  HashOf <- [k \in 1 .. 7 |-> [h1 |-> 3 * (k % 5), h2 |-> k \div 4]], Width <- 4, MaxCapacity <- 7,
  table <- swiss
Words == {<<>>, <<1>>, <<2>>, <<1, 1>>, <<1, 2>>}
Array == INSTANCE ArrayHash WITH
  Key <- 0 .. 3, Values <- [k \in 0 .. 3 |-> IF k = 1 THEN {1, 5} ELSE {k}],
  HashOf <- [k \in 0 .. 3 |-> 3 * k], Load <- 1, MaxIndex <- 4, MaxBuckets <- 4
Trie == INSTANCE HTrie WITH
  Char <- {1, 2}, Key <- Words, Values <- [k \in Words |-> {1 + Len(k)}],
  HashOf <- [k \in Words |-> Len(k) + (IF k = <<>> THEN 0 ELSE k[1])],
  Load <- 2, MaxIndex <- 7, InitBuckets <- 1, Burst <- 2, MaxBuckets <- 1
Tree3 == INSTANCE BTree WITH NodeValues <- 3, MaxSize <- 13, MaxHeight <- 4
Tree4 == INSTANCE BTree WITH NodeValues <- 4, MaxSize <- 13, MaxHeight <- 4

PbTab == INSTANCE PbTable WITH
  Key <- {0, 1, 7, 9, 17}, ValueOf <- [k \in {0, 1, 7, 9, 17} |-> 1 + (k % 2)], MaxSize <- 16, table <- pbTable

\* A message in two versions of its schema: the new one packs numbers, counts proto3's
\* zeros as missing and has fields that the old one does not know.
None == "NoName"
FieldOf(name, number, kind, type) ==
  [name |-> name, number |-> number, kind |-> kind, type |-> type, repeated |-> FALSE, packed |-> FALSE,
   oneof |-> None, default |-> {}]
Many(field, packed) == [field EXCEPT !.repeated = TRUE, !.packed = packed]
OneOf(field) == [field EXCEPT !.oneof = "what"]
MessageOf(proto3, isMap, fields) == [proto3 |-> proto3, map |-> isMap, fields |-> fields]
Position(proto3, names) == MessageOf(proto3, FALSE, {FieldOf(names[i], i, "int", None) : i \in DOMAIN names})
Bag(proto3) == MessageOf(proto3, TRUE, {FieldOf("key", 1, "int", None), FieldOf("value", 2, "enum", None)})
NewSchema ==
  [Player |-> MessageOf(TRUE, FALSE,
     {FieldOf("id", 1, "int", None), Many(FieldOf("tags", 2, "int", None), TRUE), FieldOf("pos", 3, "message", "Pos"),
      Many(FieldOf("bag", 4, "message", "Bag"), FALSE), OneOf(FieldOf("note", 5, "string", None)),
      OneOf(FieldOf("mark", 6, "enum", None)), Many(FieldOf("way", 7, "message", "Pos"), FALSE),
      FieldOf("home", 8, "message", "Pos")}),
   Pos |-> Position(TRUE, <<"x", "y">>), Bag |-> Bag(TRUE)]
OldSchema ==
  [Player |-> MessageOf(FALSE, FALSE,
     {[FieldOf("uid", 1, "int", None) EXCEPT !.default = {5}], Many(FieldOf("tags", 2, "int", None), FALSE),
      FieldOf("pos", 3, "message", "Pos"), Many(FieldOf("bag", 4, "message", "Bag"), FALSE),
      FieldOf("home", 8, "message", "Lost")}),
   Pos |-> Position(FALSE, <<"x">>), Bag |-> Bag(FALSE)]
Named(x) == [name |-> x]
Codec == INSTANCE PbCodec WITH
  Schemas <- [new |-> NewSchema, old |-> OldSchema],
  Enum <- [new |-> [none |-> 0, one |-> 1, two |-> 2], old |-> [zero |-> 0, one |-> 1]],
  Messages <- [new |-> {[id |-> 0, tags |-> <<1, 2>>, pos |-> [x |-> 0, y |-> 7], note |-> 0, way |-> <<[x |-> 1], <<>>>>],
                        [id |-> 3, tags |-> <<>>, pos |-> [x |-> 0], bag |-> (1 :> Named("two") @@ 0 :> Named("none"))],
                        [mark |-> Named("two"), home |-> [y |-> 4]]},
               old |-> {[uid |-> 0, tags |-> <<3>>, pos |-> <<>>],
                        [tags |-> <<4, 5>>, bag |-> (1 :> [number |-> 2]), pos |-> [x |-> 8]]}],
  Top <- "Player", Options <- {{}, {"copy", "arrays", "messages"}}, MaxSent <- 2

\* Files load a type over itself: with a field renamed, with one moved to another number,
\* and with an enumeration that breaks off.
TypeOf(name, oneofs, fields) == [name |-> name, oneofs |-> oneofs, fields |-> fields]
Loads(name, number, type, default, oneof) ==
  [name |-> name, number |-> number, type |-> type, default |-> default, oneof |-> oneof]
Names == {"T", "E", "a", "b", "x"}
PbLoad == INSTANCE PbSchema WITH
  Name <- Names, HashOf <- [n \in Names |-> IF n \in {"a", "b"} THEN 1 ELSE 2],
  Files <- {<<TypeOf("T", <<"x">>, <<Loads("a", 1, None, "x", 1), Loads("b", 2, None, None, 0)>>)>>,
            <<TypeOf("T", <<>>, <<Loads("b", 1, None, None, 0)>>)>>,
            <<TypeOf("T", <<>>, <<Loads("a", 2, "E", None, 0)>>),
              TypeOf("E", <<>>, <<Loads("b", 0, None, None, 0), Loads(None, 1, None, None, 0)>>)>>},
  Strings <- {<<1, "a">>, <<1, "E">>, <<2, "a">>}, MaxRefs <- 2, MaxFields <- 4

\* Bytes of a digit of 2 bits and a flag; numbers of 5 and of 7 bits.
Wire == INSTANCE PbWire WITH
  Base <- 4, Mod32 <- 32, Mod64 <- 128, MaxBytes <- 4, FixedBytes <- 2, Numbers <- {1, 3},
  Values <- {0, 21, 127}, Strings <- {<<7, 1>>}, MaxItems <- 3, told <- items

\* Two threads and two maps of two parts, with one key in each, whose locks can be shared
\* or not.
OfKey(op, map_, key) == [op |-> op, on |-> map_, with |-> 3 - map_, key |-> key]
OfValue(op, key, value) == OfKey(op, 1, key) @@ [value |-> value]
OfAll(op, map_) == [op |-> op, on |-> map_, with |-> 3 - map_]
Held == <<<<2, 0>>, <<0, 1>>>>
Shared == INSTANCE ParallelSet WITH
  Thread <- {1, 2}, Key <- {1, 2}, MaxValue <- 2, Start <- {Held}, Mutex <- "shared", num_tables <- 2, subidx <- <<0, 1>>,
  Calls <- <<{OfAll(op, 1) : op \in {"for_each", "merge", "swap", "size"}} \cup {OfKey("erase_if", 1, 1)},
             {OfAll("equal", 2), OfAll("swap", 2), OfAll("clear", 1), OfKey("modify_if", 1, 1), OfKey("erase", 2, 2),
              OfKey("lazy_emplace_l", 1, 1), OfKey("find", 1, 1)}>>
Plain == INSTANCE ParallelSet WITH
  Thread <- {1, 2}, Key <- {1, 2}, MaxValue <- 2, Start <- {Held}, Mutex <- "plain", num_tables <- 2, subidx <- <<0, 1>>,
  Calls <- <<{OfAll("for_each_m", 1), OfAll("merge", 1), OfKey("if_contains", 1, 1), OfKey("try_emplace_l", 1, 1),
              OfValue("insert_or_assign", 2, 1)},
             {OfAll("equal", 2), OfAll("swap", 2), OfKey("if_contains_unsafe", 2, 2), OfValue("emplace", 1, 2), OfValue("emplace_single", 1, 2),
              OfValue("insert", 2, 1), OfValue("try_emplace", 2, 1)}>>

\* Numbers at the borders of the formats, strings of lengths at theirs, and tables: short
\* and long, with lists in their array part or among their nodes, inside each other.
Whole(high, byte, low, n) ==
  [t |-> "integer", bytes |-> [i \in 1 .. 8 |-> IF i <= 8 - n THEN high ELSE IF i = 9 - n THEN byte ELSE low]]
Count(i) == Whole(0, i, 0, 1)
Text(token) == [t |-> "string", token |-> token]
Row(list, pairs) == [t |-> "table", arr |-> list, node |-> pairs]
Under(x) == Row(<<>>, <<<<Count(5), x>>>>)
List(n) == Row([i \in 1 .. n |-> Count(i)], <<>>)
Void == [t |-> "nil"]
Truth(b) == [t |-> "boolean", is |-> b]
Real(n) == [t |-> "float", n |-> n]
Closure == [t |-> "function"]
Wholes ==
  {Whole(x[1], x[2], x[3], x[4]) : x \in
     {<<0, 0, 0, 1>>, <<0, 127, 0, 1>>, <<0, 128, 0, 1>>, <<0, 255, 0, 1>>, <<0, 1, 0, 2>>, <<0, 255, 255, 2>>,
      <<0, 1, 0, 3>>, <<0, 255, 255, 4>>, <<0, 1, 0, 5>>, <<0, 127, 255, 8>>,
      <<255, 255, 0, 1>>, <<255, 224, 0, 1>>, <<255, 223, 0, 1>>, <<255, 128, 0, 1>>, <<255, 255, 127, 2>>,
      <<255, 128, 0, 2>>, <<255, 127, 255, 2>>, <<255, 128, 0, 4>>, <<255, 127, 255, 4>>, <<255, 128, 0, 8>>}}
Rows ==
  {Under(Under(Under(Void))), Under(Under(Under(Under(Void)))), List(0), List(15), List(16), Row(<<Closure>>, <<>>),
   Row(<<Truth(TRUE), Real(3)>>, <<<<Text(300), List(1)>>>>), Row(<<Text(258), List(2), Text(257)>>, <<>>),
   Row(<<>>, <<<<Count(2), Truth(FALSE)>>, <<Count(1), Text(257)>>>>),
   Row(<<>>, [i \in 1 .. 16 |-> <<Text(256 + i), Count(i)>>])}
Texts == {Text(256 + n) : n \in {0, 31, 32, 255, 256, 65535, 65536}} \cup {Text(-1 - n) : n \in {0, 255, 256, 65535, 65536}}
Pack == INSTANCE MsgPack WITH
  Values <- Wholes \cup Texts \cup Rows \cup {Void, Truth(TRUE), Real(2), Real(3), Closure},
  Seqs <- {<<Count(1), Void, Text(257)>>, <<Truth(FALSE), Closure>>},
  Lengths <- {0, 15, 16, 255, 256, 65535, 65536}, Sizes <- {8, 70000}, MaxDep <- 3, asked <- given, answer <- message

\* Schemas: types of one name in a file, in the files it imports and in each other; files
\* that import each other, that declare what another has, and that are not right.
Kind(k) == [k |-> k]
Starts(k, name) == [k |-> k, name |-> name]
End == Kind("end")
Imports(file) == [k |-> "import", file |-> file, mode |-> "weak"]
Has(label, type, name, number) ==
  [k |-> "field", label |-> label, type |-> type, name |-> name, number |-> number, key |-> ""]
HasMap(type, name, number) == [Has("", type, name, number) EXCEPT !.key = "int"]
Constant(name, number) == [k |-> "value", name |-> name, number |-> number]
Answers(name, type, returns) == [k |-> "rpc", name |-> name, type |-> type, returns |-> returns]
Proto3 == [k |-> "syntax", syntax |-> "proto3"]
Game ==
  <<Proto3, Starts("package", <<"p", "q">>), Imports("base"), Imports("more"),
    Starts("message", "M"), Starts("message", "T"), Has("", <<"int">>, "x", 1), Kind("reserved"), End,
      Has("", <<"T">>, "t", 1), Starts("enum", "E"), Constant("z", 0), Constant("z", 0), End,
      Starts("oneof", <<"one">>), Has("", <<"E">>, "e", 2), HasMap(<<"N">>, "map", 3), End,
      Has("optional", <<"N">>, "n", 4), Has("repeated", <<"", "T">>, "u", 5), End,
    Starts("message", "N"), Has("", <<"M", "T">>, "t", 1), Has("", <<"T">>, "v", 2), End,
    Starts("extend", <<"T">>), Has("", <<"M", "E">>, "w", 9), End,
    Starts("service", <<"S">>), Answers("f", <<"N">>, <<"M", "T">>), Starts("option", "o"), End>>
GameAgain == <<Imports("base"), Starts("message", "T"), End>>
Base ==
  <<Starts("message", "T"), Has("optional", <<"T">>, "t", 1), Has("repeated", <<"E">>, "e", 2), End,
    Starts("enum", "E"), Starts("option", "allow_alias"), Constant("z", 0), Constant("y", 0), End>>
BaseAgain == <<Imports("more"), Starts("message", "T"), Has("required", <<"p", "T">>, "k", 1), End>>
More ==
  <<Starts("package", <<"p">>), Imports("base"), Starts("message", "T"),
    Starts("extend", <<"T">>), Has("optional", <<"int">>, "x", 1), End, HasMap(<<"int">>, "map", 1), End>>
MoreAgain == <<Starts("message", "K"), Has("optional", <<"Lost">>, "k", 1), End>>
Inputs ==
  <<<<Imports("lost"), Starts("message", "M"), Has("optional", <<"int">>, "x", 0)>>,
    <<Starts("message", "M"), Has("optional", <<"int">>, "x", 1), Has("optional", <<"int">>, "y", 1), End>>,
    <<Starts("message", "M"), End, Starts("service", <<"S">>), Answers("f", <<"M">>, <<"int">>), End>>,
    <<Starts("message", "M"), Has("", <<"int">>, "x", 1), End>>,
    <<Imports("base"), Starts("message", "M"), Has("optional", <<"T">>, "x", 1), End>>>>
Free == [include_imports |-> TRUE, proto3_optional |-> TRUE, unknown_type |-> TRUE, unknown_import |-> TRUE]
Compiler == INSTANCE Protoc WITH
  File <- {"game", "base", "more", "lost", "input"}, Input <- "input",
  Texts <- [game |-> <<Game, GameAgain>>, base |-> <<Base, BaseAgain>>, more |-> <<More, MoreAgain>>,
            lost |-> <<>>, input |-> Inputs],
  Basic <- {"int"}, KeyTypes <- {"int"}, EntryName <- [map |-> "Map"], MaxEdits <- 1, MaxCalls <- 2,
  Settings <- {Free, [n \in DOMAIN Free |-> n = "proto3_optional"]}, calls <- compiles

BestLuaVars == <<arr, map, luaLatest>>
TrieVars == <<node, nb>>
TreeVars == <<tree, wrong>>
SchemaVars == <<schema, cache>>
CodecVars == <<wire, told>>
WireVars == <<bytes, open, items, reading, curr, views, at>>
SetVars == <<sets, held, calls>>
PackVars == <<pack, given, message>>
CompilerVars == <<disk, typemap, loaded, contexts, order, infos, result, compiles>>

Parts == {"log", "timer", "lru", "rank", "ranklua", "proxy", "swiss", "array", "trie", "tree3", "tree4",
          "pbtable", "pbschema", "pbcodec", "pbwire", "shared", "plain", "msgpack", "protoc"}

TablesInit ==
  /\ part \in Parts
  /\ Init /\ TimerInit /\ LruInit /\ RankInit /\ BestLua!Init /\ ProxyInit
  /\ Swiss!Init /\ (part = "swiss" \/ swiss = Swiss!NoSlots) /\ Array!Init /\ Trie!Init /\ Tree3!Init
  /\ PbTab!Init /\ PbLoad!Init /\ Codec!Init /\ Wire!Init
  /\ Shared!Init /\ Pack!Init /\ Compiler!Init

TablesNext ==
  /\ UNCHANGED part
  /\ IF part = "log" THEN Next ELSE UNCHANGED vars
  /\ IF part = "timer" THEN TimerNext ELSE UNCHANGED timerVars
  /\ IF part = "lru" THEN LruNext ELSE UNCHANGED lruVars
  /\ IF part = "rank" THEN RankNext ELSE UNCHANGED rankVars
  /\ IF part = "ranklua" THEN BestLua!Next ELSE UNCHANGED BestLuaVars
  /\ IF part = "proxy" THEN ProxyNext ELSE UNCHANGED proxyVars
  /\ IF part = "swiss" THEN Swiss!Next ELSE UNCHANGED swiss
  /\ IF part = "array" THEN Array!Next ELSE UNCHANGED hash
  /\ IF part = "trie" THEN Trie!Next ELSE UNCHANGED TrieVars
  /\ IF part = "tree3" THEN Tree3!Next ELSE IF part = "tree4" THEN Tree4!Next ELSE UNCHANGED TreeVars
  /\ IF part = "pbtable" THEN PbTab!Next ELSE UNCHANGED pbTable
  /\ IF part = "pbschema" THEN PbLoad!Next ELSE UNCHANGED SchemaVars
  /\ IF part = "pbcodec" THEN Codec!Next ELSE UNCHANGED CodecVars
  /\ IF part = "pbwire" THEN Wire!Next ELSE UNCHANGED WireVars
  /\ IF part = "shared" THEN Shared!Next ELSE IF part = "plain" THEN Plain!Next ELSE UNCHANGED SetVars
  /\ IF part = "msgpack" THEN Pack!Next ELSE UNCHANGED PackVars
  /\ IF part = "protoc" THEN Compiler!Next ELSE UNCHANGED CompilerVars

TablesSpec == TablesInit /\ [][TablesNext]_<<part, vars, timerVars, lruVars, rankVars, BestLuaVars, proxyVars, swiss, hash,
     TrieVars, TreeVars, pbTable, SchemaVars, CodecVars, WireVars, SetVars, PackVars, CompilerVars>>

----------------------------------------------------------------------------
\* Each property is asked of the part it is about while that part moves.
Of(p, holds) == part = p => holds

\* The types of the variables of all parts.
TablesTypeOK ==
  /\ Of("log", TypeOK) /\ Of("timer", TimerTypeOK) /\ Of("lru", LruTypeOK)
  /\ Of("rank", RankTypeOK) /\ Of("ranklua", BestLua!TypeOK)
  /\ Of("proxy", ProxyTypeOK) /\ Of("swiss", Swiss!TypeOK)
  /\ Of("array", Array!TypeOK) /\ Of("trie", Trie!TypeOK)
  /\ Of("tree3", Tree3!TypeOK) /\ Of("tree4", Tree4!TypeOK)
  /\ Of("pbtable", PbTab!TypeOK) /\ Of("pbschema", PbLoad!TypeOK) /\ Of("pbcodec", Codec!TypeOK)
  /\ Of("pbwire", Wire!TypeOK) /\ Of("shared", Shared!TypeOK) /\ Of("plain", Plain!TypeOK)
  /\ Of("msgpack", Pack!TypeOK) /\ Of("protoc", Compiler!TypeOK)

\* Searches end, find what is there, in a ranking its places (ranklua/rank.lua) and in the
\* lru table what was used last (lru/cc/llru.cc), and threads that call the parallel tables
\* do not wait for each other for ever unless swaps meet (parallel_hashmap/phmap.h and
\* btree.h, tsl/array-hash/array_hash.h and tsl/htrie_hash.h, pb/c/pb.h).
SearchesEnd ==
  Of("swiss", Swiss!SearchesEnd) /\ Of("array", Array!FindsWhatItHas) /\ Of("trie", Trie!FindsPrefixes)
  /\ Of("tree3", Tree3!KeepsItsShape) /\ Of("tree4", Tree4!KeepsItsShape)
  /\ Of("pbtable", PbTab!ChainsHold)
  /\ Of("ranklua", BestLua!IsTheRanking) /\ Of("lru", KeepsTheNewest)
  /\ Of("shared", Shared!StuckOnlyBySwaps) /\ Of("plain", Plain!StuckOnlyBySwaps)
\* A program reads what another wrote, with another schema (pb/c/pb.c) or in another
\* language (msgpack), schemas that are loaded over each other lead to nothing that was
\* freed (pb/c/pb.h), and the types of fields are those that were meant (pb/protoc.lua).
MessagesArrive ==
  Of("pbcodec", Codec!RoundTrip) /\ Of("pbschema", PbLoad!NothingDangles)
  /\ Of("pbwire", Wire!ReadsWhatWasWritten) /\ Of("pbwire", Wire!NothingBeyond)
  /\ Of("protoc", Compiler!OneOwner /\ Compiler!NearestType /\ Compiler!ImportsFirst)
  /\ Of("msgpack", Pack!ArrivesWhole /\ Pack!RefusedForCause /\ Pack!CutIsMissed /\ Pack!HeadsArrive)

\* Every step of a part is one of what it stands for: of the log, of the ranking, of a
\* dictionary, and of maps whose calls are atomic.
Implements == ImplementsEntryLog /\ BestLua!IsRank /\ Swiss!ImplementsDictionary
  /\ Array!ImplementsDictionary /\ Trie!ImplementsDictionary /\ PbTab!ImplementsDictionary
  /\ Shared!ImplementsAtomicMaps /\ Plain!ImplementsAtomicMaps
=============================================================================

------------------------------- MODULE Protoc -------------------------------
(***************************************************************************)
(* pb/protoc.lua: the compiler of schemas.  A file is a sequence of        *)
(* statements, which the parser takes one at a time; an import stops it    *)
(* until the other file is parsed.  At the end of a file its names of      *)
(* types are resolved.  Types and files are remembered over the calls.     *)
(* The spelling of statements (Lexer), numbers of ranges and all options   *)
(* but allow_alias are left out.                                           *)
(*                                                                         *)
(* A name is a sequence of words; a full one begins with the empty word.   *)
(***************************************************************************)
EXTENDS Integers, Sequences, FiniteSets, TLC

CONSTANTS File, Input, \* names of files; that of a text without a name
          Texts, \* file -> the texts that it has, one after another
          Basic, KeyTypes, \* types of numbers and strings; those that can be keys of maps
          EntryName, \* name of a map -> name of the type of its entries
          Settings, \* include_imports, proto3_optional, unknown_type, unknown_import
          MaxEdits, MaxCalls \* bounds on the files that are changed and the calls of a parser

VARIABLES
  disk, \* file -> which of its texts is there, 0 if none is
  typemap, \* full name -> what it is
  loaded, \* file -> [is |-> "loading"] or [is |-> "info", info]
  contexts, \* the parsers of files, the innermost first
  order, \* the call that is served
  infos, \* what its on_import was told
  result, \* what the last call gave
  calls \* of this parser
protocVars == <<disk, typemap, loaded, contexts, order, infos, result, calls>>

Nothing == [is |-> "nothing"]
True == [is |-> "true"]
Info(i) == [is |-> "info", info |-> i]
IsInfo(x) == x.is = "info"
Put(f, k, v) == (k :> v) @@ f

\* The statements that each kind of body takes.
Takes ==
  [file |-> {"package", "import", "message", "enum", "option", "extend", "service"},
   message |-> {"message", "enum", "extend", "extensions", "reserved", "oneof", "option", "field"},
   enum |-> {"option", "reserved", "value"}, oneof |-> {"option", "field"},
   extend |-> {"field"}, service |-> {"option", "rpc"}]

Here == Head(contexts)
Body == IF Here.body = <<>> THEN [is |-> "file"] ELSE Head(Here.body)
Text == Texts[Here.file][Here.text]
Statement == Text[Here.at]
\* The messages around the statement.
Path == Here.path

----------------------------------------------------------------------------
\* make_context, and the info that parse begins with.
Context(f) ==
  [file |-> f, text |-> disk[f], at |-> 1, syntax |-> "proto2", prefix |-> <<"">>, path |-> <<>>, body |-> <<>>,
   info |-> [name |-> f, package |-> <<>>, dependency |-> <<>>, types |-> {}, items |-> <<>>, resolved |-> FALSE]]

\* error: all parsers are left; the file of each stays as it is in loaded.
Fail == contexts' = <<>> /\ result' = [is |-> "error"] /\ UNCHANGED <<disk, order, infos, calls>>
Refuse == Fail /\ UNCHANGED <<typemap, loaded>>

\* do_compile and pb.encode: what include_imports collected goes before the file itself,
\* and what is no info cannot be encoded.
Encoded(files) ==
  IF \A i \in DOMAIN files : IsInfo(files[i]) THEN [is |-> "set", files |-> files] ELSE [is |-> "error"]
Answer(x) == result' = Encoded((IF order.include_imports THEN infos ELSE <<>>) \o <<x>>)

\* The file that was parsed, or what stands for it, is given to who wanted it: an import
\* (toplevel:import) or the call.
Deliver(x, stack) ==
  IF stack = <<>> THEN contexts' = <<>> /\ Answer(x) /\ UNCHANGED infos
  ELSE LET c == Head(stack)
           st == Texts[c.file][c.text][c.at]
       IN  /\ infos' = IF order.include_imports THEN Append(infos, x) ELSE infos
           /\ contexts' = <<[c EXCEPT !.at = @ + 1, !.info.dependency = Append(@, [name |-> st.file, mode |-> st.mode])]>>
                          \o Tail(stack)
           /\ UNCHANGED result

\* Parser:parsefile, asked by the parsers in stack.
ParseFile(f, stack) ==
  IF loaded[f] # Nothing
  THEN Deliver(IF IsInfo(loaded[f]) THEN loaded[f] ELSE True, stack) /\ UNCHANGED <<typemap, loaded, disk, order, calls>>
  ELSE IF disk[f] # 0
  THEN /\ loaded' = Put(loaded, f, [is |-> "loading"]) /\ contexts' = <<Context(f)>> \o stack
       /\ UNCHANGED <<typemap, disk, order, infos, result, calls>>
  ELSE IF order.unknown_import THEN Deliver(True, stack) /\ UNCHANGED <<typemap, loaded, disk, order, calls>>
  ELSE Refuse

----------------------------------------------------------------------------
Idle == contexts = <<>>
Init ==
  /\ disk = [f \in File |-> IF Texts[f] = <<>> THEN 0 ELSE 1]
  /\ typemap = [n \in {} |-> ""] /\ loaded = [f \in File |-> Nothing]
  /\ contexts = <<>> /\ infos = <<>> /\ result = Nothing /\ calls = 0
  /\ order = [file |-> Input, include_imports |-> FALSE, proto3_optional |-> FALSE, unknown_type |-> FALSE,
              unknown_import |-> FALSE]

\* Someone changes a file.
Edit(f) ==
  /\ Idle /\ disk[f] < Len(Texts[f])
  /\ Cardinality({g \in File \ {f} : disk[g] > 1}) < MaxEdits
  /\ disk' = [disk EXCEPT ![f] = @ + 1] /\ UNCHANGED <<typemap, loaded, contexts, order, infos, result, calls>>

\* Parser:reset; a call of the class itself begins like this with a new parser.
Reset ==
  /\ Idle /\ typemap' = [n \in {} |-> ""] /\ loaded' = [f \in File |-> Nothing]
  /\ result' = Nothing /\ infos' = <<>> /\ calls' = 0 /\ UNCHANGED <<disk, contexts, order>>

Called(f, o) == calls < MaxCalls /\ calls' = calls + 1 /\ order' = ("file" :> f) @@ o /\ infos' = <<>>

\* Parser:compilefile.
CompileFile(f, o) ==
  /\ Idle /\ f # Input /\ Called(f, o)
  /\ IF loaded[f] # Nothing THEN /\ result' = Encoded(<<IF IsInfo(loaded[f]) THEN loaded[f] ELSE True>>)
                                 /\ UNCHANGED <<loaded, contexts>>
     ELSE IF disk[f] # 0 THEN /\ loaded' = Put(loaded, f, [is |-> "loading"]) /\ contexts' = <<Context(f)>>
                              /\ UNCHANGED result
     ELSE result' = [is |-> "error"] /\ UNCHANGED <<loaded, contexts>>
  /\ UNCHANGED <<disk, typemap>>

\* Parser:compile of the text of f: a text without a name is never found loaded.
Compile(f, o) ==
  /\ Idle /\ disk[f] # 0 /\ Called(f, o)
  /\ IF f = Input \/ loaded[f] = Nothing
     THEN loaded' = Put(loaded, f, [is |-> "loading"]) /\ contexts' = <<Context(f)>> /\ UNCHANGED result
     ELSE result' = Encoded(<<loaded[f]>>) /\ UNCHANGED <<loaded, contexts>>
  /\ UNCHANGED <<disk, typemap>>

----------------------------------------------------------------------------
\* A parser takes the statement it stands at, which must be one that its body takes.
Taking(kinds) ==
  /\ ~Idle /\ Here.at <= Len(Text) /\ Statement.k \in kinds /\ Statement.k \in Takes[Body.is]
Goes(c) == contexts' = <<[c EXCEPT !.at = @ + 1]>> \o Tail(contexts)
Only == UNCHANGED <<disk, order, infos, result, loaded, calls>>

\* type_info: a basic type needs no name, and three words are no names of types.
TypeInfo(n) ==
  IF Len(n) = 1 /\ n[1] \in Basic THEN [type |-> n[1], name |-> <<>>] ELSE [type |-> "", name |-> n]
InvalidType(n) == n \in {<<"group">>, <<"message">>, <<"enum">>}

\* register_type.
FullName(n) == Here.prefix \o <<n>>
\* Mutant: a type of the same name is replaced.
TakenNever(n) == FALSE
Taken(n) == FullName(n) \in DOMAIN typemap

\* Where a type stands in the info.
Place(k, name) == [k |-> k, in |-> Path, name |-> name]
Item(k, name, number) ==
  [k |-> k, in |-> Path, name |-> name, number |-> number, label |-> "optional", type |-> "", type_name |-> <<>>,
   extendee |-> <<>>, oneof |-> ""]

\* The statement syntax, which can only be the first.
Syntax ==
  /\ ~Idle /\ Here.at = 1 /\ Text # <<>> /\ Statement.k = "syntax"
  /\ Goes([Here EXCEPT !.syntax = Statement.syntax]) /\ Only /\ UNCHANGED typemap

\* toplevel:package.
Package ==
  /\ Taking({"package"})
  /\ Goes([Here EXCEPT !.info.package = Statement.name, !.prefix = <<"">> \o Statement.name])
  /\ Only /\ UNCHANGED typemap

\* toplevel:import.
Import == Taking({"import"}) /\ ParseFile(Statement.file, contexts)

\* toplevel:message and toplevel:enum, of a file or of a message.
Frame == [is |-> Statement.k, prefix |-> Here.prefix, path |-> Path]
Declares(c) ==
  IF Taken(Statement.name) THEN Refuse
  ELSE /\ typemap' = Put(typemap, FullName(Statement.name), Statement.k) /\ Only
       /\ Goes([c EXCEPT !.body = <<Frame>> \o @, !.path = Append(@, Statement.name),
                         !.info.types = @ \cup {Place(Statement.k, Statement.name)}])
Message == Taking({"message"}) /\ Declares([Here EXCEPT !.prefix = Append(@, Statement.name)])
Enum == Taking({"enum"}) /\ Declares(Here)

\* toplevel:extend, toplevel:service and msgbody:oneof.
Named == [name |-> Statement.name] @@ Frame
Extend == Taking({"extend"}) /\ Goes([Here EXCEPT !.body = <<Named>> \o @]) /\ Only /\ UNCHANGED typemap
Oneof == Taking({"oneof"}) /\ Goes([Here EXCEPT !.body = <<Named>> \o @]) /\ Only /\ UNCHANGED typemap
Service ==
  /\ Taking({"service"}) /\ Only /\ UNCHANGED typemap
  /\ Goes([Here EXCEPT !.body = <<Named>> \o @, !.path = Append(@, Statement.name[1])])

\* The brace that ends a body.
Close ==
  /\ ~Idle /\ Here.at <= Len(Text) /\ Statement.k = "end" /\ Here.body # <<>>
  /\ Goes([Here EXCEPT !.body = Tail(@), !.prefix = Head(Here.body).prefix, !.path = Head(Here.body).path])
  /\ Only /\ UNCHANGED typemap

\* toplevel:option.
Option ==
  /\ Taking({"option"}) /\ Only /\ UNCHANGED typemap
  /\ Goes([Here EXCEPT !.info.items = Append(@, Item("option", Statement.name, 0))])
\* msgbody:extensions and msgbody:reserved.
Reserve == Taking({"extensions", "reserved"}) /\ Goes(Here) /\ Only /\ UNCHANGED typemap

\* label_field: which labels a field may have.
LabelOK(label, isMap) ==
  IF Body.is = "oneof" THEN label = ""
  ELSE IF label = "" THEN Here.syntax = "proto3" \/ isMap
  ELSE Here.syntax = "proto3" /\ label = "optional" => order.proto3_optional /\ Body.is = "message"

\* map_info: the fields of the type of a map's entries.
Entries(st, entry) ==
  LET value == TypeInfo(st.type)
  IN  <<[Item("field", "key", 1) EXCEPT !.in = Append(@, entry), !.type = st.key],
        [Item("field", "value", 2) EXCEPT !.in = Append(@, entry), !.type = value.type, !.type_name = value.name]>>

\* The name of the choice that a field belongs to (msgbody:oneof, label_field).
Choice(st) ==
  IF st.label = "optional" /\ Here.syntax = "proto3" THEN "optional_" \o st.name
  ELSE IF Body.is = "oneof" THEN Body.name[1] ELSE ""

\* field: a map brings the type of its entries.
Field ==
  /\ Taking({"field"})
  /\ LET st == Statement
         isMap == st.key # ""
         entry == EntryName[st.name]
         typed == IF isMap THEN [type |-> "message", name |-> <<entry>>] ELSE TypeInfo(st.type)
         item == [Item(IF Body.is = "extend" THEN "extension" ELSE "field", st.name, st.number)
                    EXCEPT !.label = IF st.label # "" THEN st.label ELSE IF isMap THEN "repeated" ELSE @,
                           !.type = typed.type, !.type_name = typed.name, !.oneof = Choice(st),
                           !.extendee = IF Body.is = "extend" THEN Body.name ELSE @]
         c == [Here EXCEPT !.info.items = Append(@, item)]
     IN  IF ~LabelOK(st.label, isMap) \/ InvalidType(st.type) \/ (isMap /\ (st.key \notin KeyTypes \/ Taken(entry)))
         THEN Refuse
         ELSE /\ typemap' = IF isMap THEN Put(typemap, FullName(entry), "message") ELSE typemap
              /\ IF st.number <= 0 THEN Fail /\ UNCHANGED loaded
                 ELSE /\ Goes(IF isMap THEN [c EXCEPT !.info.items = @ \o Entries(st, entry),
                                                      !.info.types = @ \cup {Place("message", entry)}] ELSE c)
                      /\ Only

\* A constant of an enumeration (toplevel:enum).
Value ==
  /\ Taking({"value"})
  /\ Goes([Here EXCEPT !.info.items = Append(@, Item("value", Statement.name, Statement.number))])
  /\ Only /\ UNCHANGED typemap

\* svr_body:rpc: input and output are named types.
Rpc ==
  /\ Taking({"rpc"})
  /\ LET io == {TypeInfo(Statement.type), TypeInfo(Statement.returns)}
     IN  IF (\E t \in io : t.name = <<>>) \/ InvalidType(Statement.type) \/ InvalidType(Statement.returns) THEN Refuse
         ELSE /\ Goes([Here EXCEPT !.info.items = Append(@, [Item("rpc", Statement.name, 0) EXCEPT
                         !.type_name = Statement.type, !.extendee = Statement.returns])])
              /\ Only /\ UNCHANGED typemap

\* Whatever else stands there is no statement of this body, or none at all; a file must
\* not end inside a body.
Other ==
  /\ ~Idle
  /\ IF Here.at > Len(Text) THEN Here.body # <<>>
     ELSE LET k == Statement.k
          IN  ~(k = "end" /\ Here.body # <<>>) /\ ~(k = "syntax" /\ Here.at = 1) /\ k \notin Takes[Body.is]
  /\ Refuse

----------------------------------------------------------------------------
\* The resolver.  Mutant: from the outermost scope inwards.
LookupOuter(scope, n) ==
  LET known == {i \in 0 .. Len(scope) : SubSeq(scope, 1, i) \o n \in DOMAIN typemap}
  IN  IF known = {} THEN <<>> ELSE SubSeq(scope, 1, CHOOSE i \in known : \A j \in known : i <= j) \o n

\* check_type: the name is looked for from the innermost scope outwards; <<>> is an error.
Lookup(scope, n) ==
  LET known == {i \in 0 .. Len(scope) : SubSeq(scope, 1, i) \o n \in DOMAIN typemap}
      found == CHOOSE i \in known : \A j \in known : j <= i
  IN  IF n[1] = "" THEN IF n \in DOMAIN typemap THEN n ELSE <<>>
      ELSE IF known # {} THEN SubSeq(scope, 1, found) \o n
      ELSE IF order.unknown_type THEN <<"">> \o n ELSE <<>>
KindOf(full) == IF full \in DOMAIN typemap THEN typemap[full] ELSE "message"

\* check_field and the types of check_service: item x with the full names.
ScopeOf(info, x) == <<"">> \o info.package \o (IF x.k = "rpc" THEN <<>> ELSE x.in)
Checked(info, x) ==
  LET full(n) == IF n = <<>> THEN <<>> ELSE Lookup(ScopeOf(info, x), n)
  IN  IF x.k \notin {"field", "extension", "rpc"} THEN x
      ELSE [x EXCEPT !.type_name = full(@), !.extendee = full(@),
                     !.type = IF x.type_name = <<>> THEN @ ELSE KindOf(full(x.type_name))]
TypesFound(x, y) ==
  /\ (x.type_name = <<>>) = (y.type_name = <<>>) /\ (x.extendee = <<>>) = (y.extendee = <<>>)
  /\ x.extendee # <<>> => KindOf(y.extendee) = "message"
  /\ x.k = "rpc" => y.type = "message"

\* check_dup, for the fields of messages, enumerations of the file itself and calls.
Duplicates(info) ==
  LET x == info.items
      aliases(in) == \E o \in DOMAIN x : x[o].k = "option" /\ x[o].in = in /\ x[o].name = "allow_alias"
  IN  \E i, j \in DOMAIN x :
        /\ i < j /\ x[i].k = x[j].k /\ x[i].in = x[j].in
        /\ \/ x[i].k = "field" /\ (x[i].name = x[j].name \/ x[i].number = x[j].number)
           \/ /\ x[i].k = "value" /\ Len(x[i].in) = 1
              /\ x[i].name = x[j].name \/ (x[i].number = x[j].number /\ ~aliases(x[i].in))
           \/ x[i].k = "rpc" /\ x[i].name = x[j].name

\* The end of a file: it counts as loaded before its names are resolved (Parser:parse,
\* Parser:resolve).
EndOfFile ==
  /\ ~Idle /\ Here.at > Len(Text) /\ Here.body = <<>>
  /\ LET info == Here.info
         all == [i \in DOMAIN info.items |-> Checked(info, info.items[i])]
         good == ~Duplicates(info) /\ \A i \in DOMAIN all : TypesFound(info.items[i], all[i])
         done == [info EXCEPT !.items = all, !.resolved = TRUE]
         keep(i) == IF Here.file = Input THEN Nothing ELSE Info(i)
     IN  /\ loaded' = [loaded EXCEPT ![Here.file] = keep(IF good THEN done ELSE info)]
         /\ IF good THEN Deliver(Info(done), Tail(contexts)) /\ UNCHANGED <<disk, order, calls>> ELSE Fail
  /\ UNCHANGED typemap

Next ==
  \/ \E f \in File : Edit(f) \/ \E o \in Settings : CompileFile(f, o) \/ Compile(f, o)
  \/ Reset \/ Syntax \/ Package \/ Import \/ Message \/ Enum \/ Extend \/ Oneof
  \/ Service \/ Close \/ Option \/ Reserve \/ Field \/ Value \/ Rpc \/ Other
  \/ EndOfFile

Spec == Init /\ [][Next]_protocVars
----------------------------------------------------------------------------
TypeOK ==
  /\ disk \in [File -> Nat] /\ result.is \in {"nothing", "set", "error"}
  /\ \A n \in DOMAIN typemap : n[1] = "" /\ typemap[n] \in {"message", "enum"}
  /\ \A f \in File : loaded[f].is \in {"nothing", "loading", "info"}
  /\ \A i \in DOMAIN contexts : loaded[contexts[i].file].is = "loading"

InfoOf(f) == loaded[f].info
Loaded == {f \in File : IsInfo(loaded[f])}
Declared(info) == {<<"">> \o info.package \o t.in \o <<t.name>> : t \in info.types}

\* Every type belongs to one file, and what is known of it is what that file says.
OneOwner ==
  /\ \A f, g \in Loaded : f # g => Declared(InfoOf(f)) \cap Declared(InfoOf(g)) = {}
  /\ \A f \in Loaded : \A t \in InfoOf(f).types :
       LET n == <<"">> \o InfoOf(f).package \o t.in \o <<t.name>>
       IN  n \in DOMAIN typemap /\ typemap[n] = t.k

\* The bodies around each statement of a text, the outermost first, read off the text.
Around(text) ==
  LET open[i \in 1 .. Len(text)] ==
        IF i = 1 THEN <<>>
        ELSE CASE text[i - 1].k \in {"message", "enum", "extend", "service", "oneof"} -> Append(open[i - 1], text[i - 1])
               [] text[i - 1].k = "end" -> SubSeq(open[i - 1], 1, Len(open[i - 1]) - 1)
               [] OTHER -> open[i - 1]
  IN  open
Messages(bodies) ==
  LET m == SelectSeq(bodies, LAMBDA b : b.k = "message") IN [i \in DOMAIN m |-> m[i].name]

\* What a file can count on to be known: its own types, and those of the files it imports
\* that do not import it in turn.
Imported(info) == {info.dependency[d].name : d \in DOMAIN info.dependency}
Sees(info) ==
  Declared(info) \cup
    UNION {Declared(InfoOf(g)) : g \in {g \in Loaded \cap Imported(info) : info.name \notin Imported(InfoOf(g))}}

\* The full name stands for the word n in a scope: no type that is seen is nearer.
Means(full, n, scope, seen) ==
  IF Len(n) = 1 /\ n[1] \in Basic THEN full = <<>>
  ELSE IF n[1] = "" THEN full = n
  ELSE \E k \in 1 .. Len(scope) :
         /\ full = SubSeq(scope, 1, k) \o n
         /\ \A j \in k + 1 .. Len(scope) : SubSeq(scope, 1, j) \o n \notin seen

\* A file that was resolved holds every field of one of its texts, in the message where
\* the text has it, and its type is the nearest of that name.
NearestType ==
  \A f \in Loaded : InfoOf(f).resolved =>
    \E v \in 1 .. disk[f] :
      LET text == Texts[f][v]
          around == Around(text)
          info == InfoOf(f)
          seen == Sees(info)
      IN  \A i \in DOMAIN text : text[i].k = "field" =>
            LET in == Messages(around[i])
                scope == <<"">> \o info.package \o in
                entry == IF text[i].key = "" THEN <<>> ELSE <<EntryName[text[i].name]>>
                has(name, number, path, n) ==
                  \E x \in DOMAIN info.items :
                    LET y == info.items[x]
                    IN  /\ y.k \in {"field", "extension"} /\ y.in = path /\ y.name = name /\ y.number = number
                        /\ Means(y.type_name, n, <<"">> \o info.package \o path, seen)
            IN  IF entry = <<>> THEN has(text[i].name, text[i].number, in, text[i].type)
                ELSE has(text[i].name, text[i].number, in, entry) /\ has("value", 2, in \o entry, text[i].type)

\* The set of a parser's first call ends with the file that was asked for and holds each
\* file after all that it imports, unless they import it in turn.
ImportsFirst ==
  calls = 1 /\ Idle /\ result.is = "set" /\ order.include_imports =>
    LET files == result.files
        before(i) == {files[j].info.name : j \in 1 .. i - 1}
    IN  /\ files[Len(files)].info.name = order.file
        /\ \A i \in DOMAIN files : \A g \in Imported(files[i].info) :
             g \in before(i) \/ (g \in Loaded /\ files[i].info.name \in Imported(InfoOf(g)))
=============================================================================

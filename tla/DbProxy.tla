------------------------------ MODULE DbProxy ------------------------------
(***************************************************************************)
(* db/proxy: a server finds the group of a key by its slot, and the master *)
(* of the group; the master gives writes to the first of its child         *)
(* services, which it does not wait for, and reads in turn to the others.  *)
(* All children of a server use one store.  The services that call, the    *)
(* answers of the group service and skynet's messages are external; the    *)
(* masters do not change here (ServerGroup is about them).                 *)
(***************************************************************************)
EXTENDS Integers, Sequences

CONSTANTS
  Client,
  SlotGroup, \* cfg.slot_group: slot -> group
  SlotOf,    \* key -> crc16(key) % SLOT_NUM
  Master,    \* group -> the server that is its master
  Addrs,     \* how many services a server has; 5 in the code
  MaxOpes    \* bound on the operations of a client

\* Slots are numbers, each belongs to a group that has a master, and a server has children that read.
ASSUME SlotsAssumption ==
  /\ DOMAIN SlotGroup # {} /\ DOMAIN SlotGroup \subseteq Nat
  /\ \A val \in DOMAIN SlotGroup : SlotGroup[val] \in DOMAIN Master
  /\ Addrs \in Nat /\ Addrs >= 2

VARIABLES
  call,  \* client -> its operation and how far it has come
  asks,  \* client -> how many operations it has asked for
  asked, \* the writes that were asked for: client -> key -> the set of their numbers
  mail,  \* server -> child -> its messages
  IDX,   \* server -> the child that reads next
  store  \* server -> key -> the writes that were done there
proxyVars == <<call, asks, asked, mail, IDX, store>>

DbKey == DOMAIN SlotOf
Host == {Master[g] : g \in DOMAIN Master}
Child == 1 .. Addrs

\* Slot::find_group: that of the first slot from val on, or of the very first.
FindGroup(val) ==
  LET least(S) == CHOOSE x \in S : \A y \in S : x <= y
      from == {x \in DOMAIN SlotGroup : val <= x}
  IN  SlotGroup[least(IF from = {} THEN DOMAIN SlotGroup ELSE from)]
MasterOf(k) == Master[FindGroup(SlotOf[k])]

Idle == [step |-> "idle"]

ProxyInit ==
  /\ call = [c \in Client |-> Idle] /\ asks = [c \in Client |-> 0]
  /\ asked = [c \in Client |-> [k \in DbKey |-> {}]]
  /\ mail = [s \in Host |-> [i \in Child |-> <<>>]]
  /\ IDX = [s \in Host |-> 2]
  /\ store = [s \in Host |-> [k \in DbKey |-> <<>>]]

----------------------------------------------------------------------------
\* A client asks any server.
Ask(c, s, k, write) ==
  /\ call[c] = Idle /\ asks[c] < MaxOpes
  /\ asks' = [asks EXCEPT ![c] = @ + 1]
  /\ call' = [call EXCEPT ![c] = [step |-> "group", at |-> s, key |-> k, write |-> write]]
  /\ asked' = [asked EXCEPT ![c][k] = IF write THEN @ \cup {asks[c] + 1} ELSE @]
  /\ UNCHANGED <<mail, IDX, store>>

\* Mutant: writes take turns like reads.
ToAnyChild(c, s) ==
  [mail EXCEPT ![s][IDX[s]] = Append(@, [from |-> c, n |-> asks[c], key |-> call[c].key, write |-> call[c].write])]

\* M.ope of db.lua, what it sends.
ToChild(c, s) ==
  LET i == IF call[c].write THEN 1 ELSE IDX[s]
  IN  [mail EXCEPT ![s][i] = Append(@, [from |-> c, n |-> asks[c], key |-> call[c].key, write |-> call[c].write])]

\* cmds.ope of mgr.lua goes on when the group service has told who is master: the
\* other server is called, or the operation is done here.
GroupTold(c) ==
  /\ call[c].step = "group"
  /\ LET m == MasterOf(call[c].key)
     IN  IF m # call[c].at
         THEN call' = [call EXCEPT ![c].at = m] /\ UNCHANGED mail
         ELSE /\ mail' = ToChild(c, m)
              /\ call' = [call EXCEPT ![c] = IF call[c].write THEN Idle ELSE [@ EXCEPT !.step = "read"]]
  /\ UNCHANGED <<asks, asked, IDX, store>>

\* A child does the first of its messages, cmds.ope of db.lua.
Work(s, i) ==
  /\ mail[s][i] # <<>>
  /\ LET m == Head(mail[s][i])
     IN  /\ store' = [store EXCEPT ![s][m.key] = IF m.write THEN Append(@, <<m.from, m.n>>) ELSE @]
         /\ call' = [call EXCEPT ![m.from] = IF m.write THEN @ ELSE [@ EXCEPT !.step = "answer"]]
  /\ mail' = [mail EXCEPT ![s][i] = Tail(@)]
  /\ UNCHANGED <<asks, asked, IDX>>

\* The answer of a read arrives, and IDX moves on.
Answer(c) ==
  /\ call[c].step = "answer"
  /\ IDX' = [IDX EXCEPT ![call[c].at] = IF @ + 1 > Addrs THEN 2 ELSE @ + 1]
  /\ call' = [call EXCEPT ![c] = Idle]
  /\ UNCHANGED <<asks, asked, mail, store>>

ProxyNext ==
  \/ \E c \in Client :
       \/ GroupTold(c) \/ Answer(c)
       \/ \E s \in Host, k \in DbKey, write \in BOOLEAN : Ask(c, s, k, write)
  \/ \E s \in Host, i \in Child : Work(s, i)

ProxySpec == ProxyInit /\ [][ProxyNext]_proxyVars

----------------------------------------------------------------------------
ProxyTypeOK ==
  /\ asks \in [Client -> 0 .. MaxOpes]
  /\ \A s \in Host : IDX[s] \in 2 .. Addrs
  /\ \A c \in Client : call[c].step \in {"idle", "group", "read", "answer"}

\* Where a client's writes to a key are, among what was done, on its way and not told yet.
Done(st, c) == {i \in DOMAIN st : st[i][1] = c}
Sent(ml, c, k) == {i \in DOMAIN ml : ml[i].write /\ ml[i].from = c /\ ml[i].key = k}
Untold(c, k) == IF call[c].step = "group" /\ call[c].write /\ call[c].key = k THEN {asks[c]} ELSE {}

\* A client counts its operations.  Each write that was asked for is in one of the places,
\* once, and the numbers grow from what was done to what is not told yet.
Ordered(st, ml, untold, all, c, k) ==
  LET done == {st[i][2] : i \in Done(st, c)}
      sent == {ml[i].n : i \in Sent(ml, c, k)}
  IN  /\ \A i, j \in Done(st, c) : i < j => st[i][2] < st[j][2]
      /\ \A i, j \in Sent(ml, c, k) : i < j => ml[i].n < ml[j].n
      /\ \A n \in done : \A later \in sent \cup untold : n < later
      /\ \A n \in sent : \A later \in untold : n < later
      /\ done \cup sent \cup untold = all

\* The writes of a client to a key are done at the master of its group, once each and in
\* the order it asked for them, though it waits for none and asks now this server, now
\* that.
WritesInOrder ==
  \A c \in Client, k \in DbKey :
    LET m == MasterOf(k)
    IN  /\ Ordered(store[m][k], mail[m][1], Untold(c, k), asked[c][k], c, k)
        /\ \A s \in Host \ {m} : store[s][k] = <<>>
=============================================================================

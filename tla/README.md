# luatest: specifications

This directory holds TLA+ specifications of the programs in this repository, the TLC
configurations that model-check them and proofs checked by TLAPS: of the Raft server, its
snapshots and its log, of kcp, and of most of the parts that work alone.
The repository is a collection of building blocks of a game server: libraries in C and
C++ with Lua bindings (`raft`, `kcp`, `mmoccskill`, `slg`, `rank`, `timer`, ...), and
services in Lua (`db`, `leveldb`, `battle`, `quest`, `synobj`, ...). There is no single
program that uses all of them; what interacts is named below.

Contents: [the parts](#1-the-parts) ·
[modules and code](#2-modules-and-the-code-they-model) ·
[runs](#3-runs) · [bounds](#4-bounds-and-why-they-are-enough) ·
[fairness](#5-fairness) · [proofs](#6-what-is-proved) ·
[disagreements](#7-where-code-and-comments-disagree) ·
[not modelled](#8-what-is-not-modelled) · [plan](#9-plan)

To repeat a run: `tlc -workers 2 -config RaftElections.cfg Raft`; to check the
proofs: `tlapm RaftProofs.tla`, and so for `RaftSnapshotProofs`, `KcpProofs`,
`PartsProofs`, `World`, `SlgWorld`, `SlgMap` and `ParallelSet`. `PROJECT.json` lists the runs, for each property a
mutant of the model that breaks it, for each definition the lines it models, and the
hazards the properties are for.

## 1. The parts

### Raft library (`raft/raft`)

*State.* Per server: `current_term`, `voted_for` and the log (persistent, through the
callbacks `persist_term`, `persist_vote`, `log_offer`, `log_pop`, `log_poll`); role,
leader, commit and applied index, timers, snapshot marks and flags; a table of nodes
with their `next_idx`, `match_idx` and flags. The log is a circular array with a base
(`raft_log.c`).
*Operations.* `raft_periodic`, the handlers `raft_recv_requestvote`,
`raft_recv_requestvote_response`, `raft_recv_appendentries`,
`raft_recv_appendentries_response`, `raft_recv_entry`, the snapshot calls
(`raft_begin_snapshot`, `raft_end_snapshot`, `raft_cancel_snapshot`,
`raft_begin_load_snapshot`, `raft_end_load_snapshot`) and the node table, which changes
as configuration entries are appended, popped and applied.
*Interaction.* Servers exchange messages through the `send_*` callbacks; everything
durable, and the state machine, is behind callbacks that can fail.
*Hard.* Messages that are lost, late or repeated; restarts; a callback that fails in the
middle of a handler; compaction while followers lag; configuration entries that are
taken back; the array growing while it wraps.
*Correct when.* One leader per term, matching logs, committed entries kept by later
leaders, state machines that apply the same entries in the same order, a node table that
follows from the log, an array that is the sequence it stands for.

### kcp (`kcp/cc/ikcp.c`, bound by `lkcp.c`)

*State.* Send queue and send buffer, receive buffer and receive queue, three counters
modulo 2^32, windows, acknowledgements to send, the flags of window probing.
*Operations.* `ikcp_send`, `ikcp_recv`, `ikcp_input`, `ikcp_update`/`ikcp_flush`.
*Interaction.* Two ends talk over UDP.
*Hard.* Loss, repetition, reordering; acknowledgements that come late; wrap-around of
the counters; a window that closes and whose reopening is lost; messages in several
fragments that may not fit the window.
*Correct when.* Every message that was sent is read once, whole and in order, nothing is
dropped from the send buffer before the peer has it, and under a network that is not cut
for ever everything arrives.

### Stores (`leveldb/cluster`, `leveldb/ldb`, `db`)

*`leveldb/cluster`* numbers every write of a key, appends it to a file and, after
`FILE_VERSION` writes, dumps the newest version of each key and begins the file again
(`version.lua`); `ldbtool.cc` reads the file back (`Version`), keeps the index of the dumps
(`Dumpf`) and collects changes per slot (`Slot`). Hard: a crash between two of the file
operations of a rotation; which dump another node has to start from. Correct when a restart
continues with the version before the crash, and a node that catches up from the files
gets every key that changed.

*`leveldb/ldb`* keeps hashes in leveldb, one row per field, and reads keys and fields a
page at a time. Hard: writes between the pages. Correct when what is there during the
whole scan is found.

*`db`*: `group/mgr.lua` chooses a master among the servers of a group as each of them learns
of the others; `proxy/mgr.lua` sends an operation to the master of a key's group;
`proxy/db.lua` has one child service for writes and four for reads; `version` is empty.
Hard: the news of servers and of masters arrive at different servers in different orders; an
operation waits for several services, one after another. Correct when no two servers send an
operation back and forth, a server that holds itself for the master is the first of those
it knows, and the writes of a key are done in the order they were asked for.

### Game state

- *`synobj`*: the server's tree of a player's data; changes are noted and sent to the client
  as a tree of updates or of deletions when `tick()` runs. Correct when the client that
  merges what it is sent has the server's data.
- *`mmoccskill`* and its earlier form *`mmo`*: actors on a map cut into squares (area of
  interest), a search for ways around blocked fields (`astar.cc`), skills with ranges. Correct when
  those who are near each other were told so and nobody else, on both sides, whatever the moves; when a
  way is found exactly if there is one; and when a skill meets the nearest of those it may meet. An answer has room for `AOIMAX` actors.
- *`jps`*: jump point search with a cache of how far each line runs, which the caller renews after blocks were set. Hard:
  searches between a change and the renewal. Correct as above, which the code is not (section 7); what it does promise is
  `FindsByLines`.
- *`slg/new`* and its earlier form *`slg/cc`*: marches that cross the rectangles players look at, and
  entities and obstacles that take up fields. Correct when what a player was told to show is what crosses
  the rectangle, and what is blocked is what stands there.
- *`battle`* (and an unfinished C++ form `battlecc`): rounds, skills and buffs with ids that begin
  again at `0xffff`, whose end is in a timer. Correct when a unit's attribute is its base and
  what its live buffs add.
- *`attr`*: sums of attributes over sources, kept by differences or computed again, and what changed.
- *`quest`*: quests that count events, with an index of who waits for what. Correct when a
  quest's number is what happened since it was accepted, and it is done when it should be.
- *`rank`* and *`ranklua`*: the best N by score. Correct when the best of all scores are kept.
- *`timer`*, *`lru`*, *`time`*: timers in two ordered sets; a list of keys and an index of its nodes;
  windows of time that come back daily, weekly, monthly or yearly, or count from the day the server opened.

### Containers and codecs

- *`parallel_hashmap`*: the flat hash table (`jps/new`, `mmo`, `slg/new` and `ldbtool.cc` use it), the
  parallel sets and maps, which are several of those behind locks, and B-trees. Hard: tombstones that
  fill the table; growth in place; the order in which parts are locked, and what is read before a lock is
  exchanged for a stronger one; places that must follow their values through merges.
- *`tsl`*, *`trie/hat`*: a hash table of arrays, and a trie whose leaves are such tables. Hard: leaves that
  burst, nodes that become empty while the trie is walked, prefixes that end inside a leaf.
- *`pb`*: protocol buffers for Lua: a hash table with chains in its cells, the schema with counted names,
  encoder and decoder (`pb.c`, `pb.h`), and a compiler of schemas (`protoc.lua`). Hard: schemas that are loaded
  over each other, messages of another version of a schema, lengths known only at the end, files that
  import each other.
- *`msgpack`*: the same format in Lua and in C++. Hard: values at the borders of the formats, an
  encoder object that is used again after an error.

Correct when a container does what a plain function from keys to values would, every search ends, and
what one program writes another reads.

The rest is glue without state (`tool`, `zstd`, `co.lua`, `util.lua`) and other people's code that nothing
here extends (the C++ of leveldb, `trie/pdbs`).

## 2. Modules and the code they model

*Raft and kcp*

| Module | Code | What its state and actions stand for |
|---|---|---|
| `Raft` | `raft_server.c`, `raft_server_properties.c`, `raft_node.c` | All servers and every message ever sent. An action is one call of the library: `Periodic` (as leader, waiting, standing for election), one action per outcome of each `raft_recv_*` handler, `RecvEntry`, and `Restart` from what the callbacks saved. Fixed membership, no snapshots. `late` is "the election timeout has passed"; `Faults` says which callbacks may fail, and every call that uses one has its error path. |
| `RaftProofs` | | The theorems about `Raft` (section 6). |
| `EntryLog` | what `raft_log.h` promises | A sequence of entries after a base index. |
| `RaftLog` | `raft_log.c` | The circular array: `size`, `count`, `front`, `back`, `base`, the slots. Implements `EntryLog` by the mapping `Entries == [k \in 1..count \|-> At(k - 1)]`. |
| `RaftSnapshot` | the snapshot code of `raft_server.c`, with `raft_send_appendentries` and `raft_recv_appendentries` around a compacted log | A leader within its term and its followers, each of which snapshots, cancels, compacts and loads, and goes on replicating, committing and applying while it does. Entries carry ids, so that what a state machine applied is visible. The history variable `misled` has the followers that took one of the steps that the code gets wrong (section 7). |
| `RaftSnapshotProofs` | | The theorems about `RaftSnapshot`. |
| `Membership` | `raft_offer_log`, `raft_pop_log`, `raft_append_entry`, `raft_apply_entry`, `raft_node.c` | The node table of one server, as a leader whose clients propose and as a follower whose leader sends and takes back, in any order. The history variable `astray` has the nodes of which the code loses track. |
| `MessageChannel` | what kcp promises | Two queues of messages that are sent and read. |
| `Kcp` | `ikcp.c`, `ikcp.h`, `lkcp.c` | Both ends and the network. `Update` is a whole `ikcp_flush`: acknowledgements, probes, window answers, segments that enter the window, segments that are due. Implements `MessageChannel`. |
| `KcpProofs` | | The theorems about `Kcp`. |
| `KcpClock` | `ikcp_update`, `ikcp_check`, `ikcp_update_ack`, the times in `ikcp_flush` | One end and a clock that wraps: when it flushes next, what `ikcp_check` answers, the estimate of the round trip, and when a segment is sent again, while the program calls early, late or much too late. |

*Stores and services*

| Module | Code | What its state and actions stand for |
|---|---|---|
| `VersionLog` | `version.lua`, `ldbtool.cc` | The files on disk, what is in memory, and where `M.add` is in a rotation; `Crash` may come between any two file operations. `history` begins anew when a crash leaves the file without its header, as the version numbers do, and `stale` has the dumps that were made before that. |
| `Ldb` | `ldb/db.lua`, `lleveldb.cc` | The rows, and a scan of keys or of one key's fields that is read a page at a time while others write. |
| `ServerGroup` | `db/group/mgr.lua`, `db/proxy/mgr.lua` | Per server what it knows of the group and its master; messages that do not wait. The cluster layer is external. |
| `DbProxy` | `db/proxy/db.lua`, `mgr.lua`, `slot.lua`, `Slot` of `ldbtool.cc` | Clients whose calls go to the service of the key's group, to its master and to one of the master's children, with mailboxes in between, and the slots that tell which keys changed. |
| `Timer` | `timer/cc/ltimer.cc` | The two sets of timers, the one by id and the one by time, as `add`, `del`, `delid` and `expire` change them. |
| `Lru` | `lru/cc/llru.cc`, the metamethods of `lru/test.lua` | The list of the keys, in which the index finds them, and the Lua table that loses what is evicted. |
| `Rank`, `RankLua` | `rank/cc/lrank.cc`, `ranklua/rank.lua` | The ordered set and the sorted array, their indices, and the last score given for each id. `RankLua` implements `Rank`'s specification. |
| `TimeWindow` | `time/time.lua` | `now`, tick by tick, and the window that each kind of configuration answers; dates are added up as `os.time` does. |

*Game state*

| Module | Code | What its state and actions stand for |
|---|---|---|
| `ObjectSync` | `synobj/syn2.lua` | The player's items and fields on both sides, and the trees of updates and deletions noted. |
| `World` | `mmoccskill/cc/world.cc`, `aoi.cc`, `range.h`, `skill.cc` | Positions, the index by squares, whom each actor was told it sees, and whom a skill with a circle, a sector or a rectangle meets. Answers are cut at `Most` (`AOIMAX`), and the history variable `cut` has who got such an answer. Its theorem stands at its end. |
| `Mmo` | `mmo/cc/map.cc`, `lmap.cc`, `mmo/map.lua`, `skill.lua` | The entities at positions in halves, their cells, which have the whole part of them, the objects of `map.lua` beside them, what one that moves is told, and the skills. |
| `Astar`, `Jps` | `mmoccskill/cc/astar.cc`, `jps/new` | One search, one round of its loop per step; for `Jps` one search after the other, with the cache of the lines, and blocks that change between them, with and without `jpcache`. |
| `SlgMap`, `SlgWorld` | `slg/new`, `slg/cc` | Marches, visions and what each player was told to show, with the geometry that says which segments cross a rectangle; entities, obstacles and the fields they take, one over the other or not, as nothing in the code keeps them apart. Their theorems stand at the end of each. |
| `Battle` | `battle/battle.lua`, `skill.lua`, `cc/stimer.cc` | Buffs by id, what they hang on, the attribute, and the timer. |
| `Attr` | `attr/attr1.lua`, `attr2.lua` | What each source gives, both sums, and what the client was told. |
| `Quest` | `quest/quest.lua` | Quests, the index, and what the events brought in all. |
| `PartsProofs` | | The theorems about `ServerGroup`, `ObjectSync`, `Quest`, `VersionLog`, `RaftLog`, `DbProxy`, `Membership`, `Ldb`, `Rank`, `Timer`, `Attr`, `Battle` and `Lru`. |

*Containers and codecs*

| Module | Code | What its state and actions stand for |
|---|---|---|
| `Dictionary` | what a map promises | A function from keys to values. |
| `SwissTable` | `raw_hash_set` of `phmap.h`, `phmap_base.h` | Control bytes, slots, size and growth left; probing by groups, tombstones, `drop_deletes_without_resize`, copies, tables that were moved from. Implements `Dictionary`. |
| `AtomicMaps` | what the parallel sets promise | Maps on which the calls of several threads take effect key by key, each at one moment. |
| `ParallelSet` | `parallel_hash_set`, `parallel_hash_map`, the locks of `phmap_base.h` | Two threads in calls that lock part by part, both, or one after the other. Implements `AtomicMaps`. |
| `BTree` | `btree.h` | Nodes with parents, places, keys and children; insertion with and without a hint, erasing of a key or a range, copies, merges of two sets. A call is one step. |
| `ArrayHash` | `array_hash.h`, `array_map.h`, `array_growth_policy.h` | Buckets of keys with the places of their values: operators, which `HTrie` uses for its leaves, and the map made of them, which implements `Dictionary`. |
| `HTrie` | `htrie_hash.h`, `trie/hat/ltrie.cc` | Nodes by their prefix, each a node of the trie or a table of suffixes; every call of the binding. Implements `Dictionary`. |
| `PbTable` | `pb_Table` of `pb.h` | Cells with their chains, and the cell that a search for a free one has come to. Implements `Dictionary`. |
| `PbSchema` | the schema in `pb.h`, `pb.load`, `pb.clear` | Names with their counts, types, fields in the tables by name and by number, the sorted list, the freed ones. |
| `PbCodec` | `pb.c` | A message written with one schema and read with another, field by field. |
| `PbWire` | `pb_Slice` and `pb_Buffer` of `pb.h`, `pb.buffer` and `pb.slice` of `pb.c` | Bytes that are written item by item, with lengths put in before what was written, and read back, entered and left. |
| `Protoc` | `protoc.lua` | Files as sequences of statements, the stack of files that are being parsed, the types and files that are remembered, the resolver, the sets of files that are compiled. |
| `MsgPack` | `msgpack.lua`, `msgpack.cc`, `lmsgpack.cc` | Both encoders and decoders as functions, and the encoder object with what the last call left in it. |

*Instances.* `MCParts` (game state and stores) and `MCTables` (containers, services and codecs) hold many small
modules in one run each: the variable `part`, chosen in the initial state, says which of them moves, and the others
keep their initial state. They share no state and could be a run each; one run has the same states and one start-up.
`MCParts` extends `VersionLog`, `ServerGroup`, `ObjectSync`, `Quest`, `Membership`, `Ldb`, `Attr` and `Battle`, and `MCTables` extends `RaftLog`, `DbProxy`,
`Rank`, `Timer` and `Lru`, so that what these runs check is what the theorems state; the other parts are instances. The remaining modules are run as they
are: `Raft` and `RaftSnapshot` hold their own symmetry and view at their ends.

A definition keeps the name of the function or field it stands for where it can. Definitions that
begin with `\* Mutant:` are plausible mistakes; no specification uses them.

What is modelled by more than its name: the messages of `Raft` and `RaftSnapshot` are a set that only
grows, or a bag of bounded size, from which any message may be taken at any time, which covers loss,
delay, repetition and reordering; the segments of a kcp datagram travel one by one, which allows more than
the network can do, never less; time is the choice of when a timer is due, but in `KcpClock` and `Timer`, where it is a
number.

External code, modelled from how it is used: the cluster layer of `db`, leveldb as a sorted map,
the application's snapshot transfer, the client that merges what `synobj` sends, the game that acts on
the answers of `mmoccskill`, and the programs that call the containers.

## 3. Runs

Eight runs pass and four find a violation (section 7).

| Run | Distinct states | What it shows |
|---|---|---|
| `raft_elections` | 20,836 (up to symmetry) | Three servers that all stand and crash, callbacks `persist_term`, `log_offer`/`log_pop` and `applylog` that fail. `ElectionSafety`: one leader per term. `VoteKept`: a vote, once cast, is kept over every step of the term, a restart included. `CommittedStays`: what a server counts as committed stays in its log until it restarts. |
| `raft_replication` | 200,387 | Two terms, logs of two entries. `LogMatching`: two logs with entries of one term at an index agree up to it, though messages with fewer entries come late. `LeaderAppendOnly`. `TypeOK`: no next index reaches 0. |
| `raft_overwrite` | 319,548 | Four terms and a leader that crashes: the history in which an entry of an old term reaches a majority late. `LeaderCompleteness`, `StateMachineSafety`, and `Assertions`: what the handlers assert or log as "should never happen" does not. |
| `raft_snapshot` | 1,529,335 (up to symmetry) | A leader and two followers snapshot, cancel, compact and load while they replicate, commit and apply over a lossy network. `AppliedInOrder`: each state machine gets each entry once, in order. `LogIsTheLeaders`, `AcknowledgedIsHeld`, `MarksInOrder`, and `NoShutdown`: no message finds a committed entry it wants replaced. They speak of the leader and of each follower until it is misled. |
| `kcp` | 1,048,864 | Two messages past the wrap of the sequence numbers over a network that loses, repeats and reorders. `ImplementsChannel` (refinement), `NothingForgotten`, and `ReceiveWindow`: no more than the window, and the receiver never waits for the rest of a message it has no room for. |
| `kcp_live` | 112,316 | `EverythingArrives` under the fairness of section 5, though the window closes and its reopening may be lost. |
| `parts` | 1,133,452 | Nineteen instances of parts of stores and game state; the table below. |
| `tables` | 194,583 | Nineteen containers, services and codecs; the table below. |
| `raft_vote_fault`, `raft_snapshot_prev`, `raft_snapshot_term`, `raft_one_change` | | The violations of section 7. |

A property of `parts` or `tables` that speaks of several parts is a conjunction: what it says of each is a definition of that
part's module, which this table names.

| Property | Part | What the module's definition says |
|---|---|---|
| `OneMasterWins` | `ServerGroup` | `ForwardsGoDown`: an operation that is passed on goes to a server with a smaller name. `MasterIsFirstItKnows`: who holds itself for the master knows nobody before it. |
| `ReplicaFollows` | `ObjectSync` | The client that merges what it was sent has the server's data, but for what is noted and not sent yet. |
| `FindsAWay` | `Astar` | The way found is walkable and ends at the goal, and there is one whenever there is a way, for quick searches and others. |
| | `Jps` | `CacheLeadsToJumpPoints`: while nothing changed since `jpcache`, each line of the cache ends at a jump point or before a blocked field. `FindsByLines`: a goal on a line from the start is found, and every way that is answered, after a change of blocks too, ends at the goal that was asked for and goes straight or diagonally from field to field. |
| `SumsAddUp` | `Attr` | Both forms hold the sums, and the client that is told the differences too. |
| `BuffsAddUp` | `Battle` | The attribute is the base and what the live buffs add; buffs, their functions and their timers end together. |
| `ShowsWhatIsThere` | `World` | `SeesNeighbours`: of two actors whose answers were not cut, each was told of the other just when they are near. `MeetsTheNearest`: a skill, with any of the three ranges, meets the nearest it may, as many as it may, where no more than `AOIMAX` are around. |
| | `Mmo` | `FindsTheNearest`: a search finds as many as it asks for, none in a farther cell than one that it leaves out, and what one that moves is told is never wrong. |
| | `SlgMap` | `VisionFollows`: what is shown is what crosses the vision. `TilesAreWhatStands`: `area_eid` answers none but those that stand in the area and all that nothing was put on, and `area_obstacle` refuses what meets something and nothing else. |
| | `SlgWorld` | `ViewsFollow`, `BlocksAreWhatStands`: the same for the earlier form. |
| `CountsEvents` | `Quest` | Every quest has counted what happened since it was accepted, once. |
| `OnTime` | `TimeWindow` | `TellsTheNextWindow`: the answer is the window that is open now or else the next one. |
| | `KcpClock` | `NothingIsLate`: who sleeps as long as `ikcp_check` says misses no flush, and no segment is due before it. |
| `RecoversAll`, `CatchUp` | `VersionLog` | A restart goes on from the last version given out since the file was last without its header; a node that lags gets every key that changed, from a dump that is found by its version, once no dump is left from before that. |
| `NodesFollowLog` | `Membership` | The node table is what the log says of every node that is not astray. |
| `ScanFindsAll` | `Ldb` | What is there during the whole scan is found. |
| `Ring`, `ReadsAreEntries` | `RaftLog` | Counters and slots agree; a read from an index on gives entries of the log that follow each other. |
| `FiresOnce` | `Timer` | `expire` gives each timer that is due, once, at its last time and the earlier first, and no other. |
| `KeepsTheBest` | `Rank` | The best of all scores are kept, and `get_order` tells their places. |
| `WritesInOrder` | `DbProxy` | The writes of a client to a key are done in the order they were asked for. |
| `SearchesEnd` | `SwissTable`, `ArrayHash`, `HTrie`, `PbTable` | Each search ends and finds what is there (`PbTable`'s `ChainsHold`: every chain of cells comes to an end); `HTrie`'s `FindsPrefixes`: all words of a prefix are met once each, the longest prefix of a word is found, no node is empty. |
| | `RankLua` | `IsTheRanking`: the array is the ranking in its order, and `get_order` and `info` find places in it. |
| | `Lru` | `KeepsTheNewest`: the table holds what was used last. |
| | `BTree` | `KeepsItsShape`: what `verify()` asserts, and more: parents, places, depth, the ends, and the place that each call returns. |
| | `ParallelSet` | `StuckOnlyBySwaps`: two threads wait for each other for ever only when both swap. |
| `MessagesArrive` | `PbCodec` | `RoundTrip`: what is encoded with one schema is decoded with the other as the types say, defaults and unknown fields included. |
| | `PbSchema` | `NothingDangles`: no name, type or list leads to a field that was freed, and names are counted right. |
| | `PbWire` | What is written item by item is read, by any slices; nothing is read behind the end. |
| | `Protoc` | `OneOwner`: a type belongs to one file. `NearestType`: a name means the nearest type that was known when it was resolved. `ImportsFirst`: with `include_imports` a file of a set comes after those it imports. |
| | `MsgPack` | `ArrivesWhole`: what either encoder writes both decoders read back, but for what the formats cannot tell apart. `RefusedForCause`: an error has a cause in this call, none in one before. `CutIsMissed`, `HeadsArrive`: of a message that was cut nothing whole is read, and lengths at the borders of the formats are read as they were written. |
| `Implements` | | `RaftLog` implements `EntryLog`; `RankLua` implements `Rank`; `SwissTable`, `ArrayHash`, `HTrie` and `PbTable` implement `Dictionary`; `ParallelSet` implements `AtomicMaps`, with mutexes that can be shared and with plain ones. |
| `TypeOK`, `TablesTypeOK` | all | The types of the variables. |

Only `parts`, `tables` and `raft_one_change` do not check for deadlock: each part ends when its bounded
calls are used up. In the other runs something can always happen (a timer, a restart, a flush).

## 4. Bounds, and why they are enough

**Raft.** Three servers: the smallest set with a majority that is not everybody. One value: two
different entries of one term and index would take two leaders of a term, or a leader that rewrites its log, which
`ElectionSafety` and `LeaderAppendOnly` rule out.
- `raft_elections` ends at term 2 with logs of one entry; everybody stands and crashes, so two
  candidates of one term, a voter that forgets, and a second term after a commitment all occur.
- `raft_replication` has two electors: diverging logs need two leaders, the third server is the one
  whose log is repaired. Logs of two entries give messages with zero, one and two entries and a
  refused previous entry.
- `raft_overwrite` has four terms and lets one server restart: the shortest history
  in which counting the copies of an old entry goes wrong needs three elections after
  the first, and the mutant `CommitAnyTerm` finds it.
- `StaleDelivery = FALSE` drops messages of a term that is over. Each handler answers them and changes
  nothing, but the answers may bring the sender to a newer term, which other messages do as well. The proofs do not use it.
- `VIEW LiveView` takes states as equal that differ only in what no step will read: messages
  that are ignored for good, flags of votes outside a candidacy, next and match indices outside of office,
  `lastApplied`. No property of those runs reads them either, but for `TypeOK`. It is proved in general, as are all properties of the Raft runs.
- `SYMMETRY` permutes servers, in runs of invariants and action properties only.

**RaftSnapshot.** One term of a leader with two entries of the term before; the elections around it are `Raft`'s. Two
followers, so that a majority does without one; up to three entries; two messages under way; snapshots at any index, of either kind,
during which everything else goes on. A follower that was misled is not followed on (`Followed = {}`): what happens to it afterwards is
not asserted, the messages it sent before stay under way, and the proof has no such bound. Of the four ways to be misled
(section 7) three occur in the run; entries that are misplaced are sent (`raft_snapshot_prev`), and to be taken they need a longer log.

**Kcp.** A window of two segments, one of three on the other side; sequence numbers modulo 24 that
start at 23, so that they wrap at once, and all that is sent stays below half the range; messages without a segment, of two, and of four, which are more than the receive window and are refused; two
packets under way; one side sends (both ends run all of the code, and the two directions
share only the window field). `kcp_live` has a send window of one. The two messages make an
answer to the first meet the segments of the second.

**Stores and services.** Three servers with six starts and stops; files of two versions, up to version 7 and two crashes, which
gives three rotations and crashes at any of their steps, twice without a header; three nodes, of which two are founders, and logs of four entries, in any order, as long as at most one node goes astray (`MaxAstray`);
three keys with two fields and pages of one item, the smallest page. `RaftLog` has two slots and six entries: the array doubles at
2 and at 4, from every rotation. `KcpClock` runs over ticks 60 to 70 of a clock of 64 with two segments, and is called up to four
ticks late; `Far`, the 10,000 ms of the code, is 5. `DbProxy`: two clients with two operations, two groups, one writing child and two that
read. `Timer`: two ids, two texts and two times. `Lru`: three keys for two places and six uses. Both rankings: scores up to 3 for three ids of
which two are kept. `TimeWindow`: eight configurations, among them a window that crosses the year, one of a whole week, and
one of the 29th of February, at every half day from two weeks before a new year to its third month.

**Game state.** Four ids for three buffs a round over three rounds, so that ids begin again while buffs are alive;
maps where actors move within a square, to the next and over several, and off the map, with an `AOIMAX` of two, where three are too many, and of 200, where
they are not; every set of blocked fields of a 4 × 3 map for `Astar`; for `Jps` the same map with up to two blocked fields, one change
and any number of searches, quick and not, before and after `jpcache`; a 3 × 3 grid of points for marches, and
entities and obstacles on the edge, in the middle, partly off the map and on each other; quests of one to three events, in any order and set up again.

**Containers.** Small tables whose hash values are chosen so that keys meet:
- `SwissTable`: groups of four places in the place of sixteen, up to seven places, and seven keys that share places and
  hash bits. With fewer keys nothing ever makes `drop_deletes_without_resize` move anything. One value per key: what an assignment to a
  key does is the last line of a search that is checked. A run begins with any table with room and no elements. `Rehash` is called with n > 0, and `rehash(0)` only for a
  table with no elements (section 7).
- `ArrayHash`: four keys, three values' worth of places and up to four buckets, so that the table grows twice;
  `HTrie`: five words over two letters up to length two, tables of up to two words, so that leaves burst at both depths.
- `BTree`: nodes of three and of four values (odd and even, as the halves are rounded), up to 13 keys, which gives three levels; a
  key is a place between others, as trees that differ only in the keys are the same state.
- `PbTable`: five keys, 0 among them, in up to 16 cells.
- `ParallelSet`: two threads, two maps, two parts with a key in each; each thread has its calls, chosen so that every
  pair of kinds meets in one of the two instances; values up to 2. Parts are the tables of `SwissTable`, of which only the content is left.

**Codecs.**
- `PbCodec`: two versions of a schema with every kind of field, five messages, up to two of them in one buffer, decoded with
  either schema and two sets of options. Types that contain themselves are left out where defaults are filled in, as the code goes down until
  the stack ends. `PbSchema`: three files that load types over each other, names counted to two.
- `PbWire`: bytes of two bits and a flag, numbers of five and of seven bits, so that both ways of reading a number and the
  cut of a longer one occur; three items.
- `MsgPack`: numbers and lengths at every border of the formats; four bytes of a string or more are one token; tables up to four
  deep where three are allowed (ten in the code); floats that single precision holds and one that it does not.
  The C++ encoder is given only tables whose lists are in the array part (section 7).
- `Protoc`: five files with up to two texts each, one of which changes, two calls of a parser, all imports, types and
  errors that two settings of the options allow. The package statement comes first.

What is assumed of the callers:
- `Rank`: scores only rise (`Rising`); an id that was pushed out and comes back with a lower score has
  no memory of its better one.
- `ObjectSync`: each change is followed by its `update()`, and messages arrive in order.
- `Membership`: nothing. What the log says of a node is asked as long as each entry about it came in turn (`InTurn`); where an assertion
  of the code would fail, the model stops as the process does (`CanOffer`, `CanPop`, `CanApply`).
- `Battle`: no more buffs are alive than there are ids.
- `Lru`: keys are strings that are not empty.
- `ParallelSet`: what a call returns by reference or iterator is not used after it.
- `PbSchema`: the fields of a type are sorted (`pb.pack`, `pb.unpack`) only while no number was given to another name (section 7).

## 5. Fairness

Only `kcp_live` states fairness (`LiveSpec`). The application calls `ikcp_update` from a timer for
ever (weak fairness of a flush with everything due, which the retransmission timeout of a segment that stays unacknowledged
justifies) and reads what has arrived (weak fairness of `Recv`). The network is not cut for ever:
a flush that is tried again and again gets through sometimes, and what is under way again and
again arrives sometimes (strong fairness). Without these no protocol delivers anything. The window probe is part of
the flush; without it (the mutant `PacketsWithoutProbe`) the run finds the two ends waiting for each other.

## 6. What is proved

Eight modules hold the theorems that TLAPS checks. They speak of every value of the constants: any set of servers, any
windows, any lengths of logs and numbers of terms, any configuration. The bounds of the runs (`MaxTerm`, `MaxLog`,
`Electors`, `Crashing`, `StaleDelivery`, ...) are arbitrary constants there and restrict nothing.

### Raft: `RaftProofs`

Over a network that loses, delays, repeats and reorders, with restarts and any combination of failing callbacks:

| Theorem | States |
|---|---|
| `TypeCorrect` | `TypeOK`. Not only types: a refused message lowers the next index of a follower, and 0 would be an index before the first entry. |
| `OneLeaderPerTerm` | `ElectionSafety`, also when a vote could not be saved |
| `VotesAreKept` | the action property `VoteKept` |
| `LeadersOnlyAppend` | the action property `LeaderAppendOnly` |
| `LogsMatch` | `LogMatching` |
| `LeadersAreComplete` | `LeaderCompleteness` |
| `MachinesAgree` | `StateMachineSafety` |
| `AssertionsHold` | `Assertions`: no message makes a follower delete a committed entry, no answer acknowledges what the leader lacks |
| `CommitsStay` | the action property `CommittedStays` |

The inductive invariant is built in four layers, each of which uses those before it.

1. *`ElectionInv`.* `ElectionSafety` does not say where a leader's votes came from. The invariant does, by the answers sent so
   far: a server's term and vote honour the answers it gave (`VotesHonoured`, over restarts too), it gave one per term
   (`VotesUnique`), candidates and leaders voted for nobody else (`OwnVote`), the flags of a candidate stand for answers of its
   term (`FlagsEarned`), and a leader has a majority of them (`LeaderElected`). Two majorities share a server
   (`MajoritiesMeet`), which gave two answers in one term.
2. *`TenureInv`.* Who may say what: only who won a term sends entries in it, and only from its log (`SentByLeaders`); a candidate's log
   is the one it asked votes for (`RequestsTrue`); what is acknowledged to a leader is in its log (`AcksTrue`), and its match and
   next indices stand for such acknowledgements (`ProgressTrue`). So a leader never gets a message of its own term.
3. *`MatchingInv`* `== \E H : LogsInv(H)`. No variable remembers the logs that are gone, but messages still carry
   them; so the invariant says that there is a set `H` of all logs some server has had. Two logs of `H` with an
   entry of one term agree up to it (`OneHistory`), no log has an entry of a leader's term that the leader has not
   (`LeaderAhead`), and each message is a piece of a log in `H` (`MessagesCarry`). The theorem needs that a follower compares terms
   only, and still replaces nothing wrongly.
4. *`ConsensusInv`* adds, over the same `H`, that each entry is either kept by every log of a later term or `Lost`: a
   majority has left the entry's term without acknowledging it, so that it can never be committed (`KeepInv`). What is
   counted as committed lies before an entry that a majority acknowledged in its own term, the rule of
   `raft_recv_appendentries_response` (`CommitInv`). Such an entry is never lost, as two majorities meet.

Every handler is treated by one lemma on its `Effects`; the layers use these and not the handlers.

### Snapshots: `RaftSnapshotProofs`

`MachinesApplyInOrder`, `LogsAreTheLeaders`, `MarksKeepTheirOrder`, `AcknowledgementsHold` and `NobodyShutsDown` state the five
invariants of `raft_snapshot`, for any followers, marks and lengths, with no premise: snapshots are taken at any index, of either kind,
while the same node goes on, and what the code gets wrong (section 7) happens. The invariants leave out a follower from the moment
it took one of those steps (`Misleads`, or loading a snapshot while it takes one), and no other: the leader is never left out, and what
misled followers send and acknowledge, for ever after, spoils nothing for the rest. `SnapshotInv` says

- of every node that was not misled that its log, counters, marks and state machine are those of the leader's history (`Sound`, for a log
  by `HoldsTo`), but for one entry of an older leader at the end of a follower's log that nobody committed;
- of every node, misled or not, what its counters keep to (`Kept`), so that it never brings the leader to count what a majority has not;
- that the mark of the last completed snapshot is that of the last entry that was compacted, which a cancellation
  gives back, and the one in progress is of an entry that is committed and applied;
- that nobody who was not misled is ahead of the leader, that what it acknowledged it holds, and that each message in flight tells of
  that history, the misplaced ones too, whose entries are the leader's although they do not begin where the message says.

### kcp: `KcpProofs`

`StreamsAreKept` proves the invariant `KcpInv`, from which follow `ReceiverIsBounded` (`ReceiveWindow`), `SegmentsAreNotForgotten`
(`NothingForgotten`) and `ConnectionIsAChannel`: every step of the two ends is a step of `MessageChannel` or none. The segments that a peer
ever cut are in no variable either. `KcpInv` says that for each direction there is a sequence of them, with four places in it (read,
in order, acknowledged, numbered), of which the send queue, the send buffer, the receive buffer, the receive queue, the acks
and every packet are parts. The numbers modulo `SeqMod` then tell segments apart as long as they are less than half
the range from each other.

### Parts: `PartsProofs`

| Theorem | States | By |
|---|---|---|
| `MastersAgree` | `OneMasterWins` | `GroupInv`: what a server was told of, and what is under way, is a master before the one addressed |
| `ClientFollows` | `ReplicaFollows` | `SyncInv`: updates and deletions are trees, and only one of the two is noted |
| `QuestsCount` | `CountsEvents` | `QuestInv`: a quest is in the index of its type exactly while it is not done |
| `StartFindsAll`, `LaggardsCatchUp` | `RecoversAll`, `CatchUp` | `VersionInv`: what the file, the memory, the index and each dump say of the history at every step of a rotation (`FileFollows`, `MemoryFollows`, `IndexFollows`, `DumpsFollow`); a crash without a header begins a new history, and the dumps and index entries of the one before are `stale` until they are deleted or written over |
| `TableFollowsLog` | `NodesFollowLog` | `MemberInv`: for each node that is not astray the entries about it came in turn (`Disciplined`), the log says nothing about it after a removal that is not applied, and the table fits every log between the applied entries and the present one (`Fits`), so that what is taken back leads to a table that fits again; entries about one node leave the others as they are |
| `WritesKeepTheirOrder` | `WritesInOrder` | `ProxyInv`: writes are on their way to the first child of the master only (`FirstChild`), a client has at most one read on its way (`OneRead`), and what is done, on its way and not told of yet are the numbers it asked for, in order |
| `ScansFindAll` | `ScanFindsAll` | `ScanInv`: what was told is in order and before the cursor, each row before the cursor that stayed was told, and the cursor is on the first row of its item |
| `TheBestAreKept` | `KeepsTheBest`, if scores only rise (`Rising`) | `RankInv`: what is outside is worse than all inside, which are `Limit` many if anything is outside (`Ranking`) |
| `TimersFireOnce` | `FiresOnce` | `TimerInv`: `iter_` has just the places of the timers in `timer_`, which are those that are wanted |
| `SourcesAddUp` | `SumsAddUp` | `AttrInv`: each sum that is kept is that of what the sources give now, and what one source gives changes a sum by its difference |
| `EffectsAddUp` | `BuffsAddUp` | `BattleInv`: the ids of a unit's buffs are the last that were given out, as many as it has timers (`Arc`), so that the next id is free as long as there are fewer than ids |
| `TheNewestAreKept` | `KeepsTheNewest`, a conjunct of `SearchesEnd` | `LruInv`: the list is in the order of the last uses (`NewestFirst`), and of a key that fell off at least `Num` are newer and so is all that stays (`Forgotten`) |
| `EndsAgree`, `ReadsGiveEntries` | `Ring`, `ReadsAreEntries` | `RingInv`: both ends of the array and its count fit |
| `ArrayIsASequence` | `RaftLog` implements `EntryLog` | each function is one step of the sequence, by the mapping `Entries` |

Three of these proofs are about sorted data: rows, elements and places are told in an order that the models define by counting
what comes before (`PlaceIn`, `InTime`). The lemmas on finite sets in a strict order serve all of them: no two elements have
the same number before them and every number occurs (`BelowCounts`, `EveryPlaceIsTaken`), and what is listed by these numbers is sorted
and complete (`SortedIs`). Loops over data (the entries that a follower takes back, the elements that are read back into a ranking) are
recursive functions or rows of states; what holds after each step is shown by the least step at which it would not. Sums over a set
are a fold of the community modules, which takes some element after the other; `SumAtAny` (an element may be taken out first,
whichever the fold takes) and `SumOfSame` are proved from the least set that would be an exception.

### Maps: `World`, `SlgWorld`, `SlgMap`

Three maps keep an index by place beside what stands on them, and tell others of it. What each of these theorems states is one
conjunct of `ShowsWhatIsThere`, which `parts` checks for that map.

| Theorem | States | By |
|---|---|---|
| `EachSeesItsNeighbours` | `SeesNeighbours`: after any entering, moving and leaving, two actors that never got an answer that was cut were told of each other just when their squares touch, whoever else was told too little | `WorldInv`: the index holds each actor in the square of its position and nothing else, and seeing is mutual among those |
| `BlocksFollow` | `BlocksAreWhatStands` of `slg/cc` | `WorldInv`: an entity has its points to itself, and blocked, unless the game lifted a block under it (`loose`); wherever the game blocks a point it stays so until it or the entity there goes |
| `TilesFollow` | `TilesAreWhatStands` of `slg/new` | `TileInv`: what an id has on the table is its own area, or left from one it had when it was added twice (`strayed`); what nothing was put on or taken from has all its tiles (`loose` are the others) |
| `VisionsAnswer` | `AnswersAreWhole`: the difference that `vision_diff` answers next brings a player from what it was told to what is there, and `area_vid` finds the visions | `VisionInv`: what a player was told is what its vision remembers, and the table of centres holds each vision at its present centre |
| `ViewsFollowInView` | `ViewsAnswer`: the same for the views of `slg/cc`, whatever views and troops were set, moved and taken away | `ShownInv`: what a player was told is what its view remembers, and nothing if it has no view |

`AnswersAreWhole` is `VisionFollows`, and `ViewsAnswer` is `ViewsFollow`, without the geometry: that `MarchInVision` finds just the marches
whose segment does not miss the rectangle is arithmetic on products, and TLC checks it on the points of the run.

### Parallel containers: `ParallelSet`

`CallsAreAtomic` proves, for any threads, calls, keys and parts, that `ParallelSet` implements `AtomicMaps`: each call treats each of its keys
once, at one moment while it runs, and answers by what was there at that moment. `LockInv` says that what a thread saw under its locks is
still there (`Sees`), that it holds every part it is about, and to write what it may change (`Holds`), and that nobody else holds that part
(`Exclusive`). Two places need care: `erase` of a key that is not there works under a lock for reading, and a
call about one map looks at the other without a lock, which its effect and answer do not depend on (`EffectIs`, `AnswerIs`).
That threads wait for ever only as `StuckOnlyBySwaps` says is about ENABLED and stays with TLC.

### What the theorems assume

- `Raft`: a finite set of more than one server, `Nil` not one of them.
- `RaftSnapshot`: at least one follower and finitely many, and terms that rise from `StrayTerm` over `OldTerm` to `Term`.
- `Kcp`: windows of at least one segment that together are less than half the range of numbers, as they are below 2^31;
  and `NumbersAssumption`, that all segments ever sent, with both windows, are less than half the range. The code needs less: that no packet
  is older than half a round of the numbers. The network of the model keeps packets for ever, and no bound on their age is in it.
- `RaftLog`: an initial capacity of at least one, and a blank slot that is no entry. `ServerGroup`: names that can be compared.
  `Quest`: targets that are numbers. `VersionLog`: a number of dumps to keep.
- `DbProxy`: slots are numbers, each in a group that has a master, and a server has a service for writes and at least one for reads, as `proxy/db.lua` starts them.
  `Membership`: founders among the nodes, the server one of them. `Ldb`: finitely many keys and fields, which are ordered, and pages of at least one.
  `Rank`: ids that are ordered, a limit that is a natural number, and `Rising`. `Lru`: finitely many keys and a limit of at least one, as `create` demands. `Timer`: ids, texts and times that are ordered.
  `Attr`: finitely many sources, and values that are integers. `Battle`: amounts that are integers, and fewer buffs of a unit in a round (`MaxBuffs`) than ids (`IdEnd`);
  `battle/skill.lua` counts on it, as an id that is given out twice in a round would take the place of its buff.
- `World`: sizes of at least one and coordinates that are integers (`Maps`). `SlgMap`: no entity has the id -9999999, by which
  obstacles are marked; the code does not check it, and its users give positive ids. `SlgWorld` and visions: nothing.
- `ParallelSet`: `ProperUse`: calls about two different maps and keys of these, keys that belong to parts, and one thread where the mutex is
  `NullMutex`, as phmap.h demands.

The constants' assumptions are `ASSUME`s of the modules, so TLC evaluates them in the runs. `Rising`, `Maps`, `OBSTACLE_ID \notin Id` and `ProperUse` are premises of the theorems that need them; the runs are made with constants that satisfy them.

### What is model-checked only

- `EverythingArrives` (`kcp_live`), as liveness under fairness and ENABLED are out of the prover's reach.
- The parts whose code computes by recursion or by loops over data with more than an order in them: `Astar`, `Jps`, `RankLua`, the
  containers, the codecs. What a recursive definition computes for all inputs needs induction over data, whose theorems take an operator as a parameter, which
  the installed provers cannot instantiate; and a module with a `RECURSIVE` operator loses its SMT backend. Arguments by a
  least number do work (`LeastNatural` and `LeastNumber`, from `NatLessThanWellFounded`), and the proofs above use them in place of induction.
- The geometry in `ShowsWhatIsThere`: `MeetsTheNearest` with sectors and rectangles, `FindsTheNearest`, `MarchInVision`, and the cells that a
  route of `SlgWorld` crosses.
- `OnTime`: `TellsTheNextWindow` rests on the dates of a calendar; `NothingIsLate` needs bounds on the times of segments that the code does not have, as the timeout of
  a segment grows with each time that it is sent again.

## 7. Where code and comments disagree

Each of the first four has a run that shows it.

1. `raft_server.c:190`: `raft_become_candidate` ignores the result of `raft_vote`. When `persist_vote` fails,
   the candidate has no vote and grants the next request of its term, which the comment at line 604 rules out and an
   assertion checks. There is still one leader per term, as `OneLeaderPerTerm` shows.
2. `raft_server.c:917`: the previous entry of a message comes from `snapshot_last_*`, which a snapshot in progress has
   moved already; the entries that follow start before it.
3. `raft_server.c:1383`: loading a snapshot sets the term and clears the vote without `persist_term`, and
   may go back to an older term.
4. `raft_server.c:806`: `raft_append_entry` notes the index before that of the voting change. On a
   follower that index is applied first and the mark is reset; once elected, it takes a second change.

Met while modelling. Where a property would fail of it, the property says where it stops, by a history variable of the model:

- `raft_server.c:1316` asserts that nothing was committed since the snapshot began, which
  `RAFT_SNAPSHOT_NONBLOCKING_APPLY` allows: `raft_end_snapshot` then ends the process (`EndAssertions`).
- Four steps of a follower go wrong, and mislead it in `RaftSnapshot`:
  it takes the entries of a message whose previous entry is that of a snapshot in progress (`raft_server.c:917`), which end up at other indices;
  it takes a message that starts at entry 1 when its own log is compacted, and appends the entries again (`raft_server.c:505`);
  it commits up to the end of its log and not up to the last entry that the message covered (`raft_server.c:518`), by which it counts
  entries of an older leader as committed, or passes the end of an empty log, where `raft_set_commit_idx` asserts;
  and it loads a snapshot while it takes one, whose cancellation gives back the mark from before both (`raft_server.c:1293`).
- `raft_server.c:951`: `raft_send_appendentries_all` returns at the first node that needs a snapshot;
  the nodes after it get no heartbeat.
- `raft_server.c:1178`: taking back the entry that adds a node again whose removal is not applied yet removes the
  node; a node added as a voter at once and taken back stays as a non-voter; taking back an entry that adds the server
  itself as non-voting ends at `assert(0)` (line 1208).
- `raft_server.c:843`: a node that comes back before its removal is applied is taken out of the table when it is, and applying its
  addition looks into a node that is not there. `raft_server.c:1160`: an entry that adds a node that votes already fails the assertion.
  Nothing in `raft.h` forbids these entries; in `Membership` they lead the node astray or end the process.
- `raft/raft/raft.h:67` says that demoted nodes become inactive; `raft_offer_log` (line 1163) takes their vote and leaves them active.
  `NodesFollowLog` holds them to neither.
- `raft_log.c:134`: `log_clear_entries` hands `count + 1` slots to the callback.
- `lraft.c:155`: with a message of several entries the binding passes on one.
- `version.lua:55`: a crash after the truncation leaves a file without header, from which the next start
  counts from 1 again, beside the dumps of the versions before: those are lost to the process, their numbers are given out again, and
  until the old dumps are gone a node that lags may be led to one of them (`stale`).
- `db/group/mgr.lua:85`: the master a server knows need not be the first of the servers that run, as the news arrive in any
  order; `MasterIsFirstItKnows` states what does hold. `parse_servername` reads `string.sub(3, -1)`, which is "3" for
  every name, so that all servers count as of group 0.
- `leveldb/ldb/db.lua`: `SCAN` may miss a key that lost the field the cursor stands on and got a smaller one,
  which is why `ScanFindsAll` speaks of rows that stay; `htraversal` (line 104) is bound to the traversal of keys.
- `kcp/cc/ikcp.c` tells of a dead peer in `state` (line 1111), which nothing reads; `lkcp.c` does not bind `ikcp_check`.
- `mmoccskill`: `range.h` takes `d.y_` for both components of a direction, and a rectangle may miss who is straight ahead, as `acos` of a value
  just above 1 is not a number (`IsMet`). `aoi.cc:70`: where more than `AOIMAX` are around, some are not told of, and nothing makes up for it later.
- `mmo`: `map.lua`'s `del_entity` never takes the entity out of the core, whose place an object that comes later under its id has; `add_entity`
  takes the place of an object that is there. `Map::add_entity` asks whether a place that was never set is blocked, and `diff_aoi` compares rows of both old and new
  cells with the new one. Cells are cut towards zero, so that those beside zero are wider, and a search takes whom it meets cell by cell, so that in a
  cell it may leave out the nearer; skill 300 always raises an error.
- `jps`: `jps/new`, compiled and compared with an exhaustive search. With at most one blocked field it always
  finds a way that can be walked; with two, 2 of 11,880 searches on 4 × 3 maps give a way through a blocked field; with three, 22 of 31,680 miss a way and 20
  give a bad one; on larger maps a few never end. Ways may begin beside the start or jump over a blocked field, a goal that cannot be
  reached may be "found", one in sight off the lines be missed, and where the start gets a field before it, `genret` walks in a circle. `jps/old` is the same code.
  `FindsByLines` states what is left.
- `slg/cc`: lifting a block under an entity leaves an entity that does not block. `slg/new` lets entities and obstacles stand on each other, and what goes takes the tiles of both;
  an id that is added twice leaves its former tiles in the table for ever.
- `attr1.lua`: `diff_attr` answers nothing. `attr2.lua`: the first call answers the table that a later one empties.
- `timer` and `lru`: setting a timer again takes it out and puts it in; a key that is a number stays in the Lua table for ever.
- `ranklua/rank.lua:59`: a caller that changes the data it gave makes the next `add` remove nothing or somebody else.
- `time/time.lua`: a monthly window on a day that a month does not have begins in the next month, as `os.time` does.
- `db/proxy`: a read does not wait for the writes asked for before it.

*Hash tables and trees.*
- `phmap.h:1698`: `rehash(0)` on a table of 15 fills it to the last place, against "7/8" at line 578, and the next search for a key that is
  not there does not end. Nothing here calls it; the model's `Rehash` takes n > 0, and `Released` is `rehash(0)` of a table with no elements.
- `array_hash.h:1660`: a table that was read back has a load threshold of 0, so that the next new key quadruples its buckets. The model does that too.
- `btree.h`: `erase(key)` of the containers calls `erase_range`, which does not exist; nothing instantiates it.
- `pb.h:903`: when a table grows after cells were emptied, the value of key 0 is lost. `ImplementsDictionary` of `PbTable` speaks of the other keys.
- `phmap.h:3574`: `a.swap(b)` and `b.swap(a)` in two threads may wait for each other for ever (`merge` uses `std::lock`). `clear`, `for_each` and
  `merge` lock part after part, so that their effect is not one moment's; `AtomicMaps` promises key by key. `extract(key)` finds under a lock and takes out without it;
  `emplace` hashes a slot before it is built.

*Protocol buffers.*
- `pb.h:1173`: `pb_sortfield` leaves places of its list unset when a number was given to another name, and `pb.pack` reads them.
- `pb.c:2028`: `unpack` forgets what came before of a repeated field whose elements do not follow each other, and leaves a value on the stack when
  a singular field comes twice in a row.
- `pb.c`: a nested message that comes twice is replaced, not merged; empty nested messages of proto3 are not written; false always is.
- `protoc.lua:846`: a file counts as loaded before its names are resolved. One that fails there is given back unresolved by the next call; one that
  fails earlier stays "loading", which `parse` calls a loop and `import` takes for loaded. Its types stay "already defined".
- `protoc.lua:1151`: with `include_imports`, files that an earlier call loaded bring none of theirs.
- `protoc.lua:516`: in a loop of imports, the inner file sees only what the outer one has declared before its import.

*MessagePack.*
- `lmsgpack.cc:110`: a list that Lua keeps among the nodes of a table is written in their order, and a table whose length equals the number of its
  entries is written as a list though it has other keys; `msgpack.lua` looks at the keys.
- `msgpack.lua:255`: a short string that is cut at the end of a message is taken as it is; everything else that is cut is an error (`CutIsMissed`).
- `msgpack.cc` checks the end of a message only before a marker.

## 8. What is not modelled

- *Raft*: several servers with changing membership, and the flags that come with it
  (`raft_node_has_sufficient_logs`, `connected`); liveness of elections; the Lua binding.
- *kcp*: the congestion window (which `lkcp.c` turns off), and datagrams as packets of several segments.
- *Stores*: partial writes of a record; `get`, `hmget` and `compact` of `leveldb/ldb`, which only pass on.
- *Game*: `synobj/syn.lua`, whose test never sends anything; the attributes and buffs of `mmo/skill.lua`, of which no configuration makes any; `battlecc`,
  which plays no round; what the functions hung on events do; sizes of figures in floating point, for which the models have exact comparisons.
- *Containers*: bit tricks of the groups of `phmap.h`, allocators, node handles and dumps; `array_set.h`, `htrie_set.h` and other growth
  policies, which nothing uses; values of `btree_map` and containers with equal keys; what the parallel containers leave to their callers (iterators and references
  used after the call, `extract`, assignment).
- *Codecs*: hooks, options for numbers and the default metatables of `pb`, iterators for Lua, a state shared by Lua states; `protoc.lua`'s lexer, ranges and
  descriptors as bytes; messages of MessagePack that neither encoder writes, but for those cut short.
- `db/version`, whose functions are empty; `trie/pdbs`, a binding of the trie of GNU pb_ds; `tool`, `zstd`, `co.lua`, `util.lua`, which keep no state; the C++ of
  leveldb.

`PROJECT.json` repeats this per component, with the reason.

## 9. Plan

Done: Raft with its theorems, its log, snapshots and node table; kcp with its clock; the stores and their services; the
game state in both of its forms where there are two; the containers and codecs; and the theorems of section 6.

Next, theorems: `RankLua` as a refinement of `Rank`, whose binary search ends at
a least interval; `PbTable` as a refinement of `Dictionary`; `KcpClock` under a bound on how often a segment is sent.

And of the system: Raft with changing membership over several servers, messages of which the Lua binding passes on one entry, and the
term and vote of a server that loads a snapshot together with elections.

----------------------------- MODULE VersionLog -----------------------------
(***************************************************************************)
(* leveldb/cluster/version.lua: every write of a key gets the next         *)
(* version number and is appended to a file; after FileVersion writes the  *)
(* newest version of each key is dumped and the file begins again.  Other  *)
(* nodes catch up from the dumps and the file.  The process may crash      *)
(* between any two file operations; what was flushed stays.  A crash that  *)
(* leaves the file without its header makes it begin again from version 1, *)
(* beside the dumps of its former versions.                                *)
(***************************************************************************)
EXTENDS Integers, Sequences, FiniteSets

CONSTANTS
  Key,
  FileVersion, \* FILE_VERSION
  DumpMax,     \* DUMP_MAX
  MaxVersion,  \* bound: no write is taken at this version
  MaxCrashes   \* bound on crashes

ASSUME DumpMaxAssumption == DumpMax \in Nat

VARIABLES
  file,    \* the version file: its first version and its records, or Empty
  dumps,   \* the dump files, a set of pairs of a first version and what it holds
  version, \* VERSION
  min,     \* minversion of curr_ins
  core,    \* key -> newest version since min (ldbtool's Version)
  dumpIndex, \* dumpf_core: the first versions of the dumps
  step,    \* where M.add is in a rotation, or down
  history, \* the key of every version since the file was last left without a header
  stale,   \* first versions of dumps and of index entries that were made before that
  crashes
disk == <<file, dumps>>
memory == <<version, min, core, dumpIndex>>
versionVars == <<disk, memory, step, history, stale, crashes>>

Empty == [min |-> 0, records |-> <<>>]
File(m) == [min |-> m, records |-> <<>>]
Dump(m, held) == [min |-> m, held |-> held]
NoKeys == [k \in {} |-> 0]

\* Version.add: a key moves to its newest version.
Add(held, k, v) == [x \in DOMAIN held \cup {k} |-> IF x = k THEN v ELSE held[x]]

\* Version.deseri of the records of a file, the first of which is of version v.
Held(keys, v) ==
  [k \in {keys[i] : i \in DOMAIN keys} |->
     v - 1 + (CHOOSE i \in DOMAIN keys : keys[i] = k /\ \A j \in i + 1 .. Len(keys) : keys[j] # k)]

\* Version.last.
Last(held, none) ==
  IF DOMAIN held = {} THEN none
  ELSE LET vs == {held[k] : k \in DOMAIN held} IN CHOOSE v \in vs : \A w \in vs : w <= v

VersionInit ==
  /\ file = Empty /\ dumps = {}
  /\ version = 0 /\ min = 0 /\ core = NoKeys /\ dumpIndex = {}
  /\ step = "down" /\ history = <<>> /\ stale = {} /\ crashes = 0

----------------------------------------------------------------------------
\* Mutant: goes on from the first version of the file.
StartAtMin ==
  /\ step = "down"
  /\ IF file = Empty
     THEN file' = File(1) /\ min' = 1 /\ version' = 0 /\ core' = NoKeys
     ELSE /\ min' = file.min /\ version' = file.min - 1
          /\ core' = Held(file.records, file.min)
          /\ UNCHANGED file
  /\ dumpIndex' = {d.min : d \in dumps} /\ stale' = stale \cap dumpIndex'
  /\ step' = "ready"
  /\ UNCHANGED <<dumps, history, crashes>>

\* M.init: M.revert, or M.create_ins(1) if the file is missing or has no header;
\* then M.sort_dump_files.
StartLog ==
  /\ step = "down"
  /\ IF file = Empty
     THEN /\ file' = File(1) /\ min' = 1 /\ version' = 0 /\ core' = NoKeys
     ELSE /\ min' = file.min
          /\ core' = Held(file.records, file.min)
          /\ version' = Last(core', file.min - 1)
          /\ UNCHANGED file
  /\ dumpIndex' = {d.min : d \in dumps} /\ stale' = stale \cap dumpIndex'
  /\ step' = "ready"
  /\ UNCHANGED <<dumps, history, crashes>>

\* M.add: the record is flushed before the function goes on; at a multiple of
\* FileVersion it goes on with a rotation.
AddKey(k) ==
  /\ step = "ready" /\ version < MaxVersion
  /\ version' = version + 1
  /\ core' = Add(core, k, version')
  /\ file' = [file EXCEPT !.records = Append(@, k)]
  /\ history' = Append(history, k)
  /\ step' = IF version' % FileVersion = 0 THEN "dump" ELSE "ready"
  /\ UNCHANGED <<dumps, min, dumpIndex, stale, crashes>>

\* ins.gen_file: a file named after the first version is opened, by which it is
\* emptied, and gets what is held when it is closed.
OpenDump ==
  /\ step = "dump"
  /\ dumps' = {d \in dumps : d.min # min} \cup {Dump(min, NoKeys)} /\ stale' = stale \ {min}
  /\ step' = "fill"
  /\ UNCHANGED <<file, memory, history, crashes>>

WriteDump ==
  /\ step = "fill"
  /\ dumps' = {d \in dumps : d.min # min} \cup {Dump(min, core)}
  /\ dumpIndex' = dumpIndex \cup {min}
  /\ step' = "truncate"
  /\ UNCHANGED <<file, version, min, core, history, stale, crashes>>

\* M.create_ins: open with "w" empties the file, and the header is written when it
\* is closed.
Truncate ==
  /\ step = "truncate"
  /\ file' = Empty
  /\ step' = "header"
  /\ UNCHANGED <<dumps, memory, history, stale, crashes>>
WriteHeader ==
  /\ step = "header"
  /\ file' = File(version + 1) /\ min' = version + 1 /\ core' = NoKeys
  /\ step' = "ready"
  /\ UNCHANGED <<dumps, version, dumpIndex, history, stale, crashes>>

\* Mutant: the sort is the other way round.
DelNewestDumpFiles ==
  /\ step = "ready" /\ Cardinality(dumps) > DumpMax
  /\ dumps' = {d \in dumps : Cardinality({e \in dumps : e.min < d.min}) < DumpMax}
  /\ UNCHANGED <<file, memory, step, history, stale, crashes>>

\* M.del_dump_files: only the DumpMax newest dumps are kept.
DelDumpFiles ==
  /\ step = "ready" /\ Cardinality(dumps) > DumpMax
  /\ dumps' = {d \in dumps : Cardinality({e \in dumps : e.min > d.min}) < DumpMax}
  /\ UNCHANGED <<file, memory, step, history, stale, crashes>>

\* Without a header the next start counts from 1 (#str < 8 in M.revert), and what the
\* dumps tell is of other versions.
Crash ==
  /\ step # "down" /\ crashes < MaxCrashes
  /\ IF step = "header" THEN history' = <<>> /\ stale' = {d.min : d \in dumps}
     ELSE UNCHANGED <<history, stale>>
  /\ step' = "down" /\ crashes' = crashes + 1
  /\ UNCHANGED <<disk, memory>>

VersionNext ==
  \/ StartLog \/ OpenDump \/ WriteDump \/ Truncate \/ WriteHeader \/ DelDumpFiles \/ Crash
  \/ \E k \in Key : AddKey(k)

VersionSpec == VersionInit /\ [][VersionNext]_versionVars

----------------------------------------------------------------------------
VersionTypeOK ==
  /\ file.min \in Nat /\ file.records \in Seq(Key)
  /\ \A d \in dumps : d.min \in Nat \ {0} /\ DOMAIN d.held \subseteq Key
  /\ version \in Nat /\ min \in Nat /\ dumpIndex \subseteq Nat
  /\ DOMAIN core \subseteq Key /\ \A k \in DOMAIN core : core[k] \in min .. version
  /\ step \in {"down", "ready", "dump", "fill", "truncate", "header"}
  /\ history \in Seq(Key) /\ stale \subseteq Nat

\* Whatever step the process crashed at, M.init finds every version that was given out
\* since the file was last left without a header, none twice, and what was written since
\* the last dump.  A crash between truncate and header loses the versions before it, and
\* no other crash loses any.
RecoversAll ==
  step = "ready" =>
    /\ version = Len(history)
    /\ core = Held(SubSeq(history, min, version), min)

\* The first version the files still tell of.
Oldest == IF dumps = {} THEN min ELSE (CHOOSE d \in dumps : \A e \in dumps : d.min <= e.min).min

\* A node that has all versions up to v, and is not too far behind, learns of every
\* key written since from the dumps and the version file, and of no other.
LearnsOfAll ==
  step = "ready" =>
    \A v \in Oldest - 1 .. version :
      {k \in Key : \/ k \in DOMAIN core /\ core[k] > v
                  \/ \E d \in dumps : k \in DOMAIN d.held /\ d.held[k] > v}
      = {history[w] : w \in v + 1 .. version}

\* Dumpf.find_less.
FindLess(v) ==
  LET below == {m \in dumpIndex : m <= v} IN CHOOSE m \in below : \A n \in below : n <= m
DumpIsFound ==
  step = "ready" =>
    \A v \in Oldest .. min - 1 :
      \E d \in dumps :
        /\ d.min = FindLess(v)
        /\ history[v] \in DOMAIN d.held /\ d.held[history[v]] >= v

\* The files tell a node that lags what changed, and a version leads to the dump that holds
\* its key (leveldb/cluster/version.lua, leveldb/cluster/ldbtool.cc), but while dumps or
\* index entries are left from before the file lost its header.
CatchUp == stale = {} => LearnsOfAll /\ DumpIsFound
=============================================================================

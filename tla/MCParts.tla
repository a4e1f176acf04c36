------------------------------ MODULE MCParts ------------------------------
(***************************************************************************)
(* The parts of the server that work alone, each on a small instance,      *)
(* in one run: which part moves is chosen in the initial state, and the    *)
(* others stay as they began.                                              *)
(***************************************************************************)
EXTENDS VersionLog, ServerGroup, ObjectSync, Quest, Membership, Ldb, Attr, Battle

VARIABLES
  part,
  pos, aoi, sees, cut,
  entities, cells, objs,
  block, search, open, closed, pres, ret,
  jBlock, jSearch, jOpen, jClosed, pre, jRet, cache, drawn, current, jChanges,
  march, vision, centers, shown,
  entity, tile, obstacle, loose, strayed,
  wEntity, wTile, wBlock, barred, wLoose, troop, view, wShown,
  now,
  clock, kcp, wake

\* A map on which three are a crowd, and one on which they are not.
Map == INSTANCE World WITH
  Actor <- {"a", "b", "c"}, Length <- 8, Width <- 6, Square <- 2, Xs <- {-1, 3, 9}, Ys <- {0, 4},
  Camp <- [a |-> 1, b |-> 1, c |-> 2], Most <- 2
Hunt == INSTANCE World WITH
  Actor <- {"a", "b", "c"}, Length <- 8, Width <- 6, Square <- 2, Xs <- {-1, 1, 3, 9}, Ys <- {0, 1, 4},
  Camp <- [a |-> 1, b |-> 1, c |-> 2], Most <- 200
Skill == [i \in {100, 101, 200} |->
  [targ |-> IF i = 101 THEN [none |-> 0]
            ELSE IF i = 100 THEN [num |-> 1, type |-> 0, r |-> 2] ELSE [num |-> 2, type |-> -1, r |-> 2]]]
OldMap == INSTANCE Mmo WITH
  Id <- {1, 2, 3}, Type <- <<1, 2, 1>>, Reach <- 2, MaxHits <- 1,
  Spot <- {<<0, 0>>, <<3, 0>>, <<2, 2>>, <<-1, 9>>}, Cfg <- Skill, Nil <- [none |-> 0]

Far == {<<<<0, 0>>, <<3, 2>>, FALSE>>, <<<<0, 0>>, <<3, 2>>, TRUE>>}
Path == INSTANCE Astar WITH
  Length <- 4, Width <- 3, Searches <- Far
Jump == INSTANCE Jps WITH
  Length <- 4, Width <- 3, Searches <- {<<<<0, 0>>, <<3, 2>>, TRUE>>, <<<<3, 1>>, <<0, 1>>, FALSE>>},
  MostBlocks <- 2, MaxChanges <- 1,
  block <- jBlock, search <- jSearch, open <- jOpen, closed <- jClosed, ret <- jRet, changes <- jChanges

Corners == {<<<<1, 1>>, <<2, 2>>>>, <<<<0, 1>>, <<1, 1>>>>, <<<<2, 0>>, <<2, 3>>>>}
Slg == INSTANCE SlgMap WITH
  March <- {1}, Vision <- {11, 12}, Point <- (0 .. 2) \X (0 .. 2), Area <- Corners,
  Id <- {}, Length <- 3, Width <- 3, Place <- {}
Tiles == INSTANCE SlgMap WITH
  March <- {}, Vision <- {11, 12}, Point <- {}, Area <- {}, Id <- {1, 2}, Length <- 3, Width <- 3,
  Place <- {<<<<0, 0>>, <<1, 1>>>>, <<<<1, 1>>, <<2, 2>>>>, <<<<2, 0>>, <<3, 1>>>>, <<<<-1, 2>>, <<0, 2>>>>}
OldSlg == INSTANCE SlgWorld WITH
  Id <- {}, Length <- 3, Width <- 3, View <- {11, 12}, Troop <- {21, 22},
  Areas <- {<<<<0, 0>>, <<1, 1>>>>, <<<<2, 1>>, <<3, 2>>>>},
  Routes <- {<<<<0, 2>>, <<2, 0>>>>, <<<<3, 0>>, <<3, 0>>>>}, Spot <- {},
  entity <- wEntity, tile <- wTile, block <- wBlock, loose <- wLoose, shown <- wShown
OldTiles == INSTANCE SlgWorld WITH
  Id <- {1, 2, 3}, Length <- 3, Width <- 3, View <- {11, 12}, Troop <- {},
  Areas <- {<<<<0, 0>>, <<1, 1>>>>, <<<<1, 0>>, <<2, 1>>>>, <<<<1, 2>>, <<2, 2>>>>, <<<<2, 1>>, <<3, 2>>>>},
  Routes <- {}, Spot <- {<<0, 1>>, <<1, 1>>, <<2, 2>>, <<3, 2>>},
  entity <- wEntity, tile <- wTile, block <- wBlock, loose <- wLoose, shown <- wShown

SourceValues == {-1, 2}

QuestCfgs == [q \in 1 .. 4 |-> [type |-> IF q = 1 THEN "lv" ELSE IF q = 4 THEN "pet" ELSE "acc",
                                num |-> IF q = 4 THEN 1 ELSE IF q = 1 THEN 2 ELSE q]]

\* A day has two ticks; the server opened on a Sunday, the last day of a year but 15.
For(month, day, tick) == [month |-> month, day |-> day, tick |-> tick]
Info(kind, at, dur, nth) == [kind |-> kind, at |-> at, dur |-> dur, nth |-> nth]
Clock == INSTANCE TimeWindow WITH
  PerDay <- 2, FirstYear <- 2023, Open <- 2 * 716, From <- 2 * 716, To <- 2 * 792, Longest <- 2 * 32,
  Infos <- <<Info("weekly", For(0, 3, 1), For(0, 1, 0), 0), Info("weekly", For(0, 7, 0), For(0, 7, 0), 0),
             Info("daily", For(0, 0, 1), For(0, 1, 0), 0), Info("monthly", For(0, 28, 1), For(1, 0, 0), 0),
             Info("yearly", For(12, 20, 0), For(0, 20, 0), 0), Info("date", For(2, 28, 0), For(0, 2, 0), 2025),
             Info("afteropen_period", For(0, 3, 0), For(0, 1, 0), 0),
             Info("afteropen_week", For(0, 1, 1), For(0, 1, 0), 2)>>

Loop == INSTANCE KcpClock WITH
  TimeMod <- 64, Far <- 5, Interval <- 2, RtoMin <- 3, RtoDef <- 4, RtoMax <- 6, FastResend <- 1,
  FastLimit <- 2, Segment <- {1, 2}, Start <- 60, MaxTime <- 70, MaxLate <- 4, now <- clock

MapVars == <<pos, aoi, sees, cut>>
OldMapVars == <<entities, cells, objs>>
PathVars == <<block, search, open, closed, pres, ret>>
JumpVars == <<jBlock, jSearch, jOpen, jClosed, pre, jRet, cache, drawn, current, jChanges>>
SlgVars == <<march, vision, centers, shown, entity, tile, obstacle, loose, strayed>>
OldSlgVars == <<wEntity, wTile, wBlock, barred, wLoose, troop, view, wShown>>
ClockVars == <<now>>
LoopVars == <<clock, kcp, wake>>

Parts == {"group", "sync", "map", "hunt", "oldmap", "path", "jump", "fight", "source", "slg", "tiles", "oldslg", "oldtiles",
          "task", "clock", "loop", "versions", "member", "store"}

\* The search by jump points has nothing while another part moves.
NoJump ==
  /\ jBlock = {} /\ jSearch = <<>> /\ jOpen = <<>> /\ jClosed = {} /\ pre = <<>> /\ jRet = <<>>
  /\ cache = <<>> /\ drawn = {} /\ current = FALSE /\ jChanges = 0

\* The parts with many initial states have one of them while another part moves.
Init ==
  /\ part \in Parts
  /\ \/ part = "jump" /\ Jump!Init
     \/ part # "jump" /\ NoJump
  /\ part = "sync" \/ player = [i \in {100, 200} |-> [f \in {"num", "obj"} |-> 0]]
  /\ part = "path" \/ (block = {} /\ search = <<<<0, 0>>, <<3, 2>>, FALSE>>)
  /\ part = "store" \/ (rows = {} /\ hash = 0)
  /\ GroupInit /\ SyncInit /\ Map!Init /\ OldMap!Init /\ Path!Init
  /\ BattleInit /\ AttrInit /\ Slg!Init /\ OldSlg!Init /\ QuestInit
  /\ Clock!Init /\ Loop!Init /\ VersionInit /\ MemberInit /\ StoreInit

Next ==
  /\ UNCHANGED part
  /\ IF part = "group" THEN GroupNext ELSE UNCHANGED groupVars
  /\ IF part = "sync" THEN SyncNext ELSE UNCHANGED syncVars
  /\ IF part = "map" THEN Map!Next ELSE IF part = "hunt" THEN Hunt!Next ELSE UNCHANGED MapVars
  /\ IF part = "oldmap" THEN OldMap!Next ELSE UNCHANGED OldMapVars
  /\ IF part = "path" THEN Path!Next ELSE UNCHANGED PathVars
  /\ IF part = "jump" THEN Jump!Next ELSE UNCHANGED JumpVars
  /\ IF part = "fight" THEN BattleNext ELSE UNCHANGED battleVars
  /\ IF part = "source" THEN AttrNext ELSE UNCHANGED attrVars
  /\ IF part = "slg" THEN Slg!Next ELSE IF part = "tiles" THEN Tiles!Next ELSE UNCHANGED SlgVars
  /\ IF part = "oldslg" THEN OldSlg!Next ELSE IF part = "oldtiles" THEN OldTiles!Next ELSE UNCHANGED OldSlgVars
  /\ IF part = "task" THEN QuestNext ELSE UNCHANGED questVars
  /\ IF part = "clock" THEN Clock!Next ELSE UNCHANGED ClockVars
  /\ IF part = "loop" THEN Loop!Next ELSE UNCHANGED LoopVars
  /\ IF part = "versions" THEN VersionNext ELSE UNCHANGED versionVars
  /\ IF part = "member" THEN MemberNext ELSE UNCHANGED memberVars
  /\ IF part = "store" THEN StoreNext ELSE UNCHANGED storeVars

Spec == Init /\ [][Next]_<<part, groupVars, syncVars, MapVars, OldMapVars, PathVars, JumpVars, battleVars,
          attrVars, SlgVars, OldSlgVars, questVars, ClockVars, LoopVars, versionVars, memberVars, storeVars>>

----------------------------------------------------------------------------
\* Each property is asked of the part it is about while that part moves: while another
\* does, it stays as it began.  Those of the parts that are extended are theirs.
Of(p, holds) == part = p => holds

\* The types of the variables of all parts.
TypeOK ==
  /\ Of("group", GroupTypeOK) /\ Of("sync", SyncTypeOK) /\ Of("map", Map!TypeOK)
  /\ Of("oldmap", OldMap!TypeOK) /\ Of("path", Path!TypeOK) /\ Of("jump", Jump!TypeOK)
  /\ Of("fight", BattleTypeOK) /\ Of("source", AttrTypeOK) /\ Of("slg", Slg!TypeOK)
  /\ Of("tiles", Tiles!TypeOK) /\ Of("oldslg", OldSlg!TypeOK) /\ Of("oldtiles", OldTiles!TypeOK) /\ Of("task", QuestTypeOK)
  /\ Of("clock", Clock!TypeOK) /\ Of("loop", Loop!TypeOK) /\ Of("versions", VersionTypeOK) /\ Of("member", MemberTypeOK)
  /\ Of("store", StoreTypeOK)

\* Astar finds a way that can be gone where there is one, quick or not
\* (mmoccskill/cc/astar.cc).  The search by jump points, which misses ways among several
\* blocked fields, has cached lines that fit the map they were made for, finds a goal on
\* one of them, and answers with a way to the goal that was asked for (jps/new/jps.cc).
FindsAWay == Of("path", Path!FindsAWay) /\ Of("jump", Jump!CacheLeadsToJumpPoints /\ Jump!FindsByLines)
\* Actors are told of those around them, and a skill meets the nearest it may meet
\* (mmoccskill/cc/aoi.cc, mmo/cc/map.cc); visions show the marches that cross them, and
\* what is blocked is what stands there (slg/new/map.cc, slg/cc/world.cc).
ShowsWhatIsThere ==
  /\ Of("map", Map!SeesNeighbours) /\ Of("hunt", Hunt!SeesNeighbours /\ Hunt!MeetsTheNearest)
  /\ Of("oldmap", OldMap!FindsTheNearest)
  /\ Of("slg", Slg!VisionFollows) /\ Of("tiles", Tiles!TilesAreWhatStands)
  /\ Of("oldslg", OldSlg!ViewsFollow) /\ Of("oldtiles", OldTiles!BlocksAreWhatStands)
\* The answer is the window that is open, or the next (time/time.lua), and whoever asks
\* ikcp_check misses nothing (kcp/cc/ikcp.c).
OnTime == Of("clock", Clock!TellsTheNextWindow) /\ Of("loop", Loop!NothingIsLate)
=============================================================================

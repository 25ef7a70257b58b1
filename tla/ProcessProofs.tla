--------------------------- MODULE ProcessProofs ---------------------------
(***************************************************************************)
(* Proofs about a process and its two parts: a streamer's routing          *)
(* (Routing), the plugin's clients (PluginClients), and Process, which     *)
(* composes them; for any number of submitters, mounts, directories and    *)
(* settings, every set of streamers, wrappers, credentials and             *)
(* environments and every bound on clients and reads.                      *)
(*                                                                         *)
(* Routing: TypeOK, PluginLocked, SettersHonest and EnginesFit hold in     *)
(* every reachable state, what was decided first stays decided, and no     *)
(* dead engine fails a later submission while engines are not shared.      *)
(* First comes what each part of the state is (types, the lock, the        *)
(* setters, the walk over the files, the engines, the blocks), then what   *)
(* each operator and each action does to it, and last the parts are put    *)
(* together into one inductive invariant, Inv.                             *)
(*                                                                         *)
(* The clients' inductive invariant says who has which client and from     *)
(* what it was built (InHand, Fitting), who asked for which read (Asked),  *)
(* what the end of a streamer leaves behind (Ended, Woken), and how what   *)
(* is due of a read, what its responder expects, what it has been told and *)
(* whom it owes an answer fit together (Counted, Expecting, Told, Owed).   *)
(*                                                                         *)
(* The process implements each of its two parts, so that what is shown of  *)
(* them alone holds of it; and the one thing that neither can say alone,   *)
(* that what the streamer's setter accepted is what the clients of its     *)
(* workers were built from.                                                *)
(***************************************************************************)
EXTENDS Process, FiniteSetTheorems, WellFoundedInduction, TLAPS

(* The maps from some of D to R.                                           *)
Partial(D, R) == UNION {[S -> R] : S \in SUBSET D}

MountId == DOMAIN Mounts
DirMap == {f \in Partial(DOMAIN Dirs, MountId \cup {NoMount}) :
             \A d \in DOMAIN f : f[d] \in {Dirs[d], NoMount}}
Block == Nat \cup {Unknown}
Chosen == Strategies \cup {None}
Pcs == {"verify", "lock", "enter", "build", "commit", "publish", "resolve", "groups", "route",
        "probe", "push"}
ReadType == [mount : MountId, late : BOOLEAN]
EngineType == [mount : MountId, key : {Mounts[m].key : m \in MountId}, block : Block,
               strategy : Chosen, queue : Seq(ReadType), dead : BOOLEAN, told : BOOLEAN]
CallerType == [pc : Pcs, at : Nat \ {0}, i : Nat \ {0}, dirs : DirMap,
               blocks : Partial(MountId, Block), measured : Nat,
               route : Seq(MountId \cup {NoMount}), late : SUBSET MountId]
PluginNames == {"S3", "GCS", "Azure"}

(* The state keeps its type.                                               *)
TypeOK ==
  /\ setting \in Settings
  /\ lock \in [pool : BOOLEAN, plugin : PluginNames \cup {None}, ready : PluginNames \cup {None},
               holder : Submitters \cup {None}]
  /\ strategy \in [candidates : Lists \cup {NoList}, from : Lists \cup {NoList, Default},
                   resolved : Chosen]
  /\ direct \in [MountId -> Block]
  /\ engines \in Seq(EngineType)
  /\ byDevice \in [MountId -> Nat]
  /\ dead \subseteq MountId
  /\ caller \in [Submitters -> CallerType]
  /\ creds \in [set : Credentials \cup {None}, client : [Clients -> Credentials \cup {None, Unbuilt}]]
  /\ seen \in [plugins : SUBSET PluginNames, lists : SUBSET Lists, creds : SUBSET Credentials,
               failed : SUBSET ReadType]

(* The plugin lock.  The stages under _plugin_mutex, the stages only a     *)
(* submission to object storage has, and those only one of files has.      *)
Locking == {"build", "commit", "publish"}
ForObjects == Locking \cup {"lock", "enter"}
ForFiles == {"resolve", "groups", "route", "probe"}

(* Verify has sent every submission the right way.                         *)
Sorted ==
  \A t \in Submitters : /\ caller[t].pc # "verify" => caller[t].at <= Len(Plan[t])
                        /\ caller[t].pc \in ForObjects => IsObject(t)
                        /\ caller[t].pc \in ForFiles => ~IsObject(t)

(* Who is in a stage of the lock holds the mutex, and what it has written  *)
(* so far is there; who is past the lock finds its own plugin.             *)
LockHeld ==
  \A t \in Submitters :
    /\ caller[t].pc \in Locking => lock.holder = t
    /\ caller[t].pc = "build" => lock.plugin = None
    /\ caller[t].pc = "commit" => lock.plugin = None /\ lock.pool
    /\ caller[t].pc = "publish" => lock.plugin = Plugin(t)
    /\ caller[t].pc = "push" /\ IsObject(t) => lock.plugin = Plugin(t)

(* The pool comes before the plugin, the plugin before its publication.    *)
LockOrdered ==
  /\ lock.plugin # None => lock.pool
  /\ lock.ready # None => lock.ready = lock.plugin
  /\ \A p \in seen.plugins : p = lock.plugin

(* The list that was walked was the one set, or else the default, and the  *)
(* setters that succeeded named it.                                        *)
StrategySettled ==
  /\ strategy.from = NoList => strategy.resolved = None
  /\ strategy.from # NoList =>
       /\ strategy.resolved = FirstAvailable(strategy.from)
       /\ strategy.from = (IF strategy.candidates # NoList THEN strategy.candidates ELSE Default)
  /\ \A list \in seen.lists :
       list # NoList /\ list = (IF strategy.from # NoList THEN strategy.from ELSE strategy.candidates)

(* At most one value was accepted; clients are built from it or from none. *)
CredentialsSettled ==
  /\ seen.creds = {creds.set} \ {None}
  /\ \A w \in Clients : creds.client[w] \in {Unbuilt, None, creds.set}

(* Files are routed and pushed with a strategy settled; engines have it.   *)
WalksResolved ==
  \A t \in Submitters :
    caller[t].pc \in {"groups", "route", "probe"} \/ (caller[t].pc = "push" /\ ~IsObject(t))
      => strategy.resolved # None
EnginesResolved ==
  \A e \in 1 .. Len(engines) :
    engines[e].strategy = strategy.resolved /\ strategy.resolved # None

(* A walk has a route for every file it has passed; a probe has its file.  *)
Walking ==
  \A t \in Submitters :
    /\ caller[t].pc # "push" => Len(caller[t].route) = caller[t].i - 1
    /\ caller[t].pc = "push" /\ ~IsObject(t) => Len(caller[t].route) >= Len(Submission(t))
    /\ caller[t].pc = "probe" => /\ caller[t].i \in 1 .. Len(Submission(t))
                                 /\ MountOf(Submission(t)[caller[t].i]) \in MountId

(* A mount is bound to at most one engine, one with its key, and its reads *)
(* wait there and nowhere else.                                            *)
Bound ==
  /\ \A m \in MountId : byDevice[m] \in 0 .. Len(engines)
  /\ \A m \in MountId : byDevice[m] # 0 => engines[byDevice[m]].key = Mounts[m].key
  /\ \A e \in 1 .. Len(engines) : \A k \in 1 .. Len(engines[e].queue) :
       byDevice[engines[e].queue[k].mount] = e

(* No key has more engines than the maximum.                               *)
Capped == \A m \in MountId : Cardinality(EnginesOf(m)) <= MaxEngines

(* The blocks submitters and engines have are their mounts' answers.       *)
BlocksMeasured ==
  \A t \in Submitters : \A m \in DOMAIN caller[t].blocks :
    caller[t].blocks[m] = 0 \/ (caller[t].blocks[m] = direct[m] /\ direct[m] # Unknown)
EnginesMeasured ==
  \A e \in 1 .. Len(engines) :
    engines[e].block = 0 \/ (engines[e].block = direct[engines[e].mount]
                             /\ direct[engines[e].mount] # Unknown)
-----------------------------------------------------------------------------
(* A natural number in a set of them is least.                             *)
LEMMA LeastNatural ==
  ASSUME NEW T \in SUBSET Nat, T # {}
  PROVE  \E x \in T : \A y \in T : x <= y
<1>1. PICK x \in T : \A y \in T : ~ (<<y, x>> \in OpToRel(<, Nat))
  BY NatLessThanWellFounded, WFMin, Zenon
<1>2. ASSUME NEW y \in T PROVE x <= y
  <2>1. SUFFICES ASSUME y < x PROVE FALSE
    OBVIOUS
  <2>2. <<y, x>> \in OpToRel(<, Nat)
    BY <2>1, Zenon DEF OpToRel
  <2> QED BY <1>1, <2>2
<1> QED BY <1>2

(* The trial-read ladder answers with a rung, with the page or with 0.     *)
LEMMA LadderType ==
  ASSUME NEW size \in Nat, NEW need \in Nat
  PROVE  LadderBlock(size, need) \in Nat
<1> DEFINE rungs == 1 .. Len(Ladder)
           fits == {i \in rungs : 2 * Ladder[i] <= size}
           good == {i \in fits : need > 0 /\ Ladder[i] >= need}
           least(S) == Ladder[CHOOSE i \in S : \A j \in S : i <= j]
<1>1. ASSUME NEW S \in SUBSET rungs, S # {} PROVE least(S) \in Nat
  <2>1. S \subseteq Nat
    OBVIOUS
  <2>2. (CHOOSE i \in S : \A j \in S : i <= j) \in S
    BY <1>1, <2>1, LeastNatural
  <2>3. \A i \in rungs : Ladder[i] \in Nat
    BY RoutingAssumption
  <2> QED BY <2>2, <2>3 DEF least
<1>2. good # {} => least(good) \in Nat
  BY <1>1
<1>3. fits # rungs => least(rungs \ fits) \in Nat
  BY <1>1
<1> QED BY <1>2, <1>3, RoutingAssumption DEF LadderBlock

(* What a probe of a mount answers is a block size, or 0.                  *)
LEMMA MeasureType ==
  ASSUME NEW file \in Files, MountOf(file) \in MountId
  PROVE  Measure(file) \in Nat
BY LadderType, RoutingAssumption DEF Measure, Files, MountId

(* Adding an entry to a map with some of its keys.                         *)
LEMMA WithType ==
  ASSUME NEW D, NEW R, NEW f \in Partial(D, R), NEW x \in D, NEW y \in R
  PROVE  With(f, x, y) \in Partial(D, R)
<1>1. PICK S \in SUBSET D : f \in [S -> R]
  BY DEF Partial
<1>2. S \cup {x} \in SUBSET D
  OBVIOUS
<1>3. With(f, x, y) \in [S \cup {x} -> R]
  BY <1>1 DEF With
<1> QED BY <1>2, <1>3 DEF Partial

(* Such a map has only those keys, and only those values.                  *)
LEMMA PartialType ==
  ASSUME NEW D, NEW R, NEW f \in Partial(D, R)
  PROVE  DOMAIN f \subseteq D /\ \A x \in DOMAIN f : f[x] \in R
BY DEF Partial

(* Remembering the group of a directory: its mount, or none.               *)
LEMMA DirMapWith ==
  ASSUME NEW f \in DirMap, NEW d \in DOMAIN Dirs, NEW g \in {Dirs[d], NoMount}
  PROVE  With(f, d, g) \in DirMap
<1>1. Dirs[d] \in MountId \cup {NoMount}
  BY RoutingAssumption DEF MountId
<1>2. With(f, d, g) \in Partial(DOMAIN Dirs, MountId \cup {NoMount})
  BY <1>1, WithType DEF DirMap
<1>3. ASSUME NEW e \in DOMAIN With(f, d, g) PROVE With(f, d, g)[e] \in {Dirs[e], NoMount}
  BY DEF With, DirMap
<1> QED BY <1>2, <1>3 DEF DirMap

(* The empty map, with which every submission begins.                      *)
LEMMA EmptyPartial ==
  ASSUME NEW D, NEW R
  PROVE  <<>> \in Partial(D, R)
<1>1. <<>> \in [{} -> R]
  OBVIOUS
<1> QED BY <1>1 DEF Partial

(* Only where a submitter is changes, not what it has found so far.        *)
SameWalk ==
  \A u \in Submitters :
    /\ caller'[u].at = caller[u].at /\ caller'[u].i = caller[u].i
    /\ caller'[u].dirs = caller[u].dirs /\ caller'[u].blocks = caller[u].blocks
    /\ caller'[u].measured = caller[u].measured
    /\ caller'[u].route = caller[u].route /\ caller'[u].late = caller[u].late

(* A submitter that goes on keeps all it has found.                        *)
LEMMA GoType ==
  ASSUME TypeOK, NEW t \in Submitters, NEW pc \in Pcs, Go(t, pc)
  PROVE  /\ caller' \in [Submitters -> CallerType]
         /\ caller'[t].pc = pc
         /\ \A u \in Submitters \ {t} : caller'[u] = caller[u]
         /\ SameWalk
<1> DEFINE c == [caller[t] EXCEPT !.pc = pc]
<1>1. caller[t] \in CallerType
  BY DEF TypeOK
<1>2. c \in CallerType /\ c.pc = pc /\ c.at = caller[t].at /\ c.i = caller[t].i
        /\ c.dirs = caller[t].dirs /\ c.blocks = caller[t].blocks /\ c.measured = caller[t].measured
        /\ c.route = caller[t].route /\ c.late = caller[t].late
  BY <1>1 DEF CallerType
<1>3. caller' = [caller EXCEPT ![t] = c]
  BY DEF Go
<1> HIDE DEF c
<1> QED BY <1>2, <1>3 DEF TypeOK, SameWalk

(* A submitter at the beginning of a submission.                           *)
LEMMA FreshType ==
  ASSUME NEW at \in Nat \ {0}
  PROVE  Fresh(at) \in CallerType
<1>1. <<>> \in DirMap /\ <<>> \in Partial(MountId, Block)
  BY EmptyPartial DEF DirMap
<1> QED BY <1>1 DEF CallerType, Fresh, Pcs

(* A submitter that returns forgets what it found.                         *)
LEMMA ReturnType ==
  ASSUME TypeOK, NEW t \in Submitters, Return(t)
  PROVE  /\ caller' \in [Submitters -> CallerType]
         /\ caller'[t].pc = "verify" /\ caller'[t].i = 1
         /\ caller'[t].dirs = <<>> /\ caller'[t].blocks = <<>> /\ caller'[t].route = <<>>
         /\ \A u \in Submitters \ {t} : caller'[u] = caller[u]
<1>1. PICK k \in Nat \ {0} : k = caller[t].at + 1
  BY DEF TypeOK, CallerType
<1>2. Fresh(k) \in CallerType
  BY FreshType
<1>3. /\ Fresh(k).pc = "verify" /\ Fresh(k).i = 1 /\ Fresh(k).dirs = <<>>
      /\ Fresh(k).blocks = <<>> /\ Fresh(k).route = <<>>
  BY DEF Fresh
<1>4. caller' = [caller EXCEPT ![t] = Fresh(k)]
  BY <1>1 DEF Return
<1> QED BY <1>2, <1>3, <1>4 DEF TypeOK

(* What a setting says does not change.                                    *)
LEMMA SameSetting ==
  ASSUME setting' = setting
  PROVE  /\ Plan' = Plan /\ MaxEngines' = MaxEngines /\ Default' = Default /\ Lists' = Lists
         /\ Available' = Available /\ Credentials' = Credentials /\ Clients' = Clients
         /\ MayDie' = MayDie
         /\ \A list : FirstAvailable(list)' = FirstAvailable(list)
BY DEF Plan, MaxEngines, Default, Lists, Available, Credentials, Clients, MayDie, FirstAvailable, Walked

(* The first available candidate of a list that parses is a strategy.      *)
LEMMA ChosenType ==
  ASSUME TypeOK, NEW list \in Lists \cup {Default}, Parses(list)
  PROVE  FirstAvailable(list) \in Chosen
<1>1. list \in Seq(STRING)
  BY RoutingAssumption DEF TypeOK, Lists, Default
<1>2. ASSUME NEW i \in 1 .. Len(list) PROVE list[i] \in Strategies
  BY <1>1, <1>2 DEF Parses, ToSet
<1>3. Walked(list) \in SUBSET Nat /\ Walked(list) \subseteq 1 .. Len(list)
  BY DEF Walked
<1>4. CASE Walked(list) = {}
  BY <1>4 DEF FirstAvailable, Chosen
<1>5. CASE Walked(list) # {}
  <2>1. (CHOOSE i \in Walked(list) : \A j \in Walked(list) : i <= j) \in Walked(list)
    BY <1>3, <1>5, LeastNatural
  <2> QED BY <1>2, <1>3, <1>5, <2>1 DEF FirstAvailable, Chosen
<1> QED BY <1>4, <1>5
-----------------------------------------------------------------------------
(* A submission under way is a sequence of files.                          *)
LEMMA SubmissionType ==
  ASSUME TypeOK, NEW t \in Submitters, NEW pc, At(t, pc)
  PROVE  Submission(t) \in Seq(Files)
<1>1. Plan \in [Submitters -> Seq(Seq(Files))]
  BY RoutingAssumption DEF TypeOK, Plan
<1>2. caller[t].at \in Nat \ {0} /\ caller[t].at <= Len(Plan[t])
  BY DEF TypeOK, CallerType, At
<1> QED BY <1>1, <1>2 DEF Submission

(* The plugin of a submission to object storage.                           *)
LEMMA PluginType ==
  ASSUME TypeOK, NEW t \in Submitters, IsObject(t), Submission(t) \in Seq(Files)
  PROVE  Plugin(t) \in PluginNames
<1>1. Plugin(t) \in Plugins(t)
  BY DEF IsObject, Plugin
<1>2. ASSUME NEW i \in Read(t) PROVE Submission(t)[i].backend \in PluginNames \cup {"FS"}
  <2>1. Submission(t)[i] \in Files
    BY DEF Read
  <2> QED BY <2>1 DEF Files, PluginNames
<1> QED BY <1>1, <1>2 DEF Plugins

(* A caller with some of its fields replaced.                              *)
Updated(c, pc, i, dirs, blocks, route) ==
  [c EXCEPT !.pc = pc, !.i = i, !.dirs = dirs, !.blocks = blocks, !.route = route]

(* A file has been given its route.                                         *)
Advanced(t) ==
  /\ caller'[t].pc = "route" /\ caller'[t].i = caller[t].i + 1
  /\ Len(caller'[t].route) = Len(caller[t].route) + 1

(* The caller has kept a block for the group, or taken the mount's answer.  *)
Learnt(t, group, answer) ==
  \E b \in {BlockOf(t, group), answer} :
    /\ b = answer => answer # Unknown \/ b = BlockOf(t, group)
    /\ caller'[t].blocks = With(caller[t].blocks, group, b)

(* Only this submitter moves, within its submission.                        *)
Alone(t) ==
  /\ caller' \in [Submitters -> CallerType]
  /\ \A u \in Submitters \ {t} : caller'[u] = caller[u]
  /\ caller'[t].at = caller[t].at

(* What a file's answer makes of the caller.                               *)
LEMMA RoutedType ==
  ASSUME TypeOK, NEW t \in Submitters, NEW file \in Files, NEW group \in MountId, group = Dirs[file.dir],
         NEW answer \in Block, Routed(t, file, group, answer)
  PROVE  Alone(t) /\ Advanced(t) /\ Learnt(t, group, answer)
<1> DEFINE wanted == IsDirect(strategy.resolved) /\ BlockOf(t, group) = 0
           block == IF wanted /\ answer # Unknown THEN answer ELSE BlockOf(t, group)
           kept == strategy.resolved = "libaio_direct" => ReadsDirectly(file, answer)
           r == IF kept THEN group ELSE NoMount
           c == Updated(caller[t], "route", caller[t].i + 1, With(caller[t].dirs, file.dir, group),
                        With(caller[t].blocks, group, block), Append(caller[t].route, r))
<1>1. caller[t] \in CallerType
  BY DEF TypeOK
<1>2. BlockOf(t, group) \in Block
  BY <1>1, PartialType DEF CallerType, BlockOf, Block
<1>3. block \in Block /\ block \in {BlockOf(t, group), answer}
      /\ (block = answer => answer # Unknown \/ block = BlockOf(t, group))
  BY <1>2
<1>4. r \in MountId \cup {NoMount}
  OBVIOUS
<1>5. With(caller[t].dirs, file.dir, group) \in DirMap
  BY <1>1, DirMapWith DEF CallerType, Files
<1>6. With(caller[t].blocks, group, block) \in Partial(MountId, Block)
  BY <1>1, <1>3, WithType DEF CallerType
<1> HIDE DEF block, r, wanted, kept
<1>7. caller[t].route \in Seq(MountId \cup {NoMount}) /\ caller[t].i \in Nat \ {0}
  BY <1>1 DEF CallerType
<1>8. Append(caller[t].route, r) \in Seq(MountId \cup {NoMount})
      /\ Len(Append(caller[t].route, r)) = Len(caller[t].route) + 1
  BY <1>4, <1>7
<1>9. /\ c \in CallerType /\ c.pc = "route" /\ c.at = caller[t].at /\ c.i = caller[t].i + 1
      /\ c.dirs = With(caller[t].dirs, file.dir, group)
      /\ c.blocks = With(caller[t].blocks, group, block)
      /\ c.route = Append(caller[t].route, r)
  <2>1. PICK dd \in DirMap :
          dd = With(caller[t].dirs, file.dir, group)
    BY <1>5
  <2>2. PICK bb \in Partial(MountId, Block) : bb = With(caller[t].blocks, group, block)
    BY <1>6
  <2>3. PICK rr \in Seq(MountId \cup {NoMount}) : rr = Append(caller[t].route, r)
    BY <1>8
  <2>4. PICK ii \in Nat \ {0} : ii = caller[t].i + 1
    BY <1>7
  <2>5. c = Updated(caller[t], "route", ii, dd, bb, rr)
    BY <2>1, <2>2, <2>3, <2>4
  <2>6. "route" \in Pcs
    BY DEF Pcs
  <2>7. c \in CallerType /\ c.pc = "route" /\ c.at = caller[t].at /\ c.i = ii
        /\ c.dirs = dd /\ c.blocks = bb /\ c.route = rr
    <3> HIDE DEF c
    <3> QED BY <1>1, <2>5, <2>6 DEF CallerType, Updated
  <2> QED BY <2>1, <2>2, <2>3, <2>4, <2>7
<1>10. caller' = [caller EXCEPT ![t] = c]
  BY DEF Routed, block, r, wanted, kept, Updated
<1> HIDE DEF c
<1>11. caller' \in [Submitters -> CallerType] /\ caller'[t] = c
       /\ \A u \in Submitters \ {t} : caller'[u] = caller[u]
  BY <1>9, <1>10 DEF TypeOK
<1>12. caller'[t].blocks = With(caller[t].blocks, group, block)
  BY <1>9, <1>11
<1>13. Learnt(t, group, answer)
  BY <1>3, <1>12, Zenon DEF Learnt
<1> QED BY <1>8, <1>9, <1>11, <1>13 DEF Alone, Advanced

(* A file left to the synchronous reader has its route.                    *)
LEMMA SynchronousType ==
  ASSUME TypeOK, NEW t \in Submitters, NEW dirs \in DirMap,
         Synchronous(t, dirs)
  PROVE  /\ Alone(t) /\ caller'[t].pc = caller[t].pc /\ caller'[t].i = caller[t].i + 1
         /\ caller'[t].blocks = caller[t].blocks /\ Len(caller'[t].route) = Len(caller[t].route) + 1
<1> DEFINE c == Updated(caller[t], caller[t].pc, caller[t].i + 1, dirs, caller[t].blocks,
                        Append(caller[t].route, NoMount))
<1>1. caller[t] \in CallerType
  BY DEF TypeOK
<1>2. c \in CallerType /\ c.pc = caller[t].pc /\ c.at = caller[t].at /\ c.i = caller[t].i + 1
      /\ c.dirs = dirs /\ c.blocks = caller[t].blocks
      /\ c.route = Append(caller[t].route, NoMount)
  <2>1. /\ caller[t].pc \in Pcs /\ caller[t].i + 1 \in Nat \ {0}
        /\ caller[t].blocks \in Partial(MountId, Block)
        /\ Append(caller[t].route, NoMount) \in Seq(MountId \cup {NoMount})
    BY <1>1 DEF CallerType
  <2>2. PICK rr \in Seq(MountId \cup {NoMount}) : rr = Append(caller[t].route, NoMount)
    BY <2>1
  <2>3. PICK ii \in Nat \ {0} : ii = caller[t].i + 1
    BY <2>1
  <2>4. c = Updated(caller[t], caller[t].pc, ii, dirs, caller[t].blocks, rr)
    BY <2>2, <2>3
  <2>5. c \in CallerType /\ c.pc = caller[t].pc /\ c.at = caller[t].at /\ c.i = ii
        /\ c.dirs = dirs /\ c.blocks = caller[t].blocks /\ c.route = rr
    <3> HIDE DEF c
    <3> QED BY <1>1, <2>1, <2>4 DEF CallerType, Updated
  <2> QED BY <2>2, <2>3, <2>5
<1>3. caller' = [caller EXCEPT ![t] = c]
  <2>1. caller[t] = [caller[t] EXCEPT !.pc = caller[t].pc, !.blocks = caller[t].blocks]
    BY <1>1 DEF CallerType
  <2> QED BY <1>1 DEF Synchronous, Updated, CallerType
<1>4. Len(Append(caller[t].route, NoMount)) = Len(caller[t].route) + 1
  BY <1>1 DEF CallerType
<1> HIDE DEF c
<1>5. caller' \in [Submitters -> CallerType] /\ caller'[t] = c
      /\ \A u \in Submitters \ {t} : caller'[u] = caller[u]
  BY <1>2, <1>3 DEF TypeOK
<1> QED BY <1>2, <1>4, <1>5 DEF Alone

(* The group a directory is given is its mount or none.                    *)
LEMMA GroupType ==
  ASSUME TypeOK, NEW t \in Submitters, NEW d \in DOMAIN Dirs
  PROVE  GroupOf(t, d) \in {Dirs[d], NoMount}
<1>1. caller[t].dirs \in DirMap
  BY DEF TypeOK, CallerType
<1> QED BY <1>1 DEF GroupOf, DirMap

(* The caller has opened the file to measure its mount.                     *)
Probing(t) ==
  /\ caller[t].i \in 1 .. Len(Submission(t)) /\ MountOf(Submission(t)[caller[t].i]) \in MountId
  /\ caller'[t].pc = "probe" /\ caller'[t].i = caller[t].i
  /\ caller'[t].route = caller[t].route /\ caller'[t].blocks = caller[t].blocks

(* RouteFile: what it does to the caller.                                  *)
LEMMA RouteFileType ==
  ASSUME TypeOK, NEW t \in Submitters, RouteFile(t)
  PROVE  /\ Alone(t)
         /\ \/ Advanced(t) /\ caller'[t].blocks = caller[t].blocks
            \/ Advanced(t) /\ \E m \in MountId : Learnt(t, m, direct[m])
            \/ Probing(t)
<1> DEFINE file == Submission(t)[caller[t].i]
           group == GroupOf(t, file.dir)
<1>0. caller[t].pc = "route"
  BY DEF RouteFile, At
<1>1. Submission(t) \in Seq(Files)
  BY SubmissionType DEF RouteFile
<1>2. caller[t] \in CallerType
  BY DEF TypeOK
<1>2a. caller[t].i \in 1 .. Len(Submission(t))
  <2>1. caller[t].i \in Nat \ {0}
    BY <1>2 DEF CallerType
  <2> QED BY <1>1, <2>1 DEF RouteFile
<1>3. file \in Files /\ file.dir \in DOMAIN Dirs
  <2>1. file \in Files
    BY <1>1, <1>2a
  <2> QED BY <2>1 DEF Files
<1>4. group \in {Dirs[file.dir], NoMount} /\ group \in MountId \cup {NoMount}
  BY <1>3, GroupType, RoutingAssumption DEF MountId
<1>5. caller[t].dirs \in DirMap
  BY <1>2 DEF CallerType
<1>6. CASE Synchronous(t, caller[t].dirs)
  BY <1>0, <1>5, <1>6, SynchronousType DEF Advanced
<1>7. CASE Synchronous(t, With(caller[t].dirs, file.dir, NoMount))
  <2>1. With(caller[t].dirs, file.dir, NoMount) \in DirMap
    BY <1>3, <1>5, DirMapWith
  <2> QED BY <1>0, <1>7, <2>1, SynchronousType DEF Advanced
<1>8. CASE group # NoMount /\ Routed(t, file, group, direct[group])
  <2>1. group \in MountId /\ direct[group] \in Block
    BY <1>4, <1>8 DEF TypeOK
  <2>2. group = Dirs[file.dir]
    BY <1>4, <1>8
  <2> QED BY <1>3, <1>8, <2>1, <2>2, RoutedType
<1>9. CASE /\ group # NoMount
           /\ caller' = [caller EXCEPT ![t].pc = "probe", ![t].measured = Measure(file),
                                       ![t].dirs = With(@, file.dir, group)]
  <2>1. PICK dd \in DirMap :
          dd = With(caller[t].dirs, file.dir, group)
    BY <1>3, <1>4, <1>5, DirMapWith
  <2>2. group = Dirs[file.dir]
    BY <1>4, <1>9
  <2>3. PICK mm \in Nat : mm = Measure(file)
    BY <1>3, <1>4, <1>9, <2>2, MeasureType DEF MountOf
  <2>4. caller' = [caller EXCEPT ![t] = [caller[t] EXCEPT !.pc = "probe", !.measured = mm, !.dirs = dd]]
    BY <1>9, <2>1, <2>3
  <2> DEFINE c == [caller[t] EXCEPT !.pc = "probe", !.measured = mm, !.dirs = dd]
  <2>5. c \in CallerType /\ c.pc = "probe" /\ c.i = caller[t].i /\ c.at = caller[t].at
        /\ c.route = caller[t].route /\ c.blocks = caller[t].blocks
    BY <1>2 DEF CallerType, Pcs
  <2> HIDE DEF c
  <2>6. caller' = [caller EXCEPT ![t] = c]
    BY <2>4 DEF c
  <2>7. MountOf(file) \in MountId
    BY <1>4, <1>9, <2>2 DEF MountOf
  <2> QED BY <1>2a, <2>5, <2>6, <2>7 DEF TypeOK, Alone, Probing
<1> QED BY <1>6, <1>7, <1>8, <1>9 DEF RouteFile

(* RememberBlock: the caller routes its file by the answer the mount keeps, *)
(* which is the first one.                                                 *)
LEMMA RememberBlockType ==
  ASSUME TypeOK, Walking, NEW t \in Submitters, RememberBlock(t)
  PROVE  /\ Alone(t) /\ Advanced(t) /\ direct' \in [MountId -> Block]
         /\ \E m \in MountId :
              /\ Learnt(t, m, direct'[m])
              /\ direct[m] # Unknown => direct'[m] = direct[m]
              /\ \A n \in MountId \ {m} : direct'[n] = direct[n]
<1> DEFINE file == Submission(t)[caller[t].i]
           m == MountOf(file)
           answer == Remembered(m, caller[t].measured)
<1>1. Submission(t) \in Seq(Files)
  BY SubmissionType DEF RememberBlock
<1>2. file \in Files /\ m \in MountId /\ m = Dirs[file.dir]
  <2>1. caller[t].pc = "probe"
    BY DEF RememberBlock, At
  <2>2. caller[t].i \in 1 .. Len(Submission(t)) /\ MountOf(Submission(t)[caller[t].i]) \in MountId
    BY <2>1, Zenon DEF Walking
  <2>3. \A s \in Seq(Files) : \A k \in 1 .. Len(s) : s[k] \in Files
    OBVIOUS
  <2>4. file \in Files
    BY <1>1, <2>2, <2>3, Zenon
  <2> QED BY <2>2, <2>4, Zenon DEF MountOf
<1>3. caller[t].measured \in Nat
  BY DEF TypeOK, CallerType
<1>4. answer \in Block
  BY <1>2, <1>3 DEF TypeOK, Remembered, Block
<1>5. Routed(t, file, m, answer)
  BY DEF RememberBlock
<1>6. Alone(t) /\ Advanced(t) /\ Learnt(t, m, answer)
  BY <1>2, <1>4, <1>5, RoutedType
<1>7. /\ direct' \in [MountId -> Block] /\ direct'[m] = answer
      /\ direct[m] # Unknown => direct'[m] = direct[m]
      /\ \A n \in MountId \ {m} : direct'[n] = direct[n]
  BY <1>2, <1>3 DEF RememberBlock, TypeOK, Block, Remembered
<1> QED BY <1>2, <1>6, <1>7

(* The least loaded engine of a set of them is one of the set.             *)
LEMMA LeastLoadedIn ==
  ASSUME TypeOK, NEW S \in SUBSET (1 .. Len(engines)), S # {}
  PROVE  LeastLoaded(S) \in S
<1> DEFINE load(e) == Len(engines[e].queue)
           loads == {load(e) : e \in S}
<1>1. \A e \in S : load(e) \in Nat
  <2>1. ASSUME NEW e \in S PROVE engines[e] \in EngineType
    BY DEF TypeOK
  <2> QED BY <2>1 DEF EngineType
<1>2. loads \in SUBSET Nat /\ loads # {}
  BY <1>1
<1>3. PICK l \in loads : \A k \in loads : l <= k
  BY <1>2, LeastNatural
<1> DEFINE lightest == {e \in S : load(e) = l}
<1>4. lightest \in SUBSET Nat /\ lightest # {}
  <2>1. PICK e \in S : l = load(e)
    BY <1>3
  <2>2. e \in lightest
    BY <2>1
  <2>3. S \subseteq Nat
    BY DEF TypeOK
  <2> QED BY <2>2, <2>3
<1>5. PICK e \in lightest : \A f \in lightest : e <= f
  BY <1>4, LeastNatural
<1>6. ASSUME NEW f \in S
      PROVE  load(e) < load(f) \/ (load(e) = load(f) /\ e <= f)
  BY <1>1, <1>3, <1>5
<1>7. \E x \in S : \A f \in S : load(x) < load(f) \/ (load(x) = load(f) /\ x <= f)
  BY <1>5, <1>6
<1> QED BY <1>7 DEF LeastLoaded

(* Where push_async finds or makes an engine.                              *)
LEMMA PushAsyncType ==
  ASSUME TypeOK, Bound, Capped, NEW t \in Submitters, NEW m \in MountId, PushAsync(t, m)
  PROVE  /\ engines' \in Seq(EngineType) /\ byDevice' \in [MountId -> Nat]
         /\ \/ /\ byDevice[m] = 0 /\ Cardinality(EnginesOf(m)) < MaxEngines
               /\ Len(engines') = Len(engines) + 1
               /\ \A e \in 1 .. Len(engines) : engines'[e] = engines[e]
               /\ engines'[Len(engines) + 1] =
                    [mount |-> m, key |-> Mounts[m].key, block |-> BlockOf(t, m),
                     strategy |-> strategy.resolved,
                     queue |-> <<[mount |-> m, late |-> m \in caller[t].late]>>,
                     dead |-> FALSE, told |-> FALSE]
               /\ byDevice' = [byDevice EXCEPT ![m] = Len(engines) + 1]
            \/ \E x \in EnginesOf(m) :
               /\ byDevice[m] \in {0, x}
               /\ engines' = [engines EXCEPT ![x].queue =
                                Append(@, [mount |-> m, late |-> m \in caller[t].late])]
               /\ byDevice' = [byDevice EXCEPT ![m] = x]
<1> DEFINE read == [mount |-> m, late |-> m \in caller[t].late]
           engine == [mount |-> m, key |-> Mounts[m].key, block |-> BlockOf(t, m),
                      strategy |-> strategy.resolved, queue |-> <<read>>,
                      dead |-> FALSE, told |-> FALSE]
           shared == IF byDevice[m] # 0 THEN byDevice[m] ELSE LeastLoaded(EnginesOf(m))
<1>1. read \in ReadType
  BY DEF ReadType
<1>2. BlockOf(t, m) \in Block
  <2>1. caller[t].blocks \in Partial(MountId, Block)
    BY DEF TypeOK, CallerType
  <2> QED BY <2>1, PartialType DEF BlockOf, Block
<1>3. strategy.resolved \in Chosen
  BY DEF TypeOK
<1>4. engine \in EngineType
  BY <1>1, <1>2, <1>3 DEF EngineType
<1>5. Len(engines) \in Nat /\ MaxEngines \in Nat \ {0}
  BY RoutingAssumption DEF TypeOK, MaxEngines
<1> HIDE DEF engine, read
<1>6. CASE byDevice[m] = 0 /\ Cardinality(EnginesOf(m)) < MaxEngines
  <2>1. engines' = Append(engines, engine) /\ byDevice' = [byDevice EXCEPT ![m] = Len(engines) + 1]
    BY <1>6 DEF PushAsync, engine, read
  <2>2. /\ engines' \in Seq(EngineType) /\ byDevice' \in [MountId -> Nat]
        /\ Len(engines') = Len(engines) + 1
        /\ \A e \in 1 .. Len(engines) : engines'[e] = engines[e]
        /\ engines'[Len(engines) + 1] = engine
    BY <1>4, <1>5, <2>1 DEF TypeOK
  <2> QED BY <1>6, <2>1, <2>2 DEF engine, read
<1>7. CASE ~(byDevice[m] = 0 /\ Cardinality(EnginesOf(m)) < MaxEngines)
  <2>1. engines' = [engines EXCEPT ![shared].queue = Append(@, read)]
        /\ byDevice' = [byDevice EXCEPT ![m] = shared]
    BY <1>7 DEF PushAsync, read
  <2>2. shared \in EnginesOf(m) /\ byDevice[m] \in {0, shared}
    <3>1. CASE byDevice[m] # 0
      <4>1. byDevice[m] \in 1 .. Len(engines) /\ engines[byDevice[m]].key = Mounts[m].key
        BY <1>5, <3>1 DEF Bound
      <4> QED BY <3>1, <4>1 DEF EnginesOf
    <3>2. CASE byDevice[m] = 0
      <4>1. Cardinality(EnginesOf(m)) = MaxEngines
        <5>0. Len(engines) \in Int
          BY <1>5
        <5>1. EnginesOf(m) \in SUBSET (1 .. Len(engines)) /\ IsFiniteSet(1 .. Len(engines))
          <6>1. EnginesOf(m) \in SUBSET (1 .. Len(engines))
            BY <1>5 DEF EnginesOf
          <6>2. \A a, b \in Int : IsFiniteSet(a .. b)
            BY FS_Interval
          <6> QED BY <5>0, <6>1, <6>2
        <5>2. Cardinality(EnginesOf(m)) \in Nat
          BY <5>1, FS_Subset, FS_CardinalityType
        <5> QED BY <1>5, <1>7, <3>2, <5>2 DEF Capped
      <4>2. EnginesOf(m) # {}
        BY <1>5, <4>1, FS_EmptySet
      <4>3. LeastLoaded(EnginesOf(m)) \in EnginesOf(m)
        BY <4>2, LeastLoadedIn DEF EnginesOf
      <4> QED BY <3>2, <4>3
    <3> QED BY <3>1, <3>2
  <2> HIDE DEF shared
  <2>3. shared \in 1 .. Len(engines) /\ shared \in Nat
    BY <1>5, <2>2 DEF EnginesOf
  <2>4. engines[shared] \in EngineType
    BY <2>3 DEF TypeOK
  <2>5. PICK q \in Seq(ReadType) : q = Append(engines[shared].queue, read)
    <3>1. engines[shared].queue \in Seq(ReadType)
      BY <2>4 DEF EngineType
    <3>2. Append(engines[shared].queue, read) \in Seq(ReadType)
      BY <1>1, <3>1
    <3> QED BY <3>2, Zenon
  <2>6. [engines[shared] EXCEPT !.queue = q] \in EngineType
    BY <2>4 DEF EngineType
  <2>7. engines' = [engines EXCEPT ![shared] = [engines[shared] EXCEPT !.queue = q]]
    BY <2>1, <2>5
  <2>8. engines' \in Seq(EngineType)
    BY <2>3, <2>6, <2>7 DEF TypeOK
  <2>9. byDevice' \in [MountId -> Nat]
    BY <2>1, <2>3 DEF TypeOK
  <2> QED BY <2>1, <2>2, <2>8, <2>9 DEF read
<1> QED BY <1>6, <1>7
Same == <<setting, lock, strategy, direct, engines, byDevice, dead, creds, seen>>

(* A step that changes the caller only keeps the type.                     *)
LEMMA CallerOnly ==
  ASSUME TypeOK, UNCHANGED Same, caller' \in [Submitters -> CallerType]
  PROVE  TypeOK'
<1> USE SameSetting DEF Same
<1> QED BY DEF TypeOK

(* So does one that changes the caller and the lock.                       *)
LEMMA LockStepType ==
  ASSUME TypeOK, UNCHANGED <<setting, strategy, direct, engines, byDevice, dead, creds, seen>>,
         caller' \in [Submitters -> CallerType],
         lock' \in [pool : BOOLEAN, plugin : PluginNames \cup {None},
                    ready : PluginNames \cup {None}, holder : Submitters \cup {None}]
  PROVE  TypeOK'
BY SameSetting DEF TypeOK

(* The steps of the plugin lock.                                           *)
LEMMA LockTypeStep ==
  ASSUME TypeOK, Sorted, NEW t \in Submitters,
         LockEnter(t) \/ BuildPool(t) \/ BuildThrows(t) \/ CommitPlugin(t) \/ PublishPlugin(t)
  PROVE  TypeOK'
<1>1. Submission(t) \in Seq(Files) /\ IsObject(t)
  <2>1. \E pc \in ForObjects : At(t, pc)
    BY DEF ForObjects, Locking, LockEnter, BuildPool, BuildThrows, CommitPlugin, PublishPlugin
  <2> QED BY <2>1, SubmissionType DEF Sorted, At
<1>2. Plugin(t) \in PluginNames
  BY <1>1, PluginType
<1>3. lock' \in [pool : BOOLEAN, plugin : PluginNames \cup {None},
                 ready : PluginNames \cup {None}, holder : Submitters \cup {None}]
  BY <1>2 DEF TypeOK, LockEnter, BuildPool, BuildThrows, CommitPlugin, PublishPlugin
<1>4. \/ Return(t)
      \/ \E pc \in Pcs : Go(t, pc)
  BY DEF LockEnter, BuildPool, BuildThrows, CommitPlugin, PublishPlugin, Pcs
<1>5. caller' \in [Submitters -> CallerType]
  BY <1>4, ReturnType, GoType
<1> QED BY <1>3, <1>5, LockStepType DEF LockEnter, BuildPool, BuildThrows, CommitPlugin, PublishPlugin

(* The steps that only move the caller.                                    *)
LEMMA MoveTypeStep ==
  ASSUME TypeOK, NEW t \in Submitters,
         Verify(t) \/ LockFast(t) \/ EndPush(t) \/ BeginGroups(t) \/ EndGroups(t)
  PROVE  TypeOK'
<1>0. caller[t] \in CallerType /\ "push" \in Pcs /\ "route" \in Pcs
  BY DEF TypeOK, Pcs
<1>1. CASE Verify(t) \/ LockFast(t) \/ EndPush(t)
  <2>1. Return(t) \/ \E pc \in Pcs : Go(t, pc)
    BY <1>1 DEF Verify, LockFast, EndPush, Pcs
  <2>2. caller' \in [Submitters -> CallerType]
    BY <2>1, ReturnType, GoType
  <2> QED BY <1>1, <2>2, CallerOnly DEF Verify, LockFast, EndPush, Same
<1>2. CASE BeginGroups(t)
  <2>1. ReportedDead \in SUBSET MountId
    BY DEF ReportedDead, MountId
  <2>2. caller' = [caller EXCEPT ![t] = [caller[t] EXCEPT !.pc = "route", !.late = ReportedDead]]
    BY <1>2 DEF BeginGroups
  <2>3. [caller[t] EXCEPT !.pc = "route", !.late = ReportedDead] \in CallerType
    BY <1>0, <2>1 DEF CallerType
  <2>4. caller' \in [Submitters -> CallerType]
    BY <2>2, <2>3 DEF TypeOK
  <2> QED BY <1>2, <2>4, CallerOnly DEF BeginGroups, Same
<1>3. CASE EndGroups(t)
  <2>0. PICK one \in Nat \ {0} : one = 1
    OBVIOUS
  <2>1. caller' = [caller EXCEPT ![t] = [caller[t] EXCEPT !.pc = "push", !.i = one]]
    BY <1>3, <2>0 DEF EndGroups
  <2>2. [caller[t] EXCEPT !.pc = "push", !.i = one] \in CallerType
    BY <1>0 DEF CallerType
  <2>3. caller' \in [Submitters -> CallerType]
    BY <2>1, <2>2 DEF TypeOK
  <2> QED BY <1>3, <2>3, CallerOnly DEF EndGroups, Same
<1> QED BY <1>1, <1>2, <1>3

(* The setters, the engines' threads and the workers.                      *)
LEMMA OthersTypeStep ==
  ASSUME TypeOK,
         \/ \E e \in 1 .. Len(engines) : Serve(e) \/ EngineDies(e) \/ TellListener(e)
         \/ \E list \in Lists : SetStrategy(list)
         \/ \E c \in Credentials : SetCredentials(c)
         \/ \E w \in Clients : BuildClient(w) \/ DropClient(w)
  PROVE  TypeOK'
<1>1. ASSUME NEW e \in 1 .. Len(engines), Serve(e) \/ EngineDies(e) \/ TellListener(e)
      PROVE  TypeOK'
  <2>1. engines[e] \in EngineType
    BY DEF TypeOK
  <2>2. CASE Serve(e)
    <3>1. engines[e].queue \in Seq(ReadType) /\ engines[e].queue # <<>>
      BY <2>1, <2>2 DEF EngineType, Serve
    <3>2. PICK q \in Seq(ReadType) : q = Tail(engines[e].queue)
      <4>1. Tail(engines[e].queue) \in Seq(ReadType)
        BY <3>1
      <4> QED BY <4>1, Zenon
    <3>3. [engines[e] EXCEPT !.queue = q] \in EngineType
      BY <2>1 DEF EngineType
    <3>4. engines' = [engines EXCEPT ![e] = [engines[e] EXCEPT !.queue = q]]
      BY <2>2, <3>2 DEF Serve
    <3>5. engines' \in Seq(EngineType)
      BY <3>3, <3>4 DEF TypeOK
    <3>6. Head(engines[e].queue) \in ReadType
      BY <3>1
    <3>7. seen' \in [plugins : SUBSET PluginNames, lists : SUBSET Lists, creds : SUBSET Credentials,
                     failed : SUBSET ReadType]
      BY <2>2, <3>6 DEF Serve, TypeOK
    <3> QED BY <2>2, <3>5, <3>7, SameSetting DEF Serve, TypeOK
  <2>3. CASE EngineDies(e)
    <3>1. [engines[e] EXCEPT !.dead = TRUE] \in EngineType
      BY <2>1 DEF EngineType
    <3>2. engines' = [engines EXCEPT ![e] = [engines[e] EXCEPT !.dead = TRUE]]
      BY <2>3 DEF EngineDies
    <3>3. engines' \in Seq(EngineType)
      BY <3>1, <3>2 DEF TypeOK
    <3> QED BY <2>3, <3>3, SameSetting DEF EngineDies, TypeOK
  <2>4. CASE TellListener(e)
    <3>1. [engines[e] EXCEPT !.told = TRUE] \in EngineType /\ engines[e].mount \in MountId
      BY <2>1 DEF EngineType
    <3>2. engines' = [engines EXCEPT ![e] = [engines[e] EXCEPT !.told = TRUE]]
      BY <2>4 DEF TellListener
    <3>3. engines' \in Seq(EngineType)
      BY <3>1, <3>2 DEF TypeOK
    <3> QED BY <2>4, <3>1, <3>3, SameSetting DEF TellListener, TypeOK
  <2> QED BY <1>1, <2>2, <2>3, <2>4
<1>2. ASSUME NEW list \in Lists, SetStrategy(list) PROVE TypeOK'
  BY <1>2, SameSetting DEF SetStrategy, TypeOK
<1>3. ASSUME NEW c \in Credentials, SetCredentials(c) PROVE TypeOK'
  BY <1>3, SameSetting DEF SetCredentials, TypeOK
<1>4. ASSUME NEW w \in Clients, BuildClient(w) \/ DropClient(w) PROVE TypeOK'
  <2>1. PICK k \in Credentials \cup {None, Unbuilt} : creds' = [creds EXCEPT !.client[w] = k]
    BY <1>4 DEF BuildClient, DropClient, TypeOK
  <2>2. [creds.client EXCEPT ![w] = k] \in [Clients -> Credentials \cup {None, Unbuilt}]
    BY DEF TypeOK
  <2>3. creds' = [creds EXCEPT !.client = [creds.client EXCEPT ![w] = k]]
    BY <2>1
  <2>4. creds' \in [set : Credentials \cup {None}, client : [Clients -> Credentials \cup {None, Unbuilt}]]
    BY <2>2, <2>3 DEF TypeOK
  <2> QED BY <1>4, <2>4, SameSetting DEF BuildClient, DropClient, TypeOK
<1> QED BY <1>1, <1>2, <1>3, <1>4

(* Resolving, routing and dispatching.                                     *)
LEMMA FilesTypeStep ==
  ASSUME TypeOK, Walking, Bound, Capped, Sorted, NEW t \in Submitters,
         Resolve(t) \/ RouteFile(t) \/ RememberBlock(t) \/ Push(t)
  PROVE  TypeOK'
<1>1. CASE Resolve(t)
  <2> DEFINE list == IF strategy.candidates # NoList THEN strategy.candidates ELSE Default
  <2>1. Return(t) \/ \E pc \in Pcs : Go(t, pc)
    BY <1>1 DEF Resolve, Pcs
  <2>2. caller' \in [Submitters -> CallerType]
    BY <2>1, ReturnType, GoType
  <2>3. CASE UNCHANGED strategy
    BY <1>1, <2>2, <2>3, CallerOnly DEF Resolve, Same
  <2>4. CASE Parses(list) /\ strategy' = [strategy EXCEPT !.from = list,
                                                         !.resolved = FirstAvailable(list)]
    <3>1. list \in Lists \cup {Default}
      BY DEF TypeOK
    <3>2. FirstAvailable(list) \in Chosen
      BY <2>4, <3>1, ChosenType
    <3>3. strategy' \in [candidates : Lists \cup {NoList}, from : Lists \cup {NoList, Default},
                         resolved : Chosen]
      BY <2>4, <3>1, <3>2 DEF TypeOK
    <3> QED BY <1>1, <2>2, <3>3, SameSetting DEF TypeOK, Resolve
  <2> QED BY <1>1, <2>3, <2>4 DEF Resolve
<1>2. CASE RouteFile(t)
  BY <1>2, RouteFileType, CallerOnly DEF RouteFile, Same, Alone
<1>3. CASE RememberBlock(t)
  BY <1>3, RememberBlockType, SameSetting DEF RememberBlock, TypeOK, Alone
<1>4. CASE Push(t)
  <2>1. Submission(t) \in Seq(Files)
    BY <1>4, SubmissionType DEF Push
  <2>2. caller' = [caller EXCEPT ![t] = [caller[t] EXCEPT !.i = caller[t].i + 1]]
    BY <1>4 DEF Push
  <2>3. caller[t] \in CallerType
    BY DEF TypeOK
  <2>4. [caller[t] EXCEPT !.i = caller[t].i + 1] \in CallerType
    BY <2>3 DEF CallerType
  <2>5. caller' \in [Submitters -> CallerType]
    BY <2>2, <2>4 DEF TypeOK
  <2>6. IsObject(t) => Plugin(t) \in PluginNames
    BY <2>1, PluginType
  <2>7. CASE UNCHANGED <<engines, byDevice, seen>>
    BY <1>4, <2>5, <2>7, CallerOnly DEF Push, Same
  <2>8. CASE /\ IsObject(t) /\ UNCHANGED <<engines, byDevice>>
             /\ seen' = [seen EXCEPT !.plugins = @ \cup {Plugin(t)}]
    BY <1>4, <2>5, <2>6, <2>8, SameSetting DEF Push, TypeOK
  <2>9. CASE /\ ~IsObject(t) /\ caller[t].i \in Read(t) /\ caller[t].route[caller[t].i] # NoMount
             /\ PushAsync(t, caller[t].route[caller[t].i]) /\ UNCHANGED seen
    <3>1. caller[t].route \in Seq(MountId \cup {NoMount})
      BY <2>3 DEF CallerType
    <3>2. caller[t].i \in 1 .. Len(caller[t].route)
      BY <1>4, <2>1, <2>9, <3>1 DEF Walking, Push, At, Read
    <3>3. caller[t].route[caller[t].i] \in MountId
      BY <2>9, <3>1, <3>2
    <3>4. engines' \in Seq(EngineType) /\ byDevice' \in [MountId -> Nat]
      BY <2>9, <3>3, PushAsyncType
    <3> QED BY <1>4, <2>5, <2>9, <3>4, SameSetting DEF Push, TypeOK
  <2> QED BY <1>4, <2>7, <2>8, <2>9 DEF Push
<1> QED BY <1>1, <1>2, <1>3, <1>4
-----------------------------------------------------------------------------
(* A submitter that stays with its submission sees the same files.         *)
LEMMA SameSubmission ==
  ASSUME setting' = setting, NEW u \in Submitters, caller'[u].at = caller[u].at
  PROVE  /\ Submission(u)' = Submission(u) /\ Read(u)' = Read(u)
         /\ IsObject(u)' = IsObject(u) /\ Plugin(u)' = Plugin(u)
<1>1. Submission(u)' = Submission(u)
  BY SameSetting DEF Submission
<1>2. Read(u)' = Read(u)
  BY <1>1 DEF Read
<1>3. Plugins(u)' = Plugins(u)
  BY <1>1, <1>2 DEF Plugins
<1> QED BY <1>1, <1>2, <1>3 DEF IsObject, Plugin

(* What the lock means for one submitter.                                  *)
LockFine(u) ==
  /\ caller[u].pc # "verify" => caller[u].at <= Len(Plan[u])
  /\ caller[u].pc \in ForObjects => IsObject(u)
  /\ caller[u].pc \in ForFiles => ~IsObject(u)
  /\ caller[u].pc \in Locking => lock.holder = u
  /\ caller[u].pc = "build" => lock.plugin = None
  /\ caller[u].pc = "commit" => lock.plugin = None /\ lock.pool
  /\ caller[u].pc = "publish" => lock.plugin = Plugin(u)
  /\ caller[u].pc = "push" /\ IsObject(u) => lock.plugin = Plugin(u)

(* The lock is in order when it is for every submitter.                    *)
LEMMA LockFineAll == (Sorted /\ LockHeld) <=> \A u \in Submitters : LockFine(u)
BY DEF Sorted, LockHeld, LockFine

(* A submitter that stays where it is, under the same lock.                *)
LEMMA LockFineSame ==
  ASSUME setting' = setting, NEW u \in Submitters, caller'[u].at = caller[u].at,
         caller'[u].pc = caller[u].pc, lock' = lock, LockFine(u)
  PROVE  LockFine(u)'
BY SameSubmission, SameSetting DEF LockFine

(* One that returned.                                                      *)
LEMMA LockFineFresh ==
  ASSUME NEW u \in Submitters, caller'[u].pc = "verify"
  PROVE  LockFine(u)'
BY DEF LockFine, ForObjects, ForFiles, Locking

LockKept == Sorted /\ LockHeld /\ LockOrdered

(* A step of one submitter that leaves the lock alone.                     *)
LEMMA LockUntouched ==
  ASSUME LockKept, setting' = setting, lock' = lock, NEW t \in Submitters,
         \A u \in Submitters \ {t} : caller'[u] = caller[u],
         \A p \in seen'.plugins : p \in seen.plugins \/ p = lock.plugin,
         LockFine(t)'
  PROVE  LockKept'
<1>1. ASSUME NEW u \in Submitters PROVE LockFine(u)'
  BY LockFineSame, LockFineAll DEF LockKept
<1>2. LockOrdered'
  BY DEF LockKept, LockOrdered
<1> QED BY <1>1, <1>2, LockFineAll DEF LockKept, Sorted, LockHeld, LockFine

(* The steps under _plugin_mutex: the plugin is committed once, after its  *)
(* pool, and published once it is committed.                               *)
LEMMA LockStep ==
  ASSUME TypeOK, LockKept, NEW t \in Submitters,
         LockEnter(t) \/ BuildPool(t) \/ BuildThrows(t) \/ CommitPlugin(t) \/ PublishPlugin(t)
  PROVE  LockKept'
<1>1. Submission(t) \in Seq(Files) /\ IsObject(t) /\ Plugin(t) # None /\ setting' = setting
  <2>1. \E pc \in ForObjects : At(t, pc)
    BY DEF ForObjects, Locking, LockEnter, BuildPool, BuildThrows, CommitPlugin, PublishPlugin
  <2>2. Submission(t) \in Seq(Files) /\ IsObject(t)
    BY <2>1, SubmissionType DEF LockKept, Sorted, At
  <2>3. setting' = setting
    BY DEF LockEnter, BuildPool, BuildThrows, CommitPlugin, PublishPlugin
  <2> QED BY <2>2, <2>3, PluginType DEF PluginNames, None
<1>2. \A u \in Submitters : LockFine(u)
  BY LockFineAll DEF LockKept
<1>3. \A u \in Submitters \ {t} : caller'[u] = caller[u]
  <2>1. Return(t) \/ \E pc \in Pcs : Go(t, pc)
    BY DEF LockEnter, BuildPool, BuildThrows, CommitPlugin, PublishPlugin, Pcs
  <2> QED BY <2>1, ReturnType, GoType
<1>4. \A u \in Submitters \ {t} : /\ IsObject(u)' = IsObject(u) /\ Plugin(u)' = Plugin(u)
                                   /\ Plan'[u] = Plan[u]
  BY <1>1, <1>3, SameSubmission, SameSetting
<1>5. Return(t) => caller'[t].pc = "verify"
  BY ReturnType
<1>6. ASSUME NEW pc \in Pcs, Go(t, pc)
      PROVE  /\ caller'[t].pc = pc /\ IsObject(t)' /\ Plugin(t)' = Plugin(t)
             /\ (caller[t].at <= Len(Plan[t]))'
  <2>1. caller[t].at <= Len(Plan[t])
    BY DEF LockEnter, BuildPool, BuildThrows, CommitPlugin, PublishPlugin, At
  <2> QED BY <1>1, <1>6, <2>1, GoType, SameSubmission, SameSetting DEF SameWalk
<1>7. ASSUME NEW u \in Submitters PROVE u # None
  BY RoutingAssumption
<1>8. lock \in [pool : BOOLEAN, plugin : PluginNames \cup {None},
                ready : PluginNames \cup {None}, holder : Submitters \cup {None}]
  BY DEF TypeOK
<1>9. CASE LockEnter(t)
  <2>1. CASE lock' = lock /\ Return(t)
    BY <1>1, <1>3, <1>5, <1>9, <2>1, LockFineFresh, LockUntouched DEF LockEnter
  <2>2. CASE lock' = lock /\ lock.plugin = Plugin(t) /\ Go(t, "push")
    <3>1. LockFine(t)'
      BY <1>6, <2>2 DEF LockFine, Pcs, ForObjects, ForFiles, Locking
    <3> QED BY <1>1, <1>3, <1>9, <2>2, <3>1, LockUntouched DEF LockEnter
  <2>3. CASE lock.plugin = None /\ Go(t, "build") /\ lock' = [lock EXCEPT !.holder = t]
    <3>1. lock.holder = None
      BY <1>9 DEF LockEnter
    <3>2. lock'.holder = t /\ lock'.plugin = None /\ lock'.pool = lock.pool /\ lock'.ready = lock.ready
      BY <1>8, <2>3
    <3>3. ASSUME NEW u \in Submitters \ {t} PROVE LockFine(u)'
      BY <1>2, <1>3, <1>4, <1>7, <2>3, <3>1, <3>2 DEF LockFine
    <3>4. LockFine(t)'
      BY <1>6, <2>3, <3>2 DEF LockFine, Pcs, ForObjects, ForFiles, Locking
    <3>5. LockOrdered'
      BY <1>9, <2>3, <3>2 DEF LockKept, LockOrdered, LockEnter
    <3> QED BY <3>3, <3>4, <3>5, LockFineAll DEF LockKept, Sorted, LockHeld, LockFine
  <2> QED BY <1>9, <2>1, <2>2, <2>3 DEF LockEnter
<1>10. CASE BuildPool(t) \/ BuildThrows(t) \/ CommitPlugin(t) \/ PublishPlugin(t)
  <2>1. caller[t].pc \in Locking /\ lock.holder = t
    BY <1>2, <1>10 DEF LockFine, BuildPool, BuildThrows, CommitPlugin, PublishPlugin, At, Locking
  <2>2. ASSUME NEW u \in Submitters \ {t} PROVE caller[u].pc \notin Locking
    BY <1>2, <2>1 DEF LockFine
  <2>3. CASE BuildPool(t)
    <3>1. lock'.pool /\ lock'.holder = lock.holder /\ lock'.plugin = lock.plugin /\ lock'.ready = lock.ready
          /\ lock.plugin = None
      BY <1>2, <1>8, <2>3 DEF BuildPool, LockFine, At
    <3>2. ASSUME NEW u \in Submitters \ {t} PROVE LockFine(u)'
      BY <1>2, <1>3, <1>4, <2>2, <3>1 DEF LockFine, Locking
    <3>3. LockFine(t)'
      BY <1>6, <2>1, <2>3, <3>1 DEF BuildPool, LockFine, Pcs, ForObjects, ForFiles, Locking
    <3>4. LockOrdered'
      BY <2>3, <3>1 DEF LockKept, LockOrdered, BuildPool
    <3> QED BY <3>2, <3>3, <3>4, LockFineAll DEF LockKept, Sorted, LockHeld, LockFine
  <2>4. CASE BuildThrows(t)
    <3>1. lock'.pool = lock.pool /\ lock'.plugin = lock.plugin /\ lock'.ready = lock.ready
      BY <1>8, <2>4 DEF BuildThrows
    <3>2. ASSUME NEW u \in Submitters \ {t} PROVE LockFine(u)'
      BY <1>2, <1>3, <1>4, <2>2, <3>1 DEF LockFine, Locking
    <3>3. LockFine(t)'
      BY <1>5, <2>4, LockFineFresh DEF BuildThrows
    <3>4. LockOrdered'
      BY <2>4, <3>1 DEF LockKept, LockOrdered, BuildThrows
    <3> QED BY <3>2, <3>3, <3>4, LockFineAll DEF LockKept, Sorted, LockHeld, LockFine
  <2>5. CASE CommitPlugin(t)
    <3>1. lock'.pool /\ lock'.holder = t /\ lock'.plugin = Plugin(t) /\ lock'.ready = lock.ready
          /\ lock.plugin = None
      BY <1>2, <1>8, <2>1, <2>5 DEF CommitPlugin, LockFine, At
    <3>2. ASSUME NEW u \in Submitters \ {t} PROVE LockFine(u)'
      <4>1. caller[u].pc = "push" => ~IsObject(u)
        <5> SUFFICES ASSUME caller[u].pc = "push", IsObject(u) PROVE FALSE
          OBVIOUS
        <5>1. Plugin(u) = None /\ At(u, "push")
          BY <1>2, <3>1 DEF LockFine, At
        <5>2. Plugin(u) \in PluginNames
          BY <5>1, SubmissionType, PluginType
        <5> QED BY <5>1, <5>2 DEF PluginNames, None
      <4> QED BY <1>2, <1>3, <1>4, <2>2, <3>1, <4>1 DEF LockFine, Locking
    <3>3. LockFine(t)'
      BY <1>6, <2>1, <2>5, <3>1 DEF CommitPlugin, LockFine, Pcs, ForObjects, ForFiles, Locking
    <3>4. LockOrdered'
      <4>1. \A p \in seen.plugins : p # None
        BY DEF TypeOK, PluginNames, None
      <4> QED BY <2>5, <3>1, <4>1 DEF LockKept, LockOrdered, CommitPlugin
    <3> QED BY <3>2, <3>3, <3>4, LockFineAll DEF LockKept, Sorted, LockHeld, LockFine
  <2>6. CASE PublishPlugin(t)
    <3>1. lock'.pool = lock.pool /\ lock'.plugin = lock.plugin /\ lock'.ready = lock.plugin
          /\ lock.plugin = Plugin(t)
      BY <1>2, <1>8, <2>6 DEF PublishPlugin, LockFine, At
    <3>2. ASSUME NEW u \in Submitters \ {t} PROVE LockFine(u)'
      BY <1>2, <1>3, <1>4, <2>2, <3>1 DEF LockFine, Locking
    <3>3. LockFine(t)'
      BY <1>6, <2>6, <3>1 DEF PublishPlugin, LockFine, Pcs, ForObjects, ForFiles, Locking
    <3>4. LockOrdered'
      BY <2>6, <3>1 DEF LockKept, LockOrdered, PublishPlugin
    <3> QED BY <3>2, <3>3, <3>4, LockFineAll DEF LockKept, Sorted, LockHeld, LockFine
  <2> QED BY <1>10, <2>3, <2>4, <2>5, <2>6
<1> QED BY <1>9, <1>10

(* The other steps of a submission.                                        *)
LEMMA LockOtherSteps ==
  ASSUME TypeOK, LockKept, Walking, NEW t \in Submitters,
         \/ Verify(t) \/ LockFast(t) \/ Resolve(t) \/ BeginGroups(t) \/ RouteFile(t)
         \/ RememberBlock(t) \/ EndGroups(t) \/ Push(t) \/ EndPush(t)
  PROVE  LockKept'
<1>1. setting' = setting /\ lock' = lock
  BY DEF Verify, LockFast, Resolve, BeginGroups, RouteFile, RememberBlock, EndGroups, Push, EndPush
<1>2. LockFine(t) /\ caller[t].at <= Len(Plan[t])
  BY LockFineAll DEF LockKept, Verify, LockFast, Resolve, BeginGroups, RouteFile, RememberBlock,
     EndGroups, Push, EndPush, At
<1>3. Return(t) => LockFine(t)' /\ \A u \in Submitters \ {t} : caller'[u] = caller[u]
  BY ReturnType, LockFineFresh
<1>4. ASSUME NEW pc \in Pcs, Go(t, pc)
      PROVE  Alone(t) /\ caller'[t].pc = pc
  BY <1>4, GoType DEF SameWalk, Alone
<1>5. Alone(t) => /\ IsObject(t)' = IsObject(t) /\ Plugin(t)' = Plugin(t)
                  /\ (caller[t].at <= Len(Plan[t]))'
  BY <1>1, <1>2, SameSubmission, SameSetting DEF Alone
<1>6. CASE Verify(t) \/ LockFast(t) \/ Resolve(t) \/ EndPush(t)
  <2>1. UNCHANGED seen
    BY <1>6 DEF Verify, LockFast, Resolve, EndPush
  <2>2. CASE Return(t)
    BY <1>1, <1>3, <2>1, <2>2, LockUntouched
  <2>3. CASE Verify(t) /\ Go(t, IF IsObject(t) THEN "lock" ELSE "resolve")
    <3>1. Alone(t) /\ caller'[t].pc = IF IsObject(t) THEN "lock" ELSE "resolve"
      BY <1>4, <2>3 DEF Pcs
    <3>2. LockFine(t)'
      BY <1>5, <3>1 DEF LockFine, ForObjects, ForFiles, Locking
    <3> QED BY <1>1, <2>1, <3>1, <3>2, LockUntouched DEF Alone
  <2>4. CASE LockFast(t) /\ Go(t, "enter")
    <3>1. Alone(t) /\ caller'[t].pc = "enter"
      BY <1>4, <2>4 DEF Pcs
    <3>2. LockFine(t)'
      BY <1>2, <1>5, <2>4, <3>1 DEF LockFine, LockFast, At, ForObjects, ForFiles, Locking
    <3> QED BY <1>1, <2>1, <3>1, <3>2, LockUntouched DEF Alone
  <2>5. CASE LockFast(t) /\ lock.ready = Plugin(t) /\ Go(t, "push")
    <3>1. Alone(t) /\ caller'[t].pc = "push"
      BY <1>4, <2>5 DEF Pcs
    <3>2. IsObject(t) /\ At(t, "lock")
      BY <1>2, <2>5 DEF LockFine, LockFast, At, ForObjects
    <3>3. Plugin(t) # None
      BY <3>2, SubmissionType, PluginType DEF PluginNames, None
    <3>4. lock.plugin = Plugin(t)
      BY <2>5, <3>3 DEF LockKept, LockOrdered
    <3>5. LockFine(t)'
      BY <1>1, <1>5, <3>1, <3>4 DEF LockFine, ForObjects, ForFiles, Locking
    <3> QED BY <1>1, <2>1, <3>1, <3>5, LockUntouched DEF Alone
  <2>6. CASE Resolve(t) /\ Go(t, "groups")
    <3>1. Alone(t) /\ caller'[t].pc = "groups"
      BY <1>4, <2>6 DEF Pcs
    <3>2. LockFine(t)'
      BY <1>2, <1>5, <2>6, <3>1 DEF LockFine, Resolve, At, ForObjects, ForFiles, Locking
    <3> QED BY <1>1, <2>1, <3>1, <3>2, LockUntouched DEF Alone
  <2>7. CASE Verify(t)
    BY <2>2, <2>3, <2>7 DEF Verify
  <2>8. CASE LockFast(t)
    BY <2>2, <2>4, <2>5, <2>8 DEF LockFast
  <2>9. CASE Resolve(t)
    BY <2>2, <2>6, <2>9 DEF Resolve
  <2>10. CASE EndPush(t)
    BY <2>2, <2>10 DEF EndPush
  <2> QED BY <1>6, <2>7, <2>8, <2>9, <2>10
<1>7. CASE BeginGroups(t) \/ RouteFile(t) \/ RememberBlock(t)
  <2>1. UNCHANGED seen
    BY <1>7 DEF BeginGroups, RouteFile, RememberBlock
  <2>2. ~IsObject(t)
    BY <1>2, <1>7 DEF LockFine, BeginGroups, RouteFile, RememberBlock, At, ForFiles
  <2>3. Alone(t) /\ caller'[t].pc \in {"route", "probe"}
    <3>1. CASE BeginGroups(t)
      <4>1. caller[t] \in CallerType
        BY DEF TypeOK
      <4> DEFINE c == [caller[t] EXCEPT !.pc = "route", !.late = ReportedDead]
      <4>2. c.pc = "route" /\ c.at = caller[t].at
        BY <4>1 DEF CallerType
      <4>3. caller' = [caller EXCEPT ![t] = c]
        BY <3>1 DEF BeginGroups
      <4>4. TypeOK'
        BY <3>1, MoveTypeStep
      <4> HIDE DEF c
      <4> QED BY <4>2, <4>3, <4>4 DEF TypeOK, Alone
    <3>2. CASE RouteFile(t)
      BY <3>2, RouteFileType DEF Advanced, Probing
    <3>3. CASE RememberBlock(t)
      BY <3>3, RememberBlockType DEF Advanced
    <3> QED BY <1>7, <3>1, <3>2, <3>3
  <2>4. LockFine(t)'
    BY <1>5, <2>2, <2>3 DEF LockFine, ForObjects, ForFiles, Locking
  <2> QED BY <1>1, <2>1, <2>3, <2>4, LockUntouched DEF Alone
<1>8. CASE EndGroups(t)
  <2>1. ~IsObject(t) /\ UNCHANGED seen
    BY <1>2, <1>8 DEF LockFine, EndGroups, At, ForFiles
  <2>2. caller[t] \in CallerType
    BY DEF TypeOK
  <2> DEFINE c == [caller[t] EXCEPT !.pc = "push", !.i = 1]
  <2>3. c.pc = "push" /\ c.at = caller[t].at
    BY <2>2 DEF CallerType
  <2>4. caller' = [caller EXCEPT ![t] = c]
    BY <1>8 DEF EndGroups
  <2>5. TypeOK'
    BY <1>8, MoveTypeStep
  <2> HIDE DEF c
  <2>6. Alone(t) /\ caller'[t].pc = "push"
    BY <2>3, <2>4, <2>5 DEF TypeOK, Alone
  <2>7. LockFine(t)'
    BY <1>5, <2>1, <2>6 DEF LockFine, ForObjects, ForFiles, Locking
  <2> QED BY <1>1, <2>1, <2>6, <2>7, LockUntouched DEF Alone
<1>9. CASE Push(t)
  <2>1. caller[t] \in CallerType /\ caller[t].pc = "push"
    BY <1>9 DEF TypeOK, Push, At
  <2> DEFINE c == [caller[t] EXCEPT !.i = caller[t].i + 1]
  <2>2. c.pc = "push" /\ c.at = caller[t].at
    BY <2>1 DEF CallerType
  <2>3. caller' = [caller EXCEPT ![t] = c]
    BY <1>9 DEF Push
  <2> HIDE DEF c
  <2>4. caller'[t].pc = "push" /\ caller'[t].at = caller[t].at
        /\ \A u \in Submitters \ {t} : caller'[u] = caller[u]
    BY <2>2, <2>3 DEF TypeOK
  <2>5. LockFine(t)'
    BY <1>1, <1>2, <2>1, <2>4, LockFineSame
  <2>6. \A p \in seen'.plugins : p \in seen.plugins \/ p = lock.plugin
    <3>1. CASE IsObject(t) /\ seen' = [seen EXCEPT !.plugins = @ \cup {Plugin(t)}]
      BY <1>2, <2>1, <3>1 DEF LockFine, TypeOK
    <3>2. CASE UNCHANGED seen
      BY <3>2
    <3> QED BY <1>9, <3>1, <3>2 DEF Push
  <2> QED BY <1>1, <2>4, <2>5, <2>6, LockUntouched
<1> QED BY <1>6, <1>7, <1>8, <1>9

(* The steps of the others do not touch the lock.                          *)
LEMMA LockElsewhere ==
  ASSUME LockKept, UNCHANGED <<setting, lock, caller>>, seen'.plugins = seen.plugins
  PROVE  LockKept'
<1>1. \A u \in Submitters : LockFine(u)'
  BY LockFineSame, LockFineAll DEF LockKept
<1>2. LockOrdered'
  BY DEF LockKept, LockOrdered
<1> QED BY <1>1, <1>2, LockFineAll DEF LockKept, Sorted, LockHeld, LockFine
-----------------------------------------------------------------------------
(* The list that is walked settles the strategy once, whichever of the     *)
(* setters and the first request comes first.                              *)
LEMMA StrategyStep ==
  ASSUME TypeOK, StrategySettled, [Next]_vars
  PROVE  StrategySettled' /\ (strategy.resolved # None => strategy'.resolved = strategy.resolved)
<1> DEFINE Goal == StrategySettled' /\ (strategy.resolved # None => strategy'.resolved = strategy.resolved)
<1>1. setting' = setting
  BY DEF Next, RoutingStep, vars, async_request, Verify, LockFast, LockEnter, BuildPool, BuildThrows,
     CommitPlugin, PublishPlugin, Resolve, BeginGroups, RouteFile, RememberBlock, EndGroups, Push,
     EndPush, Serve, EngineDies, TellListener, SetStrategy, SetCredentials, BuildClient, DropClient, Done
<1>2. Default' = Default /\ \A list : FirstAvailable(list)' = FirstAvailable(list)
  BY <1>1, SameSetting
<1>3. strategy \in [candidates : Lists \cup {NoList}, from : Lists \cup {NoList, Default}, resolved : Chosen]
  BY DEF TypeOK
<1>4. CASE UNCHANGED strategy /\ seen'.lists = seen.lists
  BY <1>2, <1>4 DEF StrategySettled
<1>5. ASSUME NEW list \in Lists, SetStrategy(list) PROVE Goal
  <2>1. list # NoList /\ seen'.lists = seen.lists \cup {list}
    BY <1>5 DEF SetStrategy, Parses, NoList, TypeOK
  <2>2. CASE strategy.from # NoList
    BY <1>2, <1>5, <2>1, <2>2 DEF SetStrategy, StrategySettled
  <2>3. CASE strategy.from = NoList
    <3>1. /\ strategy.candidates \in {NoList, list} /\ strategy'.candidates = list
          /\ strategy'.from = NoList /\ strategy'.resolved = strategy.resolved
      BY <1>3, <1>5, <2>3 DEF SetStrategy
    <3>2. \A l \in seen.lists : l = list
      BY <2>3, <3>1 DEF StrategySettled
    <3> QED BY <2>1, <2>3, <3>1, <3>2 DEF StrategySettled
  <2> QED BY <2>2, <2>3
<1>6. ASSUME NEW t \in Submitters, Resolve(t) PROVE Goal
  <2> DEFINE list == IF strategy.candidates # NoList THEN strategy.candidates ELSE Default
  <2>1. CASE UNCHANGED strategy
    BY <1>4, <1>6, <2>1 DEF Resolve
  <2>2. CASE /\ strategy.resolved = None /\ Parses(list)
             /\ strategy' = [strategy EXCEPT !.from = list, !.resolved = FirstAvailable(list)]
    <3>1. list # NoList
      BY <2>2 DEF Parses, NoList
    <3>2. /\ strategy'.from = list /\ strategy'.resolved = FirstAvailable(list)
          /\ strategy'.candidates = strategy.candidates /\ seen' = seen
      BY <1>3, <1>6, <2>2 DEF Resolve
    <3>3. ASSUME NEW l \in seen.lists PROVE l # NoList /\ l = list
      BY DEF StrategySettled
    <3> QED BY <1>2, <2>2, <3>1, <3>2, <3>3 DEF StrategySettled
  <2> QED BY <1>6, <2>1, <2>2 DEF Resolve
<1>7. ASSUME NEW t \in Submitters, async_request(t) PROVE Goal
  <2>1. CASE Resolve(t)
    BY <1>6, <2>1
  <2>2. CASE Push(t)
    <3>1. UNCHANGED strategy /\ seen'.lists = seen.lists
      BY <2>2 DEF Push, PushAsync, TypeOK
    <3> QED BY <1>4, <3>1
  <2>3. CASE ~Resolve(t) /\ ~Push(t)
    <3>1. UNCHANGED <<strategy, seen>>
      BY <1>7, <2>3 DEF async_request, Verify, LockFast, LockEnter, BuildPool, BuildThrows,
         CommitPlugin, PublishPlugin, BeginGroups, RouteFile, RememberBlock, EndGroups, EndPush
    <3> QED BY <1>4, <3>1
  <2> QED BY <2>1, <2>2, <2>3
<1>8. ASSUME NEW e \in 1 .. Len(engines), Serve(e) \/ EngineDies(e) \/ TellListener(e) PROVE Goal
  <2>1. UNCHANGED strategy /\ seen'.lists = seen.lists
    BY <1>8 DEF Serve, EngineDies, TellListener, TypeOK
  <2> QED BY <1>4, <2>1
<1>9. ASSUME NEW c \in Credentials, SetCredentials(c) PROVE Goal
  <2>1. UNCHANGED strategy /\ seen'.lists = seen.lists
    BY <1>9 DEF SetCredentials, TypeOK
  <2> QED BY <1>4, <2>1
<1>10. CASE UNCHANGED vars \/ Done \/ \E w \in Clients : BuildClient(w) \/ DropClient(w)
  <2>1. UNCHANGED strategy /\ seen'.lists = seen.lists
    BY <1>10 DEF BuildClient, DropClient, Done, vars
  <2> QED BY <1>4, <2>1
<1> QED BY <1>5, <1>7, <1>8, <1>9, <1>10 DEF Next, RoutingStep

(* The first accepted credentials are the ones of every client.            *)
LEMMA CredentialsStep ==
  ASSUME TypeOK, CredentialsSettled, [Next]_vars
  PROVE  CredentialsSettled'
<1>1. setting' = setting
  BY DEF Next, RoutingStep, vars, async_request, Verify, LockFast, LockEnter, BuildPool, BuildThrows,
     CommitPlugin, PublishPlugin, Resolve, BeginGroups, RouteFile, RememberBlock, EndGroups, Push,
     EndPush, Serve, EngineDies, TellListener, SetStrategy, SetCredentials, BuildClient, DropClient, Done
<1>2. Clients' = Clients
  BY <1>1, SameSetting
<1>3. CASE UNCHANGED creds /\ seen'.creds = seen.creds
  BY <1>2, <1>3 DEF CredentialsSettled
<1>4. ASSUME NEW c \in Credentials, SetCredentials(c) PROVE CredentialsSettled'
  <2>1. c # None /\ c # Unbuilt
    BY RoutingAssumption DEF TypeOK, Credentials
  <2>2. /\ creds.set \in {None, c} /\ creds'.set = c /\ creds'.client = creds.client
        /\ seen'.creds = seen.creds \cup {c}
    BY <1>4 DEF SetCredentials, TypeOK
  <2> QED BY <1>2, <2>1, <2>2 DEF CredentialsSettled
<1>5. ASSUME NEW w \in Clients, BuildClient(w) \/ DropClient(w) PROVE CredentialsSettled'
  <2>1. PICK k \in {creds.set, Unbuilt} : creds' = [creds EXCEPT !.client[w] = k]
    BY <1>5 DEF BuildClient, DropClient
  <2>2. creds.client \in [Clients -> Credentials \cup {None, Unbuilt}]
    BY DEF TypeOK
  <2>3. creds'.set = creds.set /\ creds'.client = [creds.client EXCEPT ![w] = k]
    BY <2>1 DEF TypeOK
  <2>4. seen' = seen
    BY <1>5 DEF BuildClient, DropClient
  <2>5. ASSUME NEW v \in Clients PROVE creds'.client[v] \in {Unbuilt, None, creds.set}
    BY <2>2, <2>3 DEF CredentialsSettled
  <2> QED BY <1>2, <2>3, <2>4, <2>5 DEF CredentialsSettled
<1>6. ASSUME NEW t \in Submitters, async_request(t) PROVE CredentialsSettled'
  <2>1. CASE Push(t)
    <3>1. UNCHANGED creds /\ seen'.creds = seen.creds
      BY <2>1 DEF Push, PushAsync, TypeOK
    <3> QED BY <1>3, <3>1
  <2>2. CASE ~Push(t)
    <3>1. UNCHANGED <<creds, seen>>
      BY <1>6, <2>2 DEF async_request, Verify, LockFast, LockEnter, BuildPool, BuildThrows, Resolve,
         CommitPlugin, PublishPlugin, BeginGroups, RouteFile, RememberBlock, EndGroups, EndPush
    <3> QED BY <1>3, <3>1
  <2> QED BY <2>1, <2>2
<1>7. ASSUME NEW e \in 1 .. Len(engines), Serve(e) \/ EngineDies(e) \/ TellListener(e)
      PROVE  CredentialsSettled'
  <2>1. UNCHANGED creds /\ seen'.creds = seen.creds
    BY <1>7 DEF Serve, EngineDies, TellListener, TypeOK
  <2> QED BY <1>3, <2>1
<1>8. ASSUME NEW list \in Lists, SetStrategy(list) PROVE CredentialsSettled'
  <2>1. UNCHANGED creds /\ seen'.creds = seen.creds
    BY <1>8 DEF SetStrategy, TypeOK
  <2> QED BY <1>3, <2>1
<1>9. CASE UNCHANGED vars \/ Done
  BY <1>3, <1>9 DEF Done, vars
<1> QED BY <1>4, <1>5, <1>6, <1>7, <1>8, <1>9 DEF Next, RoutingStep
-----------------------------------------------------------------------------
(* The caller keeps the routes and the blocks it has found.                *)
Kept(t) == caller'[t].route = caller[t].route /\ caller'[t].blocks = caller[t].blocks

(* The caller is back where it begins its next submission.                 *)
Returned(t) ==
  /\ caller'[t].pc = "verify" /\ caller'[t].i = 1
  /\ caller'[t].route = <<>> /\ caller'[t].blocks = <<>>

(* The caller has been sorted, or is somewhere in the lock, or past it.    *)
Sorting(t) ==
  /\ Alone(t) /\ Kept(t) /\ caller'[t].i = caller[t].i
  /\ caller[t].pc \notin ForFiles \cup {"push"}
  /\ \/ caller'[t].pc \in ForObjects \cup {"resolve"}
     \/ caller'[t].pc = "push" /\ IsObject(t)

(* The steps that move the caller from one stage to the next.              *)
LEMMA StageOutcome ==
  ASSUME TypeOK, NEW t \in Submitters, BeginGroups(t) \/ EndGroups(t) \/ Push(t)
  PROVE  /\ Alone(t) /\ Kept(t)
         /\ BeginGroups(t) => caller'[t].pc = "route" /\ caller'[t].i = caller[t].i
         /\ EndGroups(t) \/ Push(t) => caller'[t].pc = "push"
<1>1. caller[t] \in CallerType /\ "push" \in Pcs /\ "route" \in Pcs
  BY DEF TypeOK, Pcs
<1>2. PICK pc \in {"route", "push"}, i \in Nat \ {0}, late \in SUBSET MountId :
        /\ caller' = [caller EXCEPT ![t] = [caller[t] EXCEPT !.pc = pc, !.i = i, !.late = late]]
        /\ BeginGroups(t) => pc = "route" /\ i = caller[t].i
        /\ EndGroups(t) \/ Push(t) => pc = "push"
  <2>1. caller[t].i \in Nat \ {0} /\ caller[t].i + 1 \in Nat \ {0} /\ caller[t].late \in SUBSET MountId
    BY <1>1 DEF CallerType
  <2>2. CASE BeginGroups(t)
    <3>1. caller[t].pc = "groups" /\ ReportedDead \in SUBSET MountId
      BY <2>2 DEF BeginGroups, At, ReportedDead, MountId
    <3>2. [caller[t] EXCEPT !.pc = "route", !.late = ReportedDead]
            = [caller[t] EXCEPT !.pc = "route", !.i = caller[t].i, !.late = ReportedDead]
      BY <1>1 DEF CallerType
    <3>3. caller' = [caller EXCEPT ![t] = [caller[t] EXCEPT !.pc = "route", !.late = ReportedDead]]
      BY <2>2 DEF BeginGroups
    <3>4. ~EndGroups(t) /\ ~Push(t)
      BY <3>1 DEF EndGroups, Push, At
    <3> QED BY <2>1, <3>1, <3>2, <3>3, <3>4
  <2>3. CASE EndGroups(t)
    <3>1. caller[t].pc = "route"
      BY <2>3 DEF EndGroups, At
    <3>2. PICK one \in Nat \ {0} : one = 1
      OBVIOUS
    <3>3. [caller[t] EXCEPT !.pc = "push", !.i = one]
            = [caller[t] EXCEPT !.pc = "push", !.i = one, !.late = caller[t].late]
      BY <1>1 DEF CallerType
    <3>4. caller' = [caller EXCEPT ![t] = [caller[t] EXCEPT !.pc = "push", !.i = one]]
      BY <2>3, <3>2 DEF EndGroups
    <3>5. ~BeginGroups(t)
      BY <3>1 DEF BeginGroups, At
    <3> QED BY <2>1, <3>3, <3>4, <3>5
  <2>4. CASE Push(t)
    <3>1. caller[t].pc = "push"
      BY <2>4 DEF Push, At
    <3>2. [caller[t] EXCEPT !.i = caller[t].i + 1]
            = [caller[t] EXCEPT !.pc = "push", !.i = caller[t].i + 1, !.late = caller[t].late]
      BY <1>1, <3>1 DEF CallerType
    <3>3. caller' = [caller EXCEPT ![t] = [caller[t] EXCEPT !.i = caller[t].i + 1]]
      BY <2>4 DEF Push
    <3>4. ~BeginGroups(t)
      BY <3>1 DEF BeginGroups, At
    <3> QED BY <2>1, <3>1, <3>2, <3>3, <3>4
  <2> QED BY <2>2, <2>3, <2>4
<1> DEFINE c == [caller[t] EXCEPT !.pc = pc, !.i = i, !.late = late]
<1>3. /\ c \in CallerType /\ c.pc = pc /\ c.i = i /\ c.at = caller[t].at
      /\ c.route = caller[t].route /\ c.blocks = caller[t].blocks
  BY <1>1 DEF CallerType
<1> HIDE DEF c
<1>4. caller' = [caller EXCEPT ![t] = c]
  BY <1>2 DEF c
<1>5. caller' \in [Submitters -> CallerType] /\ caller'[t] = c
      /\ \A u \in Submitters \ {t} : caller'[u] = caller[u]
  BY <1>3, <1>4 DEF TypeOK
<1> QED BY <1>2, <1>3, <1>5 DEF Alone, Kept

(* The steps before a submission's files are routed, and its return.       *)
LEMMA SortingOutcome ==
  ASSUME TypeOK, LockKept, NEW t \in Submitters,
         \/ Verify(t) \/ LockFast(t) \/ LockEnter(t) \/ BuildPool(t) \/ BuildThrows(t)
         \/ CommitPlugin(t) \/ PublishPlugin(t) \/ EndPush(t)
  PROVE  /\ \A u \in Submitters \ {t} : caller'[u] = caller[u]
         /\ Returned(t) \/ Sorting(t)
<1>1. CASE Return(t)
  BY <1>1, ReturnType DEF Returned
<1>2. CASE ~Return(t)
  <2>1. caller[t].pc \in ForObjects => IsObject(t)
    BY DEF LockKept, Sorted
  <2>2. PICK pc \in ForObjects \cup {"resolve", "push"} :
          /\ Go(t, pc) /\ (pc = "push" => IsObject(t))
          /\ caller[t].pc \notin ForFiles \cup {"push"}
    BY <1>2, <2>1 DEF ForObjects, ForFiles, Locking, Verify, LockFast, LockEnter, BuildPool,
       BuildThrows, CommitPlugin, PublishPlugin, EndPush, At
  <2>3. pc \in Pcs
    BY DEF Pcs, ForObjects, Locking
  <2> QED BY <2>2, <2>3, GoType DEF SameWalk, Sorting, Alone, Kept
<1> QED BY <1>1, <1>2

(* Resolving either sends the submission back or goes on with a strategy.  *)
LEMMA ResolveOutcome ==
  ASSUME TypeOK, NEW t \in Submitters, Resolve(t)
  PROVE  /\ \A u \in Submitters \ {t} : caller'[u] = caller[u]
         /\ caller[t].pc = "resolve"
         /\ \/ Returned(t)
            \/ /\ Alone(t) /\ Kept(t) /\ caller'[t].pc = "groups" /\ caller'[t].i = caller[t].i
               /\ strategy'.resolved # None
<1>1. CASE Return(t)
  BY <1>1, ReturnType DEF Returned, Resolve, At
<1>2. CASE ~Return(t)
  <2>1. Go(t, "groups") /\ "groups" \in Pcs
    BY <1>2 DEF Resolve, Pcs
  <2>2. strategy'.resolved # None
    BY <1>2 DEF Resolve, TypeOK
  <2> QED BY <2>1, <2>2, GoType DEF SameWalk, Alone, Kept, Resolve, At
<1> QED BY <1>1, <1>2
-----------------------------------------------------------------------------
(* How far one submitter's walk has come.                                  *)
WalkFine(u) ==
  /\ caller[u].pc # "push" => Len(caller[u].route) = caller[u].i - 1
  /\ caller[u].pc = "push" /\ ~IsObject(u) => Len(caller[u].route) >= Len(Submission(u))
  /\ caller[u].pc = "probe" => /\ caller[u].i \in 1 .. Len(Submission(u))
                               /\ MountOf(Submission(u)[caller[u].i]) \in MountId

(* A submitter's walk does not depend on the others.                       *)
LEMMA WalkFineSame ==
  ASSUME setting' = setting, NEW u \in Submitters, caller'[u] = caller[u], WalkFine(u)
  PROVE  WalkFine(u)'
BY SameSubmission DEF WalkFine, MountOf

(* groups() gives every file of a submission its route before the first is *)
(* dispatched, and a probe knows the file it was made for.                 *)
LEMMA WalkingStep ==
  ASSUME TypeOK, LockKept, Walking, NEW t \in Submitters, async_request(t)
  PROVE  Walking'
<1>1. setting' = setting
  BY DEF async_request, Verify, LockFast, LockEnter, BuildPool, BuildThrows, CommitPlugin,
     PublishPlugin, Resolve, BeginGroups, RouteFile, RememberBlock, EndGroups, Push, EndPush
<1>2. WalkFine(t) /\ \A u \in Submitters : WalkFine(u)
  BY DEF Walking, WalkFine
<1>3. SUFFICES WalkFine(t)' /\ \A u \in Submitters \ {t} : caller'[u] = caller[u]
  <2>1. ASSUME NEW u \in Submitters PROVE WalkFine(u)'
    BY <1>1, <1>2, <1>3, WalkFineSame
  <2> QED BY <2>1 DEF Walking, WalkFine
<1>4. Alone(t) => Submission(t)' = Submission(t) /\ IsObject(t)' = IsObject(t)
  BY <1>1, SameSubmission DEF Alone
<1>5. /\ caller[t].i \in Nat \ {0} /\ Len(caller[t].route) \in Nat
      /\ Alone(t) => caller'[t].i \in Nat \ {0} /\ Len(caller'[t].route) \in Nat
  BY DEF TypeOK, CallerType, Alone
<1>6. Returned(t) => WalkFine(t)'
  BY DEF Returned, WalkFine
<1>7. CASE \/ Verify(t) \/ LockFast(t) \/ LockEnter(t) \/ BuildPool(t) \/ BuildThrows(t)
           \/ CommitPlugin(t) \/ PublishPlugin(t) \/ EndPush(t)
  <2>1. Sorting(t) => WalkFine(t)'
    BY <1>2, <1>4, <1>5 DEF Sorting, WalkFine, Kept, ForObjects, ForFiles, Locking
  <2> QED BY <1>6, <1>7, <2>1, SortingOutcome
<1>8. CASE Resolve(t)
  BY <1>2, <1>4, <1>5, <1>6, <1>8, ResolveOutcome DEF WalkFine, Kept
<1>9. CASE BeginGroups(t)
  BY <1>2, <1>4, <1>5, <1>9, StageOutcome DEF WalkFine, Kept, BeginGroups, At, Alone
<1>10. CASE RouteFile(t)
  <2>1. caller[t].pc = "route"
    BY <1>10 DEF RouteFile, At
  <2>2. Advanced(t) /\ Alone(t) => WalkFine(t)'
    BY <1>2, <1>5, <2>1 DEF WalkFine, Advanced
  <2>3. Probing(t) /\ Alone(t) => WalkFine(t)'
    BY <1>2, <1>4, <1>5, <2>1 DEF WalkFine, Probing, MountOf
  <2> QED BY <1>10, <2>2, <2>3, RouteFileType DEF Alone
<1>11. CASE RememberBlock(t)
  <2>1. Alone(t) /\ Advanced(t) /\ caller[t].pc = "probe"
    BY <1>11, RememberBlockType DEF RememberBlock, At
  <2>2. Len(caller[t].route) = caller[t].i - 1
    BY <1>2, <2>1 DEF WalkFine
  <2>3. caller'[t].pc = "route" /\ Len(caller'[t].route) = caller'[t].i - 1
    BY <1>5, <2>1, <2>2 DEF Advanced
  <2>4. WalkFine(t)'
    BY <2>3 DEF WalkFine
  <2> QED BY <2>1, <2>4 DEF Alone
<1>12. CASE EndGroups(t)
  <2>1. Submission(t) \in Seq(Files)
    BY <1>12, SubmissionType DEF EndGroups
  <2>2. caller[t].pc = "route" /\ caller[t].i > Len(Submission(t)) /\ Len(Submission(t)) \in Nat
    BY <1>12, <2>1 DEF EndGroups, At
  <2>3. Alone(t) /\ Kept(t) /\ caller'[t].pc = "push"
    BY <1>12, StageOutcome
  <2>4. WalkFine(t)'
    BY <1>2, <1>4, <1>5, <2>2, <2>3 DEF WalkFine, Kept
  <2> QED BY <2>3, <2>4 DEF Alone
<1>13. CASE Push(t)
  BY <1>2, <1>4, <1>5, <1>13, StageOutcome DEF WalkFine, Kept, Push, At, Alone
<1> QED BY <1>7, <1>8, <1>9, <1>10, <1>11, <1>12, <1>13 DEF async_request

(* A walk over the files has a strategy, and so has every engine: the one  *)
(* of the streamer.                                                        *)
LEMMA WalksResolvedStep ==
  ASSUME TypeOK, LockKept, Walking, WalksResolved, NEW t \in Submitters, async_request(t),
         strategy.resolved # None => strategy'.resolved = strategy.resolved
  PROVE  WalksResolved'
<1> DEFINE Needs(u) == \/ caller[u].pc \in {"groups", "route", "probe"}
                       \/ caller[u].pc = "push" /\ ~IsObject(u)
<1>1. setting' = setting
  BY DEF async_request, Verify, LockFast, LockEnter, BuildPool, BuildThrows, CommitPlugin,
     PublishPlugin, Resolve, BeginGroups, RouteFile, RememberBlock, EndGroups, Push, EndPush
<1>2. \A u \in Submitters : Needs(u) => strategy'.resolved # None
  BY DEF WalksResolved
<1>3. SUFFICES /\ Needs(t)' => strategy'.resolved # None
               /\ \A u \in Submitters \ {t} : caller'[u] = caller[u]
  <2>1. ASSUME NEW u \in Submitters \ {t} PROVE Needs(u)' = Needs(u)
    BY <1>1, <1>3, SameSubmission
  <2> QED BY <1>2, <1>3, <2>1 DEF WalksResolved
<1>4. Alone(t) => IsObject(t)' = IsObject(t)
  BY <1>1, SameSubmission DEF Alone
<1>5. Returned(t) => ~Needs(t)'
  BY DEF Returned
<1>6. CASE \/ Verify(t) \/ LockFast(t) \/ LockEnter(t) \/ BuildPool(t) \/ BuildThrows(t)
           \/ CommitPlugin(t) \/ PublishPlugin(t) \/ EndPush(t)
  <2>1. Sorting(t) => ~Needs(t)'
    BY <1>4 DEF Sorting, ForObjects, Locking
  <2> QED BY <1>5, <1>6, <2>1, SortingOutcome
<1>7. CASE Resolve(t)
  BY <1>5, <1>7, ResolveOutcome
<1>8. CASE BeginGroups(t) \/ RouteFile(t) \/ RememberBlock(t) \/ EndGroups(t) \/ Push(t)
  <2>1. Alone(t)
    BY <1>8, StageOutcome, RouteFileType, RememberBlockType
  <2>2. Needs(t) \/ caller[t].pc = "push"
    BY <1>8 DEF BeginGroups, RouteFile, RememberBlock, EndGroups, Push, At
  <2>3. caller[t].pc = "push" => caller'[t].pc = "push"
    BY <1>8, StageOutcome DEF BeginGroups, RouteFile, RememberBlock, EndGroups, Push, At
  <2> QED BY <1>2, <1>4, <2>1, <2>2, <2>3 DEF Alone
<1> QED BY <1>6, <1>7, <1>8 DEF async_request
-----------------------------------------------------------------------------
(* No engine is added, and what an engine was built for stays.             *)
SameEngines ==
  /\ Len(engines') = Len(engines)
  /\ \A f \in 1 .. Len(engines) :
       /\ engines'[f].mount = engines[f].mount /\ engines'[f].key = engines[f].key
       /\ engines'[f].block = engines[f].block /\ engines'[f].strategy = engines[f].strategy

(* An engine's thread only takes reads away.                               *)
LEMMA EngineOutcome ==
  ASSUME TypeOK, NEW e \in 1 .. Len(engines), Serve(e) \/ EngineDies(e) \/ TellListener(e)
  PROVE  /\ SameEngines
         /\ \A f \in 1 .. Len(engines) : \A k \in 1 .. Len(engines'[f].queue) :
              \E j \in 1 .. Len(engines[f].queue) : engines'[f].queue[k] = engines[f].queue[j]
<1>1. engines[e] \in EngineType /\ engines[e].queue \in Seq(ReadType)
  <2>1. engines[e] \in EngineType
    BY DEF TypeOK
  <2> QED BY <2>1 DEF EngineType
<1>2. PICK q \in Seq(ReadType), d \in BOOLEAN, l \in BOOLEAN :
        /\ engines' = [engines EXCEPT ![e] = [engines[e] EXCEPT !.queue = q, !.dead = d, !.told = l]]
        /\ q = engines[e].queue \/ (engines[e].queue # <<>> /\ q = Tail(engines[e].queue))
  <2>1. engines[e].dead \in BOOLEAN /\ engines[e].told \in BOOLEAN
    BY <1>1 DEF EngineType
  <2>2. CASE Serve(e)
    <3>1. PICK q \in Seq(ReadType) : q = Tail(engines[e].queue)
      <4>1. Tail(engines[e].queue) \in Seq(ReadType)
        BY <1>1, <2>2 DEF Serve
      <4> QED BY <4>1, Zenon
    <3>2. [engines[e] EXCEPT !.queue = q]
            = [engines[e] EXCEPT !.queue = q, !.dead = engines[e].dead, !.told = engines[e].told]
      BY <1>1 DEF EngineType
    <3>3. engines' = [engines EXCEPT ![e] = [engines[e] EXCEPT !.queue = q]]
      BY <2>2, <3>1 DEF Serve
    <3>4. engines[e].queue # <<>>
      BY <2>2 DEF Serve
    <3> QED BY <2>1, <3>1, <3>2, <3>3, <3>4
  <2>3. CASE EngineDies(e)
    <3>1. [engines[e] EXCEPT !.dead = TRUE]
            = [engines[e] EXCEPT !.queue = engines[e].queue, !.dead = TRUE, !.told = engines[e].told]
      BY <1>1 DEF EngineType
    <3>2. engines' = [engines EXCEPT ![e] = [engines[e] EXCEPT !.dead = TRUE]]
      BY <2>3 DEF EngineDies
    <3> QED BY <1>1, <2>1, <3>1, <3>2
  <2>4. CASE TellListener(e)
    <3>1. [engines[e] EXCEPT !.told = TRUE]
            = [engines[e] EXCEPT !.queue = engines[e].queue, !.dead = engines[e].dead, !.told = TRUE]
      BY <1>1 DEF EngineType
    <3>2. engines' = [engines EXCEPT ![e] = [engines[e] EXCEPT !.told = TRUE]]
      BY <2>4 DEF TellListener
    <3> QED BY <1>1, <2>1, <3>1, <3>2
  <2> QED BY <2>2, <2>3, <2>4
<1> DEFINE c == [engines[e] EXCEPT !.queue = q, !.dead = d, !.told = l]
<1>3. /\ c.mount = engines[e].mount /\ c.key = engines[e].key /\ c.block = engines[e].block
      /\ c.strategy = engines[e].strategy /\ c.queue = q
  BY <1>1 DEF EngineType
<1>4. engines' = [engines EXCEPT ![e] = c]
  BY <1>2
<1> HIDE DEF c
<1>5. /\ Len(engines') = Len(engines) /\ engines'[e] = c
      /\ \A f \in 1 .. Len(engines) : f # e => engines'[f] = engines[f]
  BY <1>4 DEF TypeOK
<1>6. SameEngines
  BY <1>3, <1>5 DEF SameEngines
<1>7. ASSUME NEW k \in 1 .. Len(q)
      PROVE  \E j \in 1 .. Len(engines[e].queue) : q[k] = engines[e].queue[j]
  <2>1. CASE q = engines[e].queue
    BY <2>1
  <2>2. CASE engines[e].queue # <<>> /\ q = Tail(engines[e].queue)
    <3>1. k + 1 \in 1 .. Len(engines[e].queue) /\ q[k] = engines[e].queue[k + 1]
      BY <1>1, <2>2
    <3> QED BY <3>1
  <2> QED BY <1>2, <2>1, <2>2
<1>8. ASSUME NEW f \in 1 .. Len(engines), NEW k \in 1 .. Len(engines'[f].queue)
      PROVE  \E j \in 1 .. Len(engines[f].queue) : engines'[f].queue[k] = engines[f].queue[j]
  <2>1. CASE f = e
    BY <1>3, <1>5, <1>7, <2>1
  <2>2. CASE f # e
    <3>1. engines'[f].queue = engines[f].queue
      BY <1>5, <2>2
    <3> QED BY <3>1
  <2> QED BY <2>1, <2>2
<1> QED BY <1>6, <1>8

(* A push either leaves the engines alone or is push_async of a file's     *)
(* mount.                                                                  *)
LEMMA PushOutcome ==
  ASSUME TypeOK, Walking, NEW t \in Submitters, Push(t)
  PROVE  \/ UNCHANGED <<engines, byDevice>>
         \/ ~IsObject(t) /\ caller[t].pc = "push" /\ \E m \in MountId : PushAsync(t, m)
<1>1. CASE /\ ~IsObject(t) /\ caller[t].i \in Read(t) /\ caller[t].route[caller[t].i] # NoMount
           /\ PushAsync(t, caller[t].route[caller[t].i])
  <2>1. Submission(t) \in Seq(Files)
    BY SubmissionType DEF Push
  <2>2. caller[t].route \in Seq(MountId \cup {NoMount}) /\ caller[t].pc = "push"
    BY DEF TypeOK, CallerType, Push, At
  <2>3. caller[t].i \in 1 .. Len(caller[t].route)
    BY <1>1, <2>1, <2>2 DEF Walking, Read
  <2>4. caller[t].route[caller[t].i] \in MountId
    BY <1>1, <2>2, <2>3
  <2> QED BY <1>1, <2>2, <2>4
<1>2. CASE UNCHANGED <<engines, byDevice>>
  BY <1>2
<1> QED BY <1>1, <1>2 DEF Push

(* What the shared engine of push_async keeps and what it gains.           *)
LEMMA SharedOutcome ==
  ASSUME TypeOK, NEW m \in MountId, NEW x \in EnginesOf(m), NEW read \in ReadType,
         engines' = [engines EXCEPT ![x].queue = Append(@, read)]
  PROVE  /\ SameEngines /\ x \in 1 .. Len(engines) /\ engines[x].key = Mounts[m].key
         /\ \A f \in 1 .. Len(engines) : \A k \in 1 .. Len(engines'[f].queue) :
              \/ \E j \in 1 .. Len(engines[f].queue) : engines'[f].queue[k] = engines[f].queue[j]
              \/ f = x /\ engines'[f].queue[k] = read
<1>1. x \in 1 .. Len(engines) /\ engines[x].key = Mounts[m].key
  BY DEF EnginesOf
<1>2. engines[x] \in EngineType
  BY <1>1 DEF TypeOK
<1>3. engines[x].queue \in Seq(ReadType)
  BY <1>2 DEF EngineType
<1>4. PICK q \in Seq(ReadType) : q = Append(engines[x].queue, read)
  <2>1. Append(engines[x].queue, read) \in Seq(ReadType)
    BY <1>3
  <2> QED BY <2>1, Zenon
<1> DEFINE c == [engines[x] EXCEPT !.queue = q]
<1>5. /\ c.mount = engines[x].mount /\ c.key = engines[x].key /\ c.block = engines[x].block
      /\ c.strategy = engines[x].strategy /\ c.queue = q
  BY <1>2 DEF EngineType
<1>6. engines' = [engines EXCEPT ![x] = c]
  BY <1>4
<1> HIDE DEF c
<1>7. /\ Len(engines') = Len(engines) /\ engines'[x] = c
      /\ \A f \in 1 .. Len(engines) : f # x => engines'[f] = engines[f]
  BY <1>1, <1>6 DEF TypeOK
<1>8. SameEngines
  BY <1>5, <1>7 DEF SameEngines
<1>9. ASSUME NEW k \in 1 .. Len(q)
      PROVE  (\E j \in 1 .. Len(engines[x].queue) : q[k] = engines[x].queue[j]) \/ q[k] = read
  <2>1. Len(q) = Len(engines[x].queue) + 1
    BY <1>3, <1>4
  <2>2. CASE k \in 1 .. Len(engines[x].queue)
    BY <1>3, <1>4, <2>2
  <2>3. CASE k = Len(engines[x].queue) + 1
    BY <1>3, <1>4, <2>3
  <2> QED BY <1>3, <2>1, <2>2, <2>3
<1>10. ASSUME NEW f \in 1 .. Len(engines), NEW k \in 1 .. Len(engines'[f].queue)
       PROVE  \/ \E j \in 1 .. Len(engines[f].queue) : engines'[f].queue[k] = engines[f].queue[j]
              \/ f = x /\ engines'[f].queue[k] = read
  <2>1. CASE f = x
    BY <1>5, <1>7, <1>9, <2>1
  <2>2. CASE f # x
    <3>1. engines'[f].queue = engines[f].queue
      BY <1>7, <2>2
    <3> QED BY <3>1
  <2> QED BY <2>1, <2>2
<1> QED BY <1>1, <1>8, <1>10

(* Everything the invariant says of the engines.                           *)
EnginesKept == Bound /\ Capped /\ EnginesResolved /\ EnginesMeasured

(* Engines that stay keep to it whatever their threads do.                 *)
LEMMA SameEnginesKept ==
  ASSUME TypeOK, EnginesKept, SameEngines, setting' = setting, strategy' = strategy, byDevice' = byDevice,
         \A m \in MountId : direct[m] # Unknown => direct'[m] = direct[m],
         \A f \in 1 .. Len(engines) : \A k \in 1 .. Len(engines'[f].queue) :
           \E j \in 1 .. Len(engines[f].queue) : engines'[f].queue[k] = engines[f].queue[j]
  PROVE  EnginesKept'
<1>1. Bound'
  <2>1. \A m \in MountId :
          byDevice'[m] \in 0 .. Len(engines') /\ (byDevice'[m] # 0 => engines'[byDevice'[m]].key = Mounts[m].key)
    BY DEF EnginesKept, Bound, SameEngines
  <2>2. ASSUME NEW f \in 1 .. Len(engines'), NEW k \in 1 .. Len(engines'[f].queue)
        PROVE  byDevice'[engines'[f].queue[k].mount] = f
    <3>1. f \in 1 .. Len(engines)
      BY DEF SameEngines
    <3>2. PICK j \in 1 .. Len(engines[f].queue) : engines'[f].queue[k] = engines[f].queue[j]
      BY <3>1
    <3>3. byDevice[engines[f].queue[j].mount] = f
      BY <3>1 DEF EnginesKept, Bound
    <3> QED BY <3>2, <3>3
  <2> QED BY <2>1, <2>2 DEF Bound
<1>2. ASSUME NEW m \in MountId PROVE EnginesOf(m)' = EnginesOf(m)
  BY DEF EnginesOf, SameEngines
<1>3. Capped'
  BY <1>2, SameSetting DEF EnginesKept, Capped
<1>4. EnginesResolved'
  BY DEF EnginesKept, EnginesResolved, SameEngines
<1>5. \A e \in 1 .. Len(engines) : engines[e].mount \in MountId
  <2>1. ASSUME NEW e \in 1 .. Len(engines) PROVE engines[e] \in EngineType
    BY DEF TypeOK
  <2> QED BY <2>1 DEF EngineType
<1>6. EnginesMeasured'
  BY <1>5 DEF EnginesKept, EnginesMeasured, SameEngines
<1> QED BY <1>1, <1>3, <1>4, <1>6 DEF EnginesKept

(* push_async: a new engine is built for its mount only below the cap, and *)
(* a mount that shares one has no other; no read waits at another engine.  *)
LEMMA PushAsyncKept ==
  ASSUME TypeOK, EnginesKept, BlocksMeasured, NEW t \in Submitters, NEW m \in MountId, PushAsync(t, m),
         UNCHANGED <<setting, strategy, direct>>, strategy.resolved # None
  PROVE  EnginesKept'
<1> DEFINE read == [mount |-> m, late |-> m \in caller[t].late]
           engine == [mount |-> m, key |-> Mounts[m].key, block |-> BlockOf(t, m),
                      strategy |-> strategy.resolved, queue |-> <<read>>,
                      dead |-> FALSE, told |-> FALSE]
<1>1. read \in ReadType /\ Len(engines) \in Nat /\ byDevice \in [MountId -> Nat]
  BY DEF ReadType, TypeOK
<1>2. ASSUME NEW e \in 1 .. Len(engines), NEW k \in 1 .. Len(engines[e].queue)
      PROVE  engines[e].queue[k].mount \in MountId
  <2>1. engines[e] \in EngineType
    BY DEF TypeOK
  <2>2. engines[e].queue[k] \in ReadType
    BY <2>1 DEF EngineType
  <2> QED BY <2>2 DEF ReadType
<1>3. engines' \in Seq(EngineType) /\ byDevice' \in [MountId -> Nat]
  BY PushAsyncType DEF EnginesKept
<1>4. CASE /\ byDevice[m] = 0 /\ Cardinality(EnginesOf(m)) < MaxEngines
           /\ Len(engines') = Len(engines) + 1
           /\ \A e \in 1 .. Len(engines) : engines'[e] = engines[e]
           /\ engines'[Len(engines) + 1] = engine
           /\ byDevice' = [byDevice EXCEPT ![m] = Len(engines) + 1]
  <2>1. Bound'
    <3>1. ASSUME NEW n \in MountId
          PROVE  /\ byDevice'[n] \in 0 .. Len(engines')
                 /\ byDevice'[n] # 0 => engines'[byDevice'[n]].key = Mounts[n].key
      <4>1. CASE n = m
        BY <1>1, <1>4, <4>1
      <4>2. CASE n # m
        <5>1. byDevice'[n] = byDevice[n] /\ byDevice[n] \in 0 .. Len(engines)
          BY <1>1, <1>4, <4>2 DEF EnginesKept, Bound
        <5>2. byDevice[n] # 0 => byDevice[n] \in 1 .. Len(engines)
          BY <1>1, <5>1
        <5> QED BY <1>1, <1>4, <5>1, <5>2 DEF EnginesKept, Bound
      <4> QED BY <4>1, <4>2
    <3>2. ASSUME NEW e \in 1 .. Len(engines'), NEW k \in 1 .. Len(engines'[e].queue)
          PROVE  byDevice'[engines'[e].queue[k].mount] = e
      <4>1. CASE e \in 1 .. Len(engines)
        <5>1. /\ engines'[e].queue = engines[e].queue /\ k \in 1 .. Len(engines[e].queue)
              /\ byDevice[engines[e].queue[k].mount] = e
          BY <1>4, <4>1 DEF EnginesKept, Bound
        <5>2. engines[e].queue[k].mount # m
          BY <1>1, <1>4, <4>1, <5>1
        <5> QED BY <1>1, <1>2, <1>4, <4>1, <5>1, <5>2
      <4>2. CASE e = Len(engines) + 1
        <5>1. engines'[e].queue = <<read>>
          BY <1>4, <4>2
        <5>2. k = 1 /\ <<read>>[1] = read
          BY <5>1
        <5> QED BY <1>1, <1>4, <4>2, <5>1, <5>2
      <4> QED BY <1>1, <1>4, <4>1, <4>2
    <3> QED BY <3>1, <3>2 DEF Bound
  <2>2. Capped'
    <3> SUFFICES ASSUME NEW n \in MountId PROVE Cardinality(EnginesOf(n)') <= MaxEngines
      BY SameSetting DEF Capped
    <3>0. MaxEngines \in Nat
      BY RoutingAssumption DEF TypeOK, MaxEngines
    <3>1. EnginesOf(n) \subseteq 1 .. Len(engines) /\ Len(engines) + 1 \notin EnginesOf(n)
      BY <1>1 DEF EnginesOf
    <3>2. IsFiniteSet(EnginesOf(n)) /\ Cardinality(EnginesOf(n)) \in Nat
      <4>0. Len(engines) \in Int
        BY <1>1
      <4>1. IsFiniteSet(1 .. Len(engines))
        <5>1. \A a, b \in Int : IsFiniteSet(a .. b)
          BY FS_Interval
        <5> QED BY <4>0, <5>1
      <4>2. IsFiniteSet(EnginesOf(n))
        BY <3>1, <4>1, FS_Subset
      <4> QED BY <4>2, FS_CardinalityType
    <3>3. Cardinality(EnginesOf(n)) <= MaxEngines
      BY DEF EnginesKept, Capped
    <3>4. CASE Mounts[n].key = Mounts[m].key
      <4>1. EnginesOf(n)' = EnginesOf(n) \cup {Len(engines) + 1}
        BY <1>1, <1>4, <3>4 DEF EnginesOf
      <4>2. EnginesOf(n) = EnginesOf(m)
        BY <3>4 DEF EnginesOf
      <4>3. Cardinality(EnginesOf(n)') = Cardinality(EnginesOf(n)) + 1
        BY <3>1, <3>2, <4>1, FS_AddElement
      <4> QED BY <1>4, <3>0, <3>2, <4>2, <4>3
    <3>5. CASE Mounts[n].key # Mounts[m].key
      <4>1. EnginesOf(n)' = EnginesOf(n)
        BY <1>1, <1>4, <3>5 DEF EnginesOf
      <4> QED BY <3>3, <4>1
    <3> QED BY <3>4, <3>5
  <2>3. EnginesResolved'
    BY <1>1, <1>4 DEF EnginesKept, EnginesResolved
  <2>4. BlockOf(t, m) = 0 \/ (BlockOf(t, m) = direct[m] /\ direct[m] # Unknown)
    BY DEF BlocksMeasured, BlockOf
  <2>5. EnginesMeasured'
    <3> SUFFICES ASSUME NEW e \in 1 .. Len(engines')
                 PROVE  engines'[e].block = 0 \/ (engines'[e].block = direct[engines'[e].mount]
                                                  /\ direct[engines'[e].mount] # Unknown)
      BY DEF EnginesMeasured
    <3>1. CASE e \in 1 .. Len(engines)
      BY <1>4, <3>1 DEF EnginesKept, EnginesMeasured
    <3>2. CASE e = Len(engines) + 1
      <4>1. engines'[e].block = BlockOf(t, m) /\ engines'[e].mount = m
        BY <1>4, <3>2
      <4> QED BY <2>4, <4>1
    <3> QED BY <1>1, <1>4, <3>1, <3>2
  <2> QED BY <2>1, <2>2, <2>3, <2>5 DEF EnginesKept
<1>5. ASSUME NEW x \in EnginesOf(m), byDevice[m] \in {0, x},
             engines' = [engines EXCEPT ![x].queue = Append(@, read)],
             byDevice' = [byDevice EXCEPT ![m] = x]
      PROVE  EnginesKept'
  <2>1. /\ SameEngines /\ x \in 1 .. Len(engines) /\ engines[x].key = Mounts[m].key
        /\ \A f \in 1 .. Len(engines) : \A k \in 1 .. Len(engines'[f].queue) :
             \/ \E j \in 1 .. Len(engines[f].queue) : engines'[f].queue[k] = engines[f].queue[j]
             \/ f = x /\ engines'[f].queue[k] = read
    <3> HIDE DEF read
    <3> QED BY <1>1, <1>5, SharedOutcome, ZenonT(40)
  <2>2. Bound'
    <3>1. ASSUME NEW n \in MountId
          PROVE  /\ byDevice'[n] \in 0 .. Len(engines')
                 /\ byDevice'[n] # 0 => engines'[byDevice'[n]].key = Mounts[n].key
      <4>1. CASE n = m
        BY <1>1, <1>5, <2>1, <4>1 DEF SameEngines
      <4>2. CASE n # m
        <5>1. byDevice'[n] = byDevice[n] /\ byDevice[n] \in 0 .. Len(engines)
          BY <1>1, <1>5, <4>2 DEF EnginesKept, Bound
        <5>2. byDevice[n] # 0 => byDevice[n] \in 1 .. Len(engines)
          BY <1>1, <5>1
        <5> QED BY <1>1, <2>1, <5>1, <5>2 DEF EnginesKept, Bound, SameEngines
      <4> QED BY <4>1, <4>2
    <3>2. ASSUME NEW e \in 1 .. Len(engines'), NEW k \in 1 .. Len(engines'[e].queue)
          PROVE  byDevice'[engines'[e].queue[k].mount] = e
      <4>1. e \in 1 .. Len(engines)
        BY <2>1 DEF SameEngines
      <4>2. CASE \E j \in 1 .. Len(engines[e].queue) : engines'[e].queue[k] = engines[e].queue[j]
        <5>1. PICK j \in 1 .. Len(engines[e].queue) : engines'[e].queue[k] = engines[e].queue[j]
          BY <4>2
        <5>2. byDevice[engines[e].queue[j].mount] = e /\ engines[e].queue[j].mount \in MountId
          BY <1>2, <4>1 DEF EnginesKept, Bound
        <5>3. CASE engines[e].queue[j].mount = m
          <6>1. e = x
            BY <1>1, <1>5, <4>1, <5>2, <5>3
          <6> QED BY <1>1, <1>5, <5>1, <5>3, <6>1
        <5>4. CASE engines[e].queue[j].mount # m
          BY <1>1, <1>5, <5>1, <5>2, <5>4
        <5> QED BY <5>3, <5>4
      <4>3. CASE e = x /\ engines'[e].queue[k] = read
        BY <1>1, <1>5, <4>3
      <4> QED BY <2>1, <4>1, <4>2, <4>3
    <3> QED BY <3>1, <3>2 DEF Bound
  <2>3. ASSUME NEW n \in MountId PROVE EnginesOf(n)' = EnginesOf(n)
    BY <2>1 DEF EnginesOf, SameEngines
  <2>4. Capped'
    BY <2>3, SameSetting DEF EnginesKept, Capped
  <2>5. EnginesResolved' /\ EnginesMeasured'
    BY <2>1 DEF EnginesKept, EnginesResolved, EnginesMeasured, SameEngines
  <2> QED BY <2>2, <2>4, <2>5 DEF EnginesKept
<1> QED BY <1>4, <1>5, PushAsyncType DEF EnginesKept

(* An answer a mount has given is not taken back, and a block that a       *)
(* submitter has learnt is its mount's answer.                             *)
LEMMA BlocksStep ==
  ASSUME TypeOK, LockKept, Walking, BlocksMeasured, NEW t \in Submitters, async_request(t)
  PROVE  /\ BlocksMeasured'
         /\ \A m \in MountId : direct[m] # Unknown => direct'[m] = direct[m]
<1> DEFINE Fine(b, d) == b = 0 \/ (b = d /\ d # Unknown)
           Known(u) == \A m \in DOMAIN caller[u].blocks : Fine(caller[u].blocks[m], direct[m])
<1>1. \A u \in Submitters : Known(u) /\ DOMAIN caller[u].blocks \subseteq MountId
  <2>1. ASSUME NEW u \in Submitters PROVE caller[u].blocks \in Partial(MountId, Block)
    BY DEF TypeOK, CallerType
  <2> QED BY <2>1, PartialType DEF BlocksMeasured
<1>2. SUFFICES /\ Known(t)'
               /\ \A u \in Submitters \ {t} : caller'[u] = caller[u]
               /\ \A m \in MountId : direct[m] # Unknown => direct'[m] = direct[m]
  <2>1. ASSUME NEW u \in Submitters PROVE Known(u)'
    BY <1>1, <1>2
  <2> QED BY <1>2, <2>1 DEF BlocksMeasured
<1>3. Returned(t) => Known(t)'
  BY DEF Returned
<1>4. Kept(t) /\ direct' = direct => Known(t)'
  BY <1>1 DEF Kept
<1>5. ASSUME NEW m \in MountId, Learnt(t, m, direct'[m]),
             \A n \in MountId : direct[n] # Unknown => direct'[n] = direct[n]
      PROVE  Known(t)'
  <2>1. PICK b \in {BlockOf(t, m), direct'[m]} :
          /\ b = direct'[m] => direct'[m] # Unknown \/ b = BlockOf(t, m)
          /\ caller'[t].blocks = With(caller[t].blocks, m, b)
    BY <1>5 DEF Learnt
  <2>2. Fine(BlockOf(t, m), direct'[m])
    BY <1>1, <1>5 DEF BlockOf
  <2>3. Fine(b, direct'[m])
    BY <2>1, <2>2
  <2> QED BY <1>1, <1>5, <2>1, <2>3 DEF With
<1>6. CASE \/ Verify(t) \/ LockFast(t) \/ LockEnter(t) \/ BuildPool(t) \/ BuildThrows(t)
           \/ CommitPlugin(t) \/ PublishPlugin(t) \/ EndPush(t)
  <2>1. direct' = direct
    BY <1>6 DEF Verify, LockFast, LockEnter, BuildPool, BuildThrows, CommitPlugin, PublishPlugin, EndPush
  <2> QED BY <1>3, <1>4, <1>6, <2>1, SortingOutcome DEF Sorting
<1>7. CASE Resolve(t)
  <2>1. direct' = direct
    BY <1>7 DEF Resolve
  <2> QED BY <1>3, <1>4, <1>7, <2>1, ResolveOutcome
<1>8. CASE BeginGroups(t) \/ EndGroups(t) \/ Push(t)
  <2>1. direct' = direct
    BY <1>8 DEF BeginGroups, EndGroups, Push
  <2> QED BY <1>4, <1>8, <2>1, StageOutcome DEF Alone
<1>9. CASE RouteFile(t)
  <2>1. direct' = direct
    BY <1>9 DEF RouteFile
  <2>2. CASE caller'[t].blocks = caller[t].blocks
    BY <1>1, <1>9, <2>1, <2>2, RouteFileType DEF Alone
  <2>3. CASE \E m \in MountId : Learnt(t, m, direct[m])
    BY <1>5, <1>9, <2>1, <2>3, RouteFileType DEF Alone
  <2> QED BY <1>9, <2>2, <2>3, RouteFileType DEF Probing
<1>10. CASE RememberBlock(t)
  <2>1. PICK m \in MountId :
          /\ Learnt(t, m, direct'[m])
          /\ direct[m] # Unknown => direct'[m] = direct[m]
          /\ \A n \in MountId \ {m} : direct'[n] = direct[n]
    BY <1>10, RememberBlockType
  <2>2. \A n \in MountId : direct[n] # Unknown => direct'[n] = direct[n]
    BY <2>1
  <2> QED BY <1>5, <1>10, <2>1, <2>2, RememberBlockType DEF Alone
<1> QED BY <1>6, <1>7, <1>8, <1>9, <1>10 DEF async_request

-----------------------------------------------------------------------------
(* The inductive invariant.  The lock, the setters, the walk, the engines  *)
(* and the blocks need one another: an engine has the streamer's strategy  *)
(* because a walk that pushes has one, its mount is known because the walk *)
(* has routed every file, and a mount at the cap finds an engine to share  *)
(* because the cap is at least one.                                        *)
Inv ==
  /\ TypeOK /\ LockKept /\ StrategySettled /\ CredentialsSettled /\ Walking /\ WalksResolved
  /\ EnginesKept /\ BlocksMeasured

(* A new streamer satisfies it.                                            *)
LEMMA InvInit == Init => Inv
<1> SUFFICES ASSUME Init PROVE Inv
  OBVIOUS
<1>1. /\ setting \in Settings /\ lock = NoLock /\ strategy = NoStrategy /\ direct = NoBlocks
      /\ engines = <<>> /\ byDevice = [m \in DOMAIN Mounts |-> 0] /\ dead = {}
      /\ creds = NoCredentials
      /\ seen = [plugins |-> {}, lists |-> {}, creds |-> {}, failed |-> {}]
  BY DEF Init
<1>2. Fresh(1) \in CallerType
  BY FreshType
<1>3. /\ caller = [t \in Submitters |-> Fresh(1)]
      /\ Fresh(1).pc = "verify" /\ Fresh(1).i = 1 /\ Fresh(1).route = <<>> /\ Fresh(1).blocks = <<>>
  BY DEF Init, Fresh
<1> HIDE DEF Fresh
<1>4. TypeOK
  BY <1>1, <1>2, <1>3 DEF TypeOK, NoLock, NoStrategy, NoBlocks, NoCredentials, MountId, Block, Chosen
<1>5. \A t \in Submitters : /\ caller[t].pc = "verify" /\ caller[t].i = 1
                            /\ caller[t].route = <<>> /\ caller[t].blocks = <<>>
  BY <1>3
<1>6. LockKept
  BY <1>1, <1>5 DEF LockKept, Sorted, LockHeld, LockOrdered, NoLock, ForObjects, ForFiles, Locking
<1>7. StrategySettled /\ CredentialsSettled
  BY <1>1 DEF StrategySettled, CredentialsSettled, NoStrategy, NoCredentials
<1>8. Walking /\ WalksResolved /\ BlocksMeasured
  BY <1>5 DEF Walking, WalksResolved, BlocksMeasured
<1>9. EnginesKept
  <2>1. \A m \in MountId : EnginesOf(m) = {}
    BY <1>1 DEF EnginesOf
  <2>2. MaxEngines \in Nat
    BY <1>1, RoutingAssumption DEF MaxEngines
  <2>3. Capped
    BY <2>1, <2>2, FS_EmptySet DEF Capped
  <2> QED BY <1>1, <2>3 DEF EnginesKept, Bound, EnginesResolved, EnginesMeasured, MountId
<1> QED BY <1>4, <1>6, <1>7, <1>8, <1>9 DEF Inv

(* Every step of a submission keeps it.                                    *)
LEMMA InvAsyncRequest ==
  ASSUME Inv, NEW t \in Submitters, async_request(t)
  PROVE  Inv'
<1>1. TypeOK /\ LockKept /\ Walking /\ Bound /\ Capped /\ Sorted
  BY DEF Inv, LockKept, EnginesKept
<1>2. TypeOK'
  BY <1>1, LockTypeStep, MoveTypeStep, FilesTypeStep DEF async_request
<1>3. LockKept'
  BY <1>1, LockStep, LockOtherSteps DEF async_request
<1>4. /\ StrategySettled' /\ (strategy.resolved # None => strategy'.resolved = strategy.resolved)
      /\ CredentialsSettled'
  BY <1>1, StrategyStep, CredentialsStep DEF Inv, Next, RoutingStep
<1>5. Walking' /\ WalksResolved'
  BY <1>1, <1>4, WalkingStep, WalksResolvedStep DEF Inv
<1>6. BlocksMeasured' /\ \A m \in MountId : direct[m] # Unknown => direct'[m] = direct[m]
  BY <1>1, BlocksStep DEF Inv
<1>7. setting' = setting
  BY DEF async_request, Verify, LockFast, LockEnter, BuildPool, BuildThrows, CommitPlugin,
     PublishPlugin, Resolve, BeginGroups, RouteFile, RememberBlock, EndGroups, Push, EndPush
<1>8. EnginesKept'
  <2>1. CASE UNCHANGED <<engines, byDevice>>
    <3>1. SameEngines
      BY <2>1 DEF SameEngines
    <3>2. CASE UNCHANGED strategy
      <4>1. \A f \in 1 .. Len(engines) : \A k \in 1 .. Len(engines'[f].queue) :
              \E j \in 1 .. Len(engines[f].queue) : engines'[f].queue[k] = engines[f].queue[j]
        BY <2>1
      <4> QED BY <1>1, <1>6, <1>7, <2>1, <3>1, <3>2, <4>1, SameEnginesKept DEF Inv
    <3>3. CASE engines = <<>>
      <4>1. \A m \in MountId : EnginesOf(m)' = {} /\ MaxEngines' \in Nat
        BY <1>7, <2>1, <3>3, RoutingAssumption DEF EnginesOf, TypeOK, Inv, MaxEngines
      <4>2. Capped'
        BY <4>1, FS_EmptySet DEF Capped
      <4> QED BY <2>1, <3>3, <4>2 DEF Inv, EnginesKept, Bound, EnginesResolved, EnginesMeasured
    <3>4. CASE engines # <<>> /\ strategy' # strategy
      <4>1. 1 \in 1 .. Len(engines)
        BY <1>1, <3>4 DEF TypeOK
      <4>2. strategy.resolved # None
        BY <4>1 DEF Inv, EnginesKept, EnginesResolved
      <4>3. UNCHANGED strategy
        BY <4>2 DEF async_request, Verify, LockFast, LockEnter, BuildPool, BuildThrows, CommitPlugin,
           PublishPlugin, Resolve, BeginGroups, RouteFile, RememberBlock, EndGroups, Push, EndPush
      <4> QED BY <3>4, <4>3
    <3> QED BY <3>2, <3>3, <3>4
  <2>2. CASE Push(t) /\ ~UNCHANGED <<engines, byDevice>>
    <3>1. PICK m \in MountId : PushAsync(t, m)
      BY <1>1, <2>2, PushOutcome
    <3>2. strategy.resolved # None
      BY <1>1, <2>2, PushOutcome DEF Inv, WalksResolved
    <3> QED BY <1>1, <2>2, <3>1, <3>2, PushAsyncKept DEF Inv, Push
  <2> QED BY <2>1, <2>2 DEF async_request, Verify, LockFast, LockEnter, BuildPool, BuildThrows,
       CommitPlugin, PublishPlugin, Resolve, BeginGroups, RouteFile, RememberBlock, EndGroups, Push, EndPush
<1> QED BY <1>2, <1>3, <1>4, <1>5, <1>6, <1>8 DEF Inv

(* A step that leaves the submitters where they are keeps it.              *)
LEMMA InvElsewhere ==
  ASSUME Inv, [Next]_vars, TypeOK', UNCHANGED <<setting, lock, direct, byDevice, caller>>,
         seen'.plugins = seen.plugins,
         \/ UNCHANGED engines
         \/ UNCHANGED strategy /\ \E e \in 1 .. Len(engines) : Serve(e) \/ EngineDies(e) \/ TellListener(e)
  PROVE  Inv'
<1>1. TypeOK /\ LockKept /\ EnginesKept
  BY DEF Inv
<1>2. LockKept'
  BY <1>1, LockElsewhere
<1>3. /\ StrategySettled' /\ (strategy.resolved # None => strategy'.resolved = strategy.resolved)
      /\ CredentialsSettled'
  BY <1>1, StrategyStep, CredentialsStep DEF Inv
<1>4. \A u \in Submitters : Submission(u)' = Submission(u) /\ IsObject(u)' = IsObject(u)
  BY SameSubmission
<1>5. Walking' /\ WalksResolved'
  BY <1>3, <1>4 DEF Inv, Walking, WalksResolved, MountOf
<1>6. BlocksMeasured'
  BY DEF Inv, BlocksMeasured
<1>7. EnginesKept'
  <2>1. CASE UNCHANGED engines
    <3>1. \A m \in MountId : EnginesOf(m)' = EnginesOf(m)
      BY <2>1 DEF EnginesOf
    <3>2. Bound' /\ Capped' /\ EnginesMeasured'
      BY <1>1, <2>1, <3>1, SameSetting DEF EnginesKept, Bound, Capped, EnginesMeasured
    <3>3. EnginesResolved'
      BY <1>1, <1>3, <2>1 DEF EnginesKept, EnginesResolved
    <3> QED BY <3>2, <3>3 DEF EnginesKept
  <2>2. CASE UNCHANGED strategy /\ \E e \in 1 .. Len(engines) : Serve(e) \/ EngineDies(e) \/ TellListener(e)
    BY <1>1, <2>2, EngineOutcome, SameEnginesKept
  <2> QED BY <2>1, <2>2
<1> QED BY <1>2, <1>3, <1>5, <1>6, <1>7 DEF Inv

(* Inv is inductive.                                                       *)
LEMMA InvStep == Inv /\ [Next]_vars => Inv'
<1> SUFFICES ASSUME Inv, [Next]_vars PROVE Inv'
  OBVIOUS
<1>1. CASE \E t \in Submitters : async_request(t)
  BY <1>1, InvAsyncRequest
<1>2. CASE \E e \in 1 .. Len(engines) : Serve(e) \/ EngineDies(e) \/ TellListener(e)
  <2>1. TypeOK'
    BY <1>2, OthersTypeStep DEF Inv
  <2>2. UNCHANGED <<setting, lock, direct, byDevice, caller, strategy>> /\ seen'.plugins = seen.plugins
    BY <1>2 DEF Serve, EngineDies, TellListener, Inv, TypeOK
  <2> QED BY <1>2, <2>1, <2>2, InvElsewhere
<1>3. CASE \/ \E list \in Lists : SetStrategy(list)
           \/ \E c \in Credentials : SetCredentials(c)
           \/ \E w \in Clients : BuildClient(w) \/ DropClient(w)
  <2>1. TypeOK'
    BY <1>3, OthersTypeStep DEF Inv
  <2>2. UNCHANGED <<setting, lock, direct, byDevice, caller, engines>> /\ seen'.plugins = seen.plugins
    BY <1>3 DEF SetStrategy, SetCredentials, BuildClient, DropClient, Inv, TypeOK
  <2> QED BY <2>1, <2>2, InvElsewhere
<1>4. CASE UNCHANGED vars
  <2>1. TypeOK'
    BY <1>4, SameSetting DEF vars, Inv, TypeOK
  <2> QED BY <1>4, <2>1, InvElsewhere DEF vars
<1> QED BY <1>1, <1>2, <1>3, <1>4 DEF Next, RoutingStep, Done
-----------------------------------------------------------------------------
(* Inv holds in every state of every behaviour.                            *)
THEOREM Invariance == Spec => []Inv
BY InvInit, InvStep, PTL DEF Spec

(* Type correctness.                                                       *)
THEOREM TypeCorrect == Spec => []TypeOK
<1>1. Inv => TypeOK
  BY DEF Inv
<1> QED BY <1>1, Invariance, PTL

(* The plugin lock: a streamer dispatches to one object-storage plugin,    *)
(* and whoever is past the lock finds a pool and its own plugin.           *)
THEOREM OnePlugin == Spec => []PluginLocked
<1>1. Inv => PluginLocked
  <2> SUFFICES ASSUME Inv PROVE PluginLocked
    OBVIOUS
  <2>1. Cardinality(seen.plugins) <= 1
    <3>1. seen.plugins \subseteq {lock.plugin}
      BY DEF Inv, LockKept, LockOrdered
    <3>2. IsFiniteSet({lock.plugin}) /\ Cardinality({lock.plugin}) = 1
      BY FS_Singleton
    <3> QED BY <3>1, <3>2, FS_Subset
  <2>2. ASSUME NEW t \in Submitters, At(t, "push"), IsObject(t)
        PROVE  lock.pool /\ lock.plugin = Plugin(t)
    <3>1. lock.plugin = Plugin(t)
      BY <2>2 DEF Inv, LockKept, LockHeld, At
    <3>2. Plugin(t) # None
      BY <2>2, SubmissionType, PluginType DEF Inv, PluginNames, None
    <3> QED BY <3>1, <3>2 DEF Inv, LockKept, LockOrdered
  <2> QED BY <2>1, <2>2 DEF PluginLocked
<1> QED BY <1>1, Invariance, PTL

(* The setters: an accepted list is the one that was walked, and no client *)
(* is built from other credentials than the accepted ones.                 *)
THEOREM SettersAreHonest == Spec => []SettersHonest
<1>1. Inv => SettersHonest
  BY DEF Inv, SettersHonest, StrategySettled, CredentialsSettled
<1> QED BY <1>1, Invariance, PTL

(* The engines: no more of a key than the maximum, each of the streamer's  *)
(* strategy and its mount's block, and a mount's reads wait at the one     *)
(* engine that has its key.                                                *)
THEOREM EnginesDoFit == Spec => []EnginesFit
<1>1. Inv => EnginesFit
  <2> SUFFICES ASSUME Inv PROVE EnginesFit
    OBVIOUS
  <2>1. TypeOK /\ Bound /\ Capped /\ EnginesResolved /\ EnginesMeasured /\ BlocksMeasured
    BY DEF Inv, EnginesKept
  <2>2. ASSUME NEW m \in MountId, NEW e \in 1 .. Len(engines), NEW i \in 1 .. Len(engines[e].queue),
               engines[e].queue[i].mount = m
        PROVE  byDevice[m] = e /\ engines[e].key = Mounts[m].key
    BY <2>1, <2>2 DEF Bound
  <2>3. MountsServed
    BY <2>1, <2>2 DEF MountsServed, MountId, Capped, EnginesResolved
  <2>4. BlocksAgree
    BY <2>1 DEF BlocksAgree, BlocksMeasured, EnginesMeasured
  <2> QED BY <2>3, <2>4 DEF EnginesFit
<1> QED BY <1>1, Invariance, PTL

(* Whatever a first submission, setter or probe has decided is never       *)
(* decided again: the plugin, the strategy, the credentials, a mount's     *)
(* direct-I/O answer and a mount's engine.                                 *)
FirstWins ==
  /\ lock.plugin # None => lock'.plugin = lock.plugin
  /\ strategy.resolved # None => strategy'.resolved = strategy.resolved
  /\ creds.set # None => creds'.set = creds.set
  /\ \A m \in MountId : direct[m] # Unknown => direct'[m] = direct[m]
  /\ \A m \in MountId : byDevice[m] # 0 => byDevice'[m] = byDevice[m]

(* The first decides for all, as the comments of backend_pools.h,          *)
(* strategy_resolver.h and mount_capabilities.h promise.                   *)
THEOREM FirstDecides == Spec => [][FirstWins]_vars
<1>1. Inv /\ [Next]_vars => [FirstWins]_vars
  <2> SUFFICES ASSUME Inv, Next PROVE FirstWins
    BY DEF vars, FirstWins
  <2>1. TypeOK /\ LockKept /\ Walking /\ Bound /\ Capped /\ BlocksMeasured
    BY DEF Inv, EnginesKept
  <2>2. strategy.resolved # None => strategy'.resolved = strategy.resolved
    BY <2>1, StrategyStep DEF Inv
  <2>3. ASSUME NEW t \in Submitters, async_request(t) PROVE FirstWins
    <3>1. lock.plugin # None => lock'.plugin = lock.plugin
      <4>1. CASE CommitPlugin(t)
        BY <2>1, <4>1 DEF CommitPlugin, At, LockKept, LockHeld
      <4>2. CASE ~CommitPlugin(t)
        BY <2>1, <2>3, <4>2 DEF TypeOK, async_request, Verify, LockFast, LockEnter, BuildPool, BuildThrows,
           PublishPlugin, Resolve, BeginGroups, RouteFile, RememberBlock, EndGroups, Push, EndPush
      <4> QED BY <4>1, <4>2
    <3>2. creds' = creds
      BY <2>3 DEF async_request, Verify, LockFast, LockEnter, BuildPool, BuildThrows, CommitPlugin,
         PublishPlugin, Resolve, BeginGroups, RouteFile, RememberBlock, EndGroups, Push, EndPush
    <3>3. \A m \in MountId : direct[m] # Unknown => direct'[m] = direct[m]
      BY <2>1, <2>3, BlocksStep
    <3>4. ASSUME NEW m \in MountId, byDevice[m] # 0 PROVE byDevice'[m] = byDevice[m]
      <4>1. CASE Push(t) /\ ~UNCHANGED <<engines, byDevice>>
        <5>1. PICK n \in MountId : PushAsync(t, n)
          BY <2>1, <4>1, PushOutcome
        <5>2. byDevice \in [MountId -> Nat]
          BY <2>1 DEF TypeOK
        <5>3. \E x : byDevice' = [byDevice EXCEPT ![n] = x] /\ byDevice[n] \in {0, x}
          BY <2>1, <5>1, PushAsyncType
        <5> QED BY <3>4, <5>2, <5>3
      <4>2. CASE UNCHANGED byDevice
        BY <4>2
      <4> QED BY <2>3, <4>1, <4>2 DEF async_request, Verify, LockFast, LockEnter, BuildPool, BuildThrows,
           CommitPlugin, PublishPlugin, Resolve, BeginGroups, RouteFile, RememberBlock, EndGroups, EndPush
    <3> QED BY <2>2, <3>1, <3>2, <3>3, <3>4 DEF FirstWins
  <2>4. ASSUME NEW e \in 1 .. Len(engines), Serve(e) \/ EngineDies(e) \/ TellListener(e) PROVE FirstWins
    BY <2>4 DEF FirstWins, Serve, EngineDies, TellListener
  <2>5. CASE \E list \in Lists : SetStrategy(list)
    BY <2>2, <2>5 DEF FirstWins, SetStrategy
  <2>6. CASE \E c \in Credentials : SetCredentials(c)
    BY <2>1, <2>6 DEF FirstWins, SetCredentials, TypeOK
  <2>7. CASE Done \/ \E w \in Clients : BuildClient(w) \/ DropClient(w)
    BY <2>1, <2>7 DEF FirstWins, BuildClient, DropClient, TypeOK, Done, vars
  <2> QED BY <2>3, <2>4, <2>5, <2>6, <2>7 DEF Next, RoutingStep
<1> QED BY <1>1, Invariance, PTL DEF Spec
-----------------------------------------------------------------------------
(* Dead engines.  An engine is the one of the mount it was built for, and  *)
(* has that mount's key.                                                   *)
Native ==
  \A e \in 1 .. Len(engines) :
    byDevice[engines[e].mount] = e /\ engines[e].key = Mounts[engines[e].mount].key

(* The listener of an engine that has told it was bound to that mount.     *)
Reported == \A e \in 1 .. Len(engines) : engines[e].told => engines[e].mount \in dead

(* No mount is served by an engine that was built for another.             *)
Unshared == \A m \in MountId : byDevice[m] # 0 => engines[byDevice[m]].mount = m

(* A submission has asked for directories and routed files only once it is *)
(* past groups().                                                          *)
Walkers == {"route", "probe", "push"}
Unasked ==
  \A t \in Submitters :
    caller[t].pc \notin Walkers => caller[t].dirs = <<>> /\ caller[t].route = <<>>

(* What a submission that began after some engines were reported knows of  *)
(* them: no directory and no file of it goes to one of their mounts.       *)
Clear(t) ==
  /\ caller[t].late \subseteq dead
  /\ \A d \in DOMAIN caller[t].dirs : caller[t].dirs[d] \notin caller[t].late
  /\ \A i \in 1 .. Len(caller[t].route) : caller[t].route[i] \notin caller[t].late
  /\ caller[t].pc = "probe" => MountOf(Submission(t)[caller[t].i]) \notin caller[t].late

(* No read that was pushed came too late for its engine.                   *)
QueuesClear ==
  \A e \in 1 .. Len(engines) : \A k \in 1 .. Len(engines[e].queue) : ~engines[e].queue[k].late

Avoided == (\A t \in Submitters : Clear(t)) /\ QueuesClear /\ DeadEngineAvoided

(* The cap leaves every mount room for an engine of its own.               *)
Roomy ==
  /\ IsFiniteSet(MountId)
  /\ \A m \in MountId : Cardinality({n \in MountId : Mounts[n].key = Mounts[m].key}) <= MaxEngines

(* The invariant: an engine's death is known by the name of its mount, so  *)
(* a mount that shares another's engine is not known to be dead; the rest  *)
(* is claimed only while there is no such mount.                           *)
DeadInv == Inv /\ Native /\ Reported /\ Unasked /\ (Unshared => Avoided) /\ (Roomy => Unshared)

(* The caller is back where it begins its next submission.                 *)
Home(t) ==
  /\ caller'[t].pc = "verify" /\ caller'[t].late = {}
  /\ caller'[t].dirs = <<>> /\ caller'[t].route = <<>>

(* It has gone on with the directories and the routes it has.              *)
Onward(t) ==
  /\ caller'[t].pc # "probe" /\ (caller[t].pc \in Walkers => caller'[t].pc \in Walkers)
  /\ caller'[t].dirs = caller[t].dirs /\ caller'[t].route = caller[t].route
  /\ caller'[t].late \in {caller[t].late, ReportedDead}
  /\ caller[t].pc # "groups" => caller'[t].late = caller[t].late

(* It has asked for the group g of a directory d, or found it, and maybe   *)
(* routed a file to it.                                                    *)
Took(t, d, g) ==
  /\ caller'[t].pc \in {"route", "probe"} /\ caller'[t].late = caller[t].late
  /\ caller'[t].dirs \in {caller[t].dirs, With(caller[t].dirs, d, g)}
  /\ \E r \in {g, NoMount} : caller'[t].route \in {caller[t].route, Append(caller[t].route, r)}
  /\ caller'[t].pc = "probe" =>
       /\ caller'[t].at = caller[t].at /\ caller'[t].i = caller[t].i
       /\ MountOf(Submission(t)[caller[t].i]) = g

(* A submitter that goes on.                                               *)
LEMMA GoOnward ==
  ASSUME TypeOK, NEW t \in Submitters, NEW pc \in Pcs \ {"probe"}, Go(t, pc),
         caller[t].pc \in Walkers => pc \in Walkers
  PROVE  Onward(t)
BY GoType DEF SameWalk, Onward

(* One that returns.                                                       *)
LEMMA ReturnHome ==
  ASSUME TypeOK, NEW t \in Submitters, Return(t)
  PROVE  Home(t)
<1>1. PICK k : k = caller[t].at + 1
  OBVIOUS
<1>2. /\ Fresh(k).pc = "verify" /\ Fresh(k).late = {} /\ Fresh(k).dirs = <<>>
      /\ Fresh(k).route = <<>>
  BY DEF Fresh
<1>3. caller' = [caller EXCEPT ![t] = Fresh(k)]
  BY <1>1 DEF Return
<1> QED BY <1>2, <1>3 DEF TypeOK, Home

(* The stages of groups() and the push, which leave the routes as they are. *)
LEMMA StageOnward ==
  ASSUME TypeOK, NEW t \in Submitters, BeginGroups(t) \/ EndGroups(t) \/ Push(t)
  PROVE  Onward(t)
<1>1. caller[t] \in CallerType
  BY DEF TypeOK
<1>2. CASE BeginGroups(t)
  <2>1. PICK L : L = ReportedDead
    OBVIOUS
  <2>2. caller' = [caller EXCEPT ![t] = [caller[t] EXCEPT !.pc = "route", !.late = L]]
    BY <1>2, <2>1 DEF BeginGroups
  <2>3. caller'[t] = [caller[t] EXCEPT !.pc = "route", !.late = L]
    BY <2>2 DEF TypeOK
  <2>4. /\ caller'[t].pc = "route" /\ caller'[t].late = L
        /\ caller'[t].dirs = caller[t].dirs /\ caller'[t].route = caller[t].route
    BY <1>1, <2>3 DEF CallerType
  <2>5. caller[t].pc = "groups"
    BY <1>2 DEF BeginGroups, At
  <2> QED BY <2>1, <2>4, <2>5 DEF Onward, Walkers
<1>3. CASE EndGroups(t) \/ Push(t)
  <2>1. PICK j : caller' = [caller EXCEPT ![t] = [caller[t] EXCEPT !.pc = "push", !.i = j]]
    <3>1. CASE EndGroups(t)
      BY <3>1 DEF EndGroups
    <3>2. CASE Push(t)
      <4>1. caller[t].pc = "push" /\ caller' = [caller EXCEPT ![t] = [caller[t] EXCEPT !.i = caller[t].i + 1]]
        BY <3>2 DEF Push, At
      <4>2. [caller[t] EXCEPT !.i = caller[t].i + 1]
              = [caller[t] EXCEPT !.pc = "push", !.i = caller[t].i + 1]
        BY <1>1, <4>1 DEF CallerType
      <4> QED BY <4>1, <4>2
    <3> QED BY <1>3, <3>1, <3>2
  <2>2. caller'[t] = [caller[t] EXCEPT !.pc = "push", !.i = j]
    BY <2>1 DEF TypeOK
  <2>3. /\ caller'[t].pc = "push" /\ caller'[t].late = caller[t].late
        /\ caller'[t].dirs = caller[t].dirs /\ caller'[t].route = caller[t].route
    BY <1>1, <2>2 DEF CallerType
  <2> QED BY <2>3 DEF Onward, Walkers
<1> QED BY <1>2, <1>3

(* A file that is given its route.                                         *)
LEMMA RoutedTook ==
  ASSUME TypeOK, NEW t \in Submitters, NEW file, NEW g, NEW answer, Routed(t, file, g, answer)
  PROVE  Took(t, file.dir, g)
<1>1. caller[t] \in CallerType
  BY DEF TypeOK
<1> DEFINE wanted == IsDirect(strategy.resolved) /\ BlockOf(t, g) = 0
           block == IF wanted /\ answer # Unknown THEN answer ELSE BlockOf(t, g)
           kept == strategy.resolved = "libaio_direct" => ReadsDirectly(file, answer)
<1>2. PICK r, b, i :
        /\ r = (IF kept THEN g ELSE NoMount) /\ b = With(caller[t].blocks, g, block)
        /\ i = caller[t].i + 1
  OBVIOUS
<1>2a. r \in {g, NoMount}
  BY <1>2
<1> HIDE DEF wanted, block, kept
<1>2b. caller' = [caller EXCEPT ![t].pc = "route", ![t].i = i, ![t].dirs = With(@, file.dir, g),
                               ![t].blocks = b, ![t].route = Append(@, r)]
  BY <1>2 DEF Routed, wanted, block, kept
<1>3. PICK dd, rr : dd = With(caller[t].dirs, file.dir, g) /\ rr = Append(caller[t].route, r)
  OBVIOUS
<1>4. caller'[t] = [caller[t] EXCEPT !.pc = "route", !.i = i, !.dirs = dd, !.blocks = b, !.route = rr]
  BY <1>2b, <1>3 DEF TypeOK
<1>5. /\ caller'[t].pc = "route" /\ caller'[t].late = caller[t].late
      /\ caller'[t].dirs = dd /\ caller'[t].route = rr
  BY <1>1, <1>4 DEF CallerType
<1> QED BY <1>2a, <1>3, <1>5 DEF Took

(* One that is left to the synchronous reader.                             *)
LEMMA SynchronousTook ==
  ASSUME TypeOK, NEW t \in Submitters, caller[t].pc = "route", NEW d, NEW g, NEW dirs,
         dirs \in {caller[t].dirs, With(caller[t].dirs, d, g)}, Synchronous(t, dirs)
  PROVE  Took(t, d, g)
<1>1. caller[t] \in CallerType
  BY DEF TypeOK
<1>2. PICK rr : rr = Append(caller[t].route, NoMount)
  OBVIOUS
<1>3. caller'[t] = [caller[t] EXCEPT !.i = caller[t].i + 1, !.dirs = dirs, !.route = rr]
  BY <1>2 DEF Synchronous, TypeOK
<1>4. /\ caller'[t].pc = "route" /\ caller'[t].late = caller[t].late
      /\ caller'[t].dirs = dirs /\ caller'[t].route = rr
  BY <1>1, <1>3 DEF CallerType
<1> QED BY <1>2, <1>4 DEF Took

(* RouteFile and RememberBlock take a mount for a file only if no dead     *)
(* engine was reported for it when the submission began.                   *)
LEMMA FileTook ==
  ASSUME Inv, NEW t \in Submitters, Clear(t), RouteFile(t) \/ RememberBlock(t)
  PROVE  \E d, g : Took(t, d, g) /\ g \notin caller[t].late
<1> DEFINE file == Submission(t)[caller[t].i]
           group == GroupOf(t, file.dir)
<1>1. TypeOK /\ caller[t].late \subseteq MountId
  BY DEF Inv, TypeOK, CallerType
<1>2. NoMount \notin caller[t].late
  BY <1>1, RoutingAssumption DEF MountId
<1>3. CASE RememberBlock(t)
  <2>1. Routed(t, file, MountOf(file), Remembered(MountOf(file), caller[t].measured))
    BY <1>3 DEF RememberBlock
  <2>2. Took(t, file.dir, MountOf(file))
    BY <1>1, <2>1, RoutedTook
  <2>3. MountOf(file) \notin caller[t].late
    BY <1>3 DEF RememberBlock, At, Clear
  <2> QED BY <2>2, <2>3
<1>4. CASE RouteFile(t)
  <2>1. caller[t].pc = "route"
    BY <1>4 DEF RouteFile, At
  <2>2. group \notin caller[t].late
    BY <1>2 DEF Clear, GroupOf, Servable
  <2>3. CASE Synchronous(t, caller[t].dirs)
    BY <1>1, <1>2, <2>1, <2>3, SynchronousTook
  <2>4. CASE Synchronous(t, With(caller[t].dirs, file.dir, NoMount))
    BY <1>1, <1>2, <2>1, <2>4, SynchronousTook
  <2>5. CASE Routed(t, file, group, direct[group])
    BY <1>1, <2>2, <2>5, RoutedTook
  <2>6. CASE /\ group # NoMount
             /\ caller' = [caller EXCEPT ![t].pc = "probe", ![t].measured = Measure(file),
                                         ![t].dirs = With(@, file.dir, group)]
    <3>1. Submission(t) \in Seq(Files) /\ caller[t].i \in Nat \ {0} /\ caller[t].i <= Len(Submission(t))
      BY <1>1, <1>4, SubmissionType DEF RouteFile, TypeOK, CallerType
    <3>2. file \in Files
      BY <3>1
    <3>3. file.dir \in DOMAIN Dirs
      BY <3>2 DEF Files
    <3>4. MountOf(file) = group
      BY <1>1, <2>6, <3>3, GroupType DEF MountOf
    <3>5. caller[t] \in CallerType
      BY <1>1 DEF TypeOK
    <3>6. PICK dd, mm : dd = With(caller[t].dirs, file.dir, group) /\ mm = Measure(file)
      OBVIOUS
    <3>7. caller'[t] = [caller[t] EXCEPT !.pc = "probe", !.measured = mm, !.dirs = dd]
      BY <1>1, <2>6, <3>6 DEF TypeOK
    <3>8. /\ caller'[t].pc = "probe" /\ caller'[t].late = caller[t].late /\ caller'[t].dirs = dd
          /\ caller'[t].route = caller[t].route
          /\ caller'[t].at = caller[t].at /\ caller'[t].i = caller[t].i
      BY <3>5, <3>7 DEF CallerType
    <3>9. Took(t, file.dir, group)
      BY <3>4, <3>6, <3>8 DEF Took
    <3> QED BY <2>2, <3>9
  <2> QED BY <1>4, <2>3, <2>4, <2>5, <2>6 DEF RouteFile
<1> QED BY <1>3, <1>4

(* An appended sequence: the new element, or one of the old.               *)
LEMMA AppendSplit ==
  ASSUME NEW S, NEW s \in Seq(S), NEW x, NEW i \in 1 .. Len(Append(s, x))
  PROVE  Append(s, x)[i] = x \/ (i \in 1 .. Len(s) /\ Append(s, x)[i] = s[i])
OBVIOUS

(* A caller that took a mount which was not reported stays clear of those  *)
(* that were.                                                              *)
LEMMA ClearTook ==
  ASSUME TypeOK, setting' = setting, dead' = dead, NEW t \in Submitters, Clear(t),
         NEW d, NEW g, Took(t, d, g), g \notin caller[t].late
  PROVE  Clear(t)'
<1>1. NoMount \notin caller[t].late
  BY RoutingAssumption DEF TypeOK, CallerType, MountId
<1>2. caller[t].route \in Seq(MountId \cup {NoMount})
  BY DEF TypeOK, CallerType
<1>3. PICK r \in {g, NoMount} : caller'[t].route \in {caller[t].route, Append(caller[t].route, r)}
  BY DEF Took
<1>4. ASSUME NEW i \in 1 .. Len(caller'[t].route) PROVE caller'[t].route[i] \notin caller'[t].late
  <2>1. caller'[t].late = caller[t].late
    BY DEF Took
  <2>2. CASE caller'[t].route = caller[t].route
    BY <2>1, <2>2 DEF Clear
  <2>3. CASE caller'[t].route = Append(caller[t].route, r)
    <3>1. caller'[t].route[i] = r \/ (i \in 1 .. Len(caller[t].route) /\ caller'[t].route[i] = caller[t].route[i])
      BY <1>2, <2>3, AppendSplit
    <3> QED BY <1>1, <2>1, <3>1 DEF Clear
  <2> QED BY <1>3, <2>2, <2>3
<1>5. ASSUME NEW e \in DOMAIN caller'[t].dirs PROVE caller'[t].dirs[e] \notin caller'[t].late
  BY DEF Took, With, Clear
<1>6. caller'[t].pc = "probe" =>
        MountOf(Submission(t)[caller[t].i]) = g /\ Submission(t)' = Submission(t) /\ caller'[t].i = caller[t].i
  BY SameSubmission DEF Took
<1>7. caller'[t].pc = "probe" => MountOf(Submission(t)'[caller'[t].i]) \notin caller'[t].late
  BY <1>6 DEF Took
<1>8. caller'[t].late \subseteq dead'
  BY DEF Took, Clear
<1> QED BY <1>4, <1>5, <1>7, <1>8 DEF Clear, MountOf

(* So does one that went on: what was reported when groups() began is in   *)
(* the set of dead mounts, as long as engines are not shared.              *)
LEMMA ClearOnward ==
  ASSUME TypeOK, Bound, Reported, Unshared, Unasked, dead' = dead, NEW t \in Submitters, Clear(t), Onward(t)
  PROVE  Clear(t)'
<1>1. ReportedDead \subseteq dead
  <2> SUFFICES ASSUME NEW m \in MountId, byDevice[m] # 0, engines[byDevice[m]].told PROVE m \in dead
    BY DEF ReportedDead, MountId
  <2>1. byDevice[m] \in 1 .. Len(engines) /\ engines[byDevice[m]].mount = m
    BY DEF Bound, Unshared, TypeOK
  <2> QED BY <2>1 DEF Reported
<1>2. CASE caller[t].pc = "groups"
  <2>1. caller[t].dirs = <<>> /\ caller[t].route = <<>>
    BY <1>2 DEF Unasked, Walkers
  <2> QED BY <1>1, <2>1 DEF Onward, Clear
<1>3. CASE caller[t].pc # "groups"
  BY <1>3 DEF Onward, Clear
<1> QED BY <1>2, <1>3

(* And one that returned.                                                  *)
LEMMA ClearHome ==
  ASSUME NEW t, Home(t)
  PROVE  Clear(t)'
BY DEF Home, Clear

(* A submitter that does not move is as clear as it was.                   *)
LEMMA ClearSame ==
  ASSUME setting' = setting, dead \subseteq dead', NEW u \in Submitters, caller'[u] = caller[u], Clear(u)
  PROVE  Clear(u)'
<1>1. Submission(u)' = Submission(u)
  BY SameSubmission
<1> QED BY <1>1 DEF Clear, MountOf

(* What a step of a submission leaves alone.                               *)
LEMMA RequestKeeps ==
  ASSUME Inv, NEW t \in Submitters, async_request(t)
  PROVE  /\ setting' = setting /\ dead' = dead /\ seen'.failed = seen.failed
         /\ \A u \in Submitters \ {t} : caller'[u] = caller[u]
         /\ UNCHANGED <<engines, byDevice>> \/ Push(t)
<1>1. TypeOK /\ LockKept /\ Walking
  BY DEF Inv
<1>2. setting' = setting /\ dead' = dead /\ (UNCHANGED <<engines, byDevice>> \/ Push(t))
  BY DEF async_request, Verify, LockFast, LockEnter, BuildPool, BuildThrows, CommitPlugin,
     PublishPlugin, Resolve, BeginGroups, RouteFile, RememberBlock, EndGroups, Push, EndPush
<1>3. seen'.failed = seen.failed
  BY <1>1 DEF TypeOK, async_request, Verify, LockFast, LockEnter, BuildPool, BuildThrows, CommitPlugin,
     PublishPlugin, Resolve, BeginGroups, RouteFile, RememberBlock, EndGroups, Push, EndPush
<1>4. \A u \in Submitters \ {t} : caller'[u] = caller[u]
  <2>1. CASE \/ Verify(t) \/ LockFast(t) \/ LockEnter(t) \/ BuildPool(t) \/ BuildThrows(t)
             \/ CommitPlugin(t) \/ PublishPlugin(t) \/ EndPush(t)
    BY <1>1, <2>1, SortingOutcome
  <2>2. CASE Resolve(t)
    BY <1>1, <2>2, ResolveOutcome
  <2>3. CASE RouteFile(t) \/ RememberBlock(t) \/ BeginGroups(t) \/ EndGroups(t) \/ Push(t)
    BY <1>1, <2>3, RouteFileType, RememberBlockType, StageOutcome DEF Alone
  <2> QED BY <2>1, <2>2, <2>3 DEF async_request
<1> QED BY <1>2, <1>3, <1>4

(* The steps of a submission other than those of its files.                *)
LEMMA RequestMoves ==
  ASSUME Inv, NEW t \in Submitters, async_request(t), ~RouteFile(t), ~RememberBlock(t)
  PROVE  Home(t) \/ Onward(t)
<1>1. TypeOK
  BY DEF Inv
<1>2. CASE Return(t)
  BY <1>1, <1>2, ReturnHome
<1>3. CASE BeginGroups(t) \/ EndGroups(t) \/ Push(t)
  BY <1>1, <1>3, StageOnward
<1>4. CASE ~Return(t) /\ ~BeginGroups(t) /\ ~EndGroups(t) /\ ~Push(t)
  <2>1. PICK pc \in Pcs \ {"probe"} : Go(t, pc)
    BY <1>4 DEF Pcs, async_request, Verify, LockFast, LockEnter, BuildPool,
       BuildThrows, CommitPlugin, PublishPlugin, EndPush, Resolve
  <2>2. caller[t].pc \notin Walkers
    BY <1>4 DEF Walkers, At, async_request, Verify, LockFast, LockEnter, BuildPool,
       BuildThrows, CommitPlugin, PublishPlugin, EndPush, Resolve
  <2> QED BY <1>1, <2>1, <2>2, GoOnward
<1> QED BY <1>2, <1>3, <1>4

(* A submission at work stays clear of what was reported before it.        *)
LEMMA RequestClear ==
  ASSUME Inv, Reported, Unshared, Unasked, \A u \in Submitters : Clear(u), NEW t \in Submitters, async_request(t)
  PROVE  \A u \in Submitters : Clear(u)'
<1>1. TypeOK /\ Bound
  BY DEF Inv, EnginesKept
<1>2. /\ setting' = setting /\ dead' = dead
      /\ \A u \in Submitters \ {t} : caller'[u] = caller[u]
  BY RequestKeeps
<1>3. Clear(t)'
  <2>1. CASE RouteFile(t) \/ RememberBlock(t)
    BY <1>1, <1>2, <2>1, FileTook, ClearTook
  <2>2. CASE ~RouteFile(t) /\ ~RememberBlock(t)
    BY <1>1, <1>2, <2>2, RequestMoves, ClearHome, ClearOnward
  <2> QED BY <2>1, <2>2
<1>4. ASSUME NEW u \in Submitters \ {t} PROVE Clear(u)'
  BY <1>2, ClearSame
<1> QED BY <1>3, <1>4

(* Whatever it does, a submission that is not past groups() has nothing.   *)
LEMMA RequestIdle ==
  ASSUME Inv, Unasked, NEW t \in Submitters, async_request(t)
  PROVE  Unasked'
<1>1. TypeOK /\ Walking
  BY DEF Inv
<1>2. \A u \in Submitters \ {t} : caller'[u] = caller[u]
  BY RequestKeeps
<1>3. caller'[t].pc \notin Walkers => caller'[t].dirs = <<>> /\ caller'[t].route = <<>>
  <2>1. CASE RouteFile(t) \/ RememberBlock(t)
    <3>1. caller'[t].pc \in {"route", "probe"}
      BY <1>1, <2>1, RouteFileType, RememberBlockType DEF Advanced, Probing
    <3> QED BY <3>1 DEF Walkers
  <2>2. CASE ~RouteFile(t) /\ ~RememberBlock(t)
    BY <2>2, RequestMoves DEF Home, Onward, Unasked
  <2> QED BY <2>1, <2>2
<1> QED BY <1>2, <1>3 DEF Unasked
-----------------------------------------------------------------------------
(* A push takes its mount from the route of the file.                      *)
LEMMA PushTakes ==
  ASSUME Inv, NEW t \in Submitters, Push(t), ~UNCHANGED <<engines, byDevice>>
  PROVE  \E i \in 1 .. Len(caller[t].route) :
           caller[t].route[i] \in MountId /\ PushAsync(t, caller[t].route[i])
<1>1. /\ ~IsObject(t) /\ caller[t].i \in Read(t) /\ caller[t].route[caller[t].i] # NoMount
      /\ PushAsync(t, caller[t].route[caller[t].i])
  BY DEF Push
<1>2. Submission(t) \in Seq(Files)
  BY SubmissionType DEF Push, Inv
<1>3. caller[t].route \in Seq(MountId \cup {NoMount}) /\ caller[t].pc = "push"
  BY DEF Inv, TypeOK, CallerType, Push, At
<1>4. caller[t].i \in 1 .. Len(caller[t].route)
  BY <1>1, <1>2, <1>3 DEF Inv, Walking, Read
<1> QED BY <1>1, <1>3, <1>4

(* Below a cap that leaves room for every mount, a mount without an engine *)
(* finds the cap of its key not reached: the engines of the key belong to  *)
(* other mounts, one each.                                                 *)
LEMMA RoomForOne ==
  ASSUME Inv, Native, Roomy, NEW m \in MountId, byDevice[m] = 0
  PROVE  Cardinality(EnginesOf(m)) < MaxEngines
<1>1. PICK S : S = {n \in MountId : Mounts[n].key = Mounts[m].key}
  OBVIOUS
<1>2. PICK E : E = EnginesOf(m)
  OBVIOUS
<1>3. IsFiniteSet(S) /\ m \in S
  BY <1>1, FS_Subset DEF Roomy
<1>4. /\ IsFiniteSet(S \ {m}) /\ Cardinality(S \ {m}) = Cardinality(S) - 1
      /\ Cardinality(S) \in Nat /\ Cardinality(S \ {m}) \in Nat
  BY <1>3, FS_RemoveElement, FS_CardinalityType
<1>5. Len(engines) \in Nat /\ E \subseteq 1 .. Len(engines)
  BY <1>2 DEF Inv, TypeOK, EnginesOf
<1>6. IsFiniteSet(E) /\ Cardinality(E) \in Nat
  <2>1. IsFiniteSet(1 .. Len(engines))
    BY <1>5, FS_Interval
  <2>2. IsFiniteSet(E)
    BY <1>5, <2>1, FS_Subset
  <2> QED BY <2>2, FS_CardinalityType
<1>7. \A e \in 1 .. Len(engines) : engines[e].mount \in MountId
  <2>1. ASSUME NEW e \in 1 .. Len(engines) PROVE engines[e] \in EngineType
    BY DEF Inv, TypeOK
  <2> QED BY <2>1 DEF EngineType
<1>8. ASSUME NEW e \in E PROVE engines[e].mount \in S \ {m}
  <2>1. e \in 1 .. Len(engines) /\ engines[e].key = Mounts[m].key
    BY <1>2 DEF EnginesOf
  <2>2. byDevice[engines[e].mount] = e /\ engines[e].key = Mounts[engines[e].mount].key
    BY <2>1 DEF Native
  <2>3. engines[e].mount # m
    BY <1>5, <2>1, <2>2
  <2> QED BY <1>1, <1>7, <2>1, <2>2, <2>3
<1>9. ~(Cardinality(S \ {m}) < Cardinality(E))
  <2> SUFFICES ASSUME Cardinality(S \ {m}) < Cardinality(E) PROVE FALSE
    OBVIOUS
  <2>1. PICK f : f = [e \in E |-> engines[e].mount]
    OBVIOUS
  <2>2. f \in [E -> S \ {m}]
    BY <1>8, <2>1
  <2>3. PICK x, y \in E : x # y /\ f[x] = f[y]
    BY <1>4, <1>6, <2>2, FS_PigeonHole
  <2>4. engines[x].mount = engines[y].mount
    BY <2>1, <2>3
  <2>5. byDevice[engines[x].mount] = x /\ byDevice[engines[y].mount] = y
    BY <1>5 DEF Native
  <2> QED BY <2>3, <2>4, <2>5
<1>10. Cardinality(S) <= MaxEngines /\ MaxEngines \in Nat
  BY <1>1, RoutingAssumption DEF Roomy, MaxEngines, Inv, TypeOK
<1> QED BY <1>2, <1>4, <1>6, <1>9, <1>10

(* What is said of the engines and of how they are bound.                  *)
EnginesKnown == Native /\ Reported /\ (Roomy => Unshared)

(* push_async.  A mount that shares an engine once shares it for good.     *)
LEMMA PushAsyncKnown ==
  ASSUME Inv, EnginesKnown, NEW t \in Submitters, NEW m \in MountId, PushAsync(t, m),
         setting' = setting, dead' = dead
  PROVE  /\ EnginesKnown' /\ (Unshared' => Unshared)
         /\ QueuesClear /\ m \notin caller[t].late => QueuesClear'
<1> DEFINE read == [mount |-> m, late |-> m \in caller[t].late]
<1>1. /\ TypeOK /\ Bound /\ Capped /\ Len(engines) \in Nat /\ byDevice \in [MountId -> Nat]
      /\ read \in ReadType
  BY DEF Inv, EnginesKept, TypeOK, ReadType
<1>2. \A n \in MountId : byDevice[n] \in 0 .. Len(engines) /\ (byDevice[n] # 0 => byDevice[n] \in 1 .. Len(engines))
  BY <1>1 DEF Bound
<1>3. \A e \in 1 .. Len(engines) : engines[e].mount \in MountId
  <2>1. ASSUME NEW e \in 1 .. Len(engines) PROVE engines[e] \in EngineType
    BY DEF Inv, TypeOK
  <2> QED BY <2>1 DEF EngineType
<1>4. Roomy' = Roomy
  BY SameSetting DEF Roomy, MountId
<1>5. CASE /\ byDevice[m] = 0 /\ Cardinality(EnginesOf(m)) < MaxEngines
           /\ Len(engines') = Len(engines) + 1
           /\ \A e \in 1 .. Len(engines) : engines'[e] = engines[e]
           /\ engines'[Len(engines) + 1] =
                [mount |-> m, key |-> Mounts[m].key, block |-> BlockOf(t, m),
                 strategy |-> strategy.resolved, queue |-> <<read>>, dead |-> FALSE, told |-> FALSE]
           /\ byDevice' = [byDevice EXCEPT ![m] = Len(engines) + 1]
  <2>1. /\ engines'[Len(engines) + 1].mount = m /\ engines'[Len(engines) + 1].key = Mounts[m].key
        /\ engines'[Len(engines) + 1].told = FALSE /\ engines'[Len(engines) + 1].queue = <<read>>
    BY <1>5
  <2>2. /\ byDevice'[m] = Len(engines) + 1
        /\ \A n \in MountId : n # m => byDevice'[n] = byDevice[n]
    BY <1>1, <1>5
  <2>3. 1 .. Len(engines') = 1 .. Len(engines) \cup {Len(engines) + 1}
    BY <1>1, <1>5
  <2>4. Native'
    <3>1. ASSUME NEW e \in 1 .. Len(engines)
          PROVE  byDevice'[engines[e].mount] = e /\ engines[e].key = Mounts[engines[e].mount].key
      <4>1. byDevice[engines[e].mount] = e /\ engines[e].key = Mounts[engines[e].mount].key
        BY DEF EnginesKnown, Native
      <4>2. engines[e].mount # m
        BY <1>1, <1>5, <4>1
      <4> QED BY <1>3, <2>2, <4>1, <4>2
    <3> QED BY <1>5, <2>1, <2>2, <2>3, <3>1 DEF Native
  <2>5. Reported'
    BY <1>5, <2>1, <2>3 DEF EnginesKnown, Reported
  <2>6. Unshared' <=> Unshared
    <3>1. ASSUME NEW n \in MountId
          PROVE  (byDevice'[n] # 0 => engines'[byDevice'[n]].mount = n)
                   <=> (byDevice[n] # 0 => engines[byDevice[n]].mount = n)
      <4>1. CASE n = m
        BY <1>5, <2>1, <2>2, <4>1
      <4>2. CASE n # m
        BY <1>2, <1>5, <2>2, <4>2
      <4> QED BY <4>1, <4>2
    <3> QED BY <3>1 DEF Unshared
  <2>7. ASSUME QueuesClear, m \notin caller[t].late PROVE QueuesClear'
    <3>1. ~read.late /\ <<read>>[1] = read /\ Len(<<read>>) = 1
      BY <2>7
    <3>2. \A k \in 1 .. Len(<<read>>) : ~<<read>>[k].late
      BY <3>1
    <3> HIDE DEF read
    <3> QED BY <1>5, <2>1, <2>3, <2>7, <3>2 DEF QueuesClear
  <2> QED BY <1>4, <2>4, <2>5, <2>6, <2>7 DEF EnginesKnown
<1>6. ASSUME NEW x \in EnginesOf(m), byDevice[m] \in {0, x},
             engines' = [engines EXCEPT ![x].queue = Append(@, read)],
             byDevice' = [byDevice EXCEPT ![m] = x]
      PROVE  /\ EnginesKnown' /\ (Unshared' => Unshared)
             /\ QueuesClear /\ m \notin caller[t].late => QueuesClear'
  <2>1. /\ SameEngines /\ x \in 1 .. Len(engines)
        /\ \A f \in 1 .. Len(engines) : \A k \in 1 .. Len(engines'[f].queue) :
             \/ \E j \in 1 .. Len(engines[f].queue) : engines'[f].queue[k] = engines[f].queue[j]
             \/ f = x /\ engines'[f].queue[k] = read
    <3> HIDE DEF read
    <3> QED BY <1>1, <1>6, SharedOutcome, ZenonT(40)
  <2>2. \A f \in 1 .. Len(engines) : engines'[f].told = engines[f].told
    <3>1. \A f \in 1 .. Len(engines) : engines[f] \in EngineType
      BY <1>1 DEF TypeOK
    <3>2. PICK q : q = Append(engines[x].queue, read)
      OBVIOUS
    <3>3. engines' = [engines EXCEPT ![x] = [engines[x] EXCEPT !.queue = q]]
      BY <1>6, <3>2
    <3>4. [engines[x] EXCEPT !.queue = q].told = engines[x].told
      BY <2>1, <3>1 DEF EngineType
    <3> QED BY <1>1, <2>1, <3>3, <3>4 DEF TypeOK
  <2>3. byDevice'[m] = x /\ \A n \in MountId : n # m => byDevice'[n] = byDevice[n]
    BY <1>1, <1>6
  <2>4. Native'
    <3>1. ASSUME NEW e \in 1 .. Len(engines) PROVE byDevice'[engines[e].mount] = e
      <4>1. byDevice[engines[e].mount] = e
        BY DEF EnginesKnown, Native
      <4>2. engines[e].mount = m => x = e
        BY <1>1, <1>6, <4>1
      <4> QED BY <1>3, <2>3, <4>1, <4>2
    <3> QED BY <2>1, <3>1 DEF EnginesKnown, Native, SameEngines
  <2>5. Reported'
    BY <2>1, <2>2 DEF EnginesKnown, Reported, SameEngines
  <2>6. Unshared' => Unshared
    <3> SUFFICES ASSUME Unshared', NEW n \in MountId, byDevice[n] # 0
                 PROVE  engines[byDevice[n]].mount = n
      BY DEF Unshared
    <3>1. byDevice'[n] = byDevice[n]
      BY <1>6, <2>3
    <3>2. engines'[byDevice[n]].mount = n
      BY <3>1 DEF Unshared
    <3> QED BY <1>2, <2>1, <3>2 DEF SameEngines
  <2>7. ASSUME Roomy PROVE Unshared'
    <3>1. Unshared
      BY <2>7 DEF EnginesKnown
    <3>2. byDevice[m] = x
      <4> SUFFICES ASSUME byDevice[m] = 0 PROVE FALSE
        BY <1>6
      <4>1. byDevice' = [byDevice EXCEPT ![m] = Len(engines) + 1]
        BY <2>7, RoomForOne DEF PushAsync, EnginesKnown
      <4>2. byDevice'[m] = Len(engines) + 1
        BY <1>1, <4>1
      <4> QED BY <1>1, <2>1, <2>3, <4>2
    <3>3. \A n \in MountId : byDevice'[n] = byDevice[n]
      BY <2>3, <3>2
    <3> QED BY <1>2, <2>1, <3>1, <3>3 DEF Unshared, SameEngines
  <2>8. ASSUME QueuesClear, m \notin caller[t].late PROVE QueuesClear'
    <3>1. ~read.late
      BY <2>8
    <3> HIDE DEF read
    <3> QED BY <2>1, <2>8, <3>1, SMTT(30) DEF QueuesClear, SameEngines
  <2> QED BY <1>4, <2>4, <2>5, <2>6, <2>7, <2>8 DEF EnginesKnown
<1> QED BY <1>1, <1>5, <1>6, PushAsyncType

(* An engine's thread.  Only reads that waited are taken, and only the     *)
(* mount the listener was bound to becomes a dead one.                     *)
LEMMA EngineKnown ==
  ASSUME Inv, EnginesKnown, NEW e \in 1 .. Len(engines), Serve(e) \/ EngineDies(e) \/ TellListener(e)
  PROVE  /\ EnginesKnown' /\ (Unshared' => Unshared)
         /\ QueuesClear /\ DeadEngineAvoided => QueuesClear' /\ DeadEngineAvoided'
         /\ dead \subseteq dead' /\ UNCHANGED <<setting, caller>>
<1>1. TypeOK /\ Bound
  BY DEF Inv, EnginesKept
<1>2. /\ SameEngines
      /\ \A f \in 1 .. Len(engines) : \A k \in 1 .. Len(engines'[f].queue) :
           \E j \in 1 .. Len(engines[f].queue) : engines'[f].queue[k] = engines[f].queue[j]
  BY <1>1, EngineOutcome
<1>3. dead \subseteq dead' /\ UNCHANGED <<setting, caller, byDevice>>
  BY DEF Serve, EngineDies, TellListener
<1>4. Native' /\ (Unshared' <=> Unshared) /\ Roomy' = Roomy
  <2>1. Native'
    BY <1>2, <1>3 DEF EnginesKnown, Native, SameEngines
  <2>2. \A n \in MountId : byDevice[n] # 0 => byDevice[n] \in 1 .. Len(engines)
    BY <1>1 DEF Bound, TypeOK
  <2>3. Unshared' <=> Unshared
    BY <1>2, <1>3, <2>2 DEF Unshared, SameEngines
  <2>4. Roomy' = Roomy
    BY <1>3, SameSetting DEF Roomy, MountId
  <2> QED BY <2>1, <2>3, <2>4
<1>5. engines[e] \in EngineType
  BY <1>1 DEF TypeOK
<1>6. Reported'
  <2> SUFFICES ASSUME NEW f \in 1 .. Len(engines), engines'[f].told PROVE engines[f].mount \in dead'
    BY <1>2 DEF Reported, SameEngines
  <2>1. CASE f # e
    <3>1. engines'[f] = engines[f]
      BY <1>1, <2>1 DEF TypeOK, Serve, EngineDies, TellListener
    <3> QED BY <1>3, <3>1 DEF EnginesKnown, Reported
  <2>2. CASE f = e /\ TellListener(e)
    BY <2>2 DEF TellListener
  <2>3. CASE f = e /\ ~TellListener(e)
    <3>1. engines'[e].told = engines[e].told
      <4>1. CASE Serve(e)
        <5>1. PICK q : q = Tail(engines[e].queue)
          OBVIOUS
        <5>2. engines' = [engines EXCEPT ![e] = [engines[e] EXCEPT !.queue = q]]
          BY <4>1, <5>1 DEF Serve
        <5>3. [engines[e] EXCEPT !.queue = q].told = engines[e].told
          BY <1>5 DEF EngineType
        <5> QED BY <1>1, <5>2, <5>3 DEF TypeOK
      <4>2. CASE EngineDies(e)
        <5>1. engines' = [engines EXCEPT ![e] = [engines[e] EXCEPT !.dead = TRUE]]
          BY <4>2 DEF EngineDies
        <5>2. [engines[e] EXCEPT !.dead = TRUE].told = engines[e].told
          BY <1>5 DEF EngineType
        <5> QED BY <1>1, <5>1, <5>2 DEF TypeOK
      <4> QED BY <2>3, <4>1, <4>2
    <3> QED BY <1>3, <2>3, <3>1 DEF EnginesKnown, Reported
  <2> QED BY <2>1, <2>2, <2>3
<1>7. ASSUME QueuesClear, DeadEngineAvoided PROVE QueuesClear' /\ DeadEngineAvoided'
  <2>1. QueuesClear'
    BY <1>2, <1>7, ZenonT(40) DEF QueuesClear, SameEngines
  <2>2. seen'.failed = seen.failed \/ (Serve(e) /\ seen'.failed = seen.failed \cup {Head(engines[e].queue)})
    BY <1>1 DEF TypeOK, Serve, EngineDies, TellListener
  <2>3. Serve(e) => ~Head(engines[e].queue).late
    <3> SUFFICES ASSUME Serve(e) PROVE ~Head(engines[e].queue).late
      OBVIOUS
    <3>1. engines[e].queue \in Seq(ReadType) /\ engines[e].queue # <<>>
      BY <1>5 DEF EngineType, Serve
    <3>2. 1 \in 1 .. Len(engines[e].queue) /\ Head(engines[e].queue) = engines[e].queue[1]
      BY <3>1
    <3> QED BY <1>7, <3>2 DEF QueuesClear
  <2>4. DeadEngineAvoided'
    BY <1>7, <2>2, <2>3 DEF DeadEngineAvoided
  <2> QED BY <2>1, <2>4
<1> QED BY <1>3, <1>4, <1>6, <1>7 DEF EnginesKnown

(* A step that touches neither callers nor engines.                        *)
LEMMA DeadElsewhere ==
  ASSUME DeadInv, Inv', UNCHANGED <<setting, engines, byDevice, dead, caller>>, seen'.failed = seen.failed
  PROVE  DeadInv'
<1>1. Native' /\ Reported' /\ Unasked' /\ Unshared' = Unshared
  BY DEF DeadInv, Native, Reported, Unasked, Unshared, MountId
<1>2. Roomy' = Roomy
  BY SameSetting DEF Roomy, MountId
<1>3. ASSUME Avoided PROVE Avoided'
  <2>1. ASSUME NEW u \in Submitters PROVE Clear(u)'
    BY <1>3, ClearSame DEF Avoided
  <2>2. QueuesClear' /\ DeadEngineAvoided'
    BY <1>3 DEF Avoided, QueuesClear, DeadEngineAvoided
  <2> QED BY <2>1, <2>2 DEF Avoided
<1> QED BY <1>1, <1>2, <1>3 DEF DeadInv

(* DeadInv is inductive.                                                   *)
LEMMA DeadInvStep == DeadInv /\ [Next]_vars => DeadInv'
<1> SUFFICES ASSUME DeadInv, [Next]_vars PROVE DeadInv'
  OBVIOUS
<1>1. Inv /\ Inv' /\ TypeOK /\ EnginesKnown
  BY InvStep DEF DeadInv, Inv, EnginesKnown
<1>2. ASSUME NEW t \in Submitters, async_request(t) PROVE DeadInv'
  <2>1. /\ setting' = setting /\ dead' = dead /\ seen'.failed = seen.failed
        /\ UNCHANGED <<engines, byDevice>> \/ Push(t)
    BY <1>1, <1>2, RequestKeeps
  <2>2. Unasked'
    BY <1>1, <1>2, RequestIdle DEF DeadInv
  <2>3. ASSUME Unshared PROVE \A u \in Submitters : Clear(u)'
    BY <1>1, <1>2, <2>3, RequestClear DEF DeadInv, Avoided
  <2>4. DeadEngineAvoided => DeadEngineAvoided'
    BY <2>1 DEF DeadEngineAvoided
  <2>5. EnginesKnown' /\ (Unshared' => Unshared) /\ (Avoided => QueuesClear')
    <3>1. CASE UNCHANGED <<engines, byDevice>>
      <4>1. Roomy' = Roomy
        BY <2>1, SameSetting DEF Roomy, MountId
      <4>2. Native' /\ Reported' /\ Unshared' = Unshared /\ (QueuesClear => QueuesClear')
        BY <1>1, <2>1, <3>1 DEF EnginesKnown, Native, Reported, Unshared, MountId, QueuesClear
      <4> QED BY <1>1, <4>1, <4>2 DEF EnginesKnown, Avoided
    <3>2. CASE Push(t) /\ ~UNCHANGED <<engines, byDevice>>
      <4>1. PICK i \in 1 .. Len(caller[t].route) :
              caller[t].route[i] \in MountId /\ PushAsync(t, caller[t].route[i])
        BY <1>1, <3>2, PushTakes
      <4>2. PICK m \in MountId : m = caller[t].route[i]
        BY <4>1
      <4>3. /\ EnginesKnown' /\ (Unshared' => Unshared)
            /\ QueuesClear /\ m \notin caller[t].late => QueuesClear'
        BY <1>1, <2>1, <4>1, <4>2, PushAsyncKnown
      <4>4. Avoided => QueuesClear /\ m \notin caller[t].late
        BY <4>2 DEF Avoided, Clear
      <4> QED BY <4>3, <4>4
    <3> QED BY <2>1, <3>1, <3>2
  <2> QED BY <1>1, <2>2, <2>3, <2>4, <2>5 DEF DeadInv, EnginesKnown, Avoided
<1>3. ASSUME NEW e \in 1 .. Len(engines), Serve(e) \/ EngineDies(e) \/ TellListener(e) PROVE DeadInv'
  <2>1. /\ EnginesKnown' /\ (Unshared' => Unshared)
        /\ QueuesClear /\ DeadEngineAvoided => QueuesClear' /\ DeadEngineAvoided'
        /\ dead \subseteq dead' /\ UNCHANGED <<setting, caller>>
    BY <1>1, <1>3, EngineKnown
  <2>2. Unasked'
    BY <2>1 DEF DeadInv, Unasked
  <2>3. ASSUME NEW u \in Submitters, Clear(u) PROVE Clear(u)'
    BY <2>1, <2>3, ClearSame
  <2> QED BY <1>1, <2>1, <2>2, <2>3 DEF DeadInv, EnginesKnown, Avoided
<1>4. CASE \/ \E list \in Lists : SetStrategy(list)
           \/ \E c \in Credentials : SetCredentials(c)
           \/ \E w \in Clients : BuildClient(w) \/ DropClient(w)
           \/ UNCHANGED vars
  <2>1. UNCHANGED <<setting, engines, byDevice, dead, caller>> /\ seen'.failed = seen.failed
    BY <1>1, <1>4 DEF SetStrategy, SetCredentials, BuildClient, DropClient, TypeOK, vars
  <2> QED BY <1>1, <2>1, DeadElsewhere
<1> QED BY <1>2, <1>3, <1>4 DEF Next, RoutingStep, Done

(* A new streamer has no engine, and no submission under way.              *)
LEMMA DeadInvInit == Init => DeadInv
<1> SUFFICES ASSUME Init PROVE DeadInv
  OBVIOUS
<1>1. Inv
  BY InvInit
<1>2. /\ engines = <<>> /\ byDevice = [m \in DOMAIN Mounts |-> 0] /\ dead = {}
      /\ seen = [plugins |-> {}, lists |-> {}, creds |-> {}, failed |-> {}]
      /\ caller = [t \in Submitters |-> Fresh(1)]
  BY DEF Init
<1>3. \A t \in Submitters : /\ caller[t].pc = "verify" /\ caller[t].late = {}
                            /\ caller[t].dirs = <<>> /\ caller[t].route = <<>>
  BY <1>2 DEF Fresh
<1>4. Native /\ Reported /\ Unshared /\ QueuesClear /\ DeadEngineAvoided
  BY <1>2 DEF Native, Reported, Unshared, QueuesClear, DeadEngineAvoided, MountId
<1>5. Unasked /\ \A t \in Submitters : Clear(t)
  BY <1>3 DEF Unasked, Clear
<1> QED BY <1>1, <1>4, <1>5 DEF DeadInv, Avoided

(* DeadInv holds in every state of every behaviour.                        *)
THEOREM DeadInvariance == Spec => []DeadInv
BY DeadInvInit, DeadInvStep, PTL DEF Spec

(* As long as no mount shares the engine of another, no submission that    *)
(* began after an engine was reported dead is failed by it, whatever the   *)
(* order in which engines die and listeners are told, and however many     *)
(* submissions are under way.                                              *)
THEOREM DeadAvoided == Spec => [](Unshared => DeadEngineAvoided)
<1>1. DeadInv => (Unshared => DeadEngineAvoided)
  BY DEF DeadInv, Avoided
<1> QED BY <1>1, DeadInvariance, PTL

(* A cap with room for an engine per mount of a key is enough for that: a  *)
(* streamer so configured never shares an engine and never loses a read to *)
(* an engine it knew to be dead.                                           *)
THEOREM RoomIsEnough == Spec => [](Roomy => Unshared /\ DeadEngineAvoided)
<1>1. DeadInv => (Roomy => Unshared /\ DeadEngineAvoided)
  BY DEF DeadInv, Avoided
<1> QED BY <1>1, DeadInvariance, PTL

-----------------------------------------------------------------------------
(* The plugin's clients.                                                   *)

(* What PluginInit gives a read that nobody has asked for yet. *)
Anyone == CHOOSE w \in Wrappers : TRUE
(* The wrappers that have a client, registered or not. *)
Held == {w \in Wrappers : step[w] \in {"register", "open", "send"}}

ReadRecord == [by : Wrappers \cup {Anyone}, of : 0 .. MaxClients, sent : Nat, left : Int, failed : BOOLEAN]
Cancel == [by : Hosts \cup {NoHost}, todo : SUBSET Client, at : 0 .. MaxClients]

(* The type of every variable. *)
PluginTypes ==
  /\ backend \in {NoPlugin, "S3", "GCS", "Azure"}
  /\ made \in 0 .. MaxClients
  /\ registered \subseteq 1 .. made /\ unused \subseteq registered /\ cached \subseteq 1 .. made
  /\ identity = [c \in Client |-> identity[c]]
  /\ provider \in {"unloaded", "loaded", "shut"}
  /\ flagged \subseteq Client /\ silenced \subseteq flagged /\ surprised \in BOOLEAN
  /\ running \in [Client -> Nat]
  /\ events \in [Client -> Seq(Request \X BOOLEAN)]
  /\ issued \in 0 .. MaxRequests
  /\ req \in [Request -> ReadRecord]
  /\ gets \subseteq (1 .. issued) \X (1 .. Chunks)
  /\ step \in [Wrappers -> {"closed", "pop", "make", "register", "open", "send", "gone"}]
  /\ client \in [Wrappers -> 0 .. MaxClients]
  /\ config \in [Wrappers -> Credential]
  /\ waits \in [Wrappers -> SUBSET (1 .. issued)]
  /\ host \in [Hosts -> {"idle", "listing", "streaming", "cancelled", "joining", "ended"}]
  /\ cancel \in Cancel
  /\ refused \subseteq Hosts

(* A client the manager knows is unused or in the hands of one wrapper; a  *)
(* new one is in the hands of the wrapper that is registering it.          *)
InHand ==
  /\ registered \ unused = {client[w] : w \in InUse}
  /\ \A w, v \in Held : client[w] = client[v] => w = v
  /\ \A w \in Held : client[w] \in (1 .. made) \ unused
  /\ \A w \in Held : step[w] = "register" => client[w] \notin registered

(* The plugin is fixed before there is a client, every client was built    *)
(* from some credentials under it, and each wrapper has one that fits.     *)
Fitting ==
  /\ backend = NoPlugin => made = 0 /\ \A w \in Wrappers : step[w] = "closed"
  /\ \A c \in 1 .. made : \E k \in Credential : identity[c] = Identity(k)
  /\ \A w \in Held : identity[client[w]] = Identity(config[w])
  /\ cached # {} => provider = "loaded"

(* Every read has a worker, which is still reading or has closed its       *)
(* wrapper, and is for that worker's client; a worker waits for its own    *)
(* reads, once they are sent; and what is in hand belongs to a client the  *)
(* manager has not released.                                               *)
Asked ==
  /\ \A n \in 1 .. issued :
       /\ req[n].by \in Wrappers \ Listings
       /\ req[n].of \in 1 .. made
       /\ step[req[n].by] \in {"open", "send", "gone"}
       /\ step[req[n].by] # "gone" => req[n].of = client[req[n].by]
  /\ \A w \in Wrappers : \A n \in waits[w] : req[n].by = w /\ ~Sends(w, n)
  /\ \A w \in Wrappers : step[w] \notin {"open", "send"} => waits[w] = {}
  /\ \A g \in gets : req[g[1]].of \in registered /\ g[2] <= req[g[1]].sent

(* An ended streamer has no wrapper open and, unless its clients were not  *)
(* released, nothing in hand.                                              *)
Ended ==
  /\ \A w \in Wrappers : host[HostOf[w]] = "ended" => step[w] \in {"closed", "gone"}
  /\ \A g \in gets : host[HostOf[req[g[1]].by]] = "ended" => HostOf[req[g[1]].by] \in refused

(* stop() holds the mutex while it is at a client, which is flagged; the   *)
(* responder of a client that it has left is stopped if anybody waits.     *)
Woken ==
  /\ cancel.at # NoClient => cancel.at \in flagged /\ cancel.by # NoHost
  /\ \A w \in Wrappers :
       waits[w] # {} /\ client[w] \in flagged /\ cancel.at # client[w] => client[w] \in silenced

(* Somebody waits for the read, or is sending it. *)
Waited(n) == n \in waits[req[n].by] \/ Sends(req[n].by, n)

(* No response to the read has been pushed. *)
Unanswered(n) == req[n].left > 0 /\ ~req[n].failed

(* The parts that are still to be sent, and those that are still to end. *)
Unsent(n) == {k \in 1 .. Chunks : Sends(req[n].by, n) /\ req[n].sent < k /\ k <= Parts(req[n].of)}
Due(n) == {k \in 1 .. Chunks : <<n, k>> \in gets} \cup Unsent(n)

(* The parts that can still end are never more than the count of the read, *)
(* fewer once one has failed, and exactly as many for a read whose answer  *)
(* somebody is waiting for.                                                *)
Counted ==
  \A n \in 1 .. issued :
    /\ ~req[n].failed => Cardinality(Due(n)) <= req[n].left
    /\ req[n].failed => Cardinality(Due(n)) < req[n].left
    /\ Waited(n) /\ req[n].of \notin flagged /\ ~req[n].failed => Cardinality(Due(n)) = req[n].left

(* A responder that is not stopped expects its unanswered reads. *)
Expected(c) == {n \in 1 .. issued : req[n].of = c /\ Unanswered(n)}
Expecting == ~surprised /\ \A c \in Client \ silenced : running[c] = Cardinality(Expected(c))

(* What is in a responder's queue answers a read of its client, no read is *)
(* answered twice, and a good answer is for a read that has all its parts. *)
Told ==
  \A c \in Client :
    /\ \A i \in 1 .. Len(events[c]) :
         /\ events[c][i][1] \in 1 .. issued
         /\ req[events[c][i][1]].of = c
         /\ ~Unanswered(events[c][i][1])
         /\ events[c][i][2] => req[events[c][i][1]].left = 0 /\ ~req[events[c][i][1]].failed
    /\ \A i, j \in 1 .. Len(events[c]) : events[c][i][1] = events[c][j][1] => i = j

(* On a client nobody has stopped: an unanswered read, or an answer in the *)
(* queue, has somebody who waits for it, and who waits is or will be told. *)
Owed ==
  \A n \in 1 .. issued : req[n].of \notin flagged =>
    /\ Unanswered(n) \/ AnswersTo(n) # {} => Waited(n)
    /\ Waited(n) /\ ~Unanswered(n) => AnswersTo(n) # {}

(* The inductive invariant. *)
PluginInv ==
  PluginTypes /\ InHand /\ Fitting /\ Asked /\ Ended /\ Woken /\ Counted /\ Expecting /\ Told /\ Owed

----------------------------------------------------------------------------
(* Facts about the operators. *)

(* A wrapper has one read in hand at most. *)
LEMMA OneSent ==
  ASSUME NEW w \in Wrappers, NEW n \in Request, NEW m \in Request, issued \in Nat,
         Sends(w, n), Sends(w, m)
  PROVE  n = m
  BY DEF Sends, Request

(* Every plugin asks for at least one part, and for no more than a range has. *)
LEMMA PartsRange ==
  ASSUME NEW c
  PROVE  Parts(c) \in 1 .. Chunks
  BY PluginAssumption DEF Parts

(* No plugin closes its backend before the process exits. *)
LEMMA NeverCloses == ~Api.closes
  BY DEF Api, S3Api, GCSApi, AzureApi

(* What is still due of a read is a finite set. *)
LEMMA DueFinite ==
  ASSUME NEW n
  PROVE  /\ IsFiniteSet(Due(n)) /\ Cardinality(Due(n)) \in Nat
         /\ Due(n) \subseteq 1 .. Chunks
<1>1. Due(n) \subseteq 1 .. Chunks
  BY DEF Due, Unsent
<1>2. IsFiniteSet(1 .. Chunks)
  BY PluginAssumption, FS_Interval
<1> QED
  BY <1>1, <1>2, FS_Subset, FS_CardinalityType

(* The reads a responder expects are finitely many. *)
LEMMA ExpectedFinite ==
  ASSUME NEW c, issued \in Nat
  PROVE  IsFiniteSet(Expected(c)) /\ Cardinality(Expected(c)) \in Nat
<1>1. Expected(c) \subseteq 1 .. issued
  BY DEF Expected
<1>2. IsFiniteSet(1 .. issued)
  BY FS_Interval
<1> QED
  BY <1>1, <1>2, FS_Subset, FS_CardinalityType

----------------------------------------------------------------------------
(* The steps, by name. *)

(* Every step of the plugin is one of its operations, of somebody. *)
LEMMA Operations ==
  ASSUME PluginNext
  PROVE  \/ \E s \in Hosts :
              \/ HandleS3(s) \/ BeginCancel(s) \/ SilenceClient(s) \/ EndCancel(s)
              \/ StopPool(s) \/ Shutdown(s) \/ \E c \in Client : FlagClient(s, c)
         \/ \E w \in Wrappers :
              \/ \E p \in {"S3", "GCS", "Azure"}, k \in Credential : GetHandle(w, p, k)
              \/ \E c \in unused, stale \in SUBSET unused : Reuse(w, c, stale)
              \/ PopNone(w) \/ MakeClient(w) \/ MakeThrows(w) \/ Register(w)
              \/ RequestRead(w) \/ TakeEvent(w) \/ TakeFinished(w) \/ Close(w)
              \/ \E n \in Request : SendPart(w, n) \/ EndRequest(w, n)
         \/ \E g \in gets : PartLands(g) \/ PartFails(g)
  BY DEF PluginNext, EndHost, OpenWrapper, UseWrapper

----------------------------------------------------------------------------
(* Types. *)

(* A response leaves a responder's queue and count of their types. *)
LEMMA PushTypes ==
  ASSUME running \in [Client -> Nat], events \in [Client -> Seq(Request \X BOOLEAN)],
         surprised \in BOOLEAN,
         NEW c \in Client, NEW n \in Request, NEW b \in BOOLEAN, PushResponse(c, <<n, b>>)
  PROVE  /\ running' \in [Client -> Nat] /\ events' \in [Client -> Seq(Request \X BOOLEAN)]
         /\ surprised' \in BOOLEAN
<1>1. CASE c \in silenced
  BY <1>1 DEF PushResponse
<1>2. CASE c \notin silenced /\ running[c] > 0
  <2>1. running' = [running EXCEPT ![c] = @ - 1] /\ events' = [events EXCEPT ![c] = Append(@, <<n, b>>)]
        /\ UNCHANGED surprised
    BY <1>2 DEF PushResponse
  <2>2. running[c] - 1 \in Nat
    BY <1>2
  <2>3. Append(events[c], <<n, b>>) \in Seq(Request \X BOOLEAN)
    OBVIOUS
  <2> QED
    BY <2>1, <2>2, <2>3
<1>3. CASE c \notin silenced /\ ~(running[c] > 0)
  BY <1>3 DEF PushResponse
<1> QED
  BY <1>1, <1>2, <1>3

(* What the steps of a streamer's end keep typed. *)
LEMMA HostTypes ==
  ASSUME PluginTypes, NEW s \in Hosts,
         \/ HandleS3(s) \/ BeginCancel(s) \/ SilenceClient(s) \/ EndCancel(s)
         \/ StopPool(s) \/ Shutdown(s) \/ \E c \in Client : FlagClient(s, c),
         Woken
  PROVE  PluginTypes'
<1> USE DEF PluginTypes, handleVars, managerVars, responderVars, readVars, wrapperVars, hostVars
<1>1. CASE HandleS3(s)
  BY <1>1 DEF HandleS3
<1>2. CASE BeginCancel(s)
  <2>1. cancel' \in Cancel
    <3>1. registered \subseteq Client /\ 0 \in 0 .. MaxClients
      BY PluginAssumption DEF Client
    <3> QED
      BY <1>2, <3>1 DEF BeginCancel, NoClient, Cancel
  <2> QED
    BY <1>2, <2>1 DEF BeginCancel, OpenedForNoUri
<1>3. CASE SilenceClient(s)
  <2>1. silenced' \subseteq flagged
    BY <1>3 DEF SilenceClient, Woken
  <2>2. cancel' \in Cancel
    <3>1. cancel' = [by |-> cancel.by, todo |-> cancel.todo \ {cancel.at}, at |-> NoClient]
      BY <1>3 DEF SilenceClient, Cancel
    <3>2. NoClient \in 0 .. MaxClients
      BY PluginAssumption DEF NoClient
    <3> QED
      BY <3>1, <3>2 DEF Cancel
  <2> QED
    BY <1>3, <2>1, <2>2 DEF SilenceClient
<1>4. CASE EndCancel(s)
  <2>1. cancel' = [by |-> NoHost, todo |-> cancel.todo, at |-> cancel.at]
    BY <1>4 DEF EndCancel, Cancel
  <2>2. cancel' \in Cancel
    BY <2>1 DEF Cancel
  <2> QED
    BY <1>4, <2>2 DEF EndCancel
<1>5. CASE StopPool(s)
  BY <1>5 DEF StopPool
<1>6. CASE Shutdown(s)
  <2>1. backend' \in {NoPlugin, "S3", "GCS", "Azure"}
    BY <1>6, NeverCloses DEF Shutdown, OpenedForNoUri
  <2>2. registered' \subseteq 1 .. made /\ unused' \subseteq registered' /\ cached' \subseteq 1 .. made
        /\ gets' \subseteq gets /\ provider' \in {"unloaded", "loaded", "shut"} /\ refused' \subseteq Hosts
    BY <1>6 DEF Shutdown, Destroy
  <2> QED
    BY <1>6, <2>1, <2>2 DEF Shutdown
<1>7. CASE \E c \in Client : FlagClient(s, c)
  <2>1. PICK c \in Client : FlagClient(s, c)
    BY <1>7
  <2>2. cancel' \in Cancel
    <3>1. cancel' = [by |-> cancel.by, todo |-> cancel.todo, at |-> c]
      BY <2>1 DEF FlagClient, Cancel
    <3>2. c \in 0 .. MaxClients
      BY PluginAssumption DEF Client
    <3> QED
      BY <3>1, <3>2 DEF Cancel
  <2> QED
    BY <2>1, <2>2 DEF FlagClient
<1> QED
  BY <1>1, <1>2, <1>3, <1>4, <1>5, <1>6, <1>7

(* And those that open a wrapper. *)
LEMMA OpenTypes ==
  ASSUME PluginTypes, NEW w \in Wrappers,
         \/ \E p \in {"S3", "GCS", "Azure"}, k \in Credential : GetHandle(w, p, k)
         \/ \E c \in unused, stale \in SUBSET unused : Reuse(w, c, stale)
         \/ PopNone(w) \/ MakeClient(w) \/ MakeThrows(w) \/ Register(w) \/ Close(w),
         InHand
  PROVE  PluginTypes'
<1> USE DEF PluginTypes, handleVars, managerVars, responderVars, readVars, wrapperVars, hostVars
<1>1. CASE \E p \in {"S3", "GCS", "Azure"}, k \in Credential : GetHandle(w, p, k)
  <2>1. PICK p \in {"S3", "GCS", "Azure"}, k \in Credential : GetHandle(w, p, k)
    BY <1>1
  <2>2. host' \in [Hosts -> {"idle", "listing", "streaming", "cancelled", "joining", "ended"}]
    <3>1. CASE w \in Listings
      BY <2>1, <3>1, PluginAssumption DEF GetHandle
    <3>2. CASE w \notin Listings
      BY <2>1, <3>2 DEF GetHandle
    <3> QED
      BY <3>1, <3>2
  <2> QED
    BY <2>1, <2>2 DEF GetHandle, Opened
<1>2. CASE \E c \in unused, stale \in SUBSET unused : Reuse(w, c, stale)
  <2>1. PICK c \in unused, stale \in SUBSET unused : Reuse(w, c, stale)
    BY <1>2
  <2>2. c \in 0 .. MaxClients
    BY PluginAssumption
  <2>3. client' \in [Wrappers -> 0 .. MaxClients]
        /\ step' \in [Wrappers -> {"closed", "pop", "make", "register", "open", "send", "gone"}]
    BY <2>1, <2>2 DEF Reuse
  <2>4. /\ registered' \subseteq 1 .. made /\ unused' \subseteq registered' /\ cached' \subseteq 1 .. made
        /\ gets' \subseteq gets /\ provider' \in {"unloaded", "loaded", "shut"}
    BY <2>1 DEF Reuse, Destroy
  <2> QED
    BY <2>1, <2>3, <2>4 DEF Reuse
<1>3. CASE PopNone(w)
  <2>1. /\ registered' \subseteq 1 .. made /\ unused' \subseteq registered' /\ cached' \subseteq 1 .. made
        /\ gets' \subseteq gets /\ provider' \in {"unloaded", "loaded", "shut"}
    BY <1>3 DEF PopNone, Destroy
  <2> QED
    BY <1>3, <2>1 DEF PopNone
<1>4. CASE MakeClient(w)
  <2>1. identity' = [c \in Client |-> identity'[c]]
    BY <1>4 DEF MakeClient
  <2>2. /\ made' \in 0 .. MaxClients /\ registered' \subseteq 1 .. made' /\ unused' \subseteq registered'
        /\ cached' \subseteq 1 .. made' /\ provider' \in {"unloaded", "loaded", "shut"}
    BY <1>4, PluginAssumption DEF MakeClient
  <2>3. client' \in [Wrappers -> 0 .. MaxClients]
        /\ step' \in [Wrappers -> {"closed", "pop", "make", "register", "open", "send", "gone"}]
    BY <1>4, PluginAssumption DEF MakeClient
  <2> QED
    BY <1>4, <2>1, <2>2, <2>3 DEF MakeClient
<1>5. CASE MakeThrows(w)
  BY <1>5 DEF MakeThrows
<1>6. CASE Register(w)
  BY <1>6 DEF Register, InHand, Held
<1>7. CASE Close(w)
  <2>1. client[w] \in registered
    BY <1>7 DEF Close, InHand, InUse
  <2> QED
    BY <1>7, <2>1, PluginAssumption DEF Close, NoClient
<1> QED
  BY <1>1, <1>2, <1>3, <1>4, <1>5, <1>6, <1>7

(* And those that read with it. *)
LEMMA UseTypes ==
  ASSUME PluginTypes, NEW w \in Wrappers,
         \/ RequestRead(w) \/ TakeEvent(w) \/ TakeFinished(w)
         \/ \E n \in Request : SendPart(w, n) \/ EndRequest(w, n)
  PROVE  PluginTypes'
<1> USE DEF PluginTypes, handleVars, managerVars, responderVars, readVars, wrapperVars, hostVars
<1>1. CASE RequestRead(w)
  <2>1. issued' \in 0 .. MaxRequests /\ issued' = issued + 1
    BY <1>1, PluginAssumption DEF RequestRead
  <2>2. [by |-> w, of |-> client[w], sent |-> 0, left |-> Parts(client[w]), failed |-> FALSE]
          \in ReadRecord
    BY PartsRange DEF ReadRecord
  <2>3. req' \in [Request -> ReadRecord]
    BY <1>1, <2>2 DEF RequestRead
  <2>4. running' \in [Client -> Nat]
    <3>1. CASE client[w] \in Client
      BY <1>1, <3>1 DEF RequestRead
    <3>2. CASE client[w] \notin Client
      BY <1>1, <3>2 DEF RequestRead
    <3> QED
      BY <3>1, <3>2
  <2>5. gets' \subseteq (1 .. issued') \X (1 .. Chunks)
    <3>1. 1 .. issued \subseteq 1 .. issued'
      BY <2>1
    <3> QED
      BY <1>1, <3>1 DEF RequestRead
  <2>6. waits' \in [Wrappers -> SUBSET (1 .. issued')]
    <3>1. 1 .. issued \subseteq 1 .. issued'
      BY <2>1
    <3> QED
      BY <1>1, <3>1 DEF RequestRead
  <2> QED
    BY <1>1, <2>1, <2>3, <2>4, <2>5, <2>6 DEF RequestRead
<1>2. CASE TakeEvent(w)
  <2>1. CASE client[w] \in Client
    <3>1. Tail(events[client[w]]) \in Seq(Request \X BOOLEAN)
      BY <1>2, <2>1 DEF TakeEvent
    <3>2. events' \in [Client -> Seq(Request \X BOOLEAN)]
      BY <1>2, <3>1 DEF TakeEvent
    <3> QED
      BY <1>2, <3>2 DEF TakeEvent
  <2>2. CASE client[w] \notin Client
    <3>1. events' \in [Client -> Seq(Request \X BOOLEAN)]
      BY <1>2, <2>2 DEF TakeEvent
    <3> QED
      BY <1>2, <3>1 DEF TakeEvent
  <2> QED
    BY <2>1, <2>2
<1>3. CASE TakeFinished(w)
  BY <1>3 DEF TakeFinished
<1>4. CASE \E n \in Request : SendPart(w, n) \/ EndRequest(w, n)
  <2>1. PICK n \in Request : SendPart(w, n) \/ EndRequest(w, n)
    BY <1>4
  <2>2. n \in 1 .. issued
    BY <2>1, PluginAssumption DEF SendPart, EndRequest, Sends, Request
  <2>3. CASE SendPart(w, n)
    <3>1. <<n, req[n].sent + 1>> \in (1 .. issued) \X (1 .. Chunks)
      <4>1. req[n].sent \in Nat /\ Parts(client[w]) \in 1 .. Chunks /\ req[n].sent < Parts(client[w])
        BY <2>3, PartsRange DEF SendPart, ReadRecord
      <4>2. req[n].sent + 1 \in 1 .. Chunks
        BY <4>1, PluginAssumption
      <4> QED
        BY <2>2, <4>2
    <3>2. req' = [req EXCEPT ![n] = [req[n] EXCEPT !.sent = req[n].sent + 1]]
      BY <2>3 DEF SendPart
    <3>3. req[n] \in ReadRecord
      OBVIOUS
    <3>4. [req[n] EXCEPT !.sent = req[n].sent + 1] \in ReadRecord
      <4>1. req[n].sent + 1 \in Nat
        BY <3>3 DEF ReadRecord
      <4> QED
        BY <3>3, <4>1 DEF ReadRecord
    <3>5. req' \in [Request -> ReadRecord]
      BY <3>2, <3>4
    <3> QED
      BY <2>3, <3>1, <3>5 DEF SendPart
  <2>4. CASE EndRequest(w, n)
    BY <2>2, <2>4 DEF EndRequest
  <2> QED
    BY <2>1, <2>3, <2>4
<1> QED
  BY <1>1, <1>2, <1>3, <1>4

(* And the parts that end. *)
LEMMA PartTypes ==
  ASSUME PluginTypes, NEW g \in gets, PartLands(g) \/ PartFails(g), Asked
  PROVE  PluginTypes'
<1> USE DEF PluginTypes, handleVars, managerVars, responderVars, readVars, wrapperVars, hostVars
<1>1. g[1] \in 1 .. issued /\ g[1] \in Request
  BY PluginAssumption DEF Request
<1>2. req[g[1]].of \in Client
  BY <1>1, PluginAssumption DEF Asked, Client
<1>3. req' \in [Request -> ReadRecord]
  <2>1. req[g[1]] \in ReadRecord
    BY <1>1
  <2>2. CASE PartLands(g)
    <3>1. req' = [req EXCEPT ![g[1]] = [req[g[1]] EXCEPT !.left = req[g[1]].left - 1]]
      BY <2>2 DEF PartLands
    <3>2. [req[g[1]] EXCEPT !.left = req[g[1]].left - 1] \in ReadRecord
      <4>1. req[g[1]].left - 1 \in Int
        BY <2>1 DEF ReadRecord
      <4> QED
        BY <2>1, <4>1 DEF ReadRecord
    <3> QED
      BY <3>1, <3>2
  <2>3. CASE PartFails(g)
    <3>1. req' = [req EXCEPT ![g[1]] = [req[g[1]] EXCEPT !.failed = TRUE]]
      BY <2>3 DEF PartFails
    <3>2. [req[g[1]] EXCEPT !.failed = TRUE] \in ReadRecord
      BY <2>1 DEF ReadRecord
    <3> QED
      BY <3>1, <3>2
  <2> QED
    BY <2>2, <2>3
<1>4. running' \in [Client -> Nat] /\ events' \in [Client -> Seq(Request \X BOOLEAN)]
      /\ surprised' \in BOOLEAN
  BY <1>1, <1>2, PushTypes DEF PartLands, PartFails
<1> QED
  BY <1>3, <1>4 DEF PartLands, PartFails

(* The state keeps its type. *)
LEMMA TypesStep ==
  ASSUME PluginInv, PluginNext
  PROVE  PluginTypes'
  BY Operations, HostTypes, OpenTypes, UseTypes, PartTypes DEF PluginInv

----------------------------------------------------------------------------
(* Who has which client. *)

(* A manager with as many unused clients as clients has no client in use. *)
LEMMA NoneInUse ==
  ASSUME PluginTypes, InHand, AllUnused
  PROVE  unused = registered /\ InUse = {}
<1>1. IsFiniteSet(registered)
  <2>1. IsFiniteSet(1 .. made)
    <3>1. made \in Int
      BY DEF PluginTypes
    <3> QED
      BY <3>1, FS_Interval
  <2> QED
    BY <2>1, FS_Subset DEF PluginTypes
<1>2. unused = registered
  BY <1>1, FS_Subset DEF PluginTypes, AllUnused
<1> QED
  BY <1>2 DEF InHand

(* A client is in hand as long as its wrapper is where it was. *)
LEMMA HandSame ==
  ASSUME InHand, UNCHANGED <<registered, unused, made, client>>, InUse' = InUse, Held' = Held,
         \A w \in Held : step'[w] = "register" => step[w] = "register"
  PROVE  InHand'
  BY DEF InHand

(* Opening and closing move a client between the manager and one wrapper. *)
LEMMA HandStep ==
  ASSUME PluginInv, PluginNext
  PROVE  InHand'
<1> USE DEF PluginInv, handleVars, managerVars, responderVars, readVars, wrapperVars, hostVars
<1>1. ASSUME NEW s \in Hosts,
             \/ HandleS3(s) \/ BeginCancel(s) \/ SilenceClient(s) \/ EndCancel(s)
             \/ StopPool(s) \/ \E c \in Client : FlagClient(s, c)
      PROVE  InHand'
  <2>1. UNCHANGED <<registered, unused, made, client, step>>
    BY <1>1 DEF HandleS3, BeginCancel, SilenceClient, EndCancel, StopPool, FlagClient
  <2> QED
    BY <2>1, HandSame DEF InUse, Held
<1>2. ASSUME NEW s \in Hosts, Shutdown(s)
      PROVE  InHand'
  <2>1. UNCHANGED <<made, client, step>>
    BY <1>2 DEF Shutdown
  <2>2. CASE AllUnused
    <3>1. registered' = {} /\ unused' = {}
      BY <1>2, <2>2 DEF Shutdown, Destroy
    <3>2. InUse' = {} /\ Held' = Held
      BY <2>1, <2>2, NoneInUse DEF InUse, Held
    <3> QED
      BY <2>1, <3>1, <3>2 DEF InHand
  <2>3. CASE ~AllUnused
    BY <1>2, <2>1, <2>3, HandSame DEF Shutdown, InUse, Held
  <2> QED
    BY <2>2, <2>3
<1>3. ASSUME NEW w \in Wrappers, NEW p \in {"S3", "GCS", "Azure"}, NEW k \in Credential, GetHandle(w, p, k)
      PROVE  InHand'
  <2>1. /\ UNCHANGED <<registered, unused, made, client>> /\ step[w] = "closed"
        /\ step' = [step EXCEPT ![w] = "pop"]
    BY <1>3 DEF GetHandle
  <2> QED
    BY <2>1, HandSame DEF InUse, Held, PluginTypes
<1>4. ASSUME NEW w \in Wrappers, MakeThrows(w)
      PROVE  InHand'
  <2>1. /\ UNCHANGED <<registered, unused, made, client>> /\ step[w] = "make"
        /\ step' = [step EXCEPT ![w] = "closed"]
    BY <1>4 DEF MakeThrows
  <2> QED
    BY <2>1, HandSame DEF InUse, Held, PluginTypes
<1>5. ASSUME NEW w \in Wrappers, NEW c \in unused, NEW stale \in SUBSET unused, Reuse(w, c, stale)
      PROVE  InHand'
  <2>1. /\ step[w] = "pop" /\ step' = [step EXCEPT ![w] = "open"] /\ made' = made
        /\ client' = [client EXCEPT ![w] = c]
        /\ unused' = unused \ (stale \cup {c}) /\ registered' = registered \ stale
        /\ c \notin stale
    BY <1>5 DEF Reuse, Destroy
  <2>2. InUse' = InUse \cup {w} /\ Held' = Held \cup {w} /\ w \notin Held /\ w \notin InUse
    BY <2>1 DEF InUse, Held, PluginTypes
  <2>3. \A v \in Held : client'[v] = client[v] /\ step'[v] = step[v] /\ client[v] # c
    BY <2>1, <2>2 DEF PluginTypes, InHand, Held
  <2>4. client'[w] = c /\ step'[w] = "open" /\ c \in 1 .. made
    BY <2>1 DEF PluginTypes
  <2>5. InUse \subseteq Held
    BY DEF InUse, Held
  <2>6. registered' \ unused' = {client'[v] : v \in InUse'}
    <3>1. registered' \ unused' = (registered \ unused) \cup {c}
      BY <2>1 DEF PluginTypes
    <3>2. {client'[v] : v \in InUse'} = {client[v] : v \in InUse} \cup {c}
      BY <2>2, <2>3, <2>4, <2>5
    <3> QED
      BY <3>1, <3>2 DEF InHand
  <2> QED
    BY <2>1, <2>2, <2>3, <2>4, <2>6 DEF InHand
<1>6. ASSUME NEW w \in Wrappers, PopNone(w)
      PROVE  InHand'
  <2>1. /\ step[w] = "pop" /\ step' = [step EXCEPT ![w] = "make"] /\ UNCHANGED <<made, client>>
        /\ unused' = {} /\ registered' = registered \ unused
    BY <1>6 DEF PopNone, Destroy
  <2>2. InUse' = InUse /\ Held' = Held /\ \A v \in Held : step'[v] = step[v]
    BY <2>1 DEF InUse, Held, PluginTypes
  <2> QED
    BY <2>1, <2>2 DEF InHand
<1>7. ASSUME NEW w \in Wrappers, MakeClient(w)
      PROVE  InHand'
  <2>1. /\ step[w] = "make" /\ step' = [step EXCEPT ![w] = "register"]
        /\ made' = made + 1 /\ UNCHANGED <<registered, unused>>
        /\ client' = [client EXCEPT ![w] = made + 1]
    BY <1>7 DEF MakeClient
  <2>2. InUse' = InUse /\ Held' = Held \cup {w} /\ w \notin Held /\ InUse \subseteq Held
    BY <2>1 DEF InUse, Held, PluginTypes
  <2>3. \A v \in Held : client'[v] = client[v] /\ step'[v] = step[v] /\ client[v] # made + 1
    <3>1. made \in Nat /\ \A v \in Held : client[v] \in 1 .. made
      BY PluginAssumption DEF PluginTypes, InHand
    <3>2. \A v \in Held : v # w /\ v \in Wrappers
      BY <2>2 DEF Held
    <3> QED
      BY <2>1, <3>1, <3>2 DEF PluginTypes
  <2>4. client'[w] = made + 1 /\ made + 1 \in 1 .. made' /\ made + 1 \notin registered
        /\ 1 .. made \subseteq 1 .. made'
    BY <2>1, PluginAssumption DEF PluginTypes
  <2>5. {client'[v] : v \in InUse'} = {client[v] : v \in InUse}
    BY <2>2, <2>3
  <2>6. \A v, u \in Held' : client'[v] = client'[u] => v = u
    BY <2>2, <2>3, <2>4 DEF InHand
  <2>7. \A v \in Held' : client'[v] \in (1 .. made') \ unused'
    BY <2>1, <2>2, <2>3, <2>4 DEF InHand, PluginTypes
  <2>8. \A v \in Held' : step'[v] = "register" => client'[v] \notin registered'
    BY <2>1, <2>2, <2>3, <2>4 DEF InHand
  <2> QED
    BY <2>1, <2>5, <2>6, <2>7, <2>8 DEF InHand
<1>8. ASSUME NEW w \in Wrappers, Register(w)
      PROVE  InHand'
  <2>1. /\ step[w] = "register" /\ step' = [step EXCEPT ![w] = "open"]
        /\ UNCHANGED <<made, unused, client>> /\ registered' = registered \cup {client[w]}
    BY <1>8 DEF Register
  <2>2. InUse' = InUse \cup {w} /\ Held' = Held /\ w \in Held /\ w \notin InUse
    BY <2>1 DEF InUse, Held, PluginTypes
  <2>3. step'[w] = "open" /\ \A v \in Held : v # w => step'[v] = step[v]
    BY <2>1 DEF Held, PluginTypes
  <2>4. registered' \ unused' = {client'[v] : v \in InUse'}
    <3>1. registered' \ unused' = (registered \ unused) \cup {client[w]}
      BY <2>1, <2>2 DEF InHand
    <3> QED
      BY <2>1, <2>2, <3>1 DEF InHand
  <2>5. \A v \in Held' : step'[v] = "register" => client'[v] \notin registered'
    BY <2>1, <2>2, <2>3 DEF InHand
  <2> QED
    BY <2>1, <2>2, <2>4, <2>5 DEF InHand
<1>9. ASSUME NEW w \in Wrappers, Close(w)
      PROVE  InHand'
  <2>1. /\ step[w] = "open" /\ step' = [step EXCEPT ![w] = "gone"]
        /\ UNCHANGED <<made, registered>> /\ unused' = unused \cup {client[w]}
        /\ client' = [client EXCEPT ![w] = NoClient]
    BY <1>9 DEF Close
  <2>2. InUse' = InUse \ {w} /\ Held' = Held \ {w} /\ w \in Held /\ w \in InUse /\ InUse \subseteq Held
    BY <2>1 DEF InUse, Held, PluginTypes
  <2>3. \A v \in Held' : client'[v] = client[v] /\ step'[v] = step[v] /\ client[v] # client[w]
    BY <2>1, <2>2 DEF PluginTypes, InHand, Held
  <2>4. registered' \ unused' = {client'[v] : v \in InUse'}
    <3>1. registered' \ unused' = (registered \ unused) \ {client[w]}
      BY <2>1
    <3>2. {client'[v] : v \in InUse'} = {client[v] : v \in InUse} \ {client[w]}
      BY <2>2, <2>3
    <3> QED
      BY <3>1, <3>2 DEF InHand
  <2> QED
    BY <2>1, <2>2, <2>3, <2>4 DEF InHand
<1>10. ASSUME NEW w \in Wrappers, RequestRead(w)
       PROVE  InHand'
  <2>1. /\ step[w] = "open" /\ step' = [step EXCEPT ![w] = "send"]
        /\ UNCHANGED <<registered, unused, made, client>>
    BY <1>10 DEF RequestRead
  <2> QED
    BY <2>1, HandSame DEF InUse, Held, PluginTypes
<1>11. ASSUME NEW w \in Wrappers, TakeEvent(w) \/ TakeFinished(w)
       PROVE  InHand'
  <2>1. UNCHANGED <<registered, unused, made, client, step>>
    BY <1>11 DEF TakeEvent, TakeFinished
  <2> QED
    BY <2>1, HandSame DEF InUse, Held
<1>12. ASSUME NEW w \in Wrappers, NEW n \in Request, SendPart(w, n) \/ EndRequest(w, n)
       PROVE  InHand'
  <2>1. /\ UNCHANGED <<registered, unused, made, client>>
        /\ step' = step \/ (step[w] = "send" /\ step' = [step EXCEPT ![w] = "open"])
    BY <1>12 DEF SendPart, EndRequest, Sends
  <2> QED
    BY <2>1, HandSame DEF InUse, Held, PluginTypes
<1>13. ASSUME NEW g \in gets, PartLands(g) \/ PartFails(g)
       PROVE  InHand'
  <2>1. UNCHANGED <<registered, unused, made, client, step>>
    BY <1>13 DEF PartLands, PartFails
  <2> QED
    BY <2>1, HandSame DEF InUse, Held
<1> QED
  BY Operations, <1>1, <1>2, <1>3, <1>4, <1>5, <1>6, <1>7, <1>8, <1>9, <1>10, <1>11, <1>12, <1>13

----------------------------------------------------------------------------
(* What each client was built from. *)

(* A client that verifies was built from what the wrapper would build one  *)
(* from: an Azure client never from an empty value, and every GCS client   *)
(* from the environment.                                                   *)
LEMMA VerifiedFits ==
  ASSUME NEW c, NEW k \in Credential, Verifies(c, k),
         \E q \in Credential : identity[c] = Identity(q),
         backend \in {NoPlugin, "S3", "GCS", "Azure"}
  PROVE  identity[c] = Identity(k)
<1>1. PICK q \in Credential : identity[c] = Identity(q)
  OBVIOUS
<1>2. CASE backend = "GCS"
  BY <1>1, <1>2 DEF Identity, GCSIdentity
<1>3. CASE backend = "Azure"
  <2>1. identity[c] = AzureAsked(k) /\ identity[c] = AzureIdentity(q) /\ Identity(k) = AzureIdentity(k)
    BY <1>1, <1>3 DEF Identity, Verifies
  <2>2. CASE k \in Blank
    <3>1. k # NoCredential
      BY <2>2, PluginAssumption
    <3>2. identity[c] = <<k, Unset>>
      BY <2>1, <3>1 DEF AzureAsked
    <3>3. CASE q \in Blank \cup {NoCredential}
      BY <2>1, <2>2, <3>3 DEF AzureIdentity
    <3>4. CASE q \notin Blank \cup {NoCredential}
      BY <2>1, <2>2, <3>2, <3>4 DEF AzureIdentity
    <3> QED
      BY <3>3, <3>4
  <2>3. CASE k \notin Blank
    BY <2>1, <2>3 DEF AzureAsked, AzureIdentity
  <2> QED
    BY <2>2, <2>3
<1>4. CASE backend \notin {"GCS", "Azure"}
  BY <1>4 DEF Identity, Verifies
<1> QED
  BY <1>2, <1>3, <1>4

(* The plugin does not change under its clients. *)
LEMMA PluginKept ==
  ASSUME PluginInv, PluginNext
  PROVE  /\ environ' = environ
         /\ \/ backend' = backend
            \/ backend = NoPlugin /\ made = 0 /\ \A w \in Wrappers : step[w] = "closed"
<1> USE DEF handleVars, managerVars, responderVars, readVars, wrapperVars, hostVars
<1>1. ASSUME NEW s \in Hosts,
             \/ HandleS3(s) \/ SilenceClient(s) \/ EndCancel(s)
             \/ StopPool(s) \/ \E c \in Client : FlagClient(s, c)
      PROVE  UNCHANGED <<environ, backend>>
  BY <1>1 DEF HandleS3, SilenceClient, EndCancel, StopPool, FlagClient
<1>2. ASSUME NEW s \in Hosts, BeginCancel(s) \/ Shutdown(s)
      PROVE  environ' = environ /\ (backend' = backend \/ backend = NoPlugin)
  BY <1>2, NeverCloses DEF BeginCancel, Shutdown, OpenedForNoUri
<1>3. ASSUME NEW w \in Wrappers, NEW p \in {"S3", "GCS", "Azure"}, NEW k \in Credential, GetHandle(w, p, k)
      PROVE  environ' = environ /\ (backend' = backend \/ backend = NoPlugin)
  BY <1>3 DEF GetHandle, Opened
<1>4. ASSUME NEW w \in Wrappers,
             \/ \E c \in unused, stale \in SUBSET unused : Reuse(w, c, stale)
             \/ PopNone(w) \/ MakeClient(w) \/ MakeThrows(w) \/ Register(w)
      PROVE  UNCHANGED <<environ, backend>>
  BY <1>4 DEF Reuse, PopNone, MakeClient, MakeThrows, Register
<1>5. ASSUME NEW w \in Wrappers,
             \/ RequestRead(w) \/ TakeEvent(w) \/ TakeFinished(w) \/ Close(w)
             \/ \E n \in Request : SendPart(w, n) \/ EndRequest(w, n)
      PROVE  UNCHANGED <<environ, backend>>
  BY <1>5 DEF RequestRead, TakeEvent, TakeFinished, Close, SendPart, EndRequest
<1>6. ASSUME NEW g \in gets, PartLands(g) \/ PartFails(g)
      PROVE  UNCHANGED <<environ, backend>>
  BY <1>6 DEF PartLands, PartFails
<1>7. environ' = environ /\ (backend' = backend \/ backend = NoPlugin)
  BY Operations, <1>1, <1>2, <1>3, <1>4, <1>5, <1>6
<1> QED
  BY <1>7 DEF PluginInv, Fitting

(* A step that builds and opens nothing keeps every client's origin. *)
LEMMA FitSame ==
  ASSUME Fitting, UNCHANGED <<environ, backend, made, identity, cached, provider, client, config>>,
         Held' \subseteq Held, \A w \in Wrappers : step'[w] = "closed" <=> step[w] = "closed"
  PROVE  Fitting'
<1>1. \A k : Identity(k)' = Identity(k)
  BY DEF Identity, GCSIdentity, AzureIdentity, S3Identity, Endpoint
<1> QED
  BY <1>1 DEF Fitting

(* Releasing clients shuts the cache library only when nobody holds it. *)
LEMMA CacheKept ==
  ASSUME NEW C, Destroy(C), cached # {} => provider = "loaded"
  PROVE  cached' # {} => provider' = "loaded"
  BY DEF Destroy

(* A wrapper uses a client with what it was built from. *)
LEMMA FitStep ==
  ASSUME PluginInv, PluginNext
  PROVE  Fitting'
<1> USE DEF PluginInv, handleVars, managerVars, responderVars, readVars, wrapperVars, hostVars
<1>1. ASSUME NEW s \in Hosts,
             \/ HandleS3(s) \/ SilenceClient(s) \/ EndCancel(s)
             \/ StopPool(s) \/ \E c \in Client : FlagClient(s, c)
      PROVE  Fitting'
  <2>1. UNCHANGED <<environ, backend, made, identity, cached, provider, client, config, step>>
    BY <1>1 DEF HandleS3, SilenceClient, EndCancel, StopPool, FlagClient
  <2> QED
    BY <2>1, FitSame DEF Held
<1>2. CASE backend' # backend
  <2>1. backend = NoPlugin /\ made = 0 /\ environ' = environ /\ \A w \in Wrappers : step[w] = "closed"
    BY <1>2, PluginKept
  <2>2. cached = {} /\ registered = {} /\ unused = {} /\ gets = {} /\ Held = {}
    <3>1. 1 .. made = {}
      BY <2>1
    <3>2. cached = {} /\ registered = {} /\ unused = {} /\ Held = {}
      BY <2>1, <3>1 DEF PluginTypes, Held
    <3>3. gets = {}
      BY <3>2 DEF Asked
    <3> QED
      BY <3>2, <3>3
  <2>3. ASSUME NEW s \in Hosts, BeginCancel(s) \/ Shutdown(s)
        PROVE  Fitting'
    <3>1. made' = 0 /\ cached' = {} /\ step' = step
      BY <2>1, <2>2, <2>3 DEF BeginCancel, Shutdown, Destroy
    <3>2. 1 .. made' = {} /\ Held' = {}
      BY <2>1, <2>2, <3>1 DEF Held
    <3> QED
      BY <2>1, <3>1, <3>2 DEF Fitting
  <2>4. ASSUME NEW w \in Wrappers, NEW p \in {"S3", "GCS", "Azure"}, NEW k \in Credential, GetHandle(w, p, k)
        PROVE  Fitting'
    <3>1. made' = 0 /\ cached' = {} /\ backend' # NoPlugin /\ step' = [step EXCEPT ![w] = "pop"]
      BY <2>1, <2>2, <2>4 DEF GetHandle, Opened, NoPlugin
    <3>2. 1 .. made' = {} /\ Held' = {}
      BY <2>1, <2>2, <3>1 DEF Held, PluginTypes
    <3> QED
      BY <3>1, <3>2 DEF Fitting
  <2>5. \/ \E s \in Hosts : BeginCancel(s) \/ Shutdown(s)
        \/ \E w \in Wrappers, p \in {"S3", "GCS", "Azure"}, k \in Credential : GetHandle(w, p, k)
    <3>1. \A s \in Hosts : ~(\/ HandleS3(s) \/ SilenceClient(s) \/ EndCancel(s)
                             \/ StopPool(s) \/ \E c \in Client : FlagClient(s, c))
      BY <1>2 DEF HandleS3, SilenceClient, EndCancel, StopPool, FlagClient
    <3>2. \A w \in Wrappers :
            ~(\/ \E c \in unused, stale \in SUBSET unused : Reuse(w, c, stale)
              \/ PopNone(w) \/ MakeClient(w) \/ MakeThrows(w) \/ Register(w))
      BY <1>2 DEF Reuse, PopNone, MakeClient, MakeThrows, Register
    <3>3. \A w \in Wrappers :
            ~(\/ RequestRead(w) \/ TakeEvent(w) \/ TakeFinished(w) \/ Close(w)
              \/ \E n \in Request : SendPart(w, n) \/ EndRequest(w, n))
      BY <1>2 DEF RequestRead, TakeEvent, TakeFinished, Close, SendPart, EndRequest
    <3>4. \A g \in gets : ~(PartLands(g) \/ PartFails(g))
      BY <1>2 DEF PartLands, PartFails
    <3> QED
      BY Operations, <3>1, <3>2, <3>3, <3>4
  <2> QED
    BY <2>3, <2>4, <2>5
<1>3. ASSUME backend' = backend, NEW s \in Hosts, BeginCancel(s)
      PROVE  Fitting'
  <2>1. UNCHANGED <<environ, made, identity, cached, provider, client, config, step>>
    BY <1>3 DEF BeginCancel
  <2> QED
    BY <1>3, <2>1, FitSame DEF Held
<1>20. environ' = environ
  BY PluginKept
<1>21. backend' = backend => \A k : Identity(k)' = Identity(k)
  BY <1>20 DEF Identity, GCSIdentity, AzureIdentity, S3Identity, Endpoint
<1>4. ASSUME backend' = backend, NEW s \in Hosts, Shutdown(s)
      PROVE  Fitting'
  <2>1. UNCHANGED <<made, identity, client, config, step>>
    BY <1>4 DEF Shutdown
  <2>2. cached' # {} => provider' = "loaded"
    BY <1>4, CacheKept DEF Shutdown, Fitting
  <2>3. Held' = Held
    BY <2>1 DEF Held
  <2> QED
    BY <1>4, <1>21, <2>1, <2>2, <2>3 DEF Fitting
<1>5. ASSUME backend' = backend, NEW w \in Wrappers, NEW p \in {"S3", "GCS", "Azure"}, NEW k \in Credential,
             GetHandle(w, p, k)
      PROVE  Fitting'
  <2>1. /\ UNCHANGED <<made, identity, cached, provider, client>> /\ step[w] = "closed"
        /\ config' = [config EXCEPT ![w] = k] /\ step' = [step EXCEPT ![w] = "pop"] /\ backend' # NoPlugin
    BY <1>5 DEF GetHandle, Opened, NoPlugin
  <2>2. Held' = Held /\ \A v \in Held : config'[v] = config[v]
    BY <2>1 DEF Held, PluginTypes
  <2> QED
    BY <1>5, <1>21, <2>1, <2>2 DEF Fitting
<1>6. ASSUME NEW w \in Wrappers, NEW c \in unused, NEW stale \in SUBSET unused, Reuse(w, c, stale)
      PROVE  Fitting'
  <2>1. /\ step[w] = "pop" /\ step' = [step EXCEPT ![w] = "open"] /\ Verifies(c, config[w])
        /\ client' = [client EXCEPT ![w] = c] /\ Destroy(stale)
        /\ UNCHANGED <<backend, made, identity, config>>
    BY <1>6 DEF Reuse
  <2>2. identity[c] = Identity(config[w])
    <3>1. c \in 1 .. made /\ config[w] \in Credential
      BY DEF PluginTypes
    <3> QED
      BY <2>1, <3>1, VerifiedFits DEF Fitting, PluginTypes
  <2>3. Held' = Held \cup {w} /\ client'[w] = c /\ \A v \in Held : client'[v] = client[v]
    BY <2>1 DEF Held, PluginTypes
  <2>4. cached' # {} => provider' = "loaded"
    BY <2>1, CacheKept DEF Fitting
  <2>5. backend # NoPlugin
    BY <2>1 DEF Fitting
  <2> QED
    BY <1>21, <2>1, <2>2, <2>3, <2>4, <2>5 DEF Fitting
<1>7. ASSUME NEW w \in Wrappers, PopNone(w)
      PROVE  Fitting'
  <2>1. /\ step[w] = "pop" /\ step' = [step EXCEPT ![w] = "make"]
        /\ Destroy(unused) /\ UNCHANGED <<backend, made, identity, client, config>>
    BY <1>7 DEF PopNone
  <2>2. Held' = Held /\ backend # NoPlugin
    BY <2>1 DEF Held, PluginTypes, Fitting
  <2>3. cached' # {} => provider' = "loaded"
    BY <2>1, CacheKept DEF Fitting
  <2> QED
    BY <1>21, <2>1, <2>2, <2>3 DEF Fitting
<1>8. ASSUME NEW w \in Wrappers, MakeClient(w)
      PROVE  Fitting'
  <2>1. /\ step[w] = "make" /\ step' = [step EXCEPT ![w] = "register"]
        /\ made < MaxClients /\ made' = made + 1 /\ UNCHANGED <<backend, config>>
        /\ client' = [client EXCEPT ![w] = made + 1]
        /\ identity' = [identity EXCEPT ![made + 1] = Identity(config[w])]
    BY <1>8 DEF MakeClient
  <2>2. cached' # {} => provider' = "loaded"
    BY <1>8 DEF MakeClient, Fitting
  <2>3. backend # NoPlugin
    BY <2>1 DEF Fitting
  <2>4. Held' = Held \cup {w} /\ w \notin Held /\ client'[w] = made + 1
        /\ \A v \in Held : client'[v] = client[v]
    BY <2>1 DEF Held, PluginTypes
  <2>5. /\ made + 1 \in Client /\ 1 .. made' = (1 .. made) \cup {made + 1}
        /\ \A c \in 1 .. made : c \in Client /\ c # made + 1
    BY <2>1, PluginAssumption DEF Client, PluginTypes
  <2>6. identity'[made + 1] = Identity(config[w]) /\ \A c \in 1 .. made : identity'[c] = identity[c]
    BY <2>1, <2>5 DEF PluginTypes
  <2>7. \A c \in 1 .. made' : \E k \in Credential : identity'[c] = Identity(k)
    <3>1. config[w] \in Credential
      BY DEF PluginTypes
    <3> QED
      BY <2>5, <2>6, <3>1 DEF Fitting
  <2>8. \A v \in Held' : identity'[client'[v]] = Identity(config[v])
    <3>1. \A v \in Held : client[v] \in 1 .. made
      BY DEF InHand
    <3> QED
      BY <2>4, <2>6, <3>1 DEF Fitting
  <2> QED
    BY <1>21, <2>1, <2>2, <2>3, <2>7, <2>8 DEF Fitting
<1>9. ASSUME NEW w \in Wrappers, MakeThrows(w) \/ Register(w)
      PROVE  Fitting'
  <2>1. /\ step[w] \in {"make", "register"} /\ UNCHANGED <<environ, backend, made, identity, cached, provider, client, config>>
        /\ \/ step' = [step EXCEPT ![w] = "closed"] /\ step[w] = "make"
           \/ step' = [step EXCEPT ![w] = "open"]  /\ step[w] = "register"
    BY <1>9 DEF MakeThrows, Register
  <2>2. Held' = Held
    BY <2>1 DEF Held, PluginTypes
  <2>3. backend # NoPlugin
    BY <2>1 DEF Fitting
  <2> QED
    BY <1>21, <2>1, <2>2, <2>3 DEF Fitting
<1>10. ASSUME NEW w \in Wrappers, RequestRead(w) \/ TakeEvent(w) \/ TakeFinished(w) \/ Close(w)
       PROVE  Fitting'
  <2>1. CASE RequestRead(w)
    <3>1. /\ step[w] = "open" /\ step' = [step EXCEPT ![w] = "send"]
          /\ UNCHANGED <<environ, backend, made, identity, cached, provider, client, config>>
      BY <2>1 DEF RequestRead
    <3> QED
      BY <3>1, FitSame DEF Held, PluginTypes
  <2>2. CASE TakeEvent(w) \/ TakeFinished(w)
    <3>1. UNCHANGED <<environ, backend, made, identity, cached, provider, client, config, step>>
      BY <2>2 DEF TakeEvent, TakeFinished
    <3> QED
      BY <3>1, FitSame DEF Held
  <2>3. CASE Close(w)
    <3>1. /\ step[w] = "open" /\ step' = [step EXCEPT ![w] = "gone"]
          /\ client' = [client EXCEPT ![w] = NoClient]
          /\ UNCHANGED <<environ, backend, made, identity, cached, provider, config>>
      BY <2>3 DEF Close
    <3>2. Held' \subseteq Held /\ \A v \in Held' : client'[v] = client[v]
      BY <3>1 DEF Held, PluginTypes
    <3>3. backend # NoPlugin
      BY <3>1 DEF Fitting
    <3> QED
      BY <1>21, <3>1, <3>2, <3>3 DEF Fitting
  <2> QED
    BY <1>10, <2>1, <2>2, <2>3
<1>11. ASSUME NEW w \in Wrappers, NEW n \in Request, SendPart(w, n) \/ EndRequest(w, n)
       PROVE  Fitting'
  <2>1. /\ UNCHANGED <<environ, backend, made, identity, cached, provider, client, config>>
        /\ step' = step \/ (step[w] = "send" /\ step' = [step EXCEPT ![w] = "open"])
    BY <1>11 DEF SendPart, EndRequest, Sends
  <2> QED
    BY <2>1, FitSame DEF Held, PluginTypes
<1>12. ASSUME NEW g \in gets, PartLands(g) \/ PartFails(g)
       PROVE  Fitting'
  <2>1. UNCHANGED <<environ, backend, made, identity, cached, provider, client, config, step>>
    BY <1>12 DEF PartLands, PartFails
  <2> QED
    BY <2>1, FitSame DEF Held
<1> QED
  BY Operations, <1>1, <1>2, <1>3, <1>4, <1>5, <1>6, <1>7, <1>8, <1>9, <1>10, <1>11, <1>12

----------------------------------------------------------------------------
(* Who asked for what. *)

(* The read in hand is the same as long as its wrapper sends. *)
LEMMA SendsSame ==
  ASSUME issued \in Nat, issued' = issued, \A m \in 1 .. issued : req'[m].by = req[m].by,
         NEW w, step'[w] = "send" <=> step[w] = "send", NEW n \in Request
  PROVE  Sends(w, n)' <=> Sends(w, n)
  BY DEF Sends, Request

(* A step that asks for nothing and moves no reader keeps who asked. *)
LEMMA AskedSame ==
  ASSUME PluginTypes, Asked, UNCHANGED <<issued, req, step, client, waits>>, made \in Nat, made' \in Nat,
         made <= made', gets' \subseteq gets, \A g \in gets' : req[g[1]].of \in registered'
  PROVE  Asked'
<1>1. \A w \in Wrappers, n \in Request : Sends(w, n)' <=> Sends(w, n)
  BY DEF Sends
<1>2. \A n \in 1 .. issued : n \in Request
  BY PluginAssumption DEF PluginTypes, Request
<1>3. 1 .. made \subseteq 1 .. made'
  OBVIOUS
<1> QED
  BY <1>1, <1>2, <1>3 DEF Asked, PluginTypes

(* Nor does one that moves a wrapper which has not been opened yet. *)
LEMMA AskedOpening ==
  ASSUME PluginTypes, Asked, UNCHANGED <<issued, req, waits>>, made \in Nat, made' \in Nat, made <= made',
         NEW w \in Wrappers, step[w] \notin {"open", "send", "gone"}, step'[w] \notin {"send", "gone"},
         \A v \in Wrappers \ {w} : step'[v] = step[v] /\ client'[v] = client[v],
         gets' \subseteq gets, \A g \in gets' : req[g[1]].of \in registered'
  PROVE  Asked'
<1>1. \A n \in 1 .. issued : n \in Request
  BY PluginAssumption DEF PluginTypes, Request
<1>2. \A n \in 1 .. issued : req[n].by \in Wrappers \ {w}
  BY DEF Asked
<1>3. \A v \in Wrappers \ {w} : step'[v] = step[v]
  OBVIOUS
<1>4. \A v \in Wrappers, n \in Request : Sends(v, n)' <=> Sends(v, n)
  <2>1. \A v \in Wrappers : step'[v] = "send" <=> step[v] = "send"
    BY <1>3
  <2>2. issued \in Nat
    BY PluginAssumption DEF PluginTypes
  <2> QED
    BY <2>1, <2>2, SendsSame
<1>5. waits[w] = {}
  BY DEF Asked
<1>6. 1 .. made \subseteq 1 .. made'
  OBVIOUS
<1>7. \A n \in 1 .. issued :
        /\ req'[n].by \in Wrappers \ Listings
        /\ req'[n].of \in 1 .. made'
        /\ step'[req'[n].by] \in {"open", "send", "gone"}
        /\ step'[req'[n].by] # "gone" => req'[n].of = client'[req'[n].by]
  BY <1>2, <1>3, <1>6 DEF Asked
<1>8. \A v \in Wrappers : \A n \in waits'[v] : req'[n].by = v /\ ~Sends(v, n)'
  BY <1>1, <1>4 DEF Asked, PluginTypes
<1>9. \A v \in Wrappers : step'[v] \notin {"open", "send"} => waits'[v] = {}
  BY <1>3, <1>5 DEF Asked
<1>10. \A g \in gets' : req'[g[1]].of \in registered' /\ g[2] <= req'[g[1]].sent
  BY DEF Asked
<1> QED
  BY <1>7, <1>8, <1>9, <1>10 DEF Asked

(* The reads of a released client are gone with it. *)
LEMMA ReleasedGets ==
  ASSUME Asked, NEW C, Destroy(C)
  PROVE  gets' \subseteq gets /\ \A g \in gets' : req[g[1]].of \in registered'
  BY DEF Asked, Destroy, GetsOf

(* What the end of a part does to its read. *)
LEMMA PartEffect ==
  ASSUME PluginTypes, NEW g \in gets, PartLands(g) \/ PartFails(g)
  PROVE  /\ g[1] \in 1 .. issued /\ g[1] \in Request /\ req[g[1]] \in ReadRecord
         /\ \A m \in 1 .. issued :
              req'[m].by = req[m].by /\ req'[m].of = req[m].of /\ req'[m].sent = req[m].sent
         /\ \A m \in 1 .. issued : m # g[1] => req'[m] = req[m]
         /\ PartLands(g) => req'[g[1]].left = req[g[1]].left - 1 /\ req'[g[1]].failed = req[g[1]].failed
         /\ PartFails(g) => req'[g[1]].left = req[g[1]].left /\ req'[g[1]].failed = TRUE
<1>1. \A n \in 1 .. issued : n \in Request
  BY PluginAssumption DEF PluginTypes, Request
<1>2. g[1] \in 1 .. issued /\ g[1] \in Request /\ req[g[1]] \in ReadRecord
  BY <1>1 DEF PluginTypes
<1>3. CASE PartLands(g)
  <2>1. req' = [req EXCEPT ![g[1]] = [req[g[1]] EXCEPT !.left = req[g[1]].left - 1]]
    BY <1>3 DEF PartLands
  <2>2. req'[g[1]] = [req[g[1]] EXCEPT !.left = req[g[1]].left - 1]
        /\ \A m \in 1 .. issued : m # g[1] => req'[m] = req[m]
    BY <1>1, <1>2, <2>1 DEF PluginTypes
  <2>3. PartFails(g) => req'[g[1]].failed = TRUE /\ req'[g[1]].left = req[g[1]].left
    <3>1. PartFails(g) => req' = [req EXCEPT ![g[1]] = [req[g[1]] EXCEPT !.failed = TRUE]]
      BY DEF PartFails
    <3>2. PartFails(g) => req'[g[1]] = [req[g[1]] EXCEPT !.failed = TRUE]
      BY <1>2, <3>1 DEF PluginTypes
    <3> QED
      BY <1>2, <3>2 DEF ReadRecord
  <2>4. /\ req'[g[1]].by = req[g[1]].by /\ req'[g[1]].of = req[g[1]].of /\ req'[g[1]].sent = req[g[1]].sent
        /\ req'[g[1]].left = req[g[1]].left - 1 /\ req'[g[1]].failed = req[g[1]].failed
    BY <1>2, <2>2 DEF ReadRecord
  <2> QED
    BY <1>2, <2>2, <2>3, <2>4
<1>4. CASE ~PartLands(g)
  <2>1. req' = [req EXCEPT ![g[1]] = [req[g[1]] EXCEPT !.failed = TRUE]]
    BY <1>4 DEF PartFails
  <2>2. req'[g[1]] = [req[g[1]] EXCEPT !.failed = TRUE]
        /\ \A m \in 1 .. issued : m # g[1] => req'[m] = req[m]
    BY <1>1, <1>2, <2>1 DEF PluginTypes
  <2>4. /\ req'[g[1]].by = req[g[1]].by /\ req'[g[1]].of = req[g[1]].of /\ req'[g[1]].sent = req[g[1]].sent
        /\ req'[g[1]].left = req[g[1]].left /\ req'[g[1]].failed = TRUE
    BY <1>2, <2>2 DEF ReadRecord
  <2> QED
    BY <1>2, <1>4, <2>2, <2>4
<1> QED
  BY <1>3, <1>4

(* A request keeps to the wrapper that made it and the client it had. *)
LEMMA AskedStep ==
  ASSUME PluginInv, PluginNext
  PROVE  Asked'
<1> USE DEF PluginInv, handleVars, managerVars, responderVars, readVars, wrapperVars, hostVars
<1>20. made \in Nat /\ made + 1 \in Nat /\ issued \in Nat
  BY PluginAssumption DEF PluginTypes
<1>21. \A n \in 1 .. issued : n \in Request
  BY PluginAssumption DEF PluginTypes, Request
<1>1. ASSUME NEW s \in Hosts,
             \/ HandleS3(s) \/ BeginCancel(s) \/ SilenceClient(s) \/ EndCancel(s)
             \/ StopPool(s) \/ \E c \in Client : FlagClient(s, c)
      PROVE  Asked'
  <2>1. UNCHANGED <<issued, req, step, client, waits, made, gets, registered>>
    BY <1>1 DEF HandleS3, BeginCancel, SilenceClient, EndCancel, StopPool, FlagClient
  <2> QED
    BY <1>20, <2>1, AskedSame DEF Asked
<1>2. ASSUME NEW s \in Hosts, Shutdown(s)
      PROVE  Asked'
  <2>1. UNCHANGED <<issued, req, step, client, waits, made>>
    BY <1>2 DEF Shutdown
  <2>2. gets' \subseteq gets /\ \A g \in gets' : req[g[1]].of \in registered'
    <3>1. CASE AllUnused
      BY <1>2, <3>1, ReleasedGets DEF Shutdown
    <3>2. CASE ~AllUnused
      BY <1>2, <3>2 DEF Shutdown, Asked
    <3> QED
      BY <3>1, <3>2
  <2> QED
    BY <1>20, <2>1, <2>2, AskedSame
<1>3. ASSUME NEW w \in Wrappers, NEW p \in {"S3", "GCS", "Azure"}, NEW k \in Credential, GetHandle(w, p, k)
      PROVE  Asked'
  <2>1. /\ UNCHANGED <<issued, req, waits, made, client, gets, registered>> /\ step[w] = "closed"
        /\ step' = [step EXCEPT ![w] = "pop"]
    BY <1>3 DEF GetHandle
  <2>2. /\ step[w] \notin {"open", "send", "gone"} /\ step'[w] \notin {"send", "gone"}
        /\ \A v \in Wrappers \ {w} : step'[v] = step[v] /\ client'[v] = client[v]
    BY <2>1 DEF PluginTypes
  <2>3. gets' \subseteq gets /\ \A g \in gets' : req[g[1]].of \in registered'
    BY <2>1 DEF Asked
  <2>4. made' \in Nat /\ made <= made'
    BY <1>20, <2>1
  <2> QED
    BY <1>20, <2>1, <2>2, <2>3, <2>4, AskedOpening
<1>4. ASSUME NEW w \in Wrappers, MakeThrows(w)
      PROVE  Asked'
  <2>1. /\ UNCHANGED <<issued, req, waits, made, client, gets, registered>> /\ step[w] = "make"
        /\ step' = [step EXCEPT ![w] = "closed"]
    BY <1>4 DEF MakeThrows
  <2>2. /\ step[w] \notin {"open", "send", "gone"} /\ step'[w] \notin {"send", "gone"}
        /\ \A v \in Wrappers \ {w} : step'[v] = step[v] /\ client'[v] = client[v]
    BY <2>1 DEF PluginTypes
  <2>3. gets' \subseteq gets /\ \A g \in gets' : req[g[1]].of \in registered'
    BY <2>1 DEF Asked
  <2>4. made' \in Nat /\ made <= made'
    BY <1>20, <2>1
  <2> QED
    BY <1>20, <2>1, <2>2, <2>3, <2>4, AskedOpening
<1>5. ASSUME NEW w \in Wrappers, NEW c \in unused, NEW stale \in SUBSET unused, Reuse(w, c, stale)
      PROVE  Asked'
  <2>1. /\ UNCHANGED <<issued, req, waits, made>> /\ step[w] = "pop"
        /\ step' = [step EXCEPT ![w] = "open"] /\ Destroy(stale) /\ client' = [client EXCEPT ![w] = c]
    BY <1>5 DEF Reuse
  <2>2. /\ step[w] \notin {"open", "send", "gone"} /\ step'[w] \notin {"send", "gone"}
        /\ \A v \in Wrappers \ {w} : step'[v] = step[v] /\ client'[v] = client[v]
    BY <2>1 DEF PluginTypes
  <2>3. gets' \subseteq gets /\ \A g \in gets' : req[g[1]].of \in registered'
    BY <2>1, ReleasedGets
  <2>4. made' \in Nat /\ made <= made'
    BY <1>20, <2>1
  <2> QED
    BY <1>20, <2>1, <2>2, <2>3, <2>4, AskedOpening
<1>6. ASSUME NEW w \in Wrappers, PopNone(w)
      PROVE  Asked'
  <2>1. /\ UNCHANGED <<issued, req, waits, made, client>> /\ step[w] = "pop"
        /\ step' = [step EXCEPT ![w] = "make"] /\ Destroy(unused)
    BY <1>6 DEF PopNone
  <2>2. /\ step[w] \notin {"open", "send", "gone"} /\ step'[w] \notin {"send", "gone"}
        /\ \A v \in Wrappers \ {w} : step'[v] = step[v] /\ client'[v] = client[v]
    BY <2>1 DEF PluginTypes
  <2>3. gets' \subseteq gets /\ \A g \in gets' : req[g[1]].of \in registered'
    BY <2>1, ReleasedGets
  <2>4. made' \in Nat /\ made <= made'
    BY <1>20, <2>1
  <2> QED
    BY <1>20, <2>1, <2>2, <2>3, <2>4, AskedOpening
<1>7. ASSUME NEW w \in Wrappers, MakeClient(w)
      PROVE  Asked'
  <2>1. /\ UNCHANGED <<issued, req, waits, gets, registered>> /\ step[w] = "make" /\ made' = made + 1
        /\ step' = [step EXCEPT ![w] = "register"] /\ client' = [client EXCEPT ![w] = made + 1]
    BY <1>7 DEF MakeClient
  <2>2. /\ step[w] \notin {"open", "send", "gone"} /\ step'[w] \notin {"send", "gone"}
        /\ \A v \in Wrappers \ {w} : step'[v] = step[v] /\ client'[v] = client[v]
    BY <2>1 DEF PluginTypes
  <2>3. gets' \subseteq gets /\ \A g \in gets' : req[g[1]].of \in registered'
    BY <2>1 DEF Asked
  <2>4. made' \in Nat /\ made <= made'
    BY <1>20, <2>1
  <2> QED
    BY <1>20, <2>1, <2>2, <2>3, <2>4, AskedOpening
<1>8. ASSUME NEW w \in Wrappers, Register(w)
      PROVE  Asked'
  <2>1. /\ UNCHANGED <<issued, req, waits, made, client, gets>> /\ step[w] = "register"
        /\ step' = [step EXCEPT ![w] = "open"] /\ registered \subseteq registered'
    BY <1>8 DEF Register
  <2>2. /\ step[w] \notin {"open", "send", "gone"} /\ step'[w] \notin {"send", "gone"}
        /\ \A v \in Wrappers \ {w} : step'[v] = step[v] /\ client'[v] = client[v]
    BY <2>1 DEF PluginTypes
  <2>3. gets' \subseteq gets /\ \A g \in gets' : req[g[1]].of \in registered'
    BY <2>1 DEF Asked
  <2>4. made' \in Nat /\ made <= made'
    BY <1>20, <2>1
  <2> QED
    BY <1>20, <2>1, <2>2, <2>3, <2>4, AskedOpening
<1>9. ASSUME NEW w \in Wrappers, Close(w)
      PROVE  Asked'
  <2>1. /\ UNCHANGED <<issued, req, waits, made, gets, registered>> /\ step[w] = "open"
        /\ step' = [step EXCEPT ![w] = "gone"] /\ client' = [client EXCEPT ![w] = NoClient]
        /\ w \notin Listings => waits[w] = {}
    BY <1>9 DEF Close
  <2>2. waits[w] = {}
    <3>1. w \in Listings => waits[w] = {}
      <4>1. \A n \in waits[w] : n \in 1 .. issued /\ req[n].by = w
        BY DEF Asked, PluginTypes
      <4> QED
        BY <4>1 DEF Asked
    <3> QED
      BY <2>1, <3>1
  <2>3. step'[w] = "gone" /\ \A v \in Wrappers \ {w} : step'[v] = step[v] /\ client'[v] = client[v]
    BY <2>1 DEF PluginTypes
  <2>4. \A v \in Wrappers, n \in Request : Sends(v, n)' <=> Sends(v, n)
    BY <1>20, <2>1, <2>3, SendsSame
  <2>5. \A n \in 1 .. issued :
        /\ req'[n].by \in Wrappers \ Listings
        /\ req'[n].of \in 1 .. made'
        /\ step'[req'[n].by] \in {"open", "send", "gone"}
        /\ step'[req'[n].by] # "gone" => req'[n].of = client'[req'[n].by]
    BY <2>1, <2>3 DEF Asked
  <2>6. \A v \in Wrappers : \A n \in waits'[v] : req'[n].by = v /\ ~Sends(v, n)'
    BY <1>21, <2>1, <2>4 DEF Asked, PluginTypes
  <2>7. \A v \in Wrappers : step'[v] \notin {"open", "send"} => waits'[v] = {}
    BY <2>1, <2>2, <2>3 DEF Asked
  <2> QED
    BY <2>1, <2>5, <2>6, <2>7 DEF Asked
<1>10. ASSUME NEW w \in Wrappers, RequestRead(w)
       PROVE  Asked'
  <2>1. /\ UNCHANGED <<made, gets, registered, waits, client>> /\ step[w] = "open" /\ w \notin Listings
        /\ issued < MaxRequests /\ issued' = issued + 1 /\ step' = [step EXCEPT ![w] = "send"]
        /\ req' = [req EXCEPT ![issued + 1] =
               [by |-> w, of |-> client[w], sent |-> 0, left |-> Parts(client[w]), failed |-> FALSE]]
    BY <1>10 DEF RequestRead
  <2>2. issued + 1 \in Request /\ \A n \in 1 .. issued : n \in Request /\ n # issued + 1
    BY <1>20, <2>1, PluginAssumption DEF Request
  <2>3. /\ \A n \in 1 .. issued : req'[n] = req[n]
        /\ req'[issued + 1].by = w /\ req'[issued + 1].of = client[w]
    BY <2>1, <2>2 DEF PluginTypes
  <2>4. step'[w] = "send" /\ \A v \in Wrappers \ {w} : step'[v] = step[v]
    BY <2>1 DEF PluginTypes
  <2>5. client[w] \in 1 .. made
    BY <2>1 DEF InHand, Held
  <2>6. 1 .. issued' = (1 .. issued) \cup {issued + 1}
    BY <1>20, <2>1
  <2>7. \A n \in 1 .. issued' :
        /\ req'[n].by \in Wrappers \ Listings
        /\ req'[n].of \in 1 .. made'
        /\ step'[req'[n].by] \in {"open", "send", "gone"}
        /\ step'[req'[n].by] # "gone" => req'[n].of = client'[req'[n].by]
    <3>1. ASSUME NEW n \in 1 .. issued
          PROVE  /\ req'[n].by \in Wrappers \ Listings
                 /\ req'[n].of \in 1 .. made'
                 /\ step'[req'[n].by] \in {"open", "send", "gone"}
                 /\ step'[req'[n].by] # "gone" => req'[n].of = client'[req'[n].by]
      BY <2>1, <2>3, <2>4 DEF Asked
    <3> QED
      BY <2>1, <2>3, <2>4, <2>5, <2>6, <3>1
  <2>8. ASSUME NEW v \in Wrappers, NEW n \in waits'[v]
        PROVE  req'[n].by = v /\ ~Sends(v, n)'
    <3>1. n \in 1 .. issued /\ n \in waits[v] /\ req[n].by = v /\ ~Sends(v, n)
      BY <2>1 DEF Asked, PluginTypes
    <3>2. CASE v = w
      <4>1. issued + 1 \in 1 .. issued' /\ ~(issued + 1 <= n)
        BY <1>20, <2>1, <3>1
      <4> QED
        BY <2>3, <3>1, <3>2, <4>1 DEF Sends
    <3>3. CASE v # w
      <4>1. step'[v] = step[v] /\ n <= issued'
        BY <1>20, <2>1, <2>4, <3>1, <3>3
      <4>2. ASSUME step[v] = "send"
            PROVE  \E m \in 1 .. issued' : req'[m].by = v /\ ~(m <= n)
        <5>1. PICK m \in 1 .. issued : req[m].by = v /\ ~(m <= n)
          BY <1>20, <3>1, <4>2 DEF Sends
        <5> QED
          BY <2>3, <2>6, <5>1
      <4> QED
        BY <2>3, <3>1, <4>1, <4>2 DEF Sends
    <3> QED
      BY <3>2, <3>3
  <2>9. \A v \in Wrappers : step'[v] \notin {"open", "send"} => waits'[v] = {}
    BY <2>1, <2>4 DEF Asked
  <2>10. \A g \in gets' : req'[g[1]].of \in registered' /\ g[2] <= req'[g[1]].sent
    BY <2>1, <2>3 DEF Asked, PluginTypes
  <2> QED
    BY <2>7, <2>8, <2>9, <2>10 DEF Asked
<1>11. ASSUME NEW w \in Wrappers, TakeEvent(w) \/ TakeFinished(w)
       PROVE  Asked'
  <2>1. /\ UNCHANGED <<issued, req, step, client, made, gets, registered>>
        /\ \A v \in Wrappers : waits'[v] \subseteq waits[v]
    BY <1>11 DEF TakeEvent, TakeFinished, PluginTypes
  <2>2. \A v \in Wrappers, n \in Request : Sends(v, n)' <=> Sends(v, n)
    BY <2>1 DEF Sends
  <2>3. \A v \in Wrappers : \A n \in waits'[v] : req'[n].by = v /\ ~Sends(v, n)'
    BY <1>21, <2>1, <2>2 DEF Asked, PluginTypes
  <2> QED
    BY <2>1, <2>3 DEF Asked
<1>12. ASSUME NEW w \in Wrappers, NEW n \in Request, SendPart(w, n)
       PROVE  Asked'
  <2>1. /\ UNCHANGED <<made, issued, registered, step, client, waits>> /\ Sends(w, n)
        /\ gets' = gets \cup {<<n, req[n].sent + 1>>}
        /\ req' = [req EXCEPT ![n] = [req[n] EXCEPT !.sent = req[n].sent + 1]]
    BY <1>12 DEF SendPart
  <2>2. req[n] \in ReadRecord /\ n \in 1 .. issued
    BY <1>20, <2>1 DEF PluginTypes, Sends, Request
  <2>3. /\ \A m \in 1 .. issued : req'[m].by = req[m].by /\ req'[m].of = req[m].of
        /\ \A m \in 1 .. issued : m # n => req'[m] = req[m]
        /\ req'[n].sent = req[n].sent + 1 /\ req[n].sent \in Nat
    BY <1>21, <2>1, <2>2 DEF PluginTypes, ReadRecord
  <2>4. \A v \in Wrappers, m \in Request : Sends(v, m)' <=> Sends(v, m)
    BY <1>20, <2>1, <2>3, SendsSame
  <2>5. \A v \in Wrappers : \A m \in waits'[v] : req'[m].by = v /\ ~Sends(v, m)'
    BY <1>21, <2>1, <2>3, <2>4 DEF Asked, PluginTypes
  <2>6. ASSUME NEW g \in gets'
        PROVE  req'[g[1]].of \in registered' /\ g[2] <= req'[g[1]].sent
    <3>1. CASE g \in gets
      <4>1. g[1] \in 1 .. issued /\ g[2] \in Nat /\ g[2] <= req[g[1]].sent /\ req[g[1]].of \in registered
        BY <3>1, PluginAssumption DEF Asked, PluginTypes
      <4>2. req[g[1]].sent <= req'[g[1]].sent /\ req[g[1]].sent \in Nat /\ req'[g[1]].sent \in Nat
        <5>1. req[g[1]] \in ReadRecord
          BY <1>21, <4>1 DEF PluginTypes
        <5>2. req[g[1]].sent \in Nat
          BY <5>1 DEF ReadRecord
        <5> QED
          BY <2>3, <4>1, <5>2
      <4> QED
        BY <2>1, <2>3, <4>1, <4>2
    <3>2. CASE g = <<n, req[n].sent + 1>>
      <4>1. req[n].of = client[w] /\ client[w] \in registered
        BY <2>1, <2>2 DEF Sends, Asked, InHand, InUse
      <4> QED
        BY <2>1, <2>2, <2>3, <3>2, <4>1
    <3> QED
      BY <2>1, <3>1, <3>2
  <2>7. \A m \in 1 .. issued' :
        /\ req'[m].by \in Wrappers \ Listings
        /\ req'[m].of \in 1 .. made'
        /\ step'[req'[m].by] \in {"open", "send", "gone"}
        /\ step'[req'[m].by] # "gone" => req'[m].of = client'[req'[m].by]
    BY <2>1, <2>3 DEF Asked
  <2> QED
    BY <2>1, <2>5, <2>6, <2>7 DEF Asked
<1>13. ASSUME NEW w \in Wrappers, NEW n \in Request, EndRequest(w, n)
       PROVE  Asked'
  <2>1. /\ UNCHANGED <<made, issued, registered, req, gets, client>> /\ Sends(w, n)
        /\ step' = [step EXCEPT ![w] = "open"]
        /\ waits' = waits \/ waits' = [waits EXCEPT ![w] = @ \cup {n}]
    BY <1>13 DEF EndRequest
  <2>2. step[w] = "send" /\ req[n].by = w /\ n \in 1 .. issued
    BY <1>20, <2>1 DEF Sends, Request
  <2>3. step'[w] = "open" /\ \A v \in Wrappers \ {w} : step'[v] = step[v]
    BY <2>1 DEF PluginTypes
  <2>4. \A v \in Wrappers \ {w}, m \in Request : Sends(v, m)' <=> Sends(v, m)
    BY <1>20, <2>1, <2>3, SendsSame
  <2>5. \A m \in Request : ~Sends(w, m)'
    BY <2>3 DEF Sends
  <2>6. ASSUME NEW v \in Wrappers, NEW m \in waits'[v]
        PROVE  req'[m].by = v /\ ~Sends(v, m)'
    <3>1. CASE v = w
      <4>1. m \in waits[w] \cup {n}
        BY <2>1, <3>1 DEF PluginTypes
      <4>2. m \in Request
        BY <1>21, <4>1 DEF PluginTypes
      <4> QED
        BY <2>1, <2>2, <2>5, <3>1, <4>1, <4>2 DEF Asked
    <3>2. CASE v # w
      <4>1. m \in waits[v]
        BY <2>1, <3>2 DEF PluginTypes
      <4>2. m \in Request
        BY <1>21, <4>1 DEF PluginTypes
      <4> QED
        BY <2>1, <2>4, <3>2, <4>1, <4>2 DEF Asked
    <3> QED
      BY <3>1, <3>2
  <2>7. \A v \in Wrappers : step'[v] \notin {"open", "send"} => waits'[v] = {}
    BY <2>1, <2>2, <2>3 DEF Asked, PluginTypes
  <2>8. \A m \in 1 .. issued' :
        /\ req'[m].by \in Wrappers \ Listings
        /\ req'[m].of \in 1 .. made'
        /\ step'[req'[m].by] \in {"open", "send", "gone"}
        /\ step'[req'[m].by] # "gone" => req'[m].of = client'[req'[m].by]
    BY <2>1, <2>2, <2>3 DEF Asked
  <2> QED
    BY <2>1, <2>6, <2>7, <2>8 DEF Asked
<1>14. ASSUME NEW g \in gets, PartLands(g) \/ PartFails(g)
       PROVE  Asked'
  <2>1. UNCHANGED <<made, issued, registered, step, client, waits>> /\ gets' = gets \ {g}
    BY <1>14 DEF PartLands, PartFails
  <2>3. \A m \in 1 .. issued : req'[m].by = req[m].by /\ req'[m].of = req[m].of /\ req'[m].sent = req[m].sent
    BY <1>14, PartEffect
  <2>4. \A v \in Wrappers, m \in Request : Sends(v, m)' <=> Sends(v, m)
    BY <1>20, <2>1, <2>3, SendsSame
  <2>5. \A v \in Wrappers : \A m \in waits'[v] : req'[m].by = v /\ ~Sends(v, m)'
    BY <1>21, <2>1, <2>3, <2>4 DEF Asked, PluginTypes
  <2>6. \A h \in gets' : req'[h[1]].of \in registered' /\ h[2] <= req'[h[1]].sent
    BY <2>1, <2>3 DEF Asked, PluginTypes
  <2>7. \A m \in 1 .. issued' :
        /\ req'[m].by \in Wrappers \ Listings
        /\ req'[m].of \in 1 .. made'
        /\ step'[req'[m].by] \in {"open", "send", "gone"}
        /\ step'[req'[m].by] # "gone" => req'[m].of = client'[req'[m].by]
    BY <2>1, <2>3 DEF Asked
  <2> QED
    BY <2>1, <2>5, <2>6, <2>7 DEF Asked
<1> QED
  BY Operations, <1>1, <1>2, <1>3, <1>4, <1>5, <1>6, <1>7, <1>8, <1>9, <1>10, <1>11, <1>12, <1>13, <1>14

----------------------------------------------------------------------------
(* How a streamer ends. *)

(* A streamer that has ended has no wrapper open, and what it asked for is *)
(* written no more unless its clients could not be released.               *)
LEMMA EndedStep ==
  ASSUME PluginInv, PluginNext
  PROVE  Ended'
<1> USE DEF PluginInv, handleVars, managerVars, responderVars, readVars, wrapperVars, hostVars
<1>20. /\ \A w \in Wrappers : HostOf[w] \in Hosts
       /\ \A g \in gets : g[1] \in 1 .. issued /\ req[g[1]].by \in Wrappers
  BY PluginAssumption DEF PluginTypes, Asked
<1>1. ASSUME NEW s \in Hosts, HandleS3(s) \/ BeginCancel(s) \/ StopPool(s)
      PROVE  Ended'
  <2>1. /\ UNCHANGED <<step, gets, req, refused>>
        /\ \E x \in {"streaming", "cancelled", "joining"} : host' = [host EXCEPT ![s] = x]
    BY <1>1 DEF HandleS3, BeginCancel, StopPool
  <2>2. \A t \in Hosts : host'[t] = "ended" => host[t] = "ended"
    BY <2>1 DEF PluginTypes
  <2> QED
    BY <1>20, <2>1, <2>2 DEF Ended
<1>2. ASSUME NEW s \in Hosts, SilenceClient(s) \/ EndCancel(s) \/ \E c \in Client : FlagClient(s, c)
      PROVE  Ended'
  <2>1. UNCHANGED <<step, gets, req, refused, host>>
    BY <1>2 DEF SilenceClient, EndCancel, FlagClient
  <2> QED
    BY <2>1 DEF Ended
<1>3. ASSUME NEW s \in Hosts, Shutdown(s)
      PROVE  Ended'
  <2>1. /\ UNCHANGED <<step, req>> /\ host' = [host EXCEPT ![s] = "ended"]
        /\ \A w \in Wrappers : HostOf[w] = s => step[w] \in {"closed", "gone"}
    BY <1>3 DEF Shutdown
  <2>2. host'[s] = "ended" /\ \A t \in Hosts : t # s => host'[t] = host[t]
    BY <2>1 DEF PluginTypes
  <2>3. \A w \in Wrappers : host'[HostOf[w]] = "ended" => step'[w] \in {"closed", "gone"}
    BY <1>20, <2>1, <2>2 DEF Ended
  <2>4. CASE AllUnused
    <3>1. gets' = gets \ GetsOf(registered)
      BY <1>3, <2>4 DEF Shutdown, Destroy
    <3>2. gets' = {}
      BY <3>1 DEF GetsOf, Asked
    <3> QED
      BY <2>3, <3>2 DEF Ended
  <2>5. CASE ~AllUnused
    <3>1. gets' = gets /\ refused' = refused \cup {s}
      BY <1>3, <2>5 DEF Shutdown
    <3> QED
      BY <1>20, <2>1, <2>2, <2>3, <3>1 DEF Ended
  <2> QED
    BY <2>4, <2>5
<1>4. ASSUME NEW w \in Wrappers, NEW p \in {"S3", "GCS", "Azure"}, NEW k \in Credential, GetHandle(w, p, k)
      PROVE  Ended'
  <2>1. /\ UNCHANGED <<gets, req, refused>> /\ step' = [step EXCEPT ![w] = "pop"]
        /\ host[HostOf[w]] # "ended"
        /\ \/ host' = host
           \/ host' = [host EXCEPT ![HostOf[w]] = IF @ = "idle" THEN "listing" ELSE @]
    BY <1>4 DEF GetHandle
  <2>2. \A t \in Hosts : host'[t] = "ended" => host[t] = "ended"
    BY <1>20, <2>1 DEF PluginTypes
  <2>3. \A v \in Wrappers : v # w => step'[v] = step[v]
    BY <2>1 DEF PluginTypes
  <2> QED
    BY <1>20, <2>1, <2>2, <2>3 DEF Ended
<1>5. ASSUME NEW w \in Wrappers,
             \/ \E c \in unused, stale \in SUBSET unused : Reuse(w, c, stale)
             \/ PopNone(w) \/ MakeClient(w) \/ MakeThrows(w) \/ Register(w) \/ Close(w)
      PROVE  Ended'
  <2>1. /\ UNCHANGED <<req, refused, host>> /\ gets' \subseteq gets
        /\ step[w] \notin {"closed", "gone"} /\ \E x : step' = [step EXCEPT ![w] = x]
    BY <1>5 DEF Reuse, PopNone, MakeClient, MakeThrows, Register, Close, Destroy
  <2>2. \A v \in Wrappers : v # w => step'[v] = step[v]
    BY <2>1 DEF PluginTypes
  <2> QED
    BY <1>20, <2>1, <2>2 DEF Ended
<1>6. ASSUME NEW w \in Wrappers, RequestRead(w)
      PROVE  Ended'
  <2>1. /\ UNCHANGED <<gets, refused, host>> /\ step[w] = "open" /\ step' = [step EXCEPT ![w] = "send"]
        /\ req' = [req EXCEPT ![issued + 1] =
               [by |-> w, of |-> client[w], sent |-> 0, left |-> Parts(client[w]), failed |-> FALSE]]
    BY <1>6 DEF RequestRead
  <2>2. \A v \in Wrappers : v # w => step'[v] = step[v]
    BY <2>1 DEF PluginTypes
  <2>3. \A g \in gets : req'[g[1]].by = req[g[1]].by
    <3> TAKE g \in gets
    <3>1. g[1] \in Request /\ g[1] # issued + 1
      BY <1>20, PluginAssumption DEF PluginTypes, Request
    <3> QED
      BY <2>1, <3>1 DEF PluginTypes
  <2> QED
    BY <1>20, <2>1, <2>2, <2>3 DEF Ended
<1>7. ASSUME NEW w \in Wrappers, TakeEvent(w) \/ TakeFinished(w)
      PROVE  Ended'
  <2>1. UNCHANGED <<step, gets, req, refused, host>>
    BY <1>7 DEF TakeEvent, TakeFinished
  <2> QED
    BY <2>1 DEF Ended
<1>8. ASSUME NEW w \in Wrappers, NEW n \in Request, SendPart(w, n)
      PROVE  Ended'
  <2>1. /\ UNCHANGED <<step, refused, host>> /\ Sends(w, n)
        /\ gets' = gets \cup {<<n, req[n].sent + 1>>}
        /\ req' = [req EXCEPT ![n] = [req[n] EXCEPT !.sent = req[n].sent + 1]]
    BY <1>8 DEF SendPart
  <2>2. req[n].by = w /\ step[w] = "send"
    BY <2>1 DEF Sends
  <2>3. req[n] \in ReadRecord
    BY DEF PluginTypes
  <2>4. req'[n].by = w /\ \A g \in gets : req'[g[1]].by = req[g[1]].by
    <3>1. \A g \in gets : g[1] \in Request
      BY <1>20, PluginAssumption DEF PluginTypes, Request
    <3>2. \A m \in Request : req'[m].by = req[m].by
      BY <2>1, <2>3 DEF PluginTypes, ReadRecord
    <3> QED
      BY <2>2, <3>1, <3>2
  <2>5. host[HostOf[w]] # "ended"
    BY <2>2 DEF Ended
  <2> QED
    BY <1>20, <2>1, <2>4, <2>5 DEF Ended
<1>9. ASSUME NEW w \in Wrappers, NEW n \in Request, EndRequest(w, n)
      PROVE  Ended'
  <2>1. /\ UNCHANGED <<req, refused, host, gets>> /\ step[w] = "send" /\ step' = [step EXCEPT ![w] = "open"]
    BY <1>9 DEF EndRequest, Sends
  <2>2. \A v \in Wrappers : v # w => step'[v] = step[v]
    BY <2>1 DEF PluginTypes
  <2> QED
    BY <1>20, <2>1, <2>2 DEF Ended
<1>10. ASSUME NEW g \in gets, PartLands(g) \/ PartFails(g)
       PROVE  Ended'
  <2>1. UNCHANGED <<step, refused, host>> /\ gets' = gets \ {g}
    BY <1>10 DEF PartLands, PartFails
  <2>2. \A h \in gets : req'[h[1]].by = req[h[1]].by
    BY <1>10, <1>20, PartEffect
  <2> QED
    BY <2>1, <2>2 DEF Ended
<1> QED
  BY Operations, <1>1, <1>2, <1>3, <1>4, <1>5, <1>6, <1>7, <1>8, <1>9, <1>10

(* A step that stops nothing and accepts nothing wakes nobody less. *)
LEMMA WokenSame ==
  ASSUME Woken, UNCHANGED <<cancel, flagged, silenced>>,
         \A w \in Wrappers : waits'[w] \subseteq waits[w],
         \A w \in Wrappers : waits'[w] = {} \/ client'[w] = client[w]
  PROVE  Woken'
  BY DEF Woken

(* Who waits has a client. *)
LEMMA WaitsHaveClient ==
  ASSUME PluginTypes, InHand, Asked, NEW w \in Wrappers, waits[w] # {}
  PROVE  client[w] # NoClient
<1>1. step[w] \in {"open", "send"}
  BY DEF Asked
<1>2. client[w] \in 1 .. made
  BY <1>1 DEF InHand, Held
<1> QED
  BY <1>2 DEF NoClient, PluginTypes

(* Nobody waits for a stopped client whose responder is not stopped too. *)
LEMMA WokenStep ==
  ASSUME PluginInv, PluginNext
  PROVE  Woken'
<1> USE DEF PluginInv, handleVars, managerVars, responderVars, readVars, wrapperVars, hostVars
<1>1. ASSUME NEW s \in Hosts, HandleS3(s) \/ StopPool(s) \/ Shutdown(s)
      PROVE  Woken'
  <2>1. UNCHANGED <<cancel, flagged, silenced, waits, client>>
    BY <1>1 DEF HandleS3, StopPool, Shutdown
  <2> QED
    BY <2>1, WokenSame
<1>2. ASSUME NEW s \in Hosts, BeginCancel(s)
      PROVE  Woken'
  <2>1. UNCHANGED <<flagged, silenced, waits, client>> /\ cancel'.at = NoClient
    BY <1>2 DEF BeginCancel
  <2>2. ASSUME NEW w \in Wrappers, waits[w] # {}, client[w] \in flagged
        PROVE  client[w] \in silenced
    <3>1. cancel.at # client[w]
      BY <1>2, <2>2, WaitsHaveClient DEF BeginCancel, MutexFree, Woken
    <3> QED
      BY <2>2, <3>1 DEF Woken
  <2> QED
    BY <2>1, <2>2 DEF Woken
<1>3. ASSUME NEW s \in Hosts, SilenceClient(s)
      PROVE  Woken'
  <2>1. /\ UNCHANGED <<flagged, waits, client>> /\ cancel'.at = NoClient
        /\ silenced' = IF HasResponder(cancel.at) THEN silenced \cup {cancel.at} ELSE silenced
    BY <1>3 DEF SilenceClient, PluginTypes, Cancel
  <2>2. ASSUME NEW w \in Wrappers, waits[w] # {}, client[w] = cancel.at
        PROVE  HasResponder(cancel.at)
    <3>1. PICK n \in waits[w] : TRUE
      BY <2>2
    <3>2. n \in 1 .. issued /\ req[n].by = w /\ step[w] \in {"open", "send"}
      BY <3>1 DEF Asked, PluginTypes
    <3>3. req[n].of = client[w]
      BY <3>2 DEF Asked
    <3> QED
      BY <2>2, <3>2, <3>3 DEF HasResponder
  <2> QED
    BY <2>1, <2>2 DEF Woken
<1>4. ASSUME NEW s \in Hosts, EndCancel(s)
      PROVE  Woken'
  <2>1. UNCHANGED <<flagged, silenced, waits, client>> /\ cancel'.at = cancel.at /\ cancel.at = NoClient
    BY <1>4 DEF EndCancel, PluginTypes, Cancel
  <2> QED
    BY <2>1 DEF Woken
<1>5. ASSUME NEW s \in Hosts, NEW c \in Client, FlagClient(s, c)
      PROVE  Woken'
  <2>1. /\ UNCHANGED <<silenced, waits, client>> /\ cancel'.at = c /\ cancel.at = NoClient
        /\ flagged' = flagged \cup {c}
    BY <1>5 DEF FlagClient, PluginTypes, Cancel
  <2>2. \A w \in Wrappers : waits[w] # {} => client[w] # NoClient
    BY WaitsHaveClient
  <2>3. cancel'.by # NoHost
    BY <1>5, PluginAssumption DEF FlagClient, PluginTypes, Cancel
  <2> QED
    BY <2>1, <2>2, <2>3 DEF Woken
<1>6. ASSUME NEW w \in Wrappers,
             \/ \E p \in {"S3", "GCS", "Azure"}, k \in Credential : GetHandle(w, p, k)
             \/ MakeThrows(w) \/ Register(w) \/ PopNone(w)
      PROVE  Woken'
  <2>1. UNCHANGED <<cancel, flagged, silenced, waits, client>>
    BY <1>6 DEF GetHandle, MakeThrows, Register, PopNone
  <2> QED
    BY <2>1, WokenSame
<1>7. ASSUME NEW w \in Wrappers,
             \/ \E c \in unused, stale \in SUBSET unused : Reuse(w, c, stale)
             \/ MakeClient(w)
      PROVE  Woken'
  <2>1. /\ UNCHANGED <<cancel, flagged, silenced, waits>> /\ step[w] \in {"pop", "make"}
        /\ \E x : client' = [client EXCEPT ![w] = x]
    BY <1>7 DEF Reuse, MakeClient
  <2>2. waits[w] = {} /\ \A v \in Wrappers : v # w => client'[v] = client[v]
    BY <2>1 DEF Asked, PluginTypes
  <2> QED
    BY <2>1, <2>2, WokenSame
<1>8. ASSUME NEW w \in Wrappers, Close(w)
      PROVE  Woken'
  <2>1. /\ UNCHANGED <<cancel, flagged, silenced, waits>> /\ step' = [step EXCEPT ![w] = "gone"]
        /\ client' = [client EXCEPT ![w] = NoClient]
    BY <1>8 DEF Close
  <2>2. \A v \in Wrappers : v # w => client'[v] = client[v]
    BY <2>1 DEF PluginTypes
  <2>3. waits'[w] = {}
    <3>1. step'[w] = "gone"
      BY <2>1 DEF PluginTypes
    <3> QED
      BY <3>1, AskedStep DEF Asked
  <2> QED
    BY <2>1, <2>2, <2>3, WokenSame
<1>9. ASSUME NEW w \in Wrappers, RequestRead(w)
      PROVE  Woken'
  <2>1. UNCHANGED <<cancel, flagged, silenced, waits, client>>
    BY <1>9 DEF RequestRead
  <2> QED
    BY <2>1, WokenSame
<1>10. ASSUME NEW w \in Wrappers, TakeEvent(w) \/ TakeFinished(w)
       PROVE  Woken'
  <2>1. /\ UNCHANGED <<cancel, flagged, silenced, client>>
        /\ \A v \in Wrappers : waits'[v] \subseteq waits[v]
    BY <1>10 DEF TakeEvent, TakeFinished, PluginTypes
  <2> QED
    BY <2>1, WokenSame
<1>11. ASSUME NEW w \in Wrappers, NEW n \in Request, SendPart(w, n)
       PROVE  Woken'
  <2>1. UNCHANGED <<cancel, flagged, silenced, waits, client>>
    BY <1>11 DEF SendPart
  <2> QED
    BY <2>1, WokenSame
<1>12. ASSUME NEW w \in Wrappers, NEW n \in Request, EndRequest(w, n)
       PROVE  Woken'
  <2>1. /\ UNCHANGED <<cancel, flagged, silenced, client>>
        /\ waits' = IF client[w] \in flagged THEN waits ELSE [waits EXCEPT ![w] = @ \cup {n}]
    BY <1>12 DEF EndRequest
  <2>2. CASE client[w] \in flagged
    BY <2>1, <2>2, WokenSame
  <2>3. CASE client[w] \notin flagged
    <3>1. \A v \in Wrappers : v # w => waits'[v] = waits[v]
      BY <2>1, <2>3 DEF PluginTypes
    <3> QED
      BY <2>1, <2>3, <3>1 DEF Woken
  <2> QED
    BY <2>2, <2>3
<1>13. ASSUME NEW g \in gets, PartLands(g) \/ PartFails(g)
       PROVE  Woken'
  <2>1. UNCHANGED <<cancel, flagged, waits, silenced, client>>
    BY <1>13 DEF PartLands, PartFails
  <2> QED
    BY <2>1, WokenSame
<1> QED
  BY Operations, <1>1, <1>2, <1>3, <1>4, <1>5, <1>6, <1>7, <1>8, <1>9, <1>10, <1>11, <1>12, <1>13

----------------------------------------------------------------------------
(* Steps that ask for nothing, send nothing, take nothing and end no part. *)

Quiet ==
  /\ UNCHANGED <<issued, req, waits, events, running, surprised>>
  /\ flagged \subseteq flagged' /\ silenced \subseteq silenced'
  /\ \A w \in Wrappers : step'[w] = "send" <=> step[w] = "send"
  /\ gets' \subseteq gets
  /\ \A g \in gets : step[req[g[1]].by] \in {"open", "send"} => g \in gets'

(* Releasing unused clients ends no read of a wrapper that is in use. *)
LEMMA InUseKept ==
  ASSUME PluginTypes, InHand, Asked, NEW C \in SUBSET unused, Destroy(C)
  PROVE  /\ gets' \subseteq gets
         /\ \A g \in gets : step[req[g[1]].by] \in {"open", "send"} => g \in gets'
         /\ \A w \in InUse : client[w] \in cached' <=> client[w] \in cached
<1>1. \A w \in InUse : client[w] \notin C
  BY DEF InHand, InUse, Held
<1>2. ASSUME NEW g \in gets, step[req[g[1]].by] \in {"open", "send"}
      PROVE  g \in gets'
  <2>1. g[1] \in 1 .. issued
    BY DEF PluginTypes
  <2>2. req[g[1]].by \in InUse /\ req[g[1]].of = client[req[g[1]].by]
    BY <1>2, <2>1 DEF Asked, InUse
  <2> QED
    BY <1>1, <2>2 DEF Destroy, GetsOf
<1> QED
  BY <1>1, <1>2 DEF Destroy

(* Every step that is not about a read is quiet. *)
LEMMA QuietHosts ==
  ASSUME PluginInv, NEW s \in Hosts,
         \/ HandleS3(s) \/ BeginCancel(s) \/ SilenceClient(s) \/ EndCancel(s)
         \/ StopPool(s) \/ Shutdown(s) \/ \E c \in Client : FlagClient(s, c)
  PROVE  Quiet /\ \A w \in InUse : client[w] \in cached' <=> client[w] \in cached
<1> USE DEF PluginInv, handleVars, managerVars, responderVars, readVars, wrapperVars, hostVars
<1>1. CASE \/ HandleS3(s) \/ BeginCancel(s) \/ SilenceClient(s) \/ EndCancel(s)
           \/ StopPool(s) \/ \E c \in Client : FlagClient(s, c)
  <2>1. UNCHANGED <<issued, req, waits, events, running, surprised, step, gets, cached>>
    BY <1>1 DEF HandleS3, BeginCancel, SilenceClient, EndCancel, StopPool, FlagClient
  <2>2. flagged \subseteq flagged' /\ silenced \subseteq silenced'
    BY <1>1 DEF HandleS3, BeginCancel, SilenceClient, EndCancel, StopPool, FlagClient
  <2> QED
    BY <2>1, <2>2 DEF Quiet
<1>2. CASE Shutdown(s)
  <2>1. UNCHANGED <<issued, req, waits, events, running, surprised, step, flagged, silenced>>
    BY <1>2 DEF Shutdown
  <2>2. CASE AllUnused
    <3>1. Destroy(registered) /\ registered = unused
      BY <1>2, <2>2, NoneInUse DEF Shutdown
    <3>2. Destroy(unused)
      BY <3>1
    <3> QED
      BY <2>1, <3>2, InUseKept DEF Quiet
  <2>3. CASE ~AllUnused
    BY <1>2, <2>1, <2>3 DEF Shutdown, Quiet
  <2> QED
    BY <2>2, <2>3
<1> QED
  BY <1>1, <1>2

(* So are opening and closing a wrapper. *)
LEMMA QuietOpens ==
  ASSUME PluginInv, NEW w \in Wrappers,
         \/ \E p \in {"S3", "GCS", "Azure"}, k \in Credential : GetHandle(w, p, k)
         \/ \E c \in unused, stale \in SUBSET unused : Reuse(w, c, stale)
         \/ PopNone(w) \/ MakeClient(w) \/ MakeThrows(w) \/ Register(w) \/ Close(w)
  PROVE  Quiet /\ \A v \in InUse : client[v] \in cached' <=> client[v] \in cached
<1> USE DEF PluginInv, handleVars, managerVars, responderVars, readVars, wrapperVars, hostVars
<1>1. /\ UNCHANGED <<issued, req, waits, events, running, surprised, flagged, silenced>>
      /\ step[w] # "send" /\ \E x \in {"closed", "pop", "make", "register", "open", "gone"} :
                               step' = [step EXCEPT ![w] = x]
  BY DEF GetHandle, Reuse, PopNone, MakeClient, MakeThrows, Register, Close
<1>2. \A v \in Wrappers : step'[v] = "send" <=> step[v] = "send"
  BY <1>1 DEF PluginTypes
<1>3. /\ gets' \subseteq gets
      /\ \A g \in gets : step[req[g[1]].by] \in {"open", "send"} => g \in gets'
      /\ \A v \in InUse : client[v] \in cached' <=> client[v] \in cached
  <2>1. CASE \/ \E p \in {"S3", "GCS", "Azure"}, k \in Credential : GetHandle(w, p, k)
             \/ MakeThrows(w) \/ Register(w) \/ Close(w)
    BY <2>1 DEF GetHandle, MakeThrows, Register, Close
  <2>2. CASE \E c \in unused, stale \in SUBSET unused : Reuse(w, c, stale)
    <3>1. PICK c \in unused, stale \in SUBSET unused : Reuse(w, c, stale)
      BY <2>2
    <3>2. Destroy(stale)
      BY <3>1 DEF Reuse
    <3> QED
      BY <3>2, InUseKept
  <2>3. CASE PopNone(w)
    <3>1. Destroy(unused)
      BY <2>3 DEF PopNone
    <3> QED
      BY <3>1, InUseKept
  <2>4. CASE MakeClient(w)
    <3>1. gets' = gets /\ (cached' = cached \/ cached' = cached \cup {made + 1})
      BY <2>4 DEF MakeClient
    <3>2. \A v \in InUse : client[v] # made + 1
      <4>1. \A v \in InUse : client[v] \in 1 .. made
        BY DEF InHand, InUse, Held
      <4> QED
        BY <4>1 DEF PluginTypes
    <3> QED
      BY <3>1, <3>2
  <2> QED
    BY <2>1, <2>2, <2>3, <2>4
<1> QED
  BY <1>1, <1>2, <1>3 DEF Quiet

(* What the steps of a read keep of the clients. *)
LEMMA ReadSteps ==
  ASSUME \/ \E w \in Wrappers :
              \/ RequestRead(w) \/ TakeEvent(w) \/ TakeFinished(w)
              \/ \E n \in Request : SendPart(w, n) \/ EndRequest(w, n)
         \/ \E g \in gets : PartLands(g) \/ PartFails(g)
  PROVE  UNCHANGED <<environ, backend, cached, client, flagged, silenced>>
  BY DEF RequestRead, TakeEvent, TakeFinished, SendPart, EndRequest, PartLands, PartFails,
         handleVars, managerVars, responderVars, readVars, wrapperVars, hostVars

(* A read that is being sent has as many parts as when it began. *)
LEMMA PartsKept ==
  ASSUME PluginInv, PluginNext, NEW n \in 1 .. issued, step[req[n].by] = "send", NEW c, c = req[n].of
  PROVE  Parts(c)' = Parts(c)
<1>1. req[n].by \in InUse /\ c = client[req[n].by]
  BY DEF PluginInv, Asked, InUse
<1>2. backend' = backend
  BY <1>1, PluginKept DEF InUse
<1>3. c \in cached' <=> c \in cached
  BY <1>1, Operations, QuietHosts, QuietOpens, ReadSteps
<1> QED
  BY <1>2, <1>3 DEF Parts, Api

(* A quiet step leaves due what was due to those who wait. *)
LEMMA QuietDue ==
  ASSUME PluginInv, PluginNext, Quiet, NEW n \in 1 .. issued
  PROVE  /\ n \in Request /\ (Waited(n)' <=> Waited(n)) /\ Due(n)' \subseteq Due(n)
         /\ Waited(n) => Due(n)' = Due(n)
<1> USE DEF PluginInv
<1>1. n \in Request /\ issued \in Nat
  BY PluginAssumption DEF PluginTypes, Request
<1>2. req'[n] = req[n] /\ req[n].by \in Wrappers
  BY DEF Quiet, Asked
<1>3. Sends(req[n].by, n)' <=> Sends(req[n].by, n)
  <2>1. PICK v : v = req[n].by
    OBVIOUS
  <2>2. Sends(v, n)' <=> Sends(v, n)
    BY <1>1, <1>2, <2>1, SendsSame DEF Quiet
  <2> QED
    BY <1>2, <2>1, <2>2
<1>4. Unsent(n)' = Unsent(n)
  <2>1. CASE Sends(req[n].by, n)
    <3>1. PICK c : c = req[n].of
      OBVIOUS
    <3>2. Parts(c)' = Parts(c)
      BY <2>1, <3>1, PartsKept DEF Sends
    <3>3. Parts(req[n].of)' = Parts(req[n].of)
      BY <1>2, <3>1, <3>2
    <3> QED
      BY <1>2, <1>3, <3>3 DEF Unsent
  <2>2. CASE ~Sends(req[n].by, n)
    BY <1>3, <2>2 DEF Unsent
  <2> QED
    BY <2>1, <2>2
<1>5. Waited(n)' <=> Waited(n)
  BY <1>2, <1>3 DEF Waited, Quiet
<1>6. Due(n)' \subseteq Due(n)
  BY <1>4 DEF Due, Quiet
<1>7. ASSUME Waited(n)
      PROVE  Due(n)' = Due(n)
  <2>1. step[req[n].by] \in {"open", "send"}
    BY <1>2, <1>7 DEF Waited, Sends, Asked
  <2>2. \A k \in 1 .. Chunks : <<n, k>> \in gets => <<n, k>> \in gets'
    BY <2>1 DEF Quiet
  <2> QED
    BY <1>4, <2>2 DEF Due, Quiet
<1> QED
  BY <1>1, <1>5, <1>6, <1>7

(* A quiet step settles nothing. *)
LEMMA QuietStep ==
  ASSUME PluginInv, PluginNext, Quiet
  PROVE  Counted' /\ Expecting' /\ Told' /\ Owed'
<1> USE DEF PluginInv
<1>1. \A n : Unanswered(n)' <=> Unanswered(n)
  BY DEF Unanswered, Quiet
<1>2. ASSUME NEW n \in 1 .. issued
      PROVE  /\ ~req[n].failed => Cardinality(Due(n)') <= req[n].left
             /\ req[n].failed => Cardinality(Due(n)') < req[n].left
             /\ Waited(n)' /\ req[n].of \notin flagged' /\ ~req[n].failed
                  => Cardinality(Due(n)') = req[n].left
  <2>1. /\ Waited(n)' <=> Waited(n)
        /\ Due(n)' \subseteq Due(n)
        /\ Waited(n) => Due(n)' = Due(n)
    BY QuietDue
  <2>2. IsFiniteSet(Due(n)) /\ Cardinality(Due(n)) \in Nat
    BY DueFinite
  <2>3. Cardinality(Due(n)') <= Cardinality(Due(n)) /\ Cardinality(Due(n)') \in Nat
    BY <2>1, <2>2, FS_Subset, FS_CardinalityType
  <2>4. req[n].left \in Int
    BY QuietDue DEF PluginTypes, ReadRecord
  <2>5. /\ ~req[n].failed => Cardinality(Due(n)) <= req[n].left
        /\ req[n].failed => Cardinality(Due(n)) < req[n].left
    BY DEF Counted
  <2>6. Waited(n)' /\ req[n].of \notin flagged' /\ ~req[n].failed => Cardinality(Due(n)') = req[n].left
    BY <2>1 DEF Counted, Quiet
  <2> QED
    BY <2>2, <2>3, <2>4, <2>5, <2>6
<1>3. Counted'
  BY <1>2 DEF Counted, Quiet
<1>4. Expecting'
  <2>1. \A c : Expected(c)' = Expected(c)
    BY <1>1 DEF Expected, Quiet
  <2> QED
    BY <2>1 DEF Expecting, Quiet
<1>5. Told'
  BY <1>1 DEF Told, Quiet
<1>6. Owed'
  <2>1. \A n : AnswersTo(n)' = AnswersTo(n)
    BY DEF AnswersTo, Quiet
  <2>2. \A n \in 1 .. issued : Waited(n)' <=> Waited(n)
    BY QuietDue
  <2> QED
    BY <1>1, <2>1, <2>2 DEF Owed, Quiet
<1> QED
  BY <1>3, <1>4, <1>5, <1>6

----------------------------------------------------------------------------
(* Steps of a read. *)

(* A read that begins is due in all its parts and expected once. *)
LEMMA RequestStep ==
  ASSUME PluginInv, PluginNext, NEW w \in Wrappers, RequestRead(w)
  PROVE  Counted' /\ Expecting' /\ Told' /\ Owed'
<1> USE DEF PluginInv
<1>1. /\ UNCHANGED <<gets, events, surprised, waits, client, flagged, silenced, backend, cached>>
      /\ step[w] = "open" /\ w \notin Listings /\ issued < MaxRequests /\ issued' = issued + 1
      /\ step' = [step EXCEPT ![w] = "send"]
      /\ running' = [running EXCEPT ![client[w]] = @ + 1]
      /\ req' = [req EXCEPT ![issued + 1] =
               [by |-> w, of |-> client[w], sent |-> 0, left |-> Parts(client[w]), failed |-> FALSE]]
  BY DEF RequestRead, handleVars, managerVars, responderVars, readVars, wrapperVars, hostVars
<1>2. PICK z : z = issued + 1
  OBVIOUS
<1>3. /\ issued \in Nat /\ z \in Request /\ z \notin 1 .. issued /\ 1 .. issued' = (1 .. issued) \cup {z}
      /\ \A n \in 1 .. issued : n \in Request /\ n < z
  BY <1>1, <1>2, PluginAssumption DEF PluginTypes, Request
<1>4. PICK c : c = client[w]
  OBVIOUS
<1>5. c \in 1 .. made /\ c \in Client
  BY <1>1, <1>4, PluginAssumption DEF InHand, Held, PluginTypes, Client
<1>6. /\ \A n \in 1 .. issued : req'[n] = req[n]
      /\ req'[z].by = w /\ req'[z].of = c /\ req'[z].sent = 0 /\ req'[z].left = Parts(c) /\ req'[z].failed = FALSE
  BY <1>1, <1>2, <1>3, <1>4 DEF PluginTypes
<1>7. step'[w] = "send" /\ \A v \in Wrappers : v # w => step'[v] = step[v]
  BY <1>1 DEF PluginTypes
<1>8. Parts(c)' = Parts(c) /\ Parts(c) \in 1 .. Chunks
  BY <1>1, PartsRange DEF Parts, Api
<1>9. \A n \in 1 .. issued : Sends(req[n].by, n)' <=> Sends(req[n].by, n)
  <2> SUFFICES ASSUME NEW n \in 1 .. issued PROVE Sends(req[n].by, n)' <=> Sends(req[n].by, n)
    OBVIOUS
  <2>1. PICK v : v = req[n].by
    OBVIOUS
  <2>2. v \in Wrappers /\ req'[n].by = v
    BY <1>6, <2>1 DEF Asked
  <2>3. CASE v = w
    <3>1. ~Sends(v, n)
      BY <1>1, <2>3 DEF Sends
    <3>2. ~Sends(v, n)'
      <4>1. z \in 1 .. issued' /\ req'[z].by = w /\ ~(z <= n)
        BY <1>3, <1>6
      <4> QED
        BY <2>3, <4>1 DEF Sends
    <3> QED
      BY <2>1, <2>2, <3>1, <3>2
  <2>4. CASE v # w
    <3>1. Sends(v, n)' <=> Sends(v, n)
      <4>1. step'[v] = step[v] /\ n <= issued /\ n <= issued'
        BY <1>1, <1>3, <1>7, <2>2, <2>4
      <4>2. (\A m \in 1 .. issued' : req'[m].by = v => m <= n) <=> (\A m \in 1 .. issued : req[m].by = v => m <= n)
        BY <1>3, <1>6, <2>4
      <4> QED
        BY <2>1, <2>2, <4>1, <4>2 DEF Sends
    <3> QED
      BY <2>1, <2>2, <3>1
  <2> QED
    BY <2>3, <2>4
<1>10. Sends(w, z)'
  <2>1. z <= issued' /\ \A m \in 1 .. issued' : m <= z
    BY <1>1, <1>2, <1>3
  <2> QED
    BY <1>6, <1>7, <2>1 DEF Sends
<1>11. \A n \in 1 .. issued : (Waited(n)' <=> Waited(n)) /\ (Unanswered(n)' <=> Unanswered(n))
  BY <1>1, <1>6, <1>9 DEF Waited, Unanswered
<1>12. ASSUME NEW n \in 1 .. issued
       PROVE  Due(n)' = Due(n)
  <2>1. PICK d : d = req[n].of
    OBVIOUS
  <2>2. Parts(d)' = Parts(d)
    BY <1>1 DEF Parts, Api
  <2>3. Unsent(n)' = Unsent(n)
    BY <1>6, <1>9, <2>1, <2>2 DEF Unsent
  <2> QED
    BY <1>1, <2>3 DEF Due
<1>13. Due(z)' = 1 .. Parts(c)
  <2>1. \A k \in 1 .. Chunks : <<z, k>> \notin gets'
    BY <1>1, <1>3 DEF PluginTypes
  <2>2. Unsent(z)' = {k \in 1 .. Chunks : k <= Parts(c)}
    BY <1>6, <1>8, <1>10 DEF Unsent
  <2>3. {k \in 1 .. Chunks : k <= Parts(c)} = 1 .. Parts(c)
    BY <1>8, PluginAssumption
  <2> QED
    BY <2>1, <2>2, <2>3 DEF Due
<1>14. Cardinality(1 .. Parts(c)) = Parts(c)
  BY <1>8, FS_Interval
<1>15. Counted'
  <2>1. ASSUME NEW n \in 1 .. issued
        PROVE  /\ ~req'[n].failed => Cardinality(Due(n)') <= req'[n].left
               /\ req'[n].failed => Cardinality(Due(n)') < req'[n].left
               /\ Waited(n)' /\ req'[n].of \notin flagged' /\ ~req'[n].failed
                    => Cardinality(Due(n)') = req'[n].left
    BY <1>1, <1>6, <1>11, <1>12 DEF Counted
  <2>2. /\ ~req'[z].failed => Cardinality(Due(z)') <= req'[z].left
        /\ req'[z].failed => Cardinality(Due(z)') < req'[z].left
        /\ Waited(z)' /\ req'[z].of \notin flagged' /\ ~req'[z].failed
             => Cardinality(Due(z)') = req'[z].left
    BY <1>6, <1>8, <1>13, <1>14
  <2> QED
    BY <1>3, <2>1, <2>2 DEF Counted
<1>16. Unanswered(z)' /\ Waited(z)'
  BY <1>6, <1>8, <1>10 DEF Unanswered, Waited
<1>17. Expecting'
  <2>1. ASSUME NEW d \in Client \ silenced'
        PROVE  running'[d] = Cardinality(Expected(d)')
    <3>1. CASE d = c
      <4>1. Expected(d)' = Expected(d) \cup {z}
        BY <1>3, <1>6, <1>11, <1>16, <3>1 DEF Expected
      <4>2. z \notin Expected(d) /\ IsFiniteSet(Expected(d)) /\ Cardinality(Expected(d)) \in Nat
        BY <1>3, ExpectedFinite DEF Expected
      <4>3. Cardinality(Expected(d) \cup {z}) = Cardinality(Expected(d)) + 1
        BY <4>2, FS_AddElement
      <4>4. running'[d] = running[d] + 1
        BY <1>1, <1>4, <1>5, <3>1 DEF PluginTypes
      <4>5. running[d] = Cardinality(Expected(d))
        BY <1>1 DEF Expecting
      <4> QED
        BY <4>1, <4>3, <4>4, <4>5
    <3>2. CASE d # c
      <4>1. Expected(d)' = Expected(d)
        BY <1>3, <1>6, <1>11, <3>2 DEF Expected
      <4>2. running'[d] = running[d]
        BY <1>1, <1>4, <3>2 DEF PluginTypes
      <4> QED
        BY <1>1, <4>1, <4>2 DEF Expecting
    <3> QED
      BY <3>1, <3>2
  <2> QED
    BY <1>1, <2>1 DEF Expecting
<1>18. Told'
  <2>1. ASSUME NEW d \in Client, NEW i \in 1 .. Len(events[d])
        PROVE  /\ events[d][i][1] \in 1 .. issued'
               /\ req'[events[d][i][1]].of = d
               /\ ~Unanswered(events[d][i][1])'
               /\ events[d][i][2] => req'[events[d][i][1]].left = 0 /\ ~req'[events[d][i][1]].failed
    <3>1. PICK n : n = events[d][i][1]
      OBVIOUS
    <3>2. n \in 1 .. issued /\ req[n].of = d /\ ~Unanswered(n) /\ (events[d][i][2] => req[n].left = 0 /\ ~req[n].failed)
      BY <3>1 DEF Told
    <3>3. ~Unanswered(n)' /\ req'[n] = req[n] /\ n \in 1 .. issued'
      BY <1>3, <1>6, <1>11, <3>2
    <3>4. ~Unanswered(events[d][i][1])'
      BY <1>1, <3>1, <3>3
    <3> QED
      BY <3>1, <3>2, <3>3, <3>4
  <2>2. \A d \in Client : \A i, j \in 1 .. Len(events[d]) : events[d][i][1] = events[d][j][1] => i = j
    BY DEF Told
  <2> QED
    BY <1>1, <2>1, <2>2 DEF Told
<1>19. Owed'
  <2>1. \A n \in 1 .. issued : AnswersTo(n)' = AnswersTo(n)
    BY <1>1, <1>6 DEF AnswersTo
  <2>2. \A n \in 1 .. issued : req'[n].of \notin flagged' =>
          /\ Unanswered(n)' \/ AnswersTo(n)' # {} => Waited(n)'
          /\ Waited(n)' /\ ~Unanswered(n)' => AnswersTo(n)' # {}
    BY <1>1, <1>6, <1>11, <2>1 DEF Owed
  <2> QED
    BY <1>3, <1>16, <2>2 DEF Owed
<1> QED
  BY <1>15, <1>17, <1>18, <1>19

(* Sending a part, or accepting a read whose parts were all sent, changes  *)
(* nothing of what is due; one that is given up on a stopping client is    *)
(* due less, and nobody waits for it.                                      *)
LEMMA SendStep ==
  ASSUME PluginInv, PluginNext, NEW w \in Wrappers, NEW n \in Request, SendPart(w, n)
  PROVE  Counted' /\ Expecting' /\ Told' /\ Owed'
<1> USE DEF PluginInv
<1>1. /\ UNCHANGED <<issued, events, surprised, running, waits, client, flagged, silenced, backend, cached, step>>
      /\ Sends(w, n) /\ req[n].sent < Parts(client[w])
      /\ gets' = gets \cup {<<n, req[n].sent + 1>>}
      /\ req' = [req EXCEPT ![n] = [req[n] EXCEPT !.sent = req[n].sent + 1]]
  BY DEF SendPart, handleVars, managerVars, responderVars, readVars, wrapperVars, hostVars
<1>2. issued \in Nat /\ (\A m \in 1 .. issued : m \in Request) /\ n \in 1 .. issued /\ req[n] \in ReadRecord
  BY <1>1, PluginAssumption DEF PluginTypes, Request, Sends
<1>3. /\ \A m \in 1 .. issued : /\ req'[m].by = req[m].by /\ req'[m].of = req[m].of
                                /\ req'[m].left = req[m].left /\ req'[m].failed = req[m].failed
      /\ \A m \in 1 .. issued : m # n => req'[m] = req[m]
      /\ req'[n].sent = req[n].sent + 1 /\ req[n].sent \in Nat
  BY <1>1, <1>2 DEF PluginTypes, ReadRecord
<1>4. \A m \in 1 .. issued : Sends(req[m].by, m)' <=> Sends(req[m].by, m)
  <2> SUFFICES ASSUME NEW m \in 1 .. issued PROVE Sends(req[m].by, m)' <=> Sends(req[m].by, m)
    OBVIOUS
  <2>1. PICK v : v = req[m].by
    OBVIOUS
  <2>2. Sends(v, m)' <=> Sends(v, m)
    BY <1>1, <1>2, <1>3, SendsSame
  <2> QED
    BY <1>3, <2>1, <2>2
<1>5. \A m \in 1 .. issued : (Waited(m)' <=> Waited(m)) /\ (Unanswered(m)' <=> Unanswered(m))
  BY <1>1, <1>3, <1>4 DEF Waited, Unanswered
<1>6. req[n].by = w /\ req[n].of = client[w]
  BY <1>1, <1>2 DEF Sends, Asked
<1>7. ASSUME NEW m \in 1 .. issued
      PROVE  Due(m)' = Due(m)
  <2>1. PICK d : d = req[m].of
    OBVIOUS
  <2>2. Parts(d)' = Parts(d) /\ Parts(d) \in 1 .. Chunks /\ Chunks \in Nat
    BY <1>1, PartsRange, PluginAssumption DEF Parts, Api
  <2>3. CASE m = n
    <3>1. Sends(req[n].by, n) /\ Sends(req[n].by, n)'
      BY <1>1, <1>4, <1>6, <2>3
    <3>2. Unsent(n) = {k \in 1 .. Chunks : req[n].sent < k /\ k <= Parts(d)}
      BY <2>1, <2>3, <3>1 DEF Unsent
    <3>3. Unsent(n)' = {k \in 1 .. Chunks : req[n].sent + 1 < k /\ k <= Parts(d)}
      BY <1>3, <2>1, <2>2, <2>3, <3>1 DEF Unsent
    <3>4. Unsent(n) = Unsent(n)' \cup {req[n].sent + 1} /\ req[n].sent + 1 \in 1 .. Chunks
      BY <1>1, <1>3, <1>6, <2>1, <2>2, <2>3, <3>2, <3>3
    <3>5. {k \in 1 .. Chunks : <<n, k>> \in gets'} = {k \in 1 .. Chunks : <<n, k>> \in gets} \cup {req[n].sent + 1}
      BY <1>1, <3>4
    <3> QED
      BY <2>3, <3>4, <3>5 DEF Due
  <2>4. CASE m # n
    <3>1. Unsent(m)' = Unsent(m)
      BY <1>3, <1>4, <2>1, <2>2, <2>4 DEF Unsent
    <3>2. \A k : <<m, k>> \in gets' <=> <<m, k>> \in gets
      BY <1>1, <2>4
    <3> QED
      BY <3>1, <3>2 DEF Due
  <2> QED
    BY <2>3, <2>4
<1>8. Counted'
  BY <1>1, <1>3, <1>5, <1>7 DEF Counted
<1>9. Expecting'
  <2>1. \A d : Expected(d)' = Expected(d)
    BY <1>1, <1>3, <1>5 DEF Expected
  <2> QED
    BY <1>1, <2>1 DEF Expecting
<1>10. Told'
  BY <1>1, <1>3, <1>5 DEF Told, Unanswered
<1>11. Owed'
  <2>1. \A m \in 1 .. issued : AnswersTo(m)' = AnswersTo(m)
    BY <1>1, <1>3 DEF AnswersTo
  <2> QED
    BY <1>1, <1>3, <1>5, <2>1 DEF Owed
<1> QED
  BY <1>8, <1>9, <1>10, <1>11

(* Accepting a read, or giving it up on a client that is stopping. *)
LEMMA EndStep ==
  ASSUME PluginInv, PluginNext, NEW w \in Wrappers, NEW n \in Request, EndRequest(w, n)
  PROVE  Counted' /\ Expecting' /\ Told' /\ Owed'
<1> USE DEF PluginInv
<1>1. /\ UNCHANGED <<issued, req, gets, events, surprised, running, client, flagged, silenced, backend, cached>>
      /\ Sends(w, n) /\ (req[n].sent = Parts(client[w]) \/ client[w] \in flagged)
      /\ step' = [step EXCEPT ![w] = "open"]
      /\ waits' = IF client[w] \in flagged THEN waits ELSE [waits EXCEPT ![w] = @ \cup {n}]
  BY DEF EndRequest, StopsSending, handleVars, managerVars, responderVars, readVars, wrapperVars, hostVars
<1>2. issued \in Nat /\ (\A m \in 1 .. issued : m \in Request) /\ n \in 1 .. issued
  BY <1>1, PluginAssumption DEF PluginTypes, Request, Sends
<1>3. req[n].by = w /\ req[n].of = client[w]
  BY <1>1, <1>2 DEF Sends, Asked
<1>4. step'[w] = "open" /\ \A v \in Wrappers : v # w => step'[v] = step[v]
  BY <1>1 DEF PluginTypes
<1>5. \A m \in 1 .. issued : m # n => (Sends(req[m].by, m)' <=> Sends(req[m].by, m))
  <2> SUFFICES ASSUME NEW m \in 1 .. issued, m # n PROVE Sends(req[m].by, m)' <=> Sends(req[m].by, m)
    OBVIOUS
  <2>1. PICK v : v = req[m].by
    OBVIOUS
  <2>2. v \in Wrappers
    BY <2>1 DEF Asked
  <2>3. CASE v = w
    <3>1. ~Sends(v, m)
      BY <1>1, <1>2, <2>3, OneSent
    <3>2. ~Sends(v, m)'
      BY <1>4, <2>3 DEF Sends
    <3> QED
      BY <1>1, <2>1, <3>1, <3>2
  <2>4. CASE v # w
    <3>1. Sends(v, m)' <=> Sends(v, m)
      BY <1>1, <1>2, <1>4, <2>2, <2>4, SendsSame
    <3> QED
      BY <1>1, <2>1, <3>1
  <2> QED
    BY <2>3, <2>4
<1>6. ~Sends(req[n].by, n)' /\ Sends(req[n].by, n)
  BY <1>1, <1>3, <1>4 DEF Sends
<1>7. \A m \in 1 .. issued : Unanswered(m)' <=> Unanswered(m)
  BY <1>1 DEF Unanswered
<1>8. \A m \in 1 .. issued : m # n => (Waited(m)' <=> Waited(m))
  <2>1. \A m \in 1 .. issued : m # n => (m \in waits'[req[m].by] <=> m \in waits[req[m].by])
    BY <1>1 DEF PluginTypes, Asked
  <2> QED
    BY <1>1, <1>5, <2>1 DEF Waited
<1>9. Waited(n) /\ (client[w] \notin flagged => Waited(n)')
  BY <1>1, <1>3, <1>6 DEF Waited, PluginTypes
<1>10. \A d : Parts(d)' = Parts(d)
  BY <1>1 DEF Parts, Api
<1>11. ASSUME NEW m \in 1 .. issued, m # n
       PROVE  Due(m)' = Due(m)
  <2>1. PICK d : d = req[m].of
    OBVIOUS
  <2>2. Parts(req[m].of)' = Parts(req[m].of)
    BY <1>1, <1>10, <2>1
  <2> QED
    BY <1>1, <1>5, <1>11, <2>2 DEF Due, Unsent
<1>12. Due(n)' \subseteq Due(n) /\ (client[w] \notin flagged => Due(n)' = Due(n))
  <2>1. Unsent(n)' = {}
    BY <1>6 DEF Unsent
  <2>2. client[w] \notin flagged => Unsent(n) = {}
    <3>1. Parts(client[w]) \in 1 .. Chunks /\ Chunks \in Nat
      BY PartsRange, PluginAssumption
    <3> QED
      BY <1>1, <1>3, <3>1 DEF Unsent
  <2> QED
    BY <1>1, <2>1, <2>2 DEF Due
<1>13. Counted'
  <2>1. ASSUME NEW m \in 1 .. issued
        PROVE  /\ ~req[m].failed => Cardinality(Due(m)') <= req[m].left
               /\ req[m].failed => Cardinality(Due(m)') < req[m].left
               /\ Waited(m)' /\ req[m].of \notin flagged /\ ~req[m].failed
                    => Cardinality(Due(m)') = req[m].left
    <3>1. CASE m # n
      BY <1>8, <1>11, <3>1 DEF Counted
    <3>2. CASE m = n
      <4>1. IsFiniteSet(Due(n)) /\ Cardinality(Due(n)) \in Nat
        BY DueFinite
      <4>2. Cardinality(Due(n)') <= Cardinality(Due(n)) /\ Cardinality(Due(n)') \in Nat
        BY <1>12, <4>1, FS_Subset, FS_CardinalityType
      <4>3. req[n].left \in Int
        BY DEF PluginTypes, ReadRecord
      <4>4. /\ ~req[n].failed => Cardinality(Due(n)) <= req[n].left
            /\ req[n].failed => Cardinality(Due(n)) < req[n].left
        BY <1>2 DEF Counted
      <4>5. Waited(n)' /\ req[n].of \notin flagged /\ ~req[n].failed => Cardinality(Due(n)') = req[n].left
        BY <1>2, <1>3, <1>9, <1>12 DEF Counted
      <4> QED
        BY <3>2, <4>1, <4>2, <4>3, <4>4, <4>5
    <3> QED
      BY <3>1, <3>2
  <2> QED
    BY <1>1, <2>1 DEF Counted
<1>14. Expecting'
  <2>1. \A d : Expected(d)' = Expected(d)
    BY <1>1, <1>7 DEF Expected
  <2> QED
    BY <1>1, <2>1 DEF Expecting
<1>15. Told'
  BY <1>1, <1>7 DEF Told
<1>16. Owed'
  <2>1. \A m \in 1 .. issued : AnswersTo(m)' = AnswersTo(m)
    BY <1>1 DEF AnswersTo
  <2>2. ASSUME NEW m \in 1 .. issued, req[m].of \notin flagged
        PROVE  /\ Unanswered(m)' \/ AnswersTo(m)' # {} => Waited(m)'
               /\ Waited(m)' /\ ~Unanswered(m)' => AnswersTo(m)' # {}
    <3>1. Waited(m)' <=> Waited(m)
      BY <1>3, <1>8, <1>9, <2>2
    <3> QED
      BY <1>7, <2>1, <2>2, <3>1 DEF Owed
  <2> QED
    BY <1>1, <2>2 DEF Owed
<1> QED
  BY <1>13, <1>14, <1>15, <1>16

(* A worker that takes a completion stops waiting for exactly the read it  *)
(* is about, and no other answer to that read is left.                     *)
LEMMA TakeStep ==
  ASSUME PluginInv, PluginNext, NEW w \in Wrappers, TakeEvent(w)
  PROVE  Counted' /\ Expecting' /\ Told' /\ Owed'
<1> USE DEF PluginInv
<1>1. /\ UNCHANGED <<issued, req, gets, surprised, running, client, flagged, silenced, backend, cached, step>>
      /\ step[w] = "open" /\ client[w] \notin silenced /\ events[client[w]] # <<>>
      /\ events' = [events EXCEPT ![client[w]] = Tail(@)]
      /\ waits' = [waits EXCEPT ![w] = @ \ {Head(events[client[w]])[1]}]
  BY DEF TakeEvent, handleVars, managerVars, responderVars, readVars, wrapperVars, hostVars
<1>2. PICK c : c = client[w]
  OBVIOUS
<1>3. c \in Client
  BY <1>1, <1>2, PluginAssumption DEF InHand, Held, PluginTypes, Client
<1>4. PICK es : es = events[c]
  OBVIOUS
<1>5. es \in Seq(Request \X BOOLEAN) /\ es # <<>> /\ Len(es) \in Nat /\ Len(es) >= 1
  BY <1>1, <1>2, <1>3, <1>4 DEF PluginTypes
<1>6. /\ Head(es) = es[1] /\ Len(Tail(es)) = Len(es) - 1
      /\ \A i \in 1 .. Len(es) - 1 : Tail(es)[i] = es[i + 1] /\ i + 1 \in 1 .. Len(es)
  BY <1>5
<1>7. PICK n : n = es[1][1]
  OBVIOUS
<1>8. n \in 1 .. issued /\ req[n].of = c /\ ~Unanswered(n) /\ \A i \in 1 .. Len(es) : es[i][1] = n => i = 1
  <2>1. 1 \in 1 .. Len(es)
    BY <1>5
  <2> QED
    BY <1>3, <1>4, <1>7, <2>1 DEF Told
<1>9. events'[c] = Tail(es) /\ \A d \in Client : d # c => events'[d] = events[d]
  BY <1>1, <1>2, <1>3, <1>4 DEF PluginTypes
<1>10. waits'[w] = waits[w] \ {n} /\ \A v \in Wrappers : v # w => waits'[v] = waits[v]
  BY <1>1, <1>2, <1>4, <1>6, <1>7 DEF PluginTypes
<1>11. \A m \in 1 .. issued : Unanswered(m)' <=> Unanswered(m)
  BY <1>1 DEF Unanswered
<1>12. /\ \A m \in 1 .. issued : Waited(m)' => Waited(m)
       /\ \A m \in 1 .. issued : m # n /\ Waited(m) => Waited(m)'
       /\ req[n].by = w => ~Waited(n)'
  <2>1. \A v, m : Sends(v, m)' <=> Sends(v, m)
    BY <1>1 DEF Sends
  <2>2. \A m \in 1 .. issued : Sends(req[m].by, m)' <=> Sends(req[m].by, m)
    BY <1>1 DEF Sends
  <2>3. ~Sends(w, n)
    BY <1>1 DEF Sends
  <2>4. \A m \in 1 .. issued : req[m].by \in Wrappers
    BY DEF Asked
  <2>5. \A m \in 1 .. issued : Waited(m)' <=> (m \in waits'[req[m].by] \/ Sends(req[m].by, m))
    BY <1>1, <2>2 DEF Waited
  <2>6. \A m \in 1 .. issued : m \in waits'[req[m].by] => m \in waits[req[m].by]
    BY <1>10, <2>4
  <2>7. \A m \in 1 .. issued : m # n /\ m \in waits[req[m].by] => m \in waits'[req[m].by]
    BY <1>10, <2>4
  <2>8. req[n].by = w => ~Waited(n)'
    <3>1. n \notin waits'[w]
      BY <1>10
    <3> QED
      BY <1>8, <2>3, <2>5, <3>1
  <2> QED
    BY <2>5, <2>6, <2>7, <2>8 DEF Waited
<1>13. Counted'
  <2>1. \A m \in 1 .. issued : Due(m)' = Due(m)
    BY <1>1 DEF Due, Unsent, Sends, Parts, Api
  <2> QED
    BY <1>1, <1>12, <2>1 DEF Counted
<1>14. Expecting'
  <2>1. \A d : Expected(d)' = Expected(d)
    BY <1>1, <1>11 DEF Expected
  <2> QED
    BY <1>1, <2>1 DEF Expecting
<1>15. Told'
  <2>1. ASSUME NEW d \in Client
        PROVE  /\ \A i \in 1 .. Len(events'[d]) :
                    /\ events'[d][i][1] \in 1 .. issued
                    /\ req[events'[d][i][1]].of = d
                    /\ ~Unanswered(events'[d][i][1])
                    /\ events'[d][i][2] => req[events'[d][i][1]].left = 0 /\ ~req[events'[d][i][1]].failed
               /\ \A i, j \in 1 .. Len(events'[d]) : events'[d][i][1] = events'[d][j][1] => i = j
    <3>1. CASE d = c
      <4>1. \A i \in 1 .. Len(Tail(es)) : Tail(es)[i] = es[i + 1] /\ i + 1 \in 1 .. Len(es)
        BY <1>6
      <4>2. /\ \A i \in 1 .. Len(es) :
                    /\ es[i][1] \in 1 .. issued
                    /\ req[es[i][1]].of = c
                    /\ ~Unanswered(es[i][1])
                    /\ es[i][2] => req[es[i][1]].left = 0 /\ ~req[es[i][1]].failed
            /\ \A i, j \in 1 .. Len(es) : es[i][1] = es[j][1] => i = j
        BY <1>3, <1>4 DEF Told
      <4>3. /\ \A i \in 1 .. Len(Tail(es)) :
                    /\ Tail(es)[i][1] \in 1 .. issued
                    /\ req[Tail(es)[i][1]].of = c
                    /\ ~Unanswered(Tail(es)[i][1])
                    /\ Tail(es)[i][2] => req[Tail(es)[i][1]].left = 0 /\ ~req[Tail(es)[i][1]].failed
        BY <4>1, <4>2
      <4>4. \A i, j \in 1 .. Len(Tail(es)) : Tail(es)[i][1] = Tail(es)[j][1] => i = j
        <5> TAKE i, j \in 1 .. Len(Tail(es))
        <5> HAVE Tail(es)[i][1] = Tail(es)[j][1]
        <5>1. i + 1 = j + 1
          BY <4>1, <4>2
        <5>2. i \in Int /\ j \in Int
          OBVIOUS
        <5> QED
          BY <5>1, <5>2
      <4> QED
        BY <1>9, <3>1, <4>3, <4>4, ZenonT(40)
    <3>2. CASE d # c
      BY <1>9, <3>2 DEF Told
    <3> QED
      BY <3>1, <3>2
  <2>2. \A d \in Client : \A i \in 1 .. Len(events'[d]) : ~Unanswered(events[d][i][1])'
    <3> SUFFICES ASSUME NEW d \in Client, NEW i \in 1 .. Len(events'[d])
                 PROVE  ~Unanswered(events[d][i][1])'
      OBVIOUS
    <3>1. PICK m : m = events'[d][i][1]
      OBVIOUS
    <3>2. m \in 1 .. issued /\ ~Unanswered(m)
      BY <2>1, <3>1
    <3>3. ~Unanswered(m)'
      BY <1>11, <3>2
    <3> QED
      BY <3>1, <3>3 DEF Unanswered
  <2>3. ASSUME NEW d \in Client, NEW i \in 1 .. Len(events'[d])
        PROVE  /\ events'[d][i][1] \in 1 .. issued'
               /\ req'[events'[d][i][1]].of = d
               /\ ~Unanswered(events[d][i][1])'
               /\ events'[d][i][2] => req'[events'[d][i][1]].left = 0 /\ ~req'[events'[d][i][1]].failed
    BY <1>1, <2>1, <2>2
  <2>4. \A d \in Client : \A i, j \in 1 .. Len(events'[d]) : events'[d][i][1] = events'[d][j][1] => i = j
    BY <2>1
  <2> QED
    BY <2>3, <2>4 DEF Told
<1>16. Owed'
  <2> SUFFICES ASSUME NEW m \in 1 .. issued, req[m].of \notin flagged
               PROVE  /\ Unanswered(m)' \/ AnswersTo(m)' # {} => Waited(m)'
                      /\ Waited(m)' /\ ~Unanswered(m)' => AnswersTo(m)' # {}
    BY <1>1 DEF Owed
  <2>0. req[m].of \in Client
    BY PluginAssumption DEF Asked, PluginTypes, Client
  <2>1. CASE m = n
    <3>1. req[n].by = w
      <4>1. 1 \in AnswersTo(n)
        BY <1>4, <1>5, <1>7, <1>8 DEF AnswersTo
      <4>2. Waited(n)
        BY <1>8, <2>1, <4>1 DEF Owed
      <4>3. req[n].by \in Held /\ client[req[n].by] = c
        BY <1>8, <4>2 DEF Waited, Sends, Asked, Held
      <4>4. w \in Held /\ client[w] = c
        BY <1>1, <1>2 DEF Held
      <4> QED
        BY <4>3, <4>4 DEF InHand
    <3>2. ~Waited(n)'
      BY <1>12, <3>1
    <3>3. AnswersTo(n)' = {}
      <4>1. AnswersTo(n)' = {i \in 1 .. Len(Tail(es)) : Tail(es)[i][1] = n}
        BY <1>1, <1>8, <1>9 DEF AnswersTo
      <4>2. \A i \in 1 .. Len(Tail(es)) : Tail(es)[i] = es[i + 1] /\ i + 1 \in 1 .. Len(es) /\ i + 1 # 1
        BY <1>6
      <4> QED
        BY <1>8, <4>1, <4>2
    <3> QED
      BY <1>8, <1>11, <2>1, <3>2, <3>3
  <2>2. CASE m # n
    <3>1. Waited(m)' <=> Waited(m)
      BY <1>12, <2>2
    <3>2. AnswersTo(m)' # {} <=> AnswersTo(m) # {}
      <4>1. CASE req[m].of = c
        <5>1. AnswersTo(m)' = {i \in 1 .. Len(Tail(es)) : Tail(es)[i][1] = m}
          BY <1>1, <1>9, <4>1 DEF AnswersTo
        <5>2. AnswersTo(m) = {i \in 1 .. Len(es) : es[i][1] = m}
          BY <1>4, <4>1 DEF AnswersTo
        <5>3. \A i \in 1 .. Len(Tail(es)) : Tail(es)[i] = es[i + 1] /\ i + 1 \in 1 .. Len(es)
          BY <1>6
        <5>4. \A i \in 1 .. Len(es) : es[i][1] = m =>
                i - 1 \in 1 .. Len(Tail(es)) /\ Tail(es)[i - 1] = es[i]
          <6> TAKE i \in 1 .. Len(es)
          <6> HAVE es[i][1] = m
          <6>1. i # 1
            BY <1>7, <2>2
          <6>2. i - 1 \in 1 .. Len(es) - 1 /\ (i - 1) + 1 = i
            BY <1>5, <6>1
          <6> QED
            BY <1>6, <6>2
        <5>5. ASSUME NEW i \in AnswersTo(m)'
              PROVE  i + 1 \in AnswersTo(m)
          BY <5>1, <5>2, <5>3
        <5>6. ASSUME NEW i \in AnswersTo(m)
              PROVE  i - 1 \in AnswersTo(m)'
          BY <5>1, <5>2, <5>4
        <5> QED
          BY <5>5, <5>6
      <4>2. CASE req[m].of # c
        <5>1. events'[req[m].of] = events[req[m].of] /\ req'[m].of = req[m].of
          BY <1>1, <1>9, <2>0, <4>2
        <5>2. AnswersTo(m)' = AnswersTo(m)
          BY <5>1 DEF AnswersTo
        <5> QED
          BY <5>2
      <4> QED
        BY <4>1, <4>2
    <3> QED
      BY <1>11, <3>1, <3>2 DEF Owed
  <2> QED
    BY <2>1, <2>2
<1> QED
  BY <1>13, <1>14, <1>15, <1>16

(* A worker gives up only what a stopped client owes it, or nothing. *)
LEMMA FinishStep ==
  ASSUME PluginInv, PluginNext, NEW w \in Wrappers, TakeFinished(w)
  PROVE  Counted' /\ Expecting' /\ Told' /\ Owed'
<1> USE DEF PluginInv
<1>1. /\ UNCHANGED <<issued, req, gets, events, surprised, running, client, flagged, silenced, backend, cached, step>>
      /\ step[w] = "open"
      /\ client[w] \in silenced \/ (running[client[w]] = 0 /\ events[client[w]] = <<>>)
      /\ waits' = [waits EXCEPT ![w] = {}]
  BY DEF TakeFinished, handleVars, managerVars, responderVars, readVars, wrapperVars, hostVars
<1>2. PICK c : c = client[w]
  OBVIOUS
<1>3. c \in Client
  BY <1>1, <1>2, PluginAssumption DEF InHand, Held, PluginTypes, Client
<1>4. waits'[w] = {} /\ \A v \in Wrappers : v # w => waits'[v] = waits[v]
  BY <1>1 DEF PluginTypes
<1>5. \A m \in 1 .. issued : Unanswered(m)' <=> Unanswered(m)
  BY <1>1 DEF Unanswered
<1>6. /\ \A m \in 1 .. issued : Waited(m)' => Waited(m)
      /\ \A m \in 1 .. issued : req[m].by # w /\ Waited(m) => Waited(m)'
  <2>1. \A m \in 1 .. issued : Sends(req[m].by, m)' <=> Sends(req[m].by, m)
    BY <1>1 DEF Sends
  <2>2. \A m \in 1 .. issued : req[m].by \in Wrappers
    BY DEF Asked
  <2> QED
    BY <1>1, <1>4, <2>1, <2>2 DEF Waited
<1>7. Counted'
  <2>1. \A m \in 1 .. issued : Due(m)' = Due(m)
    BY <1>1 DEF Due, Unsent, Sends, Parts, Api
  <2> QED
    BY <1>1, <1>6, <2>1 DEF Counted
<1>8. Expecting'
  <2>1. \A d : Expected(d)' = Expected(d)
    BY <1>1, <1>5 DEF Expected
  <2> QED
    BY <1>1, <2>1 DEF Expecting
<1>9. Told'
  BY <1>1, <1>5 DEF Told
<1>10. Owed'
  <2> SUFFICES ASSUME NEW m \in 1 .. issued, req[m].of \notin flagged
               PROVE  /\ Unanswered(m)' \/ AnswersTo(m)' # {} => Waited(m)'
                      /\ Waited(m)' /\ ~Unanswered(m)' => AnswersTo(m)' # {}
    BY <1>1 DEF Owed
  <2>1. AnswersTo(m)' = AnswersTo(m)
    BY <1>1 DEF AnswersTo
  <2>2. CASE Waited(m)' <=> Waited(m)
    BY <1>5, <2>1, <2>2 DEF Owed
  <2>3. CASE ~Waited(m)' /\ Waited(m)
    <3>1. req[m].by = w /\ req[m].of = c
      BY <1>1, <1>2, <1>6, <2>3 DEF Asked
    <3>2. running[c] = 0 /\ events[c] = <<>> /\ c \notin silenced
      BY <1>1, <1>2, <3>1 DEF PluginTypes
    <3>3. AnswersTo(m) = {}
      <4>1. Len(events[c]) = 0
        BY <3>2
      <4> QED
        BY <3>1, <4>1 DEF AnswersTo
    <3>4. ~Unanswered(m)
      <4>1. Cardinality(Expected(c)) = 0
        BY <1>3, <3>2 DEF Expecting
      <4>2. issued \in Nat
        BY PluginAssumption DEF PluginTypes
      <4>3. Expected(c) = {}
        BY <4>1, <4>2, ExpectedFinite, FS_EmptySet
      <4> QED
        BY <3>1, <4>3 DEF Expected
    <3> QED
      BY <1>5, <2>1, <2>3, <3>3, <3>4
  <2> QED
    BY <1>6, <2>2, <2>3
<1> QED
  BY <1>7, <1>8, <1>9, <1>10

(* The end of a part makes one part less due. *)
LEMMA PartDue ==
  ASSUME PluginInv, NEW g \in gets, PartLands(g) \/ PartFails(g)
  PROVE  /\ \A m \in 1 .. issued : (Waited(m)' <=> Waited(m)) /\ (m # g[1] => Due(m)' = Due(m))
         /\ Cardinality(Due(g[1])) \in Nat /\ Cardinality(Due(g[1])) >= 1
         /\ Cardinality(Due(g[1])') = Cardinality(Due(g[1])) - 1
<1> USE DEF PluginInv
<1>1. /\ UNCHANGED <<issued, waits, client, flagged, silenced, backend, cached, step>> /\ gets' = gets \ {g}
  BY DEF PartLands, PartFails, handleVars, managerVars, responderVars, readVars, wrapperVars, hostVars
<1>2. issued \in Nat /\ \A m \in 1 .. issued : m \in Request
  BY PluginAssumption DEF PluginTypes, Request
<1>3. \A m \in 1 .. issued : req'[m].by = req[m].by /\ req'[m].of = req[m].of /\ req'[m].sent = req[m].sent
  BY PartEffect
<1>4. \A m \in 1 .. issued : Sends(req[m].by, m)' <=> Sends(req[m].by, m)
  <2> SUFFICES ASSUME NEW m \in 1 .. issued PROVE Sends(req[m].by, m)' <=> Sends(req[m].by, m)
    OBVIOUS
  <2>1. PICK v : v = req[m].by
    OBVIOUS
  <2>2. Sends(v, m)' <=> Sends(v, m)
    BY <1>1, <1>2, <1>3, SendsSame
  <2> QED
    BY <1>3, <2>1, <2>2
<1>5. \A m \in 1 .. issued : Waited(m)' <=> Waited(m)
  BY <1>1, <1>3, <1>4 DEF Waited
<1>6. ASSUME NEW m \in 1 .. issued
      PROVE  Unsent(m)' = Unsent(m)
  <2>1. PICK d : d = req[m].of
    OBVIOUS
  <2>2. Parts(d)' = Parts(d)
    BY <1>1 DEF Parts, Api
  <2>3. Parts(req[m].of)' = Parts(req[m].of)
    BY <1>3, <2>1, <2>2
  <2> QED
    BY <1>3, <1>4, <2>3 DEF Unsent
<1>7. PICK n, k : n = g[1] /\ k = g[2]
  OBVIOUS
<1>8. g = <<n, k>> /\ n \in 1 .. issued /\ k \in 1 .. Chunks
  BY <1>7 DEF PluginTypes
<1>9. \A m \in 1 .. issued : m # n => Due(m)' = Due(m)
  BY <1>1, <1>6, <1>8 DEF Due
<1>10. k \notin Unsent(n)
  <2>1. k <= req[n].sent /\ req[n].sent \in Nat
    BY <1>2, <1>7, <1>8 DEF Asked, PluginTypes, ReadRecord
  <2> QED
    BY <1>8, <2>1, PluginAssumption DEF Unsent
<1>11. Due(n)' = Due(n) \ {k} /\ k \in Due(n)
  BY <1>1, <1>6, <1>8, <1>10 DEF Due
<1>12. IsFiniteSet(Due(n)) /\ Cardinality(Due(n)) \in Nat
  BY DueFinite
<1>13. Cardinality(Due(n) \ {k}) = Cardinality(Due(n)) - 1
  BY <1>11, <1>12, FS_RemoveElement
<1>14. Cardinality(Due(n)) # 0
  BY <1>11, <1>12, FS_EmptySet
<1> QED
  BY <1>5, <1>7, <1>9, <1>11, <1>12, <1>13, <1>14

(* A response that is expected is no surprise. *)
LEMMA PushEffect ==
  ASSUME running \in [Client -> Nat], events \in [Client -> Seq(Request \X BOOLEAN)],
         NEW c \in Client, NEW r, PushResponse(c, r), c \notin silenced => running[c] > 0
  PROVE  /\ UNCHANGED surprised
         /\ \A d \in Client : d # c => running'[d] = running[d] /\ events'[d] = events[d]
         /\ c \in silenced => UNCHANGED <<running, events>>
         /\ c \notin silenced => running'[c] = running[c] - 1 /\ events'[c] = Append(events[c], r)
<1>1. CASE c \in silenced
  BY <1>1 DEF PushResponse
<1>2. CASE c \notin silenced
  <2>1. /\ running' = [running EXCEPT ![c] = @ - 1]
        /\ events' = [events EXCEPT ![c] = Append(@, r)]
        /\ UNCHANGED surprised
    BY <1>2 DEF PushResponse
  <2> QED
    BY <1>2, <2>1
<1> QED
  BY <1>1, <1>2

(* A part that does not answer its read: the last one has not landed yet,  *)
(* or another one has failed before.                                       *)
Silent(g) == (PartLands(g) /\ req[g[1]].left # 1) \/ (PartFails(g) /\ req[g[1]].failed)

(* What is due is enough to tell a read that has been answered. *)
LEMMA PartLeft ==
  ASSUME PluginInv, NEW g \in gets, PartLands(g) \/ PartFails(g)
  PROVE  /\ req[g[1]].left \in Int /\ req[g[1]].left >= 1 /\ req[g[1]].failed \in BOOLEAN
         /\ req[g[1]].failed => req[g[1]].left >= 2
<1> USE DEF PluginInv
<1>1. /\ Cardinality(Due(g[1])) \in Nat /\ Cardinality(Due(g[1])) >= 1
  BY PartDue
<1>2. g[1] \in 1 .. issued /\ req[g[1]] \in ReadRecord
  BY PartEffect
<1>3. req[g[1]].left \in Int /\ req[g[1]].failed \in BOOLEAN
  BY <1>2 DEF ReadRecord
<1>4. /\ ~req[g[1]].failed => Cardinality(Due(g[1])) <= req[g[1]].left
      /\ req[g[1]].failed => Cardinality(Due(g[1])) < req[g[1]].left
  BY <1>2 DEF Counted
<1>5. CASE req[g[1]].failed
  BY <1>1, <1>3, <1>4, <1>5
<1>6. CASE ~req[g[1]].failed
  BY <1>1, <1>3, <1>4, <1>6
<1> QED
  BY <1>3, <1>5, <1>6

(* The count of what is left follows the parts. *)
LEMMA PartCounted ==
  ASSUME PluginInv, NEW g \in gets, PartLands(g) \/ PartFails(g)
  PROVE  Counted'
<1> USE DEF PluginInv
<1>1. UNCHANGED <<issued, flagged>>
  BY DEF PartLands, PartFails, handleVars, managerVars, responderVars, readVars, wrapperVars, hostVars
<1>2. PICK n : n = g[1]
  OBVIOUS
<1>3. PICK q : q = Cardinality(Due(n))
  OBVIOUS
<1>4. /\ n \in 1 .. issued /\ \A m \in 1 .. issued : req'[m].of = req[m].of /\ (m # n => req'[m] = req[m])
      /\ PartLands(g) => req'[n].left = req[n].left - 1 /\ req'[n].failed = req[n].failed
      /\ PartFails(g) => req'[n].left = req[n].left /\ req'[n].failed = TRUE
  BY <1>2, PartEffect
<1>5. /\ \A m \in 1 .. issued : (Waited(m)' <=> Waited(m)) /\ (m # n => Due(m)' = Due(m))
      /\ q \in Nat /\ Cardinality(Due(n)') = q - 1
  BY <1>2, <1>3, PartDue
<1>6. req[n].left \in Int
  BY <1>2, PartLeft
<1>7. /\ ~req[n].failed => q <= req[n].left
      /\ req[n].failed => q < req[n].left
      /\ Waited(n) /\ req[n].of \notin flagged /\ ~req[n].failed => q = req[n].left
  BY <1>3, <1>4 DEF Counted
<1>8. /\ ~req'[n].failed => Cardinality(Due(n)') <= req'[n].left
      /\ req'[n].failed => Cardinality(Due(n)') < req'[n].left
      /\ Waited(n)' /\ req'[n].of \notin flagged' /\ ~req'[n].failed => Cardinality(Due(n)') = req'[n].left
  <2>1. CASE PartLands(g)
    <3>1. CASE req[n].failed
      <4>1. req'[n].failed
        BY <1>4, <2>1, <3>1
      <4>2. Cardinality(Due(n)') < req'[n].left
        <5>1. q < req[n].left /\ req'[n].left = req[n].left - 1
          BY <1>4, <1>7, <2>1, <3>1
        <5> QED
          BY <1>5, <1>6, <5>1
      <4> QED
        BY <4>1, <4>2
    <3>2. CASE ~req[n].failed
      <4>1. ~req'[n].failed /\ req'[n].left = req[n].left - 1 /\ q - 1 <= req[n].left - 1
        BY <1>4, <1>5, <1>6, <1>7, <2>1, <3>2
      <4>2. Waited(n)' /\ req'[n].of \notin flagged' => q = req[n].left
        BY <1>1, <1>4, <1>5, <1>7, <3>2
      <4> QED
        BY <1>5, <4>1, <4>2
    <3> QED
      BY <3>1, <3>2
  <2>2. CASE PartFails(g)
    <3>1. req'[n].failed /\ req'[n].left = req[n].left
      BY <1>4, <2>2
    <3>2. q - 1 < req[n].left
      BY <1>5, <1>6, <1>7
    <3>3. Cardinality(Due(n)') < req'[n].left
      BY <1>5, <3>1, <3>2
    <3> QED
      BY <3>1, <3>3
  <2> QED
    BY <2>1, <2>2
<1>9. ASSUME NEW m \in 1 .. issued, m # n
      PROVE  /\ ~req'[m].failed => Cardinality(Due(m)') <= req'[m].left
             /\ req'[m].failed => Cardinality(Due(m)') < req'[m].left
             /\ Waited(m)' /\ req'[m].of \notin flagged' /\ ~req'[m].failed
                  => Cardinality(Due(m)') = req'[m].left
  BY <1>1, <1>4, <1>5, <1>9 DEF Counted
<1> QED
  BY <1>1, <1>8, <1>9 DEF Counted

(* A part that answers nothing leaves the responder as it was. *)
LEMMA SilentStep ==
  ASSUME PluginInv, NEW g \in gets, Silent(g)
  PROVE  Expecting' /\ Told' /\ Owed'
<1> USE DEF PluginInv
<1>0. PartLands(g) \/ PartFails(g)
  BY DEF Silent
<1>1. UNCHANGED <<issued, flagged, silenced, running, events, surprised>>
  <2>1. UNCHANGED <<issued, flagged, silenced>>
    BY <1>0 DEF PartLands, PartFails, handleVars, managerVars, responderVars, readVars, wrapperVars, hostVars
  <2>2. UNCHANGED <<running, events, surprised>>
    BY DEF Silent, PartLands, PartFails
  <2> QED
    BY <2>1, <2>2
<1>2. PICK n : n = g[1]
  OBVIOUS
<1>3. /\ n \in 1 .. issued /\ \A m \in 1 .. issued : req'[m].of = req[m].of /\ (m # n => req'[m] = req[m])
      /\ PartLands(g) => req'[n].left = req[n].left - 1 /\ req'[n].failed = req[n].failed
      /\ PartFails(g) => req'[n].left = req[n].left /\ req'[n].failed = TRUE
  BY <1>0, <1>2, PartEffect
<1>4. req[n].left \in Int /\ req[n].left >= 1
  BY <1>0, <1>2, PartLeft
<1>5. Unanswered(n)' <=> Unanswered(n)
  <2>1. CASE PartLands(g) /\ req[n].left # 1
    <3>1. req'[n].left > 0 /\ req[n].left > 0
      BY <1>3, <1>4, <2>1
    <3> QED
      BY <1>3, <2>1, <3>1 DEF Unanswered
  <2>2. CASE PartFails(g) /\ req[n].failed
    BY <1>3, <2>2 DEF Unanswered
  <2> QED
    BY <1>2, <2>1, <2>2 DEF Silent
<1>6. \A m \in 1 .. issued : Unanswered(m)' <=> Unanswered(m)
  BY <1>3, <1>5 DEF Unanswered
<1>7. Expecting'
  <2>1. \A d : Expected(d)' = Expected(d)
    BY <1>1, <1>3, <1>6 DEF Expected
  <2> QED
    BY <1>1, <2>1 DEF Expecting
<1>8. Told'
  <2>1. ASSUME NEW d \in Client, NEW i \in 1 .. Len(events[d])
        PROVE  /\ events[d][i][1] \in 1 .. issued
               /\ req'[events[d][i][1]].of = d
               /\ ~Unanswered(events[d][i][1])'
               /\ events[d][i][2] => req'[events[d][i][1]].left = 0 /\ ~req'[events[d][i][1]].failed
    <3>1. PICK m : m = events[d][i][1]
      OBVIOUS
    <3>2. m \in 1 .. issued /\ req[m].of = d /\ ~Unanswered(m) /\ (events[d][i][2] => req[m].left = 0 /\ ~req[m].failed)
      BY <3>1 DEF Told
    <3>3. ~Unanswered(m)' /\ req'[m].of = d
      BY <1>3, <1>6, <3>2
    <3>4. ~Unanswered(events[d][i][1])'
      BY <1>1, <3>1, <3>3
    <3>5. events[d][i][2] => m # n
      BY <1>4, <3>2
    <3>6. events[d][i][2] => req'[m].left = 0 /\ ~req'[m].failed
      BY <1>3, <3>2, <3>5
    <3> QED
      BY <3>1, <3>2, <3>3, <3>4, <3>6
  <2>2. \A d \in Client : \A i, j \in 1 .. Len(events[d]) : events[d][i][1] = events[d][j][1] => i = j
    BY DEF Told
  <2> QED
    BY <1>1, <2>1, <2>2 DEF Told
<1>9. Owed'
  <2>1. \A m \in 1 .. issued : AnswersTo(m)' = AnswersTo(m)
    BY <1>1, <1>3 DEF AnswersTo
  <2>2. \A m \in 1 .. issued : Waited(m)' <=> Waited(m)
    BY <1>0, PartDue
  <2> QED
    BY <1>1, <1>3, <1>6, <2>1, <2>2 DEF Owed
<1> QED
  BY <1>7, <1>8, <1>9

(* A part that answers its read does so for the first time: it was         *)
(* expected, and a good answer comes with the last part.                   *)
LEMMA AnswerStep ==
  ASSUME PluginInv, NEW g \in gets, PartLands(g) \/ PartFails(g), ~Silent(g)
  PROVE  Expecting' /\ Told' /\ Owed'
<1> USE DEF PluginInv
<1>1. UNCHANGED <<issued, flagged, silenced>>
  BY DEF PartLands, PartFails, handleVars, managerVars, responderVars, readVars, wrapperVars, hostVars
<1>2. PICK n : n = g[1]
  OBVIOUS
<1>3. /\ n \in 1 .. issued /\ n \in Request
      /\ \A m \in 1 .. issued : req'[m].of = req[m].of /\ (m # n => req'[m] = req[m])
      /\ PartLands(g) => req'[n].left = req[n].left - 1 /\ req'[n].failed = req[n].failed
      /\ PartFails(g) => req'[n].left = req[n].left /\ req'[n].failed = TRUE
  BY <1>2, PartEffect
<1>4. /\ req[n].left \in Int /\ req[n].left >= 1 /\ req[n].failed \in BOOLEAN
      /\ req[n].failed => req[n].left >= 2
  BY <1>2, PartLeft
<1>5. PICK c : c = req[n].of
  OBVIOUS
<1>6. c \in Client
  BY <1>3, <1>5, PluginAssumption DEF Asked, PluginTypes, Client
<1>7. ~req[n].failed
  <2>1. CASE PartLands(g)
    <3>1. req[n].left = 1
      BY <1>2, <2>1 DEF Silent
    <3> QED
      BY <1>4, <3>1
  <2>2. CASE PartFails(g)
    BY <1>2, <2>2 DEF Silent
  <2> QED
    BY <2>1, <2>2
<1>8. Unanswered(n)
  BY <1>4, <1>7 DEF Unanswered
<1>9. \E b \in BOOLEAN : PushResponse(c, <<n, b>>) /\ (b => req'[n].left = 0 /\ ~req'[n].failed)
                         /\ ~Unanswered(n)'
  <2>1. CASE PartLands(g)
    <3>1. req[n].left = 1
      BY <1>2, <2>1 DEF Silent
    <3>2. PushResponse(c, <<n, TRUE>>)
      BY <1>2, <1>5, <2>1, <3>1 DEF PartLands
    <3>3. req'[n].left = 0 /\ ~req'[n].failed
      BY <1>3, <1>7, <2>1, <3>1
    <3>4. ~Unanswered(n)'
      BY <3>3 DEF Unanswered
    <3> QED
      BY <3>2, <3>3, <3>4
  <2>2. CASE PartFails(g)
    <3>1. PushResponse(c, <<n, FALSE>>)
      BY <1>2, <1>5, <1>7, <2>2 DEF PartFails
    <3>2. ~Unanswered(n)'
      BY <1>3, <2>2 DEF Unanswered
    <3> QED
      BY <3>1, <3>2
  <2> QED
    BY <2>1, <2>2
<1>10. PICK b \in BOOLEAN : PushResponse(c, <<n, b>>) /\ (b => req'[n].left = 0 /\ ~req'[n].failed)
                            /\ ~Unanswered(n)'
  BY <1>9
<1>11. /\ n \in Expected(c) /\ IsFiniteSet(Expected(c)) /\ Cardinality(Expected(c)) \in Nat
       /\ Cardinality(Expected(c) \ {n}) = Cardinality(Expected(c)) - 1 /\ Cardinality(Expected(c)) > 0
  <2>1. issued \in Nat
    BY PluginAssumption DEF PluginTypes
  <2>2. n \in Expected(c)
    BY <1>3, <1>5, <1>8 DEF Expected
  <2>3. IsFiniteSet(Expected(c)) /\ Cardinality(Expected(c)) \in Nat
    BY <2>1, ExpectedFinite
  <2>4. Cardinality(Expected(c) \ {n}) = Cardinality(Expected(c)) - 1
    BY <2>2, <2>3, FS_RemoveElement
  <2>5. Cardinality(Expected(c)) # 0
    BY <2>2, <2>3, FS_EmptySet
  <2> QED
    BY <2>2, <2>3, <2>4, <2>5
<1>12. c \notin silenced => running[c] > 0
  BY <1>6, <1>11 DEF Expecting
<1>13. /\ UNCHANGED surprised
       /\ \A d \in Client : d # c => running'[d] = running[d] /\ events'[d] = events[d]
       /\ c \in silenced => UNCHANGED <<running, events>>
       /\ c \notin silenced => running'[c] = running[c] - 1 /\ events'[c] = Append(events[c], <<n, b>>)
  <2>1. running \in [Client -> Nat] /\ events \in [Client -> Seq(Request \X BOOLEAN)]
    BY DEF PluginTypes
  <2> QED
    BY <1>6, <1>10, <1>12, <2>1, PushEffect
<1>14. \A m \in 1 .. issued : m # n => (Unanswered(m)' <=> Unanswered(m))
  BY <1>3 DEF Unanswered
<1>15. Expecting'
  <2>1. ASSUME NEW d \in Client \ silenced
        PROVE  running'[d] = Cardinality(Expected(d)')
    <3>1. CASE d = c
      <4>1. Expected(d)' = Expected(c) \ {n}
        BY <1>1, <1>3, <1>10, <1>14, <3>1 DEF Expected
      <4> QED
        BY <1>11, <1>13, <2>1, <3>1, <4>1 DEF Expecting
    <3>2. CASE d # c
      <4>1. Expected(d)' = Expected(d)
        BY <1>1, <1>3, <1>5, <1>14, <3>2 DEF Expected
      <4> QED
        BY <1>13, <2>1, <3>2, <4>1 DEF Expecting
    <3> QED
      BY <3>1, <3>2
  <2> QED
    BY <1>1, <1>13, <2>1 DEF Expecting
<1>16. PICK es : es = events[c]
  OBVIOUS
<1>17. es \in Seq(Request \X BOOLEAN) /\ Len(es) \in Nat
  BY <1>6, <1>16 DEF PluginTypes
<1>18. /\ Len(Append(es, <<n, b>>)) = Len(es) + 1 /\ Append(es, <<n, b>>)[Len(es) + 1] = <<n, b>>
       /\ \A i \in 1 .. Len(es) : Append(es, <<n, b>>)[i] = es[i]
  BY <1>3, <1>17
<1>19. \A d \in Client : \A i \in 1 .. Len(events[d]) : events[d][i][1] # n
  BY <1>8 DEF Told
<1>20. ASSUME NEW d \in Client, NEW i \in 1 .. Len(events'[d])
       PROVE  \/ i \in 1 .. Len(events[d]) /\ events'[d][i] = events[d][i]
              \/ d = c /\ events'[d][i] = <<n, b>> /\ i = Len(events[d]) + 1
  <2>1. CASE events'[d] = events[d]
    BY <2>1
  <2>2. CASE events'[d] # events[d]
    <3>1. d = c /\ events'[d] = Append(es, <<n, b>>)
      BY <1>13, <1>16, <2>2
    <3>2. i \in 1 .. Len(es) \/ i = Len(es) + 1
      BY <1>17, <1>18, <3>1
    <3> QED
      BY <1>16, <1>18, <3>1, <3>2
  <2> QED
    BY <2>1, <2>2
<1>21. Told'
  <2>1. ASSUME NEW d \in Client, NEW i \in 1 .. Len(events'[d])
        PROVE  /\ events'[d][i][1] \in 1 .. issued
               /\ req'[events'[d][i][1]].of = d
               /\ ~Unanswered(events[d][i][1])'
               /\ events'[d][i][2] => req'[events'[d][i][1]].left = 0 /\ ~req'[events'[d][i][1]].failed
    <3>1. CASE i \in 1 .. Len(events[d]) /\ events'[d][i] = events[d][i]
      <4>1. PICK m : m = events[d][i][1]
        OBVIOUS
      <4>2. /\ m \in 1 .. issued /\ req[m].of = d /\ ~Unanswered(m) /\ m # n
            /\ events[d][i][2] => req[m].left = 0 /\ ~req[m].failed
        BY <1>19, <3>1, <4>1 DEF Told
      <4>3. ~Unanswered(m)' /\ req'[m] = req[m]
        BY <1>3, <1>14, <4>2
      <4>4. ~Unanswered(events[d][i][1])'
        BY <3>1, <4>1, <4>3
      <4> QED
        BY <3>1, <4>1, <4>2, <4>3, <4>4
    <3>2. CASE d = c /\ events'[d][i] = <<n, b>>
      <4>1. events'[d][i][1] = n /\ events'[d][i][2] = b
        BY <3>2
      <4>2. ~Unanswered(events[d][i][1])'
        BY <1>10, <4>1
      <4> QED
        BY <1>3, <1>5, <1>10, <3>2, <4>1, <4>2
    <3> QED
      BY <1>20, <3>1, <3>2
  <2>2. ASSUME NEW d \in Client, NEW i \in 1 .. Len(events'[d]), NEW j \in 1 .. Len(events'[d]),
               events'[d][i][1] = events'[d][j][1]
        PROVE  i = j
    <3>1. CASE i \in 1 .. Len(events[d]) /\ events'[d][i] = events[d][i]
      <4>1. events[d][i][1] # n
        BY <1>19, <3>1
      <4>2. j \in 1 .. Len(events[d]) /\ events'[d][j] = events[d][j]
        BY <1>20, <2>2, <3>1, <4>1
      <4> QED
        BY <2>2, <3>1, <4>2 DEF Told
    <3>2. CASE d = c /\ events'[d][i] = <<n, b>> /\ i = Len(events[d]) + 1
      <4>1. events'[d][j][1] = n
        BY <2>2, <3>2
      <4>2. ~(j \in 1 .. Len(events[d]) /\ events'[d][j] = events[d][j])
        BY <1>19, <4>1
      <4> QED
        BY <1>20, <3>2, <4>2
    <3> QED
      BY <1>20, <3>1, <3>2
  <2> QED
    BY <1>1, <2>1, <2>2 DEF Told
<1>22. Owed'
  <2> SUFFICES ASSUME NEW m \in 1 .. issued, req[m].of \notin flagged
               PROVE  /\ Unanswered(m)' \/ AnswersTo(m)' # {} => Waited(m)'
                      /\ Waited(m)' /\ ~Unanswered(m)' => AnswersTo(m)' # {}
    BY <1>1, <1>3 DEF Owed
  <2>1. Waited(m)' <=> Waited(m)
    BY PartDue
  <2>2. PICK d : d = req[m].of
    OBVIOUS
  <2>3. d \in Client /\ req'[m].of = d
    BY <1>3, <2>2, PluginAssumption DEF Asked, PluginTypes, Client
  <2>4. CASE m = n
    <3>1. Waited(m)
      BY <1>8, <2>4 DEF Owed
    <3>2. c \notin silenced
      BY <1>5, <2>4 DEF PluginTypes
    <3>3. Len(es) + 1 \in AnswersTo(m)'
      <4>1. events'[c] = Append(es, <<n, b>>) /\ d = c
        BY <1>5, <1>13, <1>16, <2>2, <2>4, <3>2
      <4>2. Len(es) + 1 \in 1 .. Len(events'[c]) /\ events'[c][Len(es) + 1][1] = n
        BY <1>17, <1>18, <4>1
      <4> QED
        BY <2>3, <2>4, <4>1, <4>2 DEF AnswersTo
    <3> QED
      BY <2>1, <3>1, <3>3
  <2>5. CASE m # n
    <3>1. AnswersTo(m) = {i \in 1 .. Len(events[d]) : events[d][i][1] = m}
      BY <2>2 DEF AnswersTo
    <3>2. AnswersTo(m)' = {i \in 1 .. Len(events'[d]) : events'[d][i][1] = m}
      BY <2>3 DEF AnswersTo
    <3>3. \A i \in 1 .. Len(events[d]) : i \in 1 .. Len(events'[d]) /\ events'[d][i] = events[d][i]
      <4>1. CASE events'[d] = events[d]
        BY <4>1
      <4>2. CASE events'[d] # events[d]
        <5>1. d = c /\ events'[d] = Append(es, <<n, b>>)
          BY <1>13, <1>16, <2>3, <4>2
        <5> QED
          BY <1>16, <1>17, <1>18, <5>1
      <4> QED
        BY <4>1, <4>2
    <3>4. \A i \in 1 .. Len(events'[d]) : events'[d][i][1] = m =>
             i \in 1 .. Len(events[d]) /\ events'[d][i] = events[d][i]
      <4> TAKE i \in 1 .. Len(events'[d])
      <4> HAVE events'[d][i][1] = m
      <4>1. ~(events'[d][i] = <<n, b>>)
        BY <2>5
      <4> QED
        BY <1>20, <2>3, <4>1
    <3>5. AnswersTo(m)' = AnswersTo(m)
      BY <3>1, <3>2, <3>3, <3>4
    <3> QED
      BY <1>14, <2>1, <2>5, <3>5 DEF Owed
  <2> QED
    BY <2>4, <2>5
<1> QED
  BY <1>15, <1>21, <1>22

----------------------------------------------------------------------------
(* The invariant. *)

(* Every step keeps what is due, expected, told and owed. *)
LEMMA AnswersStep ==
  ASSUME PluginInv, PluginNext
  PROVE  Counted' /\ Expecting' /\ Told' /\ Owed'
<1>1. ASSUME NEW g \in gets, PartLands(g) \/ PartFails(g)
      PROVE  Counted' /\ Expecting' /\ Told' /\ Owed'
  BY <1>1, PartCounted, SilentStep, AnswerStep
<1>2. Quiet => Counted' /\ Expecting' /\ Told' /\ Owed'
  BY QuietStep
<1> QED
  BY Operations, QuietHosts, QuietOpens, RequestStep, SendStep, EndStep, TakeStep, FinishStep, <1>1, <1>2

(* The plugin begins with nothing open, asked or counted. *)
LEMMA PluginInitial ==
  ASSUME PluginInit
  PROVE  PluginInv
<1> USE DEF PluginInit
<1>1. 1 .. made = {} /\ 1 .. issued = {}
  OBVIOUS
<1>2. PluginTypes
  <2>1. [by |-> Anyone, of |-> NoClient, sent |-> 0, left |-> 0, failed |-> FALSE] \in ReadRecord
    BY PluginAssumption DEF ReadRecord, NoClient
  <2>2. req \in [Request -> ReadRecord]
    BY <2>1 DEF Anyone
  <2>3. cancel \in Cancel
    BY PluginAssumption DEF Cancel, NoClient
  <2>4. client \in [Wrappers -> 0 .. MaxClients] /\ config \in [Wrappers -> Credential]
        /\ made \in 0 .. MaxClients /\ issued \in 0 .. MaxRequests
    BY PluginAssumption DEF NoClient
  <2>5. running \in [Client -> Nat] /\ events \in [Client -> Seq(Request \X BOOLEAN)]
    OBVIOUS
  <2>6. identity = [c \in Client |-> identity[c]]
    OBVIOUS
  <2>7. waits \in [Wrappers -> SUBSET (1 .. issued)]
    OBVIOUS
  <2> QED
    BY <2>2, <2>3, <2>4, <2>5, <2>6, <2>7 DEF PluginTypes
<1>3. Held = {} /\ InUse = {}
  BY DEF Held, InUse
<1>4. InHand /\ Fitting
  BY <1>1, <1>3 DEF InHand, Fitting
<1>5. Asked /\ Ended
  BY <1>1, PluginAssumption DEF Asked, Ended
<1>6. Woken
  BY DEF Woken
<1>7. Counted /\ Owed
  BY <1>1 DEF Counted, Owed
<1>8. Expecting
  <2>1. \A c : Expected(c) = {}
    BY <1>1 DEF Expected
  <2> QED
    BY <2>1, FS_EmptySet DEF Expecting
<1>9. Told
  <2>1. \A c \in Client : 1 .. Len(events[c]) = {}
    OBVIOUS
  <2> QED
    BY <2>1 DEF Told
<1> QED
  BY <1>2, <1>4, <1>5, <1>6, <1>7, <1>8, <1>9 DEF PluginInv

(* A step that changes nothing keeps everything. *)
LEMMA PluginStutter ==
  ASSUME PluginInv, UNCHANGED pluginVars
  PROVE  PluginInv'
<1> USE DEF PluginInv, pluginVars, handleVars, managerVars, responderVars, readVars, wrapperVars, hostVars
<1>1. PluginTypes'
  BY DEF PluginTypes
<1>2. InHand' /\ Fitting'
  BY DEF InHand, Fitting, InUse, Held, Identity, S3Identity, GCSIdentity, AzureIdentity, Endpoint
<1>3. Asked' /\ Ended' /\ Woken'
  BY DEF Asked, Ended, Woken, Sends
<1>4. Counted'
  BY DEF Counted, Due, Unsent, Waited, Sends, Parts, Api
<1>5. Expecting'
  BY DEF Expecting, Expected, Unanswered
<1>6. Told' /\ Owed'
  BY DEF Told, Owed, Unanswered, Waited, Sends, AnswersTo
<1> QED
  BY <1>1, <1>2, <1>3, <1>4, <1>5, <1>6

(* The inductive invariant of the plugin's clients holds in every state,   *)
(* for any streamers, wrappers, credentials and environments: which client *)
(* is in whose hands and from what it was built (ClientMgr::pop, push and  *)
(* clear), who asked for what (async_read), and what each responder still  *)
(* owes and to whom (SharedQueue).                                         *)
THEOREM PluginInvariance == PluginSpec => []PluginInv
<1>1. PluginInit => PluginInv
  BY PluginInitial
<1>2. PluginInv /\ [PluginNext]_pluginVars => PluginInv'
  <2>1. PluginInv /\ PluginNext => PluginInv'
    BY TypesStep, HandStep, FitStep, AskedStep, EndedStep, WokenStep, AnswersStep DEF PluginInv
  <2> QED
    BY <2>1, PluginStutter
<1> QED
  BY <1>1, <1>2, PTL DEF PluginSpec

(* Clients are accounted for: ClientMgr's clear() may decide by comparing  *)
(* two sizes, no two wrappers share a client, each uses one built from its *)
(* own credentials, endpoint or account, and a released client has no GET  *)
(* left that could write (client_mgr.h).                                   *)
THEOREM ClientsAreAccounted == PluginSpec => []ClientsAccounted
<1>1. PluginInv => ClientsAccounted
  <2> SUFFICES ASSUME PluginInv PROVE ClientsAccounted
    OBVIOUS
  <2>1. InUse \subseteq Held
    BY DEF InUse, Held
  <2>2. unused \subseteq registered
    BY DEF PluginInv, PluginTypes
  <2> QED
    BY <2>1, <2>2 DEF PluginInv, InHand, Fitting, Asked, ClientsAccounted
<1> QED
  BY <1>1, PluginInvariance, PTL

(* Answers come once: push never reports a response nobody expects, every  *)
(* accepted read of a running client has one answer or a part in hand, a   *)
(* good answer only with all its parts, and none is left to the wrapper    *)
(* that takes the client next (the callbacks of the three plugins).        *)
THEOREM AnswersComeOnce == PluginSpec => []AnsweredOnce
<1>1. PluginInv => AnsweredOnce
  <2> SUFFICES ASSUME PluginInv PROVE AnsweredOnce
    OBVIOUS
  <2> USE DEF PluginInv
  <2>1. ASSUME NEW w \in InUse, NEW n \in waits[w], client[w] \notin flagged
        PROVE  /\ Cardinality(AnswersTo(n)) <= 1
               /\ AnswersTo(n) = {} => \E g \in gets : g[1] = n
    <3>1. /\ w \in Wrappers /\ n \in 1 .. issued /\ req[n].by = w /\ ~Sends(w, n)
          /\ step[w] \in {"open", "send"}
      BY DEF InUse, PluginTypes, Asked
    <3>2. req[n].of = client[w] /\ req[n].of \in Client /\ Waited(n)
      <4>1. req[n].of = client[w] /\ req[n].of \in 1 .. made
        BY <3>1 DEF Asked
      <4>2. req[n].of \in Client
        BY <4>1, PluginAssumption DEF PluginTypes, Client
      <4>3. Waited(n)
        BY <3>1 DEF Waited
      <4> QED
        BY <4>1, <4>2, <4>3
    <3>3. Cardinality(AnswersTo(n)) <= 1
      <4>1. \A i, j \in AnswersTo(n) : i = j
        BY <3>2 DEF Told, AnswersTo
      <4>2. CASE AnswersTo(n) = {}
        BY <4>2, FS_EmptySet
      <4>3. CASE AnswersTo(n) # {}
        <5>1. PICK i : AnswersTo(n) = {i}
          BY <4>1, <4>3
        <5>2. Cardinality({i}) = 1
          BY FS_Singleton
        <5> QED
          BY <5>1, <5>2
      <4> QED
        BY <4>2, <4>3
    <3>4. ASSUME AnswersTo(n) = {}
          PROVE  \E g \in gets : g[1] = n
      <4>1. Unanswered(n)
        BY <2>1, <3>1, <3>2, <3>4 DEF Owed
      <4>2. Cardinality(Due(n)) = req[n].left /\ req[n].left > 0 /\ req[n].left # 0
        BY <2>1, <3>1, <3>2, <4>1, DueFinite DEF Counted, Unanswered
      <4>3. Due(n) # {}
        BY <4>2, FS_EmptySet
      <4>4. Unsent(n) = {}
        BY <3>1 DEF Unsent
      <4>5. PICK k \in 1 .. Chunks : <<n, k>> \in gets
        BY <4>3, <4>4 DEF Due
      <4>6. <<n, k>>[1] = n
        OBVIOUS
      <4> QED
        BY <4>5, <4>6
    <3> QED
      BY <3>3, <3>4
  <2>2. ASSUME NEW n \in 1 .. issued, NEW i \in AnswersTo(n)
        PROVE  /\ events[req[n].of][i][2] => req[n].left = 0 /\ ~req[n].failed
               /\ \/ req[n].of \in flagged
                  \/ step[req[n].by] = "send" /\ client[req[n].by] = req[n].of
                  \/ n \in waits[req[n].by]
    <3>1. req[n].of \in Client
      BY PluginAssumption DEF Asked, PluginTypes, Client
    <3>2. events[req[n].of][i][2] => req[n].left = 0 /\ ~req[n].failed
      BY <2>2, <3>1 DEF Told, AnswersTo
    <3>3. req[n].of \notin flagged => Waited(n)
      BY <2>2 DEF Owed
    <3> QED
      BY <3>2, <3>3 DEF Waited, Sends, Asked
  <2> QED
    BY <2>1, <2>2 DEF AnsweredOnce, Expecting
<1> QED
  BY <1>1, PluginInvariance, PTL

(* Stopping wakes: no worker waits for a stopped client whose responder is *)
(* running, even if it was made or took a read while stop() ran, and what  *)
(* an ended streamer asked for is written only if clear() was refused.     *)
THEOREM StoppedAreWoken == PluginSpec => []StoppedIsWoken
<1>1. PluginInv => StoppedIsWoken
  BY DEF PluginInv, Woken, Ended, StoppedIsWoken, InUse
<1> QED
  BY <1>1, PluginInvariance, PTL

(* Every variable of the plugin's clients keeps its type. *)
THEOREM PluginTypeCorrect == PluginSpec => []PluginTypes
<1>1. PluginInv => PluginTypes
  BY DEF PluginInv
<1> QED
  BY <1>1, PluginInvariance, PTL

-----------------------------------------------------------------------------
(* The process.                                                            *)

(* A step of the process is a step of the streamer's routing, or leaves it *)
(* alone.                                                                  *)
LEMMA StepsRoute ==
  ASSUME [ProcessNext]_processVars
  PROVE  [Next]_vars
<1>1. CASE Submit
  BY <1>1 DEF Submit, Next
<1>2. ASSUME NEW w \in Clients, OpenClient(w)
      PROVE  Next
  BY <1>2 DEF OpenClient, Next
<1>3. ASSUME NEW w \in Wrappers, OpenFails(w)
      PROVE  [Next]_vars
  BY <1>3 DEF OpenFails, Next
<1>4. CASE \/ \E t \in Submitters : StartStreaming(t)
           \/ \E w \in DOMAIN Opens : OpenOther(w)
           \/ \E s \in Followed : StartOther(s) \/ EndFollowed(s)
           \/ \E w \in Wrappers : OpenFollowed(w) \/ UseFollowed(w)
           \/ \E g \in gets : Answer(g)
           \/ AllDone
  <2>1. UNCHANGED vars
    BY <1>4 DEF StartStreaming, OpenOther, StartOther, EndFollowed, OpenFollowed, UseFollowed, Answer,
                AllDone, Done
  <2> QED
    BY <2>1
<1>5. CASE UNCHANGED processVars
  BY <1>5 DEF processVars
<1> QED
  BY <1>1, <1>2, <1>3, <1>4, <1>5 DEF ProcessNext

(* The process implements Routing: what other streamers and the clients do *)
(* never moves a submission, and a worker builds its client as BuildClient *)
(* says (streamer.cc, threadpool workers of Dispatch).                     *)
THEOREM ProcessRoutes == ProcessSpec => Spec
<1>1. ProcessInit => Init
  BY DEF ProcessInit
<1> QED
  BY <1>1, StepsRoute, PTL DEF ProcessSpec, Spec

(* A worker opens its wrapper with a plugin that exists: whoever builds a  *)
(* client comes after a dispatch, and so after the plugin was locked.      *)
LEMMA OpensLocked ==
  ASSUME Inv, NEW w \in Clients, OpenClient(w)
  PROVE  /\ w \in Wrappers /\ lock.plugin \in {"S3", "GCS", "Azure"} /\ creds.set \in Credential
         /\ GetHandle(w, lock.plugin, creds.set)
<1>1. setting \in Settings /\ seen.plugins # {} /\ seen.plugins \subseteq PluginNames
  BY DEF Inv, TypeOK, OpenClient, BuildClient
<1>2. lock.plugin \in {"S3", "GCS", "Azure"}
  BY <1>1 DEF Inv, LockKept, LockOrdered, PluginNames
<1>3. creds.set \in Credentials \cup {None}
  BY DEF Inv, TypeOK
<1>4. Credentials \subseteq Credential /\ w \in Wrappers
  BY <1>1, ProcessAssumption DEF Credentials, Clients
<1>5. None \in Credential
  BY PluginAssumption DEF None, NoCredential
<1> QED
  BY <1>2, <1>3, <1>4, <1>5 DEF OpenClient

(* A step of the process is a step of the plugin's clients, or leaves them *)
(* alone.                                                                  *)
LEMMA StepsPlug ==
  ASSUME Inv, [ProcessNext]_processVars
  PROVE  [PluginNext]_pluginVars
<1>1. setting \in Settings /\ Own \in Hosts
  BY ProcessAssumption DEF Inv, TypeOK
<1>2. CASE Submit \/ AllDone
  BY <1>2 DEF Submit, AllDone
<1>3. ASSUME NEW t \in Submitters, StartStreaming(t)
      PROVE  PluginNext
  BY <1>1, <1>3 DEF StartStreaming, PluginNext
<1>4. ASSUME NEW w \in Clients, OpenClient(w)
      PROVE  PluginNext
  BY <1>4, OpensLocked DEF PluginNext
<1>5. ASSUME NEW w \in DOMAIN Opens, OpenOther(w)
      PROVE  PluginNext
  <2>1. /\ w \in Wrappers /\ Opens[w].plugin \in {"S3", "GCS", "Azure"} /\ Opens[w].creds \in Credential
    BY <1>1, ProcessAssumption DEF Opens
  <2>2. GetHandle(w, Opens[w].plugin, Opens[w].creds)
    BY <1>5 DEF OpenOther
  <2> QED
    BY <2>1, <2>2 DEF PluginNext
<1>6. ASSUME NEW s \in Followed, s \in Hosts, StartOther(s) \/ EndFollowed(s)
      PROVE  PluginNext
  BY <1>6 DEF StartOther, EndFollowed, PluginNext
<1>7. ASSUME NEW w \in Wrappers, OpenFollowed(w) \/ OpenFails(w) \/ UseFollowed(w)
      PROVE  PluginNext
  BY <1>7 DEF OpenFollowed, OpenFails, UseFollowed, PluginNext
<1>8. ASSUME NEW g \in gets, Answer(g)
      PROVE  PluginNext
  BY <1>8 DEF Answer, PluginNext
<1>9. CASE UNCHANGED processVars
  BY <1>9 DEF processVars
<1>10. Followed \subseteq Hosts
  BY <1>1, ProcessAssumption DEF Followed
<1> QED
  BY <1>2, <1>3, <1>4, <1>5, <1>6, <1>7, <1>8, <1>9, <1>10 DEF ProcessNext

(* The process implements PluginClients: the submissions of one streamer   *)
(* give the clients nothing that module does not already allow.            *)
THEOREM ProcessPlugs == ProcessSpec => PluginSpec
<1>1. ProcessInit => PluginInit
  BY DEF ProcessInit
<1>2. ProcessSpec => []Inv
  BY ProcessRoutes, Invariance, PTL
<1> QED
  BY <1>1, <1>2, StepsPlug, PTL DEF ProcessSpec, PluginSpec

(* What the run of Process checks of both parts holds of the process; that *)
(* a dead engine is avoided, as long as no mount shares another's engine.  *)
THEOREM ProcessIsSafe ==
  ProcessSpec => [](/\ PluginLocked /\ SettersHonest /\ EnginesFit
                    /\ (Unshared => DeadEngineAvoided)
                    /\ ClientsAccounted /\ AnsweredOnce /\ StoppedIsWoken)
  BY ProcessRoutes, ProcessPlugs, OnePlugin, SettersAreHonest, EnginesDoFit, DeadAvoided,
     ClientsAreAccounted, AnswersComeOnce, StoppedAreWoken, PTL

-----------------------------------------------------------------------------
(* A worker has a wrapper open exactly while the streamer has a client for *)
(* it, and it was opened with what the streamer recorded.                  *)
Agreed ==
  \A w \in Clients : /\ step[w] = "closed" <=> creds.client[w] = Unbuilt
                     /\ step[w] # "closed" => config[w] = creds.client[w]

(* A worker reads with a client that was built, under the plugin of the    *)
(* process, from the credentials that set_credentials accepted, or from    *)
(* none if it was built before: also when another streamer built it, gave  *)
(* it back and this one took it over, and when a failed build was tried    *)
(* again after the credentials were set.                                   *)
WorkersFit ==
  \A w \in Clients \cap InUse :
    /\ creds.client[w] \in {None, creds.set}
    /\ creds.set # None => seen.creds = {creds.set}
    /\ identity[client[w]] = Identity(creds.client[w])

(* The credentials of the streamer's workers are left alone by everything  *)
(* but their own opening.                                                  *)
LEMMA RoutingKeepsClients ==
  ASSUME Inv, RoutingStep
  PROVE  creds'.client = creds.client /\ setting' = setting
<1>1. ASSUME NEW c \in Credentials, SetCredentials(c)
      PROVE  creds'.client = creds.client /\ setting' = setting
  BY <1>1 DEF SetCredentials, Inv, TypeOK
<1>2. CASE \E t \in Submitters : async_request(t)
  BY <1>2 DEF async_request, Verify, LockFast, LockEnter, BuildPool, BuildThrows, CommitPlugin,
     PublishPlugin, Resolve, BeginGroups, RouteFile, RememberBlock, EndGroups, Push, EndPush
<1>3. CASE \/ \E e \in 1 .. Len(engines) : Serve(e) \/ EngineDies(e) \/ TellListener(e)
           \/ \E list \in Lists : SetStrategy(list)
  BY <1>3 DEF Serve, EngineDies, TellListener, SetStrategy
<1> QED
  BY <1>1, <1>2, <1>3 DEF RoutingStep

(* An open wrapper keeps what it was opened with, and does not close       *)
(* unless its client could not be built.                                   *)
LEMMA WrappersStay ==
  ASSUME PluginTypes, NEW w \in Wrappers, OpenWrapper(w) \/ UseWrapper(w)
  PROVE  /\ config' = config
         /\ \A v \in Wrappers : step'[v] = "closed" <=> step[v] = "closed"
<1>1. CASE OpenWrapper(w)
  BY <1>1 DEF OpenWrapper, PopNone, MakeClient, Register, Reuse, PluginTypes
<1>2. CASE RequestRead(w) \/ Close(w)
  BY <1>2 DEF RequestRead, Close, PluginTypes
<1>3. CASE \E n \in Request : SendPart(w, n) \/ EndRequest(w, n)
  BY <1>3 DEF SendPart, EndRequest, Sends, wrapperVars, PluginTypes
<1>4. CASE TakeEvent(w) \/ TakeFinished(w)
  BY <1>4 DEF TakeEvent, TakeFinished
<1> QED
  BY <1>1, <1>2, <1>3, <1>4 DEF UseWrapper

(* Every step of the process keeps the workers and the streamer agreed.    *)
LEMMA AgreedStep ==
  ASSUME Inv, PluginTypes, Agreed, [ProcessNext]_processVars
  PROVE  Agreed'
<1>1. /\ setting \in Settings /\ Clients \subseteq Wrappers /\ DOMAIN Opens \cap Clients = {}
      /\ DOMAIN Opens \subseteq Wrappers
  BY ProcessAssumption DEF Inv, TypeOK, Clients, Opens
<1>2. /\ creds \in [set : Credentials \cup {None}, client : [Clients -> Credentials \cup {None, Unbuilt}]]
      /\ Unbuilt \notin Credentials \cup {None}
  BY <1>1, RoutingAssumption DEF Inv, TypeOK, Credentials, None, Unbuilt
<1>3. /\ step \in [Wrappers -> {"closed", "pop", "make", "register", "open", "send", "gone"}]
      /\ config \in [Wrappers -> Credential]
  BY DEF PluginTypes
<1>4. ASSUME creds'.client = creds.client, setting' = setting, config' = config,
             \A v \in Wrappers : step'[v] = "closed" <=> step[v] = "closed"
      PROVE  Agreed'
  BY <1>1, <1>4 DEF Agreed, Clients
<1>5. CASE Submit
  BY <1>4, <1>5, RoutingKeepsClients DEF Submit, pluginVars, wrapperVars
<1>6. CASE \/ \E t \in Submitters : StartStreaming(t)
           \/ \E s \in Followed : StartOther(s) \/ EndFollowed(s)
           \/ \E g \in gets : Answer(g)
           \/ AllDone \/ UNCHANGED processVars
  <2>1. UNCHANGED <<creds, setting, step, config>>
    BY <1>6 DEF StartStreaming, StartOther, EndFollowed, HandleS3, BeginCancel, EndHost, FlagClient,
       SilenceClient, EndCancel, StopPool, Shutdown, Answer, PartLands, PartFails, AllDone, Done,
       wrapperVars, pluginVars, vars, processVars
  <2> QED
    BY <1>4, <2>1
<1>7. ASSUME NEW w \in Wrappers, OpenFollowed(w) \/ UseFollowed(w)
      PROVE  Agreed'
  BY <1>4, <1>7, WrappersStay DEF OpenFollowed, UseFollowed, vars
<1>8. ASSUME NEW w \in Clients, OpenClient(w)
      PROVE  Agreed'
  <2>1. /\ creds' = [creds EXCEPT !.client[w] = creds.set] /\ setting' = setting
        /\ config' = [config EXCEPT ![w] = creds.set] /\ step' = [step EXCEPT ![w] = "pop"]
    BY <1>8 DEF OpenClient, BuildClient, GetHandle
  <2>2. /\ creds'.client[w] = creds.set /\ config'[w] = creds.set /\ step'[w] = "pop"
        /\ \A v \in Clients \ {w} : /\ creds'.client[v] = creds.client[v] /\ config'[v] = config[v]
                                    /\ step'[v] = step[v]
    BY <1>1, <1>2, <1>3, <2>1
  <2>3. creds.set # Unbuilt
    BY <1>2
  <2>4. Clients' = Clients
    BY <2>1 DEF Clients
  <2> QED
    BY <2>2, <2>3, <2>4 DEF Agreed
<1>9. ASSUME NEW w \in DOMAIN Opens, OpenOther(w)
      PROVE  Agreed'
  <2>1. /\ creds' = creds /\ setting' = setting /\ step' = [step EXCEPT ![w] = "pop"]
        /\ config' = [config EXCEPT ![w] = Opens[w].creds]
    BY <1>9 DEF OpenOther, GetHandle, vars
  <2>2. \A v \in Clients : config'[v] = config[v] /\ step'[v] = step[v]
    BY <1>1, <1>3, <2>1
  <2>3. Clients' = Clients
    BY <2>1 DEF Clients
  <2> QED
    BY <2>1, <2>2, <2>3 DEF Agreed
<1>10. ASSUME NEW w \in Wrappers, OpenFails(w)
       PROVE  Agreed'
  <2>1. config' = config /\ step' = [step EXCEPT ![w] = "closed"]
    BY <1>10 DEF OpenFails, MakeThrows
  <2>2. setting' = setting
    BY <1>10 DEF OpenFails, DropClient, vars
  <2>3. Clients' = Clients
    BY <2>2 DEF Clients
  <2>4. CASE w \notin Clients
    <3>1. creds' = creds
      BY <1>10, <2>4 DEF OpenFails, vars
    <3>2. \A v \in Clients : step'[v] = step[v]
      BY <1>1, <1>3, <2>1, <2>4
    <3> QED
      BY <2>1, <2>3, <3>1, <3>2 DEF Agreed
  <2>5. CASE w \in Clients
    <3>1. creds' = [creds EXCEPT !.client[w] = Unbuilt]
      BY <1>10, <2>5 DEF OpenFails, DropClient
    <3>2. /\ creds'.client[w] = Unbuilt /\ step'[w] = "closed"
          /\ \A v \in Clients \ {w} : creds'.client[v] = creds.client[v] /\ step'[v] = step[v]
      BY <1>1, <1>2, <1>3, <2>1, <2>5, <3>1
    <3> QED
      BY <2>1, <2>3, <3>2 DEF Agreed
  <2> QED
    BY <2>4, <2>5
<1> QED
  BY <1>5, <1>6, <1>7, <1>8, <1>9, <1>10 DEF ProcessNext

(* The one thing neither component can say alone: what the streamer's      *)
(* setter accepted is what its workers read with.                          *)
THEOREM WorkersDoFit == ProcessSpec => []WorkersFit
<1>1. ProcessInit => Agreed
  <2> SUFFICES ASSUME ProcessInit
               PROVE  Agreed
    OBVIOUS
  <2>1. setting \in Settings /\ Clients \subseteq Wrappers
    BY ProcessAssumption DEF ProcessInit, Init, Clients
  <2> QED
    BY <2>1 DEF ProcessInit, Init, PluginInit, NoCredentials, Agreed
<1>2. ProcessSpec => []Inv /\ []PluginInv
  BY ProcessRoutes, ProcessPlugs, Invariance, PluginInvariance, PTL
<1>3. Inv /\ PluginInv /\ Agreed /\ [ProcessNext]_processVars => Agreed'
  BY AgreedStep DEF PluginInv
<1>4. ASSUME Inv, PluginInv, Agreed
      PROVE  WorkersFit
  <2> SUFFICES ASSUME NEW w \in Clients, w \in InUse
               PROVE  /\ creds.client[w] \in {None, creds.set}
                      /\ creds.set # None => seen.creds = {creds.set}
                      /\ identity[client[w]] = Identity(creds.client[w])
    BY DEF WorkersFit
  <2>1. w \in Held /\ step[w] # "closed"
    BY DEF InUse, Held
  <2>2. config[w] = creds.client[w] /\ creds.client[w] # Unbuilt
    BY <1>4, <2>1 DEF Agreed
  <2>3. CredentialsSettled
    BY <1>4 DEF Inv
  <2> QED
    BY <1>4, <2>1, <2>2, <2>3 DEF CredentialsSettled, PluginInv, Fitting
<1> QED
  BY <1>1, <1>2, <1>3, <1>4, PTL DEF ProcessSpec
=============================================================================

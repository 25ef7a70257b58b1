------------------------------ MODULE Routing ------------------------------
(***************************************************************************)
(* Where a submission goes before it is read: the streamer's checks, the   *)
(* object-storage plugin lock, the sticky filesystem strategy, the mount   *)
(* probes, and the pools and engines (backend_pools.cc, fs_async_router.cc,*)
(* strategy_resolver.cc, mount_capabilities.cc and the first half of       *)
(* Streamer::async_request).  Several threads submit at once; engines are  *)
(* served by their own threads and may die.                                *)
(*                                                                         *)
(* A file of a submission is one workload here; how a submission is cut    *)
(* into workloads is Cutting's subject, how they are read and answered     *)
(* that of Streamer, AsyncIoWorker and ObjectStorageWorker.                *)
(***************************************************************************)
EXTENDS Integers, Sequences, FiniteSets, SequencesExt

CONSTANTS
  Submitters,   \* threads that call async_request
  Mounts,       \* mount -> [key, memory, need, statx, refuses]
  Dirs,         \* directory -> its mount, or NoMount when it cannot be stat'ed
  Ladder,       \* the rungs of the trial-read ladder, ascending
  Page,         \* the host page size, on the scale of Ladder
  Settings      \* the processes to look at: see `setting`

Strategies == {"io_uring_direct", "io_uring_buffered", "libaio_direct", "sync_buffered"}
None == "none"
NoMount == "no mount"
Unbuilt == "unbuilt"
NoList == <<>>      \* no list is set: the empty list does not parse, so it never is
Unknown == -1        \* a mount that has not answered

(* What a file is: where its path points, whether the submission asks for  *)
(* any of its bytes, whether a destination is null, the largest block its  *)
(* ranges are congruent at, its size, and whether it can be opened.        *)
File(backend, dir, ranges, null, congruent, size, exists) ==
  [backend |-> backend, dir |-> dir, ranges |-> ranges, null |-> null,
   congruent |-> congruent, size |-> size, exists |-> exists]

VARIABLES
  setting,   \* what this process was given, which never changes: a record, see below
  lock,      \* _object_storage_pool, _plugin, _ready_plugin and the holder of _plugin_mutex
  strategy,  \* _candidates, _resolved_from, _resolved
  direct,    \* MountCapabilities::_direct
  engines,   \* every engine built, oldest first
  byDevice,  \* _async_by_device: mount -> engine, 0 for none
  dead,      \* FsAsyncRouter::DeadMounts
  caller,    \* where each submitter is in async_request
  creds,     \* CredentialsState and what each client was built from
  seen       \* history: plugins dispatched, setters that succeeded, reads a dead engine failed

Plan == setting.plan                \* Plan[t]: the submissions of t, each a sequence of files
MaxEngines == setting.maxEngines    \* RUNAI_STREAMER_FS_MAX_ENGINES, per engine key
Default == setting.default          \* RUNAI_STREAMER_FS_STRATEGY, a candidate list
Lists == setting.lists              \* the candidate lists passed to set_fs_strategy
Available == setting.available      \* the strategies this host can serve
Credentials == setting.credentials  \* the values passed to set_credentials
Clients == setting.clients          \* the object-storage workers, each of which builds one client
MayDie == setting.mayDie            \* how many engines may die

(* What a submission may hold. *)
Files == [backend : {"FS", "S3", "GCS", "Azure"}, dir : DOMAIN Dirs, ranges : BOOLEAN,
          null : BOOLEAN, congruent : Nat, size : Nat, exists : BOOLEAN]

ASSUME RoutingAssumption ==
  /\ None \notin Submitters
  /\ NoMount \notin DOMAIN Mounts
  /\ \A d \in DOMAIN Dirs : Dirs[d] \in DOMAIN Mounts \cup {NoMount}
  /\ \A m \in DOMAIN Mounts : Mounts[m].need \in Nat
  /\ Page \in Nat
  /\ Ladder \in Seq(Nat \ {0})
  /\ \A i, j \in 1 .. Len(Ladder) : i < j => Ladder[i] < Ladder[j]
  /\ \A s \in Settings :
       /\ s.plan \in [Submitters -> Seq(Seq(Files))]
       /\ s.default \in Seq(STRING) /\ s.lists \subseteq Seq(STRING)
       /\ s.maxEngines \in Nat \ {0}
       /\ "sync_buffered" \in s.available
       /\ s.credentials \cap {None, Unbuilt} = {}

vars == <<setting, lock, strategy, direct, engines, byDevice, dead, caller, creds, seen>>

Submission(t) == Plan[t][caller[t].at]
Read(t) == {i \in 1 .. Len(Submission(t)) : Submission(t)[i].ranges}
Plugins(t) == {Submission(t)[i].backend : i \in Read(t)} \ {"FS"}
IsObject(t) == Plugins(t) # {}
Plugin(t) == CHOOSE p \in Plugins(t) : TRUE
MountOf(file) == Dirs[file.dir]

Fresh(at) == [pc |-> "verify", at |-> at, i |-> 1, dirs |-> <<>>, blocks |-> <<>>,
              measured |-> 0, route |-> <<>>, late |-> {}]

NoLock == [pool |-> FALSE, plugin |-> None, ready |-> None, holder |-> None]
NoStrategy == [candidates |-> NoList, from |-> NoList, resolved |-> None]
NoBlocks == [m \in DOMAIN Mounts |-> Unknown]
NoCredentials == [set |-> None, client |-> [w \in Clients |-> Unbuilt]]

Init ==
  /\ setting \in Settings
  /\ lock = NoLock
  /\ strategy = NoStrategy
  /\ direct = NoBlocks
  /\ engines = <<>>
  /\ byDevice = [m \in DOMAIN Mounts |-> 0]
  /\ dead = {}
  /\ caller = [t \in Submitters |-> Fresh(1)]
  /\ creds = NoCredentials
  /\ seen = [plugins |-> {}, lists |-> {}, creds |-> {}, failed |-> {}]

At(t, pc) == caller[t].pc = pc /\ caller[t].at <= Len(Plan[t])
Go(t, pc) == caller' = [caller EXCEPT ![t].pc = pc]
Return(t) == caller' = [caller EXCEPT ![t] = Fresh(@.at + 1)]

----------------------------------------------------------------------------
(* Streamer::async_request up to the point where an id is minted. *)

(* A null destination is refused by verify_requests; a submission that     *)
(* mixes backends by Streamer::lock_object_plugin.  Files without ranges   *)
(* are not looked at.  Neither refusal leaves anything behind.             *)
Mixed(t) == \/ Cardinality(Plugins(t)) > 1
            \/ IsObject(t) /\ \E i \in Read(t) : Submission(t)[i].backend = "FS"

Verify(t) ==
  /\ At(t, "verify")
  /\ IF Mixed(t) \/ \E i \in Read(t) : Submission(t)[i].null
     THEN Return(t)
     ELSE Go(t, IF IsObject(t) THEN "lock" ELSE "resolve")
  /\ UNCHANGED <<setting, lock, strategy, direct, engines, byDevice, dead, creds, seen>>

(* The fast path: one acquire load of _ready_plugin. *)
LockFast(t) ==
  /\ At(t, "lock")
  /\ CASE lock.ready = None -> Go(t, "enter")
       [] lock.ready = Plugin(t) -> Go(t, "push")
       [] OTHER -> Return(t)
  /\ UNCHANGED <<setting, lock, strategy, direct, engines, byDevice, dead, creds, seen>>

(* Fault: the slow path trusts its first load and does not look at _plugin again. *)
LockEnterUnchecked(t) ==
  /\ At(t, "enter")
  /\ lock.holder = None
  /\ Go(t, "build") /\ lock' = [lock EXCEPT !.holder = t]
  /\ UNCHANGED <<setting, strategy, direct, engines, byDevice, dead, creds, seen>>

(* The slow path, under _plugin_mutex: whoever comes second only compares. *)
LockEnter(t) ==
  /\ At(t, "enter")
  /\ lock.holder = None
  /\ CASE lock.plugin = None -> Go(t, "build") /\ lock' = [lock EXCEPT !.holder = t]
       [] lock.plugin = Plugin(t) -> Go(t, "push") /\ UNCHANGED lock
       [] OTHER -> Return(t) /\ UNCHANGED lock
  /\ UNCHANGED <<setting, strategy, direct, engines, byDevice, dead, creds, seen>>

(* The pool is built first; its constructor starts threads and may throw,  *)
(* which leaves the lock unset for the next submission.                    *)
BuildPool(t) ==
  /\ At(t, "build")
  /\ lock' = [lock EXCEPT !.pool = TRUE] /\ Go(t, "commit")
  /\ UNCHANGED <<setting, strategy, direct, engines, byDevice, dead, creds, seen>>

BuildThrows(t) ==
  /\ At(t, "build")
  /\ lock' = [lock EXCEPT !.holder = None] /\ Return(t)
  /\ UNCHANGED <<setting, strategy, direct, engines, byDevice, dead, creds, seen>>

CommitPlugin(t) ==
  /\ At(t, "commit")
  /\ lock' = [lock EXCEPT !.plugin = Plugin(t)] /\ Go(t, "publish")
  /\ UNCHANGED <<setting, strategy, direct, engines, byDevice, dead, creds, seen>>

PublishPlugin(t) ==
  /\ At(t, "publish")
  /\ lock' = [lock EXCEPT !.ready = Plugin(t), !.holder = None] /\ Go(t, "push")
  /\ UNCHANGED <<setting, strategy, direct, engines, byDevice, dead, creds, seen>>

----------------------------------------------------------------------------
(* The filesystem strategy. *)

(* A list is parsed whole: no empty list, no unknown name, no repeat. *)
Parses(list) ==
  /\ list # <<>>
  /\ ToSet(list) \subseteq Strategies
  /\ IsInjective(list)

(* The places of a list that this host can serve; the first is taken. *)
Walked(list) == {i \in 1 .. Len(list) : list[i] \in Available}
FirstAvailable(list) ==
  IF Walked(list) = {} THEN None
  ELSE list[CHOOSE i \in Walked(list) : \A j \in Walked(list) : i <= j]

IsAsync(s) == s # "sync_buffered"
IsDirect(s) == s \in {"io_uring_direct", "libaio_direct"}

(* Fault: a setter that comes after the first request is not compared with *)
(* what that request resolved.                                             *)
SetStrategyLate(list) ==
  /\ Parses(list)
  /\ strategy.candidates \in {NoList, list}
  /\ strategy' = [strategy EXCEPT !.candidates = list]
  /\ seen' = [seen EXCEPT !.lists = @ \cup {list}]
  /\ UNCHANGED <<setting, lock, direct, engines, byDevice, dead, caller, creds>>

(* set_candidates that reports Success: the list parses, agrees with what  *)
(* was walked if a request came first, and otherwise with the first set.   *)
SetStrategy(list) ==
  /\ Parses(list)
  /\ IF strategy.from # NoList
     THEN strategy.from = list /\ UNCHANGED strategy
     ELSE /\ strategy.candidates \in {NoList, list}
          /\ strategy' = [strategy EXCEPT !.candidates = list]
  /\ seen' = [seen EXCEPT !.lists = @ \cup {list}]
  /\ UNCHANGED <<setting, lock, direct, engines, byDevice, dead, caller, creds>>

(* resolve_locked: settled once; a list that does not parse or that nothing *)
(* here can serve refuses the submission, and only the latter is recorded   *)
(* as walked.  A submission without ranges does not resolve and is done.    *)
Resolve(t) ==
  LET list == IF strategy.candidates # NoList THEN strategy.candidates ELSE Default
  IN /\ At(t, "resolve")
     /\ CASE Read(t) = {} -> Return(t) /\ UNCHANGED strategy
          [] Read(t) # {} /\ strategy.resolved # None -> Go(t, "groups") /\ UNCHANGED strategy
          [] Read(t) # {} /\ strategy.resolved = None /\ ~Parses(list) -> Return(t) /\ UNCHANGED strategy
          [] OTHER -> /\ strategy' = [strategy EXCEPT !.from = list,
                                                     !.resolved = FirstAvailable(list)]
                      /\ IF FirstAvailable(list) = None THEN Return(t) ELSE Go(t, "groups")
     /\ UNCHANGED <<setting, lock, direct, engines, byDevice, dead, creds, seen>>

----------------------------------------------------------------------------
(* MountCapabilities: what one mount answers about O_DIRECT. *)

(* ladder_direct_block: the smallest rung the mount accepts; a rung is     *)
(* probed at its own offset, so a file shorter than twice the rung leaves  *)
(* it untested, and the answer is then only a floor.                       *)
LadderBlock(size, need) ==
  LET fits == {i \in 1 .. Len(Ladder) : 2 * Ladder[i] <= size}
      good == {i \in fits : need > 0 /\ Ladder[i] >= need}
      least(S) == Ladder[CHOOSE i \in S : \A j \in S : i <= j]
  IN CASE good # {} -> least(good)
       [] good = {} /\ fits # 1 .. Len(Ladder) ->
            LET untested == least((1 .. Len(Ladder)) \ fits)
            IN IF untested > Page THEN untested ELSE Page
       [] OTHER -> 0

(* statx answers exactly where it answers; otherwise the ladder does.  A   *)
(* mount that refuses O_DIRECT fails the open and is remembered as 0.      *)
Measure(file) ==
  LET mount == Mounts[MountOf(file)]
  IN CASE mount.refuses -> 0
       [] ~mount.refuses /\ mount.statx /\ mount.need > 0 -> mount.need
       [] OTHER -> LadderBlock(file.size, mount.need)

(* try_emplace, then at(): the first thread to remember decides for all. *)
Remembered(m, block) == IF direct[m] # Unknown THEN direct[m] ELSE block

----------------------------------------------------------------------------
(* FsAsyncRouter::groups, one file at a time. *)

(* Mounts whose engine is already reported dead when groups() begins. *)
ReportedDead == {m \in DOMAIN Mounts : byDevice[m] # 0 /\ engines[byDevice[m]].told}

BeginGroups(t) ==
  /\ At(t, "groups")
  /\ caller' = [caller EXCEPT ![t].pc = "route", ![t].late = ReportedDead]
  /\ UNCHANGED <<setting, lock, strategy, direct, engines, byDevice, dead, creds, seen>>

(* Fault: the set of dead mounts is not asked. *)
ServableUnasked(m) == m # NoMount /\ ~Mounts[m].memory

(* A directory's answer: an unprobeable, dead or memory-backed mount is    *)
(* left to the synchronous reader.                                         *)
Servable(m) == m # NoMount /\ m \notin dead /\ ~Mounts[m].memory

(* The group a directory has, asked once per submission. *)
GroupOf(t, dir) ==
  IF dir \in DOMAIN caller[t].dirs THEN caller[t].dirs[dir]
  ELSE IF Servable(Dirs[dir]) THEN Dirs[dir] ELSE NoMount

With(f, x, y) == [z \in DOMAIN f \cup {x} |-> IF z = x THEN y ELSE f[z]]

BlockOf(t, m) == IF m \in DOMAIN caller[t].blocks THEN caller[t].blocks[m] ELSE 0

(* libaio reads a file asynchronously only if every range is congruent at  *)
(* the mount's block and the mount serves O_DIRECT; an unknown answer      *)
(* counts as yes.                                                          *)
ReadsDirectly(file, answer) ==
  /\ file.congruent >= (IF answer \in {0, Unknown} THEN Last(Ladder) ELSE answer)
  /\ answer # 0

(* The file's route, given what its mount answered, and                     *)
(* the group's block, which the first file to answer decides.              *)
Routed(t, file, group, answer) ==
  LET wanted == IsDirect(strategy.resolved) /\ BlockOf(t, group) = 0
      block == IF wanted /\ answer # Unknown THEN answer ELSE BlockOf(t, group)
      kept == strategy.resolved = "libaio_direct" => ReadsDirectly(file, answer)
  IN caller' = [caller EXCEPT ![t].pc = "route", ![t].i = @ + 1,
                              ![t].dirs = With(@, file.dir, group),
                              ![t].blocks = With(@, group, block),
                              ![t].route = Append(@, IF kept THEN group ELSE NoMount)]

Synchronous(t, dirs) ==
  caller' = [caller EXCEPT ![t].i = @ + 1, ![t].dirs = dirs, ![t].route = Append(@, NoMount)]

(* A file whose mount is not remembered yet is opened to measure it. *)
RouteFile(t) ==
  /\ At(t, "route")
  /\ caller[t].i <= Len(Submission(t))
  /\ LET file == Submission(t)[caller[t].i]
         group == GroupOf(t, file.dir)
         asks == \/ strategy.resolved = "libaio_direct"
                 \/ IsDirect(strategy.resolved) /\ BlockOf(t, group) = 0
     IN CASE ~IsAsync(strategy.resolved) \/ ~file.ranges -> Synchronous(t, caller[t].dirs)
          [] OTHER ->
             CASE group = NoMount -> Synchronous(t, With(caller[t].dirs, file.dir, NoMount))
               [] group # NoMount /\ asks /\ direct[group] = Unknown /\ file.exists ->
                    caller' = [caller EXCEPT ![t].pc = "probe", ![t].measured = Measure(file),
                                             ![t].dirs = With(@, file.dir, group)]
               [] OTHER -> Routed(t, file, group, direct[group])
  /\ UNCHANGED <<setting, lock, strategy, direct, engines, byDevice, dead, creds, seen>>

(* The probe's answer is remembered for the mount, unless another thread's is. *)
RememberBlock(t) ==
  LET file == Submission(t)[caller[t].i]
      m == MountOf(file)
      answer == Remembered(m, caller[t].measured)
  IN /\ At(t, "probe")
     /\ direct' = [direct EXCEPT ![m] = IF @ = Unknown THEN caller[t].measured ELSE @]
     /\ Routed(t, file, m, answer)
     /\ UNCHANGED <<setting, lock, strategy, engines, byDevice, dead, creds, seen>>

EndGroups(t) ==
  /\ At(t, "route")
  /\ caller[t].i > Len(Submission(t))
  /\ caller' = [caller EXCEPT ![t].pc = "push", ![t].i = 1]
  /\ UNCHANGED <<setting, lock, strategy, direct, engines, byDevice, dead, creds, seen>>

----------------------------------------------------------------------------
(* BackendPools: dispatch. *)

(* Fault: engines are grouped by queue depth alone. *)
EnginesOfDepth(m) == {e \in 1 .. Len(engines) : engines[e].key[1] = Mounts[m].key[1]}

(* The engines built for a mount's queue depth and registration. *)
EnginesOf(m) == {e \in 1 .. Len(engines) : engines[e].key = Mounts[m].key}

LeastLoaded(S) ==
  CHOOSE e \in S : \A f \in S :
    \/ Len(engines[e].queue) < Len(engines[f].queue)
    \/ Len(engines[e].queue) = Len(engines[f].queue) /\ e <= f

(* push_async: a mount keeps its engine; a new one is built below the cap, *)
(* bound to the mount, block, key and strategy of that moment; above it    *)
(* the least loaded engine of the key is shared.                           *)
PushAsync(t, m) ==
  LET read == [mount |-> m, late |-> m \in caller[t].late]
      engine == [mount |-> m, key |-> Mounts[m].key, block |-> BlockOf(t, m),
                 strategy |-> strategy.resolved, queue |-> <<read>>,
                 dead |-> FALSE, told |-> FALSE]
      shared == IF byDevice[m] # 0 THEN byDevice[m] ELSE LeastLoaded(EnginesOf(m))
  IN IF byDevice[m] = 0 /\ Cardinality(EnginesOf(m)) < MaxEngines
     THEN /\ engines' = Append(engines, engine)
          /\ byDevice' = [byDevice EXCEPT ![m] = Len(engines) + 1]
     ELSE /\ engines' = [engines EXCEPT ![shared].queue = Append(@, read)]
          /\ byDevice' = [byDevice EXCEPT ![m] = shared]

Push(t) ==
  /\ At(t, "push")
  /\ caller[t].i <= Len(Submission(t))
  /\ LET i == caller[t].i
     IN CASE IsObject(t) /\ i \in Read(t) ->
               seen' = [seen EXCEPT !.plugins = @ \cup {Plugin(t)}] /\ UNCHANGED <<engines, byDevice>>
          [] ~IsObject(t) /\ i \in Read(t) /\ caller[t].route[i] # NoMount ->
               PushAsync(t, caller[t].route[i]) /\ UNCHANGED seen
          [] OTHER -> UNCHANGED <<engines, byDevice, seen>>
  /\ caller' = [caller EXCEPT ![t].i = @ + 1]
  /\ UNCHANGED <<setting, lock, strategy, direct, dead, creds>>

EndPush(t) ==
  /\ At(t, "push")
  /\ caller[t].i > Len(Submission(t))
  /\ Return(t)
  /\ UNCHANGED <<setting, lock, strategy, direct, engines, byDevice, dead, creds, seen>>

async_request(t) ==
  \/ Verify(t) \/ LockFast(t) \/ LockEnter(t) \/ BuildPool(t) \/ BuildThrows(t)
  \/ CommitPlugin(t) \/ PublishPlugin(t) \/ Resolve(t) \/ BeginGroups(t)
  \/ RouteFile(t) \/ RememberBlock(t) \/ EndGroups(t) \/ Push(t) \/ EndPush(t)

----------------------------------------------------------------------------
(* The engines' threads, the object-storage workers and the user's setters. *)

(* An engine thread takes its next workload: a dead one fails it. *)
Serve(e) ==
  /\ engines[e].queue # <<>>
  /\ engines' = [engines EXCEPT ![e].queue = Tail(@)]
  /\ seen' = IF engines[e].dead
             THEN [seen EXCEPT !.failed = @ \cup {Head(engines[e].queue)}] ELSE seen
  /\ UNCHANGED <<setting, lock, strategy, direct, byDevice, dead, caller, creds>>

(* engine_is_dead: the flag first, the listener after it.  The listener    *)
(* was bound to the mount the engine was built for.                        *)
EngineDies(e) ==
  /\ ~engines[e].dead
  /\ Cardinality({f \in 1 .. Len(engines) : engines[f].dead}) < MayDie
  /\ engines' = [engines EXCEPT ![e].dead = TRUE]
  /\ UNCHANGED <<setting, lock, strategy, direct, byDevice, dead, caller, creds, seen>>

TellListener(e) ==
  /\ engines[e].dead /\ ~engines[e].told
  /\ engines' = [engines EXCEPT ![e].told = TRUE]
  /\ dead' = dead \cup {engines[e].mount}
  /\ UNCHANGED <<setting, lock, strategy, direct, byDevice, caller, creds, seen>>

(* CredentialsState::set that reports Success: the first set wins. *)
SetCredentials(c) ==
  /\ creds.set \in {None, c}
  /\ creds' = [creds EXCEPT !.set = c]
  /\ seen' = [seen EXCEPT !.creds = @ \cup {c}]
  /\ UNCHANGED <<setting, lock, strategy, direct, engines, byDevice, dead, caller>>

(* An object-storage worker builds its client with its first workload and  *)
(* reads the credentials then, once; a build that fails is tried again     *)
(* with the next workload, and reads them again.                           *)
BuildClient(w) ==
  /\ seen.plugins # {}
  /\ creds.client[w] = Unbuilt
  /\ creds' = [creds EXCEPT !.client[w] = creds.set]
  /\ UNCHANGED <<setting, lock, strategy, direct, engines, byDevice, dead, caller, seen>>

DropClient(w) ==
  /\ creds.client[w] # Unbuilt
  /\ creds' = [creds EXCEPT !.client[w] = Unbuilt]
  /\ UNCHANGED <<setting, lock, strategy, direct, engines, byDevice, dead, caller, seen>>

Submitted == \A t \in Submitters : caller[t].at > Len(Plan[t])

Done == /\ Submitted
        /\ \A e \in 1 .. Len(engines) : engines[e].queue = <<>>
        /\ UNCHANGED vars

(* What happens without the object-storage workers. *)
RoutingStep ==
  \/ \E t \in Submitters : async_request(t)
  \/ \E e \in 1 .. Len(engines) : Serve(e) \/ EngineDies(e) \/ TellListener(e)
  \/ \E list \in Lists : SetStrategy(list)
  \/ \E c \in Credentials : SetCredentials(c)

Next ==
  \/ RoutingStep
  \/ \E w \in Clients : BuildClient(w) \/ DropClient(w)
  \/ Done

Spec == Init /\ [][Next]_vars

----------------------------------------------------------------------------
(* The plugin lock.  Whoever is past it finds a pool to push to and a lock *)
(* that names its own plugin, and the streamer never dispatches to two:    *)
(* not while two first submissions race, and not after a pool whose        *)
(* threads could not be started.                                           *)
PluginLocked ==
  /\ Cardinality(seen.plugins) <= 1
  /\ \A t \in Submitters :
       At(t, "push") /\ IsObject(t) => lock.pool /\ lock.plugin = Plugin(t)

(* A mount is served by one engine, built for its queue depth and its      *)
(* registration and with the one strategy of the streamer, and there are   *)
(* never more engines of a key than the configured maximum.                *)
MountsServed ==
  /\ \A m \in DOMAIN Mounts :
       /\ Cardinality(EnginesOf(m)) <= MaxEngines
       /\ \A e \in 1 .. Len(engines) :
            (\E i \in 1 .. Len(engines[e].queue) : engines[e].queue[i].mount = m)
              => /\ byDevice[m] = e
                 /\ engines[e].key = Mounts[m].key
  /\ \A e \in 1 .. Len(engines) : engines[e].strategy = strategy.resolved

(* Threads that measure one mount at the same time with different files    *)
(* agree on its direct-I/O block, and an engine built for the mount has    *)
(* that block or none.                                                     *)
BlocksAgree ==
  /\ \A t \in Submitters : \A m \in DOMAIN caller[t].blocks :
       caller[t].blocks[m] \in {0, direct[m]}
  /\ \A e \in 1 .. Len(engines) : engines[e].block \in {0, direct[engines[e].mount]}

(* Engines.  Whatever order mounts are met in and however submissions      *)
(* interleave, a mount has one engine that fits it, and one block.         *)
EnginesFit == MountsServed /\ BlocksAgree

(* Setters.  A list that set_fs_strategy accepted is the one the streamer  *)
(* uses, even when the first request resolves at the same time; and no     *)
(* client is built from other credentials than the accepted ones.          *)
SettersHonest ==
  /\ \A list \in seen.lists :
       strategy.resolved # None => strategy.resolved = FirstAvailable(list)
  /\ \A w \in Clients : creds.client[w] \notin {Unbuilt, None} => seen.creds = {creds.client[w]}

(* Dead engines.  A submission that begins after an engine was reported    *)
(* dead is not failed by that engine: its files go to the synchronous      *)
(* reader.  It holds while no two mounts share an engine.                  *)
DeadEngineAvoided == \A read \in seen.failed : ~read.late
=============================================================================

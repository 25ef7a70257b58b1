--------------------------- MODULE PluginClients ---------------------------
(***************************************************************************)
(* The object-storage plugin of one process and its clients: the backend   *)
(* handle (s3_wrapper.cc), the manager that keeps the clients for reuse     *)
(* (client_mgr.h), and the client of each of the three plugins, S3, GCS and *)
(* Azure, with its responder and the reads the SDK has in hand.            *)
(*                                                                         *)
(* All of it is shared by the streamers of the process (Hosts).  A worker  *)
(* of a streamer opens one wrapper and keeps it until its pool is joined;  *)
(* a listing opens one for the length of a call.  A streamer that is       *)
(* destroyed stops every client of the process (S3Stop), joins its workers *)
(* and releases all the clients if none is in use (S3Cleanup).             *)
(***************************************************************************)
EXTENDS Integers, Sequences, FiniteSets

CONSTANTS
  Hosts,        \* streamers
  Wrappers,     \* S3ClientWrapper objects: one for each worker and each listing
  Listings,     \* the wrappers opened by Streamer::list_files
  HostOf,       \* wrapper -> its streamer
  Credential,   \* what a wrapper may be given; NoCredential for none
  EndpointIn,   \* credential -> the endpoint it names, or Unset
  Blank,        \* the credentials whose values are all empty strings
  Environs,     \* environments: [endpoint, override, account, cacheMode, cacheLib]
  MaxClients,   \* bound: clients built
  MaxRequests,  \* bound: reads requested
  Chunks        \* storage chunks in a range; a worker's range is one, the API takes any

NoCredential == "none"
Unset == "unset"
NoPlugin == "no plugin"
NoHost == "no streamer"
Client == 1 .. MaxClients
NoClient == 0
Request == 1 .. MaxRequests

ASSUME PluginAssumption ==
  /\ Listings \subseteq Wrappers
  /\ HostOf \in [Wrappers -> Hosts]
  /\ NoHost \notin Hosts
  /\ NoCredential \in Credential \ Blank
  /\ MaxClients \in Nat /\ MaxRequests \in Nat /\ Chunks \in Nat \ {0}

VARIABLES
  environ,     \* the environment variables, which never change
  backend,     \* the plugin of __backend_handle
  made,        \* clients built so far
  registered,  \* ClientMgr::_clients
  unused,      \* ClientMgr::_unused_clients
  identity,    \* what each client was built from
  cached,      \* Azure clients that share s_shared_handle with its library loaded
  provider,    \* that library: "unloaded", "loaded" or "shut"
  flagged,     \* clients with _stop set
  silenced,    \* clients whose _responder is stopped
  running,     \* _responder->_running
  events,      \* _responder->_responses
  surprised,   \* a response nobody expected was pushed
  issued,      \* reads requested so far
  req,         \* read -> [by, of, sent, left, failed]
  gets,        \* <<read, part>>: what the SDK or the client's pool has in hand
  step,        \* where each wrapper is
  client,      \* the client it holds
  config,      \* the [plugin, creds] it was opened with
  waits,       \* its accepted reads that were not answered yet
  host,        \* where each streamer is
  cancel,      \* who holds the manager's mutex in stop(), and how far it is
  refused      \* streamers whose clear() was refused

handleVars == <<environ, backend>>
managerVars == <<made, registered, unused, identity, cached, provider>>
responderVars == <<flagged, silenced, running, events, surprised>>
readVars == <<issued, req, gets>>
wrapperVars == <<step, client, config, waits>>
hostVars == <<host, cancel, refused>>
pluginVars == <<handleVars, managerVars, responderVars, readVars, wrapperVars, hostVars>>

----------------------------------------------------------------------------
(* What differs between the plugins. *)

(* S3 sends a range as one GET and looks at _stop before it; GCS and Azure *)
(* cut it into storage chunks and look at _stop before each.  All three    *)
(* keep their backend open until the process exits.                        *)
S3Api == [splits |-> FALSE, looksFirst |-> TRUE, closes |-> FALSE]
GCSApi == [splits |-> TRUE, looksFirst |-> FALSE, closes |-> FALSE]
AzureApi == [splits |-> TRUE, looksFirst |-> FALSE, closes |-> FALSE]
Api == CASE backend = "GCS" -> GCSApi [] backend = "Azure" -> AzureApi [] OTHER -> S3Api

(* The endpoint given with the credentials, else the environment's unless  *)
(* RUNAI_STREAMER_OVERRIDE_ENDPOINT_URL is off.                            *)
Endpoint(creds) ==
  IF EndpointIn[creds] # Unset THEN EndpointIn[creds]
  ELSE IF environ.override THEN environ.endpoint ELSE Unset

(* What a client is built from.  GCS takes nothing from the wrapper; Azure *)
(* lets the wrapper's values override the environment's, except empty ones.*)
S3Identity(creds) == <<creds, Endpoint(creds)>>
GCSIdentity(creds) == <<environ.account, Unset>>
AzureIdentity(creds) ==
  <<IF creds \in Blank \cup {NoCredential} THEN environ.account ELSE creds, Unset>>
Identity(creds) == CASE backend = "GCS" -> GCSIdentity(creds)
                     [] backend = "Azure" -> AzureIdentity(creds)
                     [] OTHER -> S3Identity(creds)

(* verify_credentials: S3 compares all five values, GCS none, and Azure    *)
(* what the wrapper's values, empty ones too, make of the environment's.   *)
AzureAsked(creds) == <<IF creds = NoCredential THEN environ.account ELSE creds, Unset>>
Verifies(c, creds) == CASE backend = "GCS" -> TRUE
                        [] backend = "Azure" -> identity[c] = AzureAsked(creds)
                        [] OTHER -> identity[c] = S3Identity(creds)

(* The Azure cache library, loaded once for all clients that hold it.  A   *)
(* library that is missing or does not fit fails the client if the cache   *)
(* is required and is left out otherwise.                                  *)
CacheLoads == backend = "Azure" /\ environ.cacheMode # "off" /\ environ.cacheLib = "good"
CacheFails == backend = "Azure" /\ environ.cacheMode = "required" /\ environ.cacheLib # "good"

(* An Azure client needs an account; every client may fail for reasons of  *)
(* its own (an endpoint without a host, a missing CA file).                *)
BuildFails(creds) ==
  CacheFails \/ (backend = "Azure" /\ AzureIdentity(creds)[1] = Unset)

(* A client with a cache leaves the cutting to the cache.                  *)
Parts(c) == IF Api.splits /\ c \notin cached THEN Chunks ELSE 1

----------------------------------------------------------------------------
HasResponder(c) == \E n \in 1 .. issued : req[n].of = c
GetsOf(C) == {g \in gets : req[g[1]].of \in C}
MutexFree == cancel.by = NoHost
Alive(w) == host[HostOf[w]] # "ended"

PluginInit ==
  /\ environ \in Environs
  /\ backend = NoPlugin
  /\ made = 0 /\ registered = {} /\ unused = {}
  /\ identity = [c \in Client |-> <<Unset, Unset>>]
  /\ cached = {} /\ provider = "unloaded"
  /\ flagged = {} /\ silenced = {} /\ surprised = FALSE
  /\ running = [c \in Client |-> 0]
  /\ events = [c \in Client |-> <<>>]
  /\ issued = 0 /\ gets = {}
  /\ req = [n \in Request |-> [by |-> CHOOSE w \in Wrappers : TRUE, of |-> NoClient, sent |-> 0,
                               left |-> 0, failed |-> FALSE]]
  /\ step = [w \in Wrappers |-> "closed"]
  /\ client = [w \in Wrappers |-> NoClient]
  /\ config = [w \in Wrappers |-> NoCredential]
  /\ waits = [w \in Wrappers |-> {}]
  /\ host = [s \in Hosts |-> "idle"]
  /\ cancel = [by |-> NoHost, todo |-> {}, at |-> NoClient]
  /\ refused = {}

----------------------------------------------------------------------------
(* Opening a wrapper. *)

(* The handle of the process is made once, from the wrapper that comes     *)
(* first.  One made for no URI is S3's, and it may fail to open.           *)
Opened(plugin) == IF backend = NoPlugin THEN plugin ELSE backend
OpenedForNoUri == IF backend = NoPlugin THEN {NoPlugin, "S3"} ELSE {backend}

(* handle_s3, once per streamer: from now on its destructor stops the      *)
(* clients and releases them.                                              *)
HandleS3(s) ==
  /\ host[s] \in {"idle", "listing"}
  /\ host' = [host EXCEPT ![s] = "streaming"]
  /\ UNCHANGED <<handleVars, managerVars, responderVars, readVars, wrapperVars, cancel, refused>>

(* The first wrapper of the process decides the plugin.  A worker opens it *)
(* with a workload, so its streamer is streaming; a listing also makes the *)
(* streamer release the clients at its end.                                *)
GetHandle(w, plugin, creds) ==
  /\ step[w] = "closed"
  /\ IF w \in Listings
     THEN /\ host[HostOf[w]] \in {"idle", "listing", "streaming"}
          /\ host' = [host EXCEPT ![HostOf[w]] = IF @ = "idle" THEN "listing" ELSE @]
     ELSE host[HostOf[w]] \notin {"idle", "listing", "ended"} /\ UNCHANGED host
  /\ backend' = Opened(plugin)
  /\ config' = [config EXCEPT ![w] = creds]
  /\ step' = [step EXCEPT ![w] = "pop"]
  /\ UNCHANGED <<environ, managerVars, responderVars, readVars, client, waits, cancel, refused>>

(* Clients are destroyed: the destructor waits for the GETs in hand and    *)
(* drops the ones still queued; the last holder of the cache library shuts *)
(* it down.                                                                *)
Destroy(C) ==
  /\ registered' = registered \ C
  /\ gets' = gets \ GetsOf(C)
  /\ cached' = cached \ C
  /\ provider' = IF cached # {} /\ cached \subseteq C THEN "shut" ELSE provider

(* ClientMgr::pop under the mutex: the unused clients are looked at in     *)
(* some order up to the first that verifies, and the ones before it are    *)
(* destroyed.                                                              *)
Reuse(w, c, stale) ==
  /\ step[w] = "pop" /\ MutexFree
  /\ c \in unused /\ Verifies(c, config[w])
  /\ stale \subseteq {d \in unused : ~Verifies(d, config[w])}
  /\ unused' = unused \ (stale \cup {c})
  /\ Destroy(stale)
  /\ client' = [client EXCEPT ![w] = c]
  /\ step' = [step EXCEPT ![w] = "open"]
  /\ UNCHANGED <<handleVars, made, identity, responderVars, issued, req, config, waits, hostVars>>

PopNone(w) ==
  /\ step[w] = "pop" /\ MutexFree
  /\ \A c \in unused : ~Verifies(c, config[w])
  /\ unused' = {}
  /\ Destroy(unused)
  /\ step' = [step EXCEPT ![w] = "make"]
  /\ UNCHANGED <<handleVars, made, identity, responderVars, issued, req, client, config, waits, hostVars>>

(* The new client is built with the mutex released, so stop() may run and  *)
(* miss it before it is registered.                                        *)
MakeClient(w) ==
  /\ step[w] = "make" /\ made < MaxClients
  /\ ~BuildFails(config[w])
  /\ made' = made + 1
  /\ identity' = [identity EXCEPT ![made + 1] = Identity(config[w])]
  /\ cached' = IF CacheLoads THEN cached \cup {made + 1} ELSE cached
  /\ provider' = IF CacheLoads THEN "loaded" ELSE provider
  /\ client' = [client EXCEPT ![w] = made + 1]
  /\ step' = [step EXCEPT ![w] = "register"]
  /\ UNCHANGED <<handleVars, registered, unused, responderVars, readVars, config, waits, hostVars>>

(* A wrapper that could not be built may be tried again.                   *)
MakeThrows(w) ==
  /\ step[w] = "make"
  /\ step' = [step EXCEPT ![w] = "closed"]
  /\ UNCHANGED <<handleVars, managerVars, responderVars, readVars, client, config, waits, hostVars>>

Register(w) ==
  /\ step[w] = "register" /\ MutexFree
  /\ registered' = registered \cup {client[w]}
  /\ step' = [step EXCEPT ![w] = "open"]
  /\ UNCHANGED <<handleVars, made, unused, identity, cached, provider, responderVars, readVars,
                 client, config, waits, hostVars>>

----------------------------------------------------------------------------
(* Reading. *)

(* async_read up to the first GET: the responder expects one more.  S3     *)
(* refuses once _stop is set.                                              *)
RequestRead(w) ==
  /\ step[w] = "open" /\ w \notin Listings /\ issued < MaxRequests /\ Alive(w)
  /\ Api.looksFirst => client[w] \notin flagged
  /\ issued' = issued + 1
  /\ req' = [req EXCEPT ![issued + 1] =
               [by |-> w, of |-> client[w], sent |-> 0, left |-> Parts(client[w]), failed |-> FALSE]]
  /\ running' = [running EXCEPT ![client[w]] = @ + 1]
  /\ step' = [step EXCEPT ![w] = "send"]
  /\ UNCHANGED <<handleVars, managerVars, flagged, silenced, events, surprised, gets,
                 client, config, waits, hostVars>>

Sends(w, n) == step[w] = "send" /\ n <= issued /\ req[n].by = w /\ \A m \in 1 .. issued : req[m].by = w => m <= n
StopsSending(w) == ~Api.looksFirst /\ client[w] \in flagged

SendPart(w, n) ==
  /\ Sends(w, n)
  /\ req[n].sent < Parts(client[w]) /\ ~StopsSending(w)
  /\ gets' = gets \cup {<<n, req[n].sent + 1>>}
  /\ req' = [req EXCEPT ![n].sent = @ + 1]
  /\ UNCHANGED <<handleVars, managerVars, responderVars, issued, wrapperVars, hostVars>>

(* Fault: the read is accepted without a second look at _stop. *)
EndRequestUnchecked(w, n) ==
  /\ Sends(w, n)
  /\ req[n].sent = Parts(client[w]) \/ StopsSending(w)
  /\ waits' = [waits EXCEPT ![w] = @ \cup {n}]
  /\ step' = [step EXCEPT ![w] = "open"]
  /\ UNCHANGED <<handleVars, managerVars, responderVars, readVars, client, config, hostVars>>

(* _stop is looked at once more: a read on a client that is stopping is    *)
(* reported FinishedError and nobody waits for it.                         *)
EndRequest(w, n) ==
  /\ Sends(w, n)
  /\ req[n].sent = Parts(client[w]) \/ StopsSending(w)
  /\ waits' = IF client[w] \in flagged THEN waits ELSE [waits EXCEPT ![w] = @ \cup {n}]
  /\ step' = [step EXCEPT ![w] = "open"]
  /\ UNCHANGED <<handleVars, managerVars, responderVars, readVars, client, config, hostVars>>

(* SharedQueue::push. *)
PushResponse(c, response) ==
  CASE c \in silenced -> UNCHANGED <<running, events, surprised>>
    [] c \notin silenced /\ running[c] > 0 ->
         /\ running' = [running EXCEPT ![c] = @ - 1]
         /\ events' = [events EXCEPT ![c] = Append(@, response)]
         /\ UNCHANGED surprised
    [] OTHER -> surprised' = TRUE /\ UNCHANGED <<running, events>>

(* The callback of one GET.  The last part to succeed answers the read, or *)
(* the first to fail; a failed part does not count down.                   *)
PartLands(g) ==
  LET n == g[1]
  IN /\ gets' = gets \ {g}
     /\ req' = [req EXCEPT ![n].left = @ - 1]
     /\ IF req[n].left = 1 THEN PushResponse(req[n].of, <<n, TRUE>>)
        ELSE UNCHANGED <<running, events, surprised>>
     /\ UNCHANGED <<handleVars, managerVars, flagged, silenced, issued, wrapperVars, hostVars>>

(* Fault: every part that fails answers the read. *)
PartFailsLoud(g) ==
  LET n == g[1]
  IN /\ gets' = gets \ {g}
     /\ req' = [req EXCEPT ![n].failed = TRUE]
     /\ PushResponse(req[n].of, <<n, FALSE>>)
     /\ UNCHANGED <<handleVars, managerVars, flagged, silenced, issued, wrapperVars, hostVars>>

PartFails(g) ==
  LET n == g[1]
  IN /\ gets' = gets \ {g}
     /\ req' = [req EXCEPT ![n].failed = TRUE]
     /\ IF ~req[n].failed THEN PushResponse(req[n].of, <<n, FALSE>>)
        ELSE UNCHANGED <<running, events, surprised>>
     /\ UNCHANGED <<handleVars, managerVars, flagged, silenced, issued, wrapperVars, hostVars>>

(* The worker takes completions while it has reads to wait for.            *)
TakeEvent(w) ==
  /\ step[w] = "open" /\ waits[w] # {}
  /\ client[w] \notin silenced /\ events[client[w]] # <<>>
  /\ events' = [events EXCEPT ![client[w]] = Tail(@)]
  /\ waits' = [waits EXCEPT ![w] = @ \ {Head(events[client[w]])[1]}]
  /\ UNCHANGED <<handleVars, managerVars, flagged, silenced, running, surprised, readVars,
                 step, client, config, hostVars>>

(* A stopped responder, or one that expects nothing, says FinishedError:   *)
(* the worker gives up what it waited for.                                 *)
TakeFinished(w) ==
  /\ step[w] = "open" /\ waits[w] # {}
  /\ client[w] \in silenced \/ (running[client[w]] = 0 /\ events[client[w]] = <<>>)
  /\ waits' = [waits EXCEPT ![w] = {}]
  /\ UNCHANGED <<handleVars, managerVars, responderVars, readVars, step, client, config, hostVars>>

(* ~S3ClientWrapper gives the client back.  A listing closes its wrapper   *)
(* when the call returns, a worker when its pool has joined it, which it   *)
(* is once it has nothing to wait for.                                     *)
Close(w) ==
  /\ step[w] = "open" /\ MutexFree
  /\ w \notin Listings => host[HostOf[w]] = "joining" /\ waits[w] = {}
  /\ unused' = unused \cup {client[w]}
  /\ client' = [client EXCEPT ![w] = NoClient]
  /\ step' = [step EXCEPT ![w] = "gone"]
  /\ UNCHANGED <<handleVars, made, registered, identity, cached, provider, responderVars, readVars,
                 config, waits, hostVars>>

----------------------------------------------------------------------------
(* The end of a streamer: _s3_stop, _pools and _s3, in this order. *)

(* No call of the streamer is running when its destructor is. *)
NoListing(s) == \A w \in Listings : HostOf[w] = s => step[w] \in {"closed", "gone"}

(* stop() opens the backend if nobody has, with no URI, which means S3;    *)
(* the open may fail.  The mutex is held until every client is stopped.    *)
BeginCancel(s) ==
  /\ host[s] = "streaming" /\ NoListing(s) /\ MutexFree
  /\ host' = [host EXCEPT ![s] = "cancelled"]
  /\ backend' \in OpenedForNoUri
  /\ cancel' = [by |-> s, todo |-> registered, at |-> NoClient]
  /\ UNCHANGED <<environ, managerVars, responderVars, readVars, wrapperVars, refused>>

(* A client is stopped in two steps: _stop, then its responder if it has one. *)
FlagClient(s, c) ==
  /\ cancel.by = s /\ cancel.at = NoClient /\ c \in cancel.todo
  /\ flagged' = flagged \cup {c}
  /\ cancel' = [cancel EXCEPT !.at = c]
  /\ UNCHANGED <<handleVars, managerVars, silenced, running, events, surprised, readVars,
                 wrapperVars, host, refused>>

SilenceClient(s) ==
  /\ cancel.by = s /\ cancel.at # NoClient
  /\ silenced' = IF HasResponder(cancel.at) THEN silenced \cup {cancel.at} ELSE silenced
  /\ cancel' = [cancel EXCEPT !.todo = @ \ {cancel.at}, !.at = NoClient]
  /\ UNCHANGED <<handleVars, managerVars, flagged, running, events, surprised, readVars,
                 wrapperVars, host, refused>>

EndCancel(s) ==
  /\ cancel.by = s /\ cancel.at = NoClient /\ cancel.todo = {}
  /\ cancel' = [cancel EXCEPT !.by = NoHost]
  /\ UNCHANGED <<handleVars, managerVars, responderVars, readVars, wrapperVars, host, refused>>

(* The pools are stopped; a streamer that only listed has nothing to stop. *)
StopPool(s) ==
  /\ cancel.by # s
  /\ host[s] = "cancelled" \/ (host[s] = "listing" /\ NoListing(s))
  /\ host' = [host EXCEPT ![s] = "joining"]
  /\ UNCHANGED <<handleVars, managerVars, responderVars, readVars, wrapperVars, cancel, refused>>

(* Fault: clear() only looks whether some client is unused. *)
AllUnusedLoosely == unused # {} \/ registered = {}

(* clear() counts: all clients are released, or none.                      *)
AllUnused == Cardinality(unused) = Cardinality(registered)

(* shutdown(), after the workers were joined and their wrappers destroyed. *)
Shutdown(s) ==
  /\ host[s] = "joining" /\ MutexFree
  /\ \A w \in Wrappers : HostOf[w] = s => step[w] \in {"closed", "gone"}
  /\ host' = [host EXCEPT ![s] = "ended"]
  /\ backend' \in IF backend # NoPlugin /\ Api.closes THEN {NoPlugin} ELSE OpenedForNoUri
  /\ IF AllUnused
     THEN Destroy(registered) /\ unused' = {} /\ UNCHANGED refused
     ELSE refused' = refused \cup {s} /\ UNCHANGED <<registered, unused, cached, provider, gets>>
  /\ UNCHANGED <<environ, made, identity, responderVars, issued, req, wrapperVars, cancel>>

----------------------------------------------------------------------------
OpenWrapper(w) ==
  \/ PopNone(w) \/ MakeClient(w) \/ Register(w)
  \/ \E c \in unused, stale \in SUBSET unused : Reuse(w, c, stale)

UseWrapper(w) ==
  \/ RequestRead(w)
  \/ \E n \in Request : SendPart(w, n) \/ EndRequest(w, n)
  \/ TakeEvent(w) \/ TakeFinished(w) \/ Close(w)

EndHost(s) ==
  \/ \E c \in Client : FlagClient(s, c)
  \/ SilenceClient(s) \/ EndCancel(s) \/ StopPool(s) \/ Shutdown(s)

PluginNext ==
  \/ \E s \in Hosts : HandleS3(s) \/ BeginCancel(s) \/ EndHost(s)
  \/ \E w \in Wrappers, p \in {"S3", "GCS", "Azure"}, k \in Credential : GetHandle(w, p, k)
  \/ \E w \in Wrappers : OpenWrapper(w) \/ MakeThrows(w) \/ UseWrapper(w)
  \/ \E g \in gets : PartLands(g) \/ PartFails(g)

PluginSpec == PluginInit /\ [][PluginNext]_pluginVars

----------------------------------------------------------------------------
InUse == {w \in Wrappers : step[w] \in {"open", "send"}}

(* Clients.  Every client the manager knows is either unused or in the     *)
(* hands of exactly one wrapper, which uses it with the credentials,       *)
(* endpoint or account it was built from; a client that was released has   *)
(* no GET that could still write; and the cache library is loaded for      *)
(* every client that reads through it.  It is what lets clear() decide by  *)
(* comparing two sizes.                                                    *)
ClientsAccounted ==
  /\ unused \subseteq registered
  /\ registered \ unused = {client[w] : w \in InUse}
  /\ \A w, v \in InUse : client[w] = client[v] => w = v
  /\ \A w \in InUse : client[w] \notin unused /\ identity[client[w]] = Identity(config[w])
  /\ \A g \in gets : req[g[1]].of \in registered
  /\ registered \cap cached # {} => provider = "loaded"

AnswersTo(n) == {i \in 1 .. Len(events[req[n].of]) : events[req[n].of][i][1] = n}

(* Answers.  On a client that nobody stopped every accepted read has one   *)
(* answer or a part that can still answer it, a good answer only once all  *)
(* its parts have landed, and no answer is for a read its wrapper does not *)
(* wait for: so a client that is given back for reuse has none left over.  *)
AnsweredOnce ==
  /\ ~surprised
  /\ \A w \in InUse : \A n \in waits[w] :
       \/ client[w] \in flagged
       \/ /\ Cardinality(AnswersTo(n)) <= 1
          /\ AnswersTo(n) = {} => \E g \in gets : g[1] = n
  /\ \A n \in 1 .. issued : \A i \in AnswersTo(n) :
       /\ events[req[n].of][i][2] => req[n].left = 0 /\ ~req[n].failed
       /\ \/ req[n].of \in flagged
          \/ step[req[n].by] = "send" /\ client[req[n].by] = req[n].of
          \/ n \in waits[req[n].by]

(* Stopping.  No worker stays blocked on a client that was stopped: its    *)
(* responder has been stopped too, even when the client made its responder *)
(* or took a read while stop() ran.  And when a streamer has ended and its *)
(* clients were released, nothing it asked for is still being written.     *)
StoppedIsWoken ==
  /\ \A w \in InUse :
       waits[w] # {} /\ client[w] \in flagged /\ cancel.at # client[w] => client[w] \in silenced
  /\ \A g \in gets : host[HostOf[req[g[1]].by]] = "ended" => HostOf[req[g[1]].by] \in refused
=============================================================================

------------------------------ MODULE Process ------------------------------
(***************************************************************************)
(* One process: the streamer whose submissions Routing follows (Own), the  *)
(* plugin and its clients (PluginClients), and other streamers that share  *)
(* the plugin with it.  The two meet in three places: a submission to      *)
(* object storage makes the streamer a user of the plugin before it is     *)
(* dispatched (handle_s3); a worker of the streamer builds its client from *)
(* the locked plugin and the streamer's credentials; and the streamer is   *)
(* destroyed when no call of it is running.                                *)
(***************************************************************************)
EXTENDS Routing, PluginClients

CONSTANT Own   \* the streamer of Routing, whose workers are the setting's clients

ASSUME ProcessAssumption ==
  /\ Own \in Hosts
  /\ \A s \in Settings :
       /\ \A w \in s.clients : w \in Wrappers \ Listings /\ HostOf[w] = Own
       /\ s.credentials \subseteq Credential /\ s.hosts \subseteq Hosts
       /\ \A w \in DOMAIN s.opens :
            /\ w \in Wrappers \ s.clients
            /\ s.opens[w].plugin \in {"S3", "GCS", "Azure"} /\ s.opens[w].creds \in Credential

processVars == <<vars, pluginVars>>

(* A setting also says whose clients are followed after they are opened    *)
(* (hosts), what the other wrappers are opened with (opens), how many      *)
(* reads there are at most (reads) and the environment.                    *)
Followed == setting.hosts
Opens == setting.opens

ProcessInit == Init /\ PluginInit /\ environ = setting.environ

Submit ==
  /\ RoutingStep
  /\ seen'.plugins # {} => host[Own] \notin {"idle", "listing"}
  /\ UNCHANGED pluginVars

(* async_request calls handle_s3 for each file it is about to dispatch. *)
StartStreaming(t) ==
  /\ At(t, "push") /\ IsObject(t)
  /\ HandleS3(Own) /\ UNCHANGED vars

OpenClient(w) == BuildClient(w) /\ GetHandle(w, lock.plugin, creds.set)
OpenFails(w) == MakeThrows(w) /\ IF w \in Clients THEN DropClient(w) ELSE UNCHANGED vars

(* Other streamers, and listings. *)
OpenOther(w) == GetHandle(w, Opens[w].plugin, Opens[w].creds) /\ UNCHANGED vars
StartOther(s) == s # Own /\ HandleS3(s) /\ UNCHANGED vars

OpenFollowed(w) == OpenWrapper(w) /\ UNCHANGED vars
UseFollowed(w) == UseWrapper(w) /\ issued' <= setting.reads /\ UNCHANGED vars
Answer(g) == (PartLands(g) \/ PartFails(g)) /\ UNCHANGED vars
EndFollowed(s) == (s = Own => Submitted) /\ (BeginCancel(s) \/ EndHost(s)) /\ UNCHANGED vars

(* Everything has ended: no streamer is stuck in its destructor. *)
AllDone ==
  /\ Done /\ UNCHANGED pluginVars
  /\ \A s \in Followed : host[s] \in {"idle", "ended"}

ProcessNext ==
  \/ Submit
  \/ \E t \in Submitters : StartStreaming(t)
  \/ \E w \in Clients : OpenClient(w)
  \/ \E w \in DOMAIN Opens : OpenOther(w)
  \/ \E s \in Followed : StartOther(s) \/ EndFollowed(s)
  \/ \E w \in Wrappers : HostOf[w] \in Followed /\ (OpenFollowed(w) \/ OpenFails(w) \/ UseFollowed(w))
  \/ \E g \in gets : Answer(g)
  \/ AllDone

ProcessSpec == ProcessInit /\ [][ProcessNext]_processVars
=============================================================================

----------------------------- MODULE MCRouting -----------------------------
(* Small instances of Process: Routing, and the plugin's clients with it. *)
EXTENDS Process

FsFile(dir, congruent, size) == File("FS", dir, TRUE, FALSE, congruent, size, TRUE)
Missing(dir) == File("FS", dir, TRUE, FALSE, 4, 0, FALSE)
Object(plugin) == File(plugin, "gone", TRUE, FALSE, 0, 0, TRUE)
Null(plugin) == File(plugin, "gone", TRUE, TRUE, 0, 0, TRUE)
Empty(plugin) == File(plugin, "gone", FALSE, FALSE, 0, 0, TRUE)

Mount(key, memory, need, statx, refuses) ==
  [key |-> key, memory |-> memory, need |-> need, statx |-> statx, refuses |-> refuses]

Rungs == <<1, 2, 4>>
MCHosts == {"own", "other"}
MCWrappers == {"w1", "w2", "f1", "l1"}
MCListings == {"l1"}
MCHostOf == [w1 |-> "own", w2 |-> "own", f1 |-> "other", l1 |-> "own"]
MCCredential == {"none", "c1", "c2", "blank"}
MCEndpointIn == [k \in MCCredential |-> IF k = "c2" THEN "e2" ELSE Unset]
MCBlank == {"blank"}

Environment(endpoint, override, account, mode, lib) ==
  [endpoint |-> endpoint, override |-> override, account |-> account, cacheMode |-> mode, cacheLib |-> lib]
Plain == Environment("e1", TRUE, "acct", "auto", "good")
Bare == Environment("e1", FALSE, Unset, "auto", "bad")
MCEnvirons == {Plain, Bare}
MCSubmitters == {"t1", "t2", "t3"}

(* Mounts of one depth that differ in registration, one that refuses       *)
(* O_DIRECT, a memory-backed one, another of the first one's kind, and a   *)
(* directory that is not there.                                            *)
MCMounts ==
  [a |-> Mount(<<1, TRUE>>, FALSE, 4, FALSE, FALSE),
   b |-> Mount(<<1, FALSE>>, FALSE, 1, TRUE, FALSE),
   c |-> Mount(<<1, TRUE>>, FALSE, 1, FALSE, TRUE),
   t |-> Mount(<<1, TRUE>>, TRUE, 1, FALSE, FALSE),
   e |-> Mount(<<1, TRUE>>, FALSE, 4, FALSE, FALSE)]
MCDirs == [da |-> "a", da2 |-> "a", db |-> "b", dc |-> "c", dt |-> "t", de |-> "e", gone |-> NoMount]

Uring == <<"io_uring_direct">>

(* Object storage: two plugins, a mixed submission, empty entries, and a   *)
(* file that resolves the strategy while it is being set.                  *)
Plugged ==
  [plan |-> [t1 |-> << <<Object("S3")>>, <<Object("S3"), Object("GCS")>>, <<Empty("S3")>> >>,
             t2 |-> << <<Object("GCS"), Empty("S3")>>, <<Object("S3")>> >>,
             t3 |-> << <<Null("S3")>>, <<Object("S3")>>, <<FsFile("gone", 1, 1)>> >>],
   maxEngines |-> 1, default |-> <<"io_uring_direct", "libaio_direct">>,
   lists |-> {Uring, <<"libaio_direct">>},
   available |-> {"libaio_direct", "io_uring_buffered", "sync_buffered"},
   credentials |-> {"c1", "c2"}, clients |-> {"w1", "w2"}, mayDie |-> 0,
   hosts |-> {}, opens |-> <<>>, reads |-> 0, environ |-> Plain]

(* Filesystem: mounts and files of every kind, and lists that parse or not, *)
(* that this host can serve or not.                                         *)
Mounted ==
  [plan |-> [t1 |-> << <<FsFile("da", 4, 16), FsFile("db", 4, 16)>>, <<FsFile("da", 4, 16), Missing("dc")>> >>,
             t2 |-> << <<Missing("da"), FsFile("da2", 1, 1), FsFile("dt", 4, 16), FsFile("gone", 4, 16)>>,
                       <<FsFile("dc", 4, 16), FsFile("da", 4, 16)>> >>,
             t3 |-> <<>>],
   maxEngines |-> 1, default |-> <<"io_uring_direct", "libaio_direct">>,
   lists |-> {<<"libaio_direct">>, <<"io_uring_buffered", "sync_buffered">>,
              <<"io_uring_direct", "sync_buffered">>, <<"libaio_direct", "libaio_direct">>},
   available |-> {"libaio_direct", "io_uring_buffered", "sync_buffered"},
   credentials |-> {}, clients |-> {}, mayDie |-> 0,
   hosts |-> {}, opens |-> <<>>, reads |-> 0, environ |-> Plain]

(* Two mounts with an engine each, both of which may die.                  *)
Mortal ==
  [plan |-> [t1 |-> << <<FsFile("da", 4, 16)>>, <<FsFile("de", 4, 16)>> >>,
             t2 |-> << <<FsFile("de", 4, 16)>>, <<FsFile("da", 4, 16)>> >>,
             t3 |-> <<>>],
   maxEngines |-> 2, default |-> <<"uring">>, lists |-> {Uring},
   available |-> {"io_uring_direct", "sync_buffered"},
   credentials |-> {}, clients |-> {}, mayDie |-> 2,
   hosts |-> {}, opens |-> <<>>, reads |-> 0, environ |-> Plain]

(* The plugin's clients: this streamer reads with its workers while        *)
(* another streamer of the process reads or ends, or while it lists.       *)
Hosted(plugin, workers, given, opens, hosts, reads, environment) ==
  [plan |-> [t1 |-> << <<Object(plugin)>> >>, t2 |-> <<>>, t3 |-> <<>>],
   maxEngines |-> 1, default |-> Uring, lists |-> {}, available |-> {"sync_buffered"},
   credentials |-> given, clients |-> workers, mayDie |-> 0,
   hosts |-> hosts, opens |-> opens, reads |-> reads, environ |-> environment]
Open(plugin, k) == [plugin |-> plugin, creds |-> k]

HostedS3 == Hosted("S3", {"w1"}, {}, [f1 |-> Open("S3", "none")], MCHosts, 2, Plain)
HostedKeys == Hosted("S3", {"w1"}, {"c1", "c2"}, [f1 |-> Open("S3", "c1"), l1 |-> Open("GCS", "c2")], MCHosts, 0, Plain)
HostedGCS == Hosted("GCS", {"w1"}, {}, [f1 |-> Open("GCS", "c1")], MCHosts, 1, Plain)
HostedBare == Hosted("Azure", {"w1"}, {"c1"}, <<>>, {"own"}, 1, Bare)
HostedAzure == Hosted("Azure", {"w1", "w2"}, {"blank"}, [l1 |-> Open("Azure", "none")], {"own"}, 1, Plain)

MCSettings == {Plugged, Mounted, Mortal, HostedS3, HostedKeys, HostedGCS, HostedAzure, HostedBare}

(* The same two mounts sharing one engine.                                 *)
Shared == [Mortal EXCEPT !.maxEngines = 1, !.default = Uring, !.lists = {}, !.mayDie = 1]
SharedSettings == {Shared}
=============================================================================

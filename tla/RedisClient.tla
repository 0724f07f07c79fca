------------------------------ MODULE RedisClient ------------------------------
(***************************************************************************)
(* lib/redis/client.py: the client that a URL and keyword arguments make,  *)
(* and the status that is reported of it.  The server is external: whether *)
(* it runs, speaks TLS, is a cluster, and what a cluster says of itself.   *)
(*                                                                         *)
(* A configuration has the scheme of the url, the arguments "ssl" (None    *)
(* when not given), "mode", "redis_hosts" (absent, all well formed, or one *)
(* of them not), and the file given as a certificate.                      *)
(***************************************************************************)
EXTENDS Naturals

CONSTANT None

Schemes == {"", "unix", "redis", "rediss", "http"}
RedisConf == [scheme : Schemes, ssl : {None, TRUE, FALSE}, mode : {"standalone", "cluster", "sentinel"},
              hosts : {None, "good", "bad"}, file : {None, "empty", "readable", "unreadable"}]
RedisServer == [up : BOOLEAN, tls : BOOLEAN, cluster : BOOLEAN, nodes : SUBSET {"master", "fail"},
                state : {"ok", "fail"}]

(* What is left of "ssl": rediss turns it on unless it was given. *)
Ssl(c) == IF c.scheme = "rediss" /\ c.ssl = None THEN TRUE ELSE c.ssl = TRUE
(* '' unsets a file, and files are looked at only when TLS is on. *)
FileError(c) == c.file = "unreadable" /\ Ssl(c)
HostError(c) == c.mode = "cluster" /\ c.hosts = "bad"
ImproperlyConfigured(c) ==
  c.scheme = "http" \/ FileError(c) \/ c.mode \notin {"standalone", "cluster"} \/ HostError(c)
(* Where it connects to: the hosts replace the url's, in a cluster; without either, redis' own default. *)
Target(c) == CASE c.mode = "cluster" /\ c.hosts = "good" -> "hosts"
               [] c.scheme = "unix" -> "socket"
               [] c.scheme \in {"redis", "rediss"} -> "url"
               [] OTHER -> "default"

(* A client of this configuration reaches the server. *)
Connects(c, s) ==
  /\ ~ImproperlyConfigured(c) /\ Target(c) # "default"
  /\ s.up /\ (Target(c) # "socket" => Ssl(c) = s.tls)
  /\ c.mode = "cluster" => s.cluster
(* ... and a command is carried out: a cluster that is not whole refuses them, *)
(* and it sends a client that is not made for one elsewhere. *)
Works(c, s) == Connects(c, s) /\ (s.cluster => c.mode = "cluster" /\ s.state = "ok")

determine_cluster_node_status(nodes) == IF "fail" \in nodes THEN "degraded" ELSE "good"
(* PING is answered by every server; a cluster is asked for its nodes, then for its state. *)
get_redis_status(c, s) ==
  IF ~Connects(c, s) THEN "failed"
  ELSE IF c.mode = "standalone" THEN "good"
  ELSE IF s.state # "ok" THEN "failed"
  ELSE determine_cluster_node_status(s.nodes)
=============================================================================

--------------------------- MODULE CacheInvalidation ---------------------------
(***************************************************************************)
(* lib/cache/redis_cache.py and lib/cache/tasks.py: every node has a Redis *)
(* of its own, and add, set and delete tell the other nodes, through       *)
(* dispatcherd, to drop the key.  Workers write and then publish; messages *)
(* arrive in any order, each node skips its own.  Redis may be away, which *)
(* is ignored; a worker, a message or the answer of Redis may be lost.     *)
(*                                                                         *)
(* Of a value it matters whether it is the one last written anywhere.      *)
(***************************************************************************)
EXTENDS Naturals

CONSTANTS Absent, Nodes, Workers, NodeOf, Keys,
          Dependents,  \* keys that a service's resolver adds to one
          Settings     \* auto: ANSIBLE_BASE_REDIS_AUTO_INVALIDATE, host: CLUSTER_HOST_ID of each node

(* The docstring of DABRedisCache: CLUSTER_HOST_ID is unique, where it is set. *)
ASSUME InvalidationAssumption ==
  /\ Absent \notin Keys \cup {"last", "old"}
  /\ NodeOf \in [Workers -> Nodes]
  /\ Dependents \in [Keys -> SUBSET Keys]
  /\ Settings \subseteq [auto : BOOLEAN, host : [Nodes -> STRING]]
  /\ \A s \in Settings : \A n, m \in Nodes : s.host[n] = s.host[m] /\ s.host[n] # "" => n = m

VARIABLES configured,
          store,    \* what the Redis of each node holds
          writer,   \* of each worker: the key it has written and not published
          msgs,     \* broadcasts on their way
          unheard   \* the last write of a key was, or may have been, kept from a node

invalidationVars == <<configured, store, writer, msgs, unheard>>

InvalidationInit ==
  /\ configured \in Settings
  /\ store = [n \in Nodes |-> [k \in Keys |-> Absent]]
  /\ writer = [w \in Workers |-> Absent]
  /\ msgs = {}
  /\ unheard = [k \in Keys |-> FALSE]

-----------------------------------------------------------------------------
(* Writing                                                                 *)

(* Node n now holds v for k; what the others hold is old. *)
Stored(n, k, v) ==
  store' = [m \in Nodes |-> [store[m] EXCEPT ![k] =
    IF m = n THEN v ELSE IF @ = Absent THEN Absent ELSE "old"]]
Values == {"last", Absent}  \* a value, or the key deleted
(* add, set and delete write, then broadcast; add broadcasts only when it added. *)
Write(w) ==
  /\ writer[w] = Absent
  /\ \E k \in Keys :
       /\ \E v \in Values : Stored(NodeOf[w], k, v)
       /\ writer' = [writer EXCEPT ![w] = k]
       /\ unheard' = [unheard EXCEPT ![k] = FALSE]
  /\ UNCHANGED <<configured, msgs>>
_should_broadcast == configured.auto
(* To all nodes, this one too; nobody is told when the broadcast is off, or cannot be sent. *)
_broadcast_invalidation(w) ==
  /\ writer[w] # Absent
  /\ writer' = [writer EXCEPT ![w] = Absent]
  /\ \/ /\ _should_broadcast
        /\ msgs' = msgs \cup {[to |-> n, key |-> writer[w], origin |-> configured.host[NodeOf[w]]] : n \in Nodes}
        /\ unheard' = unheard
     \/ /\ unheard' = [unheard EXCEPT ![writer[w]] = TRUE]
        /\ msgs' = msgs
  /\ UNCHANGED <<configured, store>>
(***************************************************************************)
(* set_many, delete_many, clear and incr tell nobody, and neither does a   *)
(* write whose answer is lost: the exception, ignored, comes before the    *)
(* broadcast.                                                              *)
(***************************************************************************)
WriteUnheard(w) ==
  /\ writer[w] = Absent
  /\ \E k \in Keys :
       /\ \E v \in Values : Stored(NodeOf[w], k, v)
       /\ unheard' = [unheard EXCEPT ![k] = TRUE]
  /\ UNCHANGED <<configured, writer, msgs>>

-----------------------------------------------------------------------------
(* Being told                                                              *)

(* The keys that clear_cache deletes: those given and, but for a resolver that raises, their dependents. *)
Cleared(keys, resolved) == keys \cup UNION {Dependents[k] : k \in keys \cap resolved}
clear_cache(n, keys, resolved) ==
  store' = [store EXCEPT ![n] = [k \in Keys |-> IF k \in Cleared(keys, resolved) THEN Absent ELSE @[k]]]

SkipsUnnamed(n, m) == m.origin = configured.host[n]
Skips(n, m) == m.origin # "" /\ m.origin = configured.host[n]
(* A broadcast that is on its way twice may arrive again. *)
broadcast_cache_invalidation(m) ==
  /\ m \in msgs
  /\ msgs' \in {msgs, msgs \ {m}}
  /\ IF Skips(m.to, m) THEN store' = store ELSE clear_cache(m.to, {m.key}, {})
  /\ UNCHANGED <<configured, writer, unheard>>
(* It is lost, or the Redis of the node is away when it is handled. *)
Lost(m) ==
  /\ m \in msgs /\ msgs' = msgs \ {m}
  /\ unheard' = [unheard EXCEPT ![m.key] = TRUE]
  /\ UNCHANGED <<configured, store, writer>>
(* A service's own task clears keys with their dependents, on one node after the other. *)
ServiceClears(n) ==
  /\ \E k \in Keys, resolved \in SUBSET Keys : clear_cache(n, {k}, resolved)
  /\ UNCHANGED <<configured, writer, msgs, unheard>>

InvalidationNext ==
  \/ \E w \in Workers : Write(w) \/ _broadcast_invalidation(w) \/ WriteUnheard(w)
  \/ \E m \in msgs : broadcast_cache_invalidation(m) \/ Lost(m)
  \/ \E n \in Nodes : ServiceClears(n)
InvalidationSpec == InvalidationInit /\ [][InvalidationNext]_invalidationVars

-----------------------------------------------------------------------------
(***************************************************************************)
(* docs/lib/cache_invalidation.md: when every broadcast has been handled,  *)
(* no node still holds another value than the one last written, in         *)
(* whatever order nodes wrote and heard of each other, unless the last     *)
(* write was one that is not broadcast or something was lost since.        *)
(***************************************************************************)
CoherentWhenQuiet ==
  \A k \in Keys :
    /\ ~unheard[k]
    /\ \A w \in Workers : writer[w] # k
    /\ \A m \in msgs : m.key # k
    => \A n \in Nodes : store[n][k] # "old"
=============================================================================

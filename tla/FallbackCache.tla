----------------------------- MODULE FallbackCache -----------------------------
(***************************************************************************)
(* lib/cache/fallback_cache.py: a cache made of a primary one, a Redis, and *)
(* a fallback that is used while a file says that the primary failed.      *)
(* Operations of several threads and the recoveries they start run at      *)
(* once: the multiprocessing.Lock() that is taken around their steps is a  *)
(* new lock every time and keeps nobody out.                               *)
(*                                                                         *)
(* One key is enough for what is claimed, and of the value that a cache    *)
(* holds for it whether it is the last one written.  The fallback is one   *)
(* that all threads share; it also holds the two keys of the recovery.     *)
(***************************************************************************)
EXTENDS RedisClient

CONSTANTS Threads,       \* of all processes; a process has one instance of the cache
          InstanceOf,    \* ... the one that a thread uses
          Confs,         \* configurations of the primary cache
          Servers,       \* the states of the Redis server
          Operations,    \* among get, set, add, delete and clear
          MaxTrouble

ASSUME FallbackAssumption == None \notin {"last", "old"}

Instances == {InstanceOf[t] : t \in Threads}

VARIABLES conf, redis,   \* the primary cache and what it runs on
          flag,           \* the file gw_primary_cache_failed is there
          primary, fallback,  \* what they hold: None, the "last" value written, an "old" one
          recoverer,      \* RECOVERY_THREAD_ID, in the fallback
          inProgress,     \* RECOVERY_IN_PROGRESS, in the fallback
          op,             \* the operation of each thread
          recovery,       \* the recovery that each thread has submitted
          old, raced,     \* a read returned an old value; an excuse for that
          trouble

fallbackVars == <<conf, redis, flag, primary, fallback, recoverer, inProgress, op, recovery,
                  old, raced, trouble>>

FallbackInit ==
  /\ conf \in Confs /\ redis \in Servers
  /\ flag = FALSE
  /\ primary = None /\ fallback = None
  /\ recoverer = None /\ inProgress = FALSE
  /\ op = [t \in Threads |-> "idle"]
  /\ recovery = [t \in Threads |-> "none"]
  /\ old = FALSE /\ raced = FALSE
  /\ trouble = 0

PrimaryWorks == Works(conf, redis)
Goes(t, step) == op' = [op EXCEPT ![t] = step]

-----------------------------------------------------------------------------
(* Operations                                                              *)

(***************************************************************************)
(* What an operation leaves in the cache that it is done on, which held v, *)
(* and in the other one.  Which operation it is matters only here, so it   *)
(* is chosen here.                                                         *)
(***************************************************************************)
Writes(o, v) == o \in {"set", "delete", "clear"} \/ (o = "add" /\ v = None)
Here(o, v) == CASE ~Writes(o, v) -> v
                [] o \in {"delete", "clear"} -> None
                [] OTHER -> "last"
There(o, v, other) == IF Writes(o, v) /\ other # None THEN "old" ELSE other
ReadsOld(o, v) == old' = (old \/ (o = "get" /\ v = "old"))

(* _op_with_fallback looks for the file ... *)
Begin(t) ==
  /\ op[t] = "idle"
  /\ Goes(t, IF flag THEN "fallback" ELSE "primary")
  /\ UNCHANGED <<conf, redis, flag, primary, fallback, recoverer, inProgress, recovery,
                 old, raced, trouble>>
(* ... and acts on what it saw. *)
OnPrimary(t) ==
  /\ op[t] = "primary"
  /\ IF PrimaryWorks
     THEN /\ \E o \in Operations :
               /\ primary' = Here(o, primary) /\ fallback' = There(o, primary, fallback)
               /\ ReadsOld(o, primary)
          /\ raced' = (raced \/ flag)
          /\ Goes(t, "idle")
     ELSE Goes(t, "failed") /\ UNCHANGED <<primary, fallback, old, raced>>
  /\ UNCHANGED <<conf, redis, flag, recoverer, inProgress, recovery, trouble>>
(* After a sleep the file is made, there or not. *)
create_temp_file(t) ==
  /\ op[t] = "failed"
  /\ flag' = TRUE
  /\ raced' = (raced \/ (~flag /\ \E u \in Threads : recovery[u] \in {"clear fallback", "unlink"}))
  /\ Goes(t, "late")
  /\ UNCHANGED <<conf, redis, primary, fallback, recoverer, inProgress, recovery, old, trouble>>
OnFallback(t) ==
  /\ op[t] \in {"late", "fallback"}
  /\ \E o \in Operations :
       /\ fallback' = Here(o, fallback) /\ primary' = There(o, fallback, primary)
       /\ ReadsOld(o, fallback)
       /\ IF o = "clear"
          THEN recoverer' = None /\ inProgress' = FALSE ELSE UNCHANGED <<recoverer, inProgress>>
  /\ raced' = (raced \/ ~flag \/ \E u \in Threads : recovery[u] = "unlink")
  /\ Goes(t, IF op[t] = "late" THEN "idle" ELSE "recover?")
  /\ UNCHANGED <<conf, redis, flag, recovery, trouble>>

(* start_recovery: one instance does it, as long as its id is in the fallback, and once at a time ... *)
AskRecoverer(t) ==
  /\ op[t] = "recover?"
  /\ recoverer' = IF recoverer = None THEN InstanceOf[t] ELSE recoverer
  /\ IF recoverer' = InstanceOf[t] /\ ~inProgress THEN Goes(t, "submit") ELSE Goes(t, "idle")
  /\ UNCHANGED <<conf, redis, flag, primary, fallback, inProgress, recovery, old, raced, trouble>>
(* ... and it submits check_primary_cache (bound: one more while the thread's last still runs is not submitted). *)
Submit(t) ==
  /\ op[t] = "submit"
  /\ inProgress' = TRUE
  /\ recovery' = [recovery EXCEPT ![t] = IF @ = "none" THEN "ping" ELSE @]
  /\ Goes(t, "idle")
  /\ UNCHANGED <<conf, redis, flag, primary, fallback, recoverer, old, raced, trouble>>

OpStep(t) == OnPrimary(t) \/ create_temp_file(t) \/ OnFallback(t)
             \/ AskRecoverer(t) \/ Submit(t)

-----------------------------------------------------------------------------
(* check_primary_cache, step by step; however it ends, it takes its mark away *)

Recovers(t, from, to) ==
  /\ recovery[t] = from /\ recovery' = [recovery EXCEPT ![t] = to]
  /\ inProgress' = IF to = "none" THEN FALSE ELSE inProgress
Ping(t) ==
  /\ Recovers(t, "ping", IF PrimaryWorks /\ flag THEN "clear primary" ELSE "none")
  /\ UNCHANGED <<flag, primary, fallback, recoverer>>
ClearNothing(t) ==
  /\ Recovers(t, "clear primary", "clear fallback")
  /\ UNCHANGED <<flag, primary, fallback, recoverer>>
ClearPrimary(t) ==
  /\ Recovers(t, "clear primary", IF PrimaryWorks THEN "clear fallback" ELSE "none")
  /\ primary' = IF PrimaryWorks THEN None ELSE primary
  /\ UNCHANGED <<flag, fallback, recoverer>>
ClearFallback(t) ==
  /\ recovery[t] = "clear fallback" /\ recovery' = [recovery EXCEPT ![t] = "unlink"]
  /\ fallback' = None /\ recoverer' = None /\ inProgress' = FALSE
  /\ UNCHANGED <<flag, primary>>
Unlink(t) ==
  /\ Recovers(t, "unlink", "none")
  /\ flag' = FALSE
  /\ UNCHANGED <<primary, fallback, recoverer>>
RecoveryStep(t) ==
  /\ Ping(t) \/ ClearPrimary(t) \/ ClearFallback(t) \/ Unlink(t)
  /\ UNCHANGED <<conf, redis, op, old, raced, trouble>>

-----------------------------------------------------------------------------
(* The world                                                               *)

ServerChanges ==
  /\ trouble < MaxTrouble /\ trouble' = trouble + 1
  /\ \E s \in Servers \ {redis} : s.cluster = redis.cluster /\ s.tls = redis.tls /\ redis' = s
  /\ UNCHANGED <<conf, flag, primary, fallback, recoverer, inProgress, op, recovery,
                 old, raced>>
KeysStay == FALSE /\ UNCHANGED fallbackVars
(* The keys of the recovery live for 60 seconds, in case whoever set them died: longer than a recovery takes. *)
Expire ==
  /\ recoverer # None \/ inProgress
  /\ \A t \in Threads : recovery[t] = "none"
  /\ recoverer' = None /\ inProgress' = FALSE
  /\ UNCHANGED <<conf, redis, flag, primary, fallback, op, recovery, old, raced, trouble>>
(* A process dies and starts again: __init__ removes the file. *)
Restart(i) ==
  /\ trouble < MaxTrouble /\ trouble' = trouble + 1
  /\ op' = [t \in Threads |-> IF InstanceOf[t] = i THEN "idle" ELSE op[t]]
  /\ recovery' = [t \in Threads |-> IF InstanceOf[t] = i THEN "none" ELSE recovery[t]]
  /\ flag' = FALSE
  /\ raced' = (raced \/ flag)
  /\ UNCHANGED <<conf, redis, primary, fallback, recoverer, inProgress, old>>

FallbackNext ==
  \/ \E t \in Threads : Begin(t) \/ OpStep(t) \/ RecoveryStep(t)
  \/ ServerChanges \/ Expire \/ \E i \in Instances : Restart(i)

(* Somebody goes on using the cache; what a thread began it ends; keys expire. *)
FallbackFairness ==
  /\ WF_fallbackVars(\E t \in Threads : Begin(t))
  /\ \A t \in Threads : WF_fallbackVars(OpStep(t)) /\ WF_fallbackVars(RecoveryStep(t))
  /\ WF_fallbackVars(Expire)
FallbackSpec == FallbackInit /\ [][FallbackNext]_fallbackVars /\ FallbackFairness

-----------------------------------------------------------------------------
(***************************************************************************)
(* fallback_cache.py:105-109: both caches are cleared before the primary   *)
(* is used again, "just incase we need to fall back again (don't want it   *)
(* out of sync)".  What was overwritten is never read again, unless        *)
(* somebody wrote to a cache after the file had come or gone since it      *)
(* looked, or between the two clearings and the end of a recovery, or a    *)
(* process started while the fallback was in use.                          *)
(***************************************************************************)
OldValuesNeedARace == old => raced

(***************************************************************************)
(* fallback_cache.py:89-113: once the status that get_redis_status reports *)
(* of the primary is and stays good, the cache returns to it for good,     *)
(* whoever died while he was recovering it.                                *)
(***************************************************************************)
StatusGood == get_redis_status(conf, redis) # "failed"
EventuallyRecovered == <>[]StatusGood => <>[]~flag
=============================================================================

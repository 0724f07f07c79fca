----------------------------- MODULE AdvisoryLock -----------------------------
(***************************************************************************)
(* lib/utils/db.py: advisory_lock and django_pglocks_advisory_lock, named  *)
(* locks made of PostgreSQL's session level advisory locks.  Blocks nest,  *)
(* and run inside or outside of a transaction; the server may end a        *)
(* session, by the timeouts that the lock itself sets or otherwise, and    *)
(* the locks of the session go with it; code inside a block may close the  *)
(* connection and go on with another one.                                  *)
(*                                                                         *)
(* A lock is entered in "locks" with the level of the block that took it:  *)
(* PostgreSQL counts the locks of a session, and they are released in the  *)
(* reverse order.  Level 0 is for locks whose block ended and left them.   *)
(***************************************************************************)
EXTENDS Naturals

CONSTANTS Procs,      \* processes, each with one connection
          Ids,        \* keys of advisory locks
          Depth,      \* blocks a process has open at once, one inside the other
          Names,      \* what callers name locks by
          KeyOf,      \* the key of each: the crc32 of a string, an int, two ints
          Requests,   \* the ways in which blocks are opened
          MaxAsks, MaxFaults

Levels == 1 .. Depth
ASSUME LockAssumption ==
  /\ Ids # {} /\ Depth \in Nat /\ MaxAsks \in Nat /\ MaxFaults \in Nat
  /\ KeyOf \in [Names -> Ids]
  /\ Requests \subseteq [name : Names, shared : BOOLEAN, wait : BOOLEAN, timed : BOOLEAN]

VARIABLES conn,     \* the connection of a process: "none", "open", or "dead" on the server
          idle,     \* the idle timeouts of its session: the "default", or the "lock"'s
          tx,       \* its transaction
          depth,    \* the blocks it has open
          frame,    \* of each open block what advisory_lock has in its variables
          asked,    \* the lock it waits for
          locks,    \* the server's table of advisory locks
          outcome,  \* how the last block of each process ended
          spoiled,  \* the session, or one before it that saw a block still open, has seen one fail
          asks, faults

lockVars == <<conn, idle, tx, depth, frame, asked, locks, outcome, spoiled, asks, faults>>

IdleTimeouts == {"default", "lock"}
NoTx == [on |-> FALSE, at |-> 0, aborted |-> FALSE, idle |-> "default"]
NoFrame == [id |-> CHOOSE i \in Ids : TRUE, shared |-> FALSE, got |-> FALSE, live |-> FALSE,
            timed |-> FALSE, saved |-> "default"]
NotAsked == [on |-> FALSE, id |-> CHOOSE i \in Ids : TRUE, shared |-> FALSE, wait |-> FALSE,
             timed |-> FALSE, saved |-> "default"]

LockInit ==
  /\ conn = [p \in Procs |-> "none"]
  /\ idle = [p \in Procs |-> "default"]
  /\ tx = [p \in Procs |-> NoTx]
  /\ depth = [p \in Procs |-> 0]
  /\ frame = [p \in Procs |-> [d \in Levels |-> NoFrame]]
  /\ asked = [p \in Procs |-> NotAsked]
  /\ locks = {}
  /\ outcome = [p \in Procs |-> "none"]
  /\ spoiled = [p \in Procs |-> FALSE]
  /\ asks = 0 /\ faults = 0

Running(p) == ~asked[p].on
Aborted(p) == tx[p].on /\ tx[p].aborted
LocksOf(p) == {l \in locks : l.proc = p}
(* pg_try_advisory_lock and its kin: locks of the same session never conflict. *)
Grantable(p, id, shared) ==
  \A l \in locks : l.proc # p /\ l.id = id => l.shared /\ shared

(* Everything that the end of a session takes along. *)
SessionEnds(p, c) ==
  /\ conn' = [conn EXCEPT ![p] = c]
  /\ idle' = [idle EXCEPT ![p] = "default"]
  /\ locks' = locks \ LocksOf(p)
  /\ frame' = [frame EXCEPT ![p] = [d \in Levels |-> [@[d] EXCEPT !.live = FALSE]]]
  /\ spoiled' = [spoiled EXCEPT ![p] = @ /\ depth[p] > 0]

-----------------------------------------------------------------------------
(* Opening a block                                                         *)

(* The timeouts are read and set, and the lock is asked for. *)
Ask(p) ==
  /\ Running(p) /\ depth[p] < Depth /\ conn[p] # "dead" /\ ~Aborted(p)
  /\ asks < MaxAsks
  /\ \E r \in Requests :
       /\ asked' = [asked EXCEPT ![p] = [on |-> TRUE, id |-> KeyOf[r.name], shared |-> r.shared,
                                         wait |-> r.wait, timed |-> r.timed, saved |-> idle[p]]]
       /\ idle' = [idle EXCEPT ![p] = IF r.timed THEN "lock" ELSE @]
  /\ conn' = [conn EXCEPT ![p] = "open"]
  /\ asks' = asks + 1
  /\ UNCHANGED <<tx, depth, frame, locks, outcome, spoiled, faults>>

Opens(p, got) ==
  LET a == asked[p] IN
  /\ depth' = [depth EXCEPT ![p] = @ + 1]
  /\ frame' = [frame EXCEPT ![p][depth[p] + 1] =
       [id |-> a.id, shared |-> a.shared, got |-> got, live |-> TRUE, timed |-> a.timed, saved |-> a.saved]]
  /\ asked' = [asked EXCEPT ![p] = NotAsked]
  /\ UNCHANGED <<conn, idle, tx, outcome, spoiled, asks, faults>>
Granted(p) ==
  LET a == asked[p] IN
  /\ a.on /\ conn[p] = "open" /\ Grantable(p, a.id, a.shared)
  /\ locks' = locks \cup {[proc |-> p, level |-> depth[p] + 1, id |-> a.id, shared |-> a.shared]}
  /\ Opens(p, TRUE)
(* wait=False: the block runs without the lock. *)
Refused(p) ==
  LET a == asked[p] IN
  /\ a.on /\ conn[p] = "open" /\ ~a.wait /\ ~Grantable(p, a.id, a.shared)
  /\ locks' = locks
  /\ Opens(p, FALSE)

(***************************************************************************)
(* The server gives up the wait (a deadlock, lock_timeout, a cancelled     *)
(* statement): an OperationalError on a connection that is still good.     *)
(* Nothing is dropped, and the timeouts are not set back.                  *)
(***************************************************************************)
WaitCancelled(p) ==
  LET a == asked[p] IN
  /\ a.on /\ a.wait /\ conn[p] = "open" /\ ~Grantable(p, a.id, a.shared)
  /\ faults < MaxFaults /\ faults' = faults + 1
  /\ asked' = [asked EXCEPT ![p] = NotAsked]
  /\ tx' = [tx EXCEPT ![p].aborted = tx[p].on]
  /\ spoiled' = [spoiled EXCEPT ![p] = TRUE]
  /\ UNCHANGED <<conn, idle, depth, frame, locks, outcome, asks>>
(* The session ended while it waited: outside of a transaction the connection is dropped. *)
WaitBroken(p) ==
  /\ asked[p].on /\ conn[p] = "dead"
  /\ asked' = [asked EXCEPT ![p] = NotAsked]
  /\ conn' = [conn EXCEPT ![p] = IF tx[p].on THEN @ ELSE "none"]
  /\ UNCHANGED <<idle, tx, depth, frame, locks, outcome, spoiled, asks, faults>>

-----------------------------------------------------------------------------
(* Closing it: the lock is released, the connection dropped after an       *)
(* OperationalError if it is no longer good, the timeouts set back after   *)
(* anything else.  The block may raise an OperationalError on a connection *)
(* that is good, in a transaction or not: the lock is released and the     *)
(* timeouts stay as they are.                                              *)

(* What the release leaves to be raised: on a broken connection or in a failed transaction it raises itself. *)
AfterSwallowing(p, f, error) == IF f.got /\ ~f.live THEN {"no"} ELSE {error}
AfterRelease(p, f, error) ==
  IF ~f.got THEN {error}
  ELSE IF ~f.live THEN {"operational", "other"}
  ELSE IF Aborted(p) THEN {"other"} ELSE {error}
Mine(p) == {l \in locks : l.proc = p /\ l.level = depth[p]}
ReleaseExclusive(p, f) == locks' = IF f.got /\ f.live /\ ~f.shared THEN locks \ Mine(p) ELSE locks
Release(p, f) ==
  locks' = IF ~(f.got /\ f.live) THEN locks
           ELSE IF Aborted(p) THEN (locks \ Mine(p)) \cup {[l EXCEPT !.level = 0] : l \in Mine(p)}
           ELSE locks \ Mine(p)
Close(p, error) ==
  LET f == frame[p][depth[p]] IN
  /\ Running(p) /\ depth[p] > 0 /\ (tx[p].on => tx[p].at < depth[p])
  /\ Release(p, f)
  /\ \E e \in AfterRelease(p, f, error) :
       LET restores == e # "operational" /\ f.timed
           fails == restores /\ (conn[p] = "dead" \/ Aborted(p))
           well == e = "no" /\ ~fails
       IN /\ conn' = [conn EXCEPT ![p] = IF e = "operational" /\ @ = "dead" /\ ~tx[p].on THEN "none"
                                        ELSE IF restores /\ @ = "none" THEN "open" ELSE @]
          /\ idle' = [idle EXCEPT ![p] = IF restores /\ ~fails THEN f.saved ELSE @]
          /\ outcome' = [outcome EXCEPT ![p] = IF well THEN "well" ELSE "failed"]
          /\ spoiled' = [spoiled EXCEPT ![p] = @ \/ ~well]
  /\ depth' = [depth EXCEPT ![p] = @ - 1]
  /\ frame' = [frame EXCEPT ![p][depth[p]] = NoFrame]
  /\ UNCHANGED <<tx, asked, asks, faults>>

-----------------------------------------------------------------------------
(* What else happens on the connection                                     *)

BeginTx(p) ==
  /\ Running(p) /\ ~tx[p].on /\ conn[p] # "dead"
  /\ tx' = [tx EXCEPT ![p] = [on |-> TRUE, at |-> depth[p], aborted |-> FALSE, idle |-> idle[p]]]
  /\ conn' = [conn EXCEPT ![p] = "open"]
  /\ UNCHANGED <<idle, depth, frame, asked, locks, outcome, spoiled, asks, faults>>
(* SET is undone by a rollback, an advisory lock of the session is not. *)
EndTx(p, commit) ==
  /\ Running(p) /\ tx[p].on /\ tx[p].at = depth[p]
  /\ commit => ~tx[p].aborted /\ conn[p] = "open"
  /\ tx' = [tx EXCEPT ![p] = NoTx]
  /\ idle' = [idle EXCEPT ![p] = IF commit \/ conn[p] = "dead" THEN @ ELSE tx[p].idle]
  /\ conn' = [conn EXCEPT ![p] = IF @ = "dead" THEN "none" ELSE @]
  /\ UNCHANGED <<depth, frame, asked, locks, outcome, spoiled, asks, faults>>
StatementFails(p) ==
  /\ Running(p) /\ tx[p].on /\ ~tx[p].aborted /\ conn[p] = "open"
  /\ faults < MaxFaults /\ faults' = faults + 1
  /\ tx' = [tx EXCEPT ![p].aborted = TRUE]
  /\ UNCHANGED <<conn, idle, depth, frame, asked, locks, outcome, spoiled, asks>>
(* The idle timeouts, an administrator, a restart. *)
SessionKilled(p) ==
  /\ conn[p] = "open"
  /\ faults < MaxFaults /\ faults' = faults + 1
  /\ SessionEnds(p, "dead")
  /\ UNCHANGED <<tx, depth, asked, outcome, asks>>
(* Django's close_old_connections, at the end of a request or in a long task. *)
CloseConnection(p) ==
  /\ Running(p) /\ ~tx[p].on /\ conn[p] # "none"
  /\ SessionEnds(p, "none")
  /\ UNCHANGED <<tx, depth, asked, outcome, asks, faults>>

LockNext ==
  \E p \in Procs :
    \/ Ask(p) \/ Granted(p) \/ Refused(p) \/ WaitCancelled(p) \/ WaitBroken(p)
    \/ \E error \in {"no", "operational", "other"} : Close(p, error)
    \/ BeginTx(p) \/ StatementFails(p) \/ SessionKilled(p) \/ CloseConnection(p)
    \/ \E commit \in BOOLEAN : EndTx(p, commit)
LockSpec == LockInit /\ [][LockNext]_lockVars

-----------------------------------------------------------------------------
LockTypeOK ==
  /\ conn \in [Procs -> {"none", "open", "dead"}]
  /\ idle \in [Procs -> IdleTimeouts]
  /\ tx \in [Procs -> [on : BOOLEAN, at : 0 .. Depth, aborted : BOOLEAN, idle : IdleTimeouts]]
  /\ depth \in [Procs -> 0 .. Depth]
  /\ frame \in [Procs -> [Levels -> [id : Ids, shared : BOOLEAN, got : BOOLEAN, live : BOOLEAN,
                                     timed : BOOLEAN, saved : IdleTimeouts]]]
  /\ asked \in [Procs -> [on : BOOLEAN, id : Ids, shared : BOOLEAN, wait : BOOLEAN,
                          timed : BOOLEAN, saved : IdleTimeouts]]
  /\ locks \subseteq [proc : Procs, level : 0 .. Depth, id : Ids, shared : BOOLEAN]
  /\ outcome \in [Procs -> {"none", "well", "failed"}]
  /\ spoiled \in [Procs -> BOOLEAN]
  /\ asks \in 0 .. MaxAsks /\ faults \in 0 .. MaxFaults

(***************************************************************************)
(* db.py:116-125 and 162-166: a session none of whose blocks failed is     *)
(* left as it was found, without a lock and with the timeouts it had.      *)
(* After a failure it need not be: in a failed transaction neither the     *)
(* release nor the timeouts can be sent, and a block opened then sets the  *)
(* timeouts it found, on whatever connection there is, when it ends.       *)
(***************************************************************************)
CleanUnlessFailed ==
  \A p \in Procs : depth[p] = 0 /\ Running(p) /\ ~spoiled[p] =>
    LocksOf(p) = {} /\ idle[p] = "default"

(***************************************************************************)
(* The blocks as their callers see them: advisory_lock keeps the promise   *)
(* of NamedLock, that blocks exclude each other while they have their      *)
(* lock and that a block which lost it ends with an error.                 *)
(***************************************************************************)
Seen == [p \in Procs |-> [d \in Levels |->
  IF d > depth[p] THEN [id |-> CHOOSE i \in Ids : TRUE, shared |-> FALSE, status |-> "none"]
  ELSE [id |-> frame[p][d].id, shared |-> frame[p][d].shared,
        status |-> IF ~frame[p][d].got THEN "refused"
                   ELSE IF frame[p][d].live THEN "held" ELSE "lost"]]]
Promise == INSTANCE NamedLock WITH blocks <- Seen, ended <- outcome
IsNamedLock == Promise!ASpec
=============================================================================

------------------------------ MODULE ServiceProofs ------------------------------
(***************************************************************************)
(* Theorems of four modules that have no state in common, for every value  *)
(* of their constants.  AdvisoryLock implements NamedLock, its sessions    *)
(* are left clean, and its blocks exclude each other, which it has from    *)
(* NamedLock.  Of CacheInvalidation, nodes that have heard everything      *)
(* agree; of FallbackCache, an old value is read only after a race; of     *)
(* ResourceSync, the periodic sync deletes only what is gone.              *)
(***************************************************************************)
EXTENDS AdvisoryLock, FallbackCache, CacheInvalidation, ResourceSync, TLAPS

-----------------------------------------------------------------------------
(***************************************************************************)
(* Named locks                                                             *)
(***************************************************************************)
(* An action is taken by one process; what the lemmas below need of it. *)
Act(p) ==
  \/ Ask(p) \/ Granted(p) \/ Refused(p) \/ WaitCancelled(p) \/ WaitBroken(p)
  \/ \E error \in {"no", "operational", "other"} : Close(p, error)
  \/ BeginTx(p) \/ StatementFails(p) \/ SessionKilled(p) \/ CloseConnection(p)
  \/ \E commit \in BOOLEAN : EndTx(p, commit)

AskType == [on : BOOLEAN, id : Ids, shared : BOOLEAN, wait : BOOLEAN, timed : BOOLEAN, saved : IdleTimeouts]
FrameType == [id : Ids, shared : BOOLEAN, got : BOOLEAN, live : BOOLEAN, timed : BOOLEAN, saved : IdleTimeouts]
TxType == [on : BOOLEAN, at : 0 .. Depth, aborted : BOOLEAN, idle : IdleTimeouts]
LockType == [proc : Procs, level : 0 .. Depth, id : Ids, shared : BOOLEAN]

-----------------------------------------------------------------------------
(* The types                                                               *)

(* A block is only asked for when there is room for it. *)
Room == \A p \in Procs : asked[p].on => depth[p] < Depth

LEMMA NoneTyped == NoFrame \in FrameType /\ NotAsked \in AskType /\ NoTx \in TxType
  BY LockAssumption DEF NoFrame, NotAsked, NoTx, FrameType, AskType, TxType, IdleTimeouts

LEMMA TypeInit == LockInit => LockTypeOK /\ Room
  BY NoneTyped, LockAssumption DEF LockInit, LockTypeOK, Room, FrameType, AskType, TxType, IdleTimeouts, NotAsked

LEMMA Dying ==
  ASSUME NEW f \in FrameType
  PROVE  /\ [f EXCEPT !.live = FALSE] \in FrameType
         /\ [f EXCEPT !.live = FALSE].id = f.id /\ [f EXCEPT !.live = FALSE].shared = f.shared
         /\ [f EXCEPT !.live = FALSE].got = f.got /\ [f EXCEPT !.live = FALSE].live = FALSE
         /\ [f EXCEPT !.live = FALSE].timed = f.timed /\ [f EXCEPT !.live = FALSE].saved = f.saved
  BY DEF FrameType

LEMMA Failing ==
  ASSUME NEW t \in TxType, NEW b \in BOOLEAN
  PROVE  /\ [t EXCEPT !.aborted = b] \in TxType
         /\ [t EXCEPT !.aborted = b].on = t.on /\ [t EXCEPT !.aborted = b].at = t.at
         /\ [t EXCEPT !.aborted = b].idle = t.idle /\ [t EXCEPT !.aborted = b].aborted = b
  BY DEF TxType

LEMMA Leaving ==
  ASSUME NEW l \in LockType
  PROVE  [l EXCEPT !.level = 0] \in LockType /\ [l EXCEPT !.level = 0].proc = l.proc
  BY LockAssumption DEF LockType

(* The end of a session changes no type. *)
LEMMA SessionEndsTyped ==
  ASSUME LockTypeOK, NEW p \in Procs, NEW c \in {"none", "open", "dead"}, SessionEnds(p, c)
  PROVE  /\ conn' \in [Procs -> {"none", "open", "dead"}]
         /\ idle' \in [Procs -> IdleTimeouts]
         /\ locks' \subseteq LockType
         /\ frame' \in [Procs -> [Levels -> FrameType]]
         /\ spoiled' \in [Procs -> BOOLEAN]
<1>0. \A d \in Levels : frame[p][d] \in FrameType
  BY DEF LockTypeOK, FrameType
<1>1. \A d \in Levels : [frame[p][d] EXCEPT !.live = FALSE] \in FrameType
  BY <1>0, Dying
<1>2. frame' \in [Procs -> [Levels -> FrameType]]
  BY <1>1 DEF SessionEnds, LockTypeOK, FrameType
<1>. QED BY <1>2 DEF SessionEnds, LockTypeOK, IdleTimeouts, LockType

LEMMA OpensTyped ==
  ASSUME LockTypeOK, Room, NEW p \in Procs, asked[p].on, NEW got \in BOOLEAN, Opens(p, got)
  PROVE  /\ depth' = [depth EXCEPT ![p] = depth[p] + 1] /\ depth[p] + 1 \in Levels
         /\ depth' \in [Procs -> 0 .. Depth]
         /\ frame' \in [Procs -> [Levels -> FrameType]]
         /\ asked' \in [Procs -> AskType] /\ asked' = [asked EXCEPT ![p] = NotAsked]
<1>1. depth[p] + 1 \in Levels
  BY LockAssumption DEF LockTypeOK, Room, Levels
<1>2. [id |-> asked[p].id, shared |-> asked[p].shared, got |-> got, live |-> TRUE,
       timed |-> asked[p].timed, saved |-> asked[p].saved] \in FrameType
  BY DEF LockTypeOK, FrameType
<1>. QED BY <1>1, <1>2, NoneTyped, LockAssumption DEF Opens, LockTypeOK, Levels, FrameType, AskType

LEMMA TypeStep ==
  ASSUME LockTypeOK, Room, NEW p \in Procs, Act(p)
  PROVE  LockTypeOK' /\ Room'
<1>. USE LockAssumption
<1>1. CASE Ask(p)
  <2>. PICK r \in Requests :
         /\ asked' = [asked EXCEPT ![p] = [on |-> TRUE, id |-> KeyOf[r.name], shared |-> r.shared,
                                           wait |-> r.wait, timed |-> r.timed, saved |-> idle[p]]]
         /\ idle' = [idle EXCEPT ![p] = IF r.timed THEN "lock" ELSE @]
    BY <1>1 DEF Ask
  <2>1. [on |-> TRUE, id |-> KeyOf[r.name], shared |-> r.shared, wait |-> r.wait, timed |-> r.timed,
         saved |-> idle[p]] \in AskType
    BY DEF AskType, LockTypeOK
  <2>2. asked' \in [Procs -> AskType] /\ idle' \in [Procs -> IdleTimeouts]
    BY <2>1 DEF LockTypeOK, AskType, IdleTimeouts
  <2>3. Room'
    BY <1>1 DEF Room, Ask, LockTypeOK
  <2>. QED BY <1>1, <2>2, <2>3 DEF Ask, LockTypeOK, AskType
<1>2. CASE Granted(p)
  <2>1. Opens(p, TRUE) /\ asked[p].on
    BY <1>2 DEF Granted
  <2>2. /\ depth' \in [Procs -> 0 .. Depth] /\ frame' \in [Procs -> [Levels -> FrameType]]
        /\ asked' \in [Procs -> AskType] /\ asked' = [asked EXCEPT ![p] = NotAsked]
        /\ depth' = [depth EXCEPT ![p] = depth[p] + 1] /\ depth[p] + 1 \in Levels
    BY <2>1, OpensTyped
  <2>3. locks' \subseteq LockType
    BY <1>2, <2>2 DEF Granted, LockTypeOK, LockType, Levels
  <2>4. Room'
    BY <2>2 DEF Room, NotAsked, LockTypeOK
  <2>. QED BY <2>1, <2>2, <2>3, <2>4 DEF Opens, LockTypeOK, FrameType, AskType, LockType
<1>3. CASE Refused(p)
  <2>1. Opens(p, FALSE) /\ asked[p].on
    BY <1>3 DEF Refused
  <2>2. /\ depth' \in [Procs -> 0 .. Depth] /\ frame' \in [Procs -> [Levels -> FrameType]]
        /\ asked' \in [Procs -> AskType] /\ asked' = [asked EXCEPT ![p] = NotAsked]
        /\ depth' = [depth EXCEPT ![p] = depth[p] + 1] /\ depth[p] + 1 \in Levels
    BY <2>1, OpensTyped
  <2>3. Room'
    BY <2>2 DEF Room, NotAsked, LockTypeOK
  <2>. QED BY <1>3, <2>1, <2>2, <2>3 DEF Refused, Opens, LockTypeOK, FrameType, AskType
<1>4. CASE WaitCancelled(p)
  <2>1. asked' \in [Procs -> AskType] /\ Room'
    BY <1>4, NoneTyped DEF WaitCancelled, LockTypeOK, AskType, Room, NotAsked
  <2>2. tx' \in [Procs -> TxType]
    <3> DEFINE t == [tx[p] EXCEPT !.aborted = tx[p].on]
    <3>1. tx[p] \in TxType /\ tx[p].on \in BOOLEAN
      BY DEF LockTypeOK, TxType
    <3>2. t \in TxType
      BY <3>1, Failing
    <3>3. tx' = [tx EXCEPT ![p] = t]
      BY <1>4 DEF WaitCancelled
    <3> HIDE DEF t
    <3>. QED BY <3>2, <3>3 DEF LockTypeOK, TxType
  <2>. QED BY <1>4, <2>1, <2>2 DEF WaitCancelled, LockTypeOK, AskType, TxType
<1>5. CASE WaitBroken(p)
  <2>1. asked' \in [Procs -> AskType] /\ Room'
    BY <1>5, NoneTyped DEF WaitBroken, LockTypeOK, AskType, Room, NotAsked
  <2>. QED BY <1>5, <2>1 DEF WaitBroken, LockTypeOK, AskType
<1>6. ASSUME NEW error \in {"no", "operational", "other"}, Close(p, error) PROVE LockTypeOK' /\ Room'
  <2>1. depth[p] \in 1 .. Depth /\ depth[p] \in Levels /\ depth' = [depth EXCEPT ![p] = depth[p] - 1]
    BY <1>6 DEF Close, LockTypeOK, Levels
  <2>2. frame' \in [Procs -> [Levels -> FrameType]]
    BY <1>6, <2>1, NoneTyped DEF Close, LockTypeOK, FrameType
  <2>3. frame[p][depth[p]] \in FrameType
    BY <2>1 DEF LockTypeOK, FrameType
  <2>4. locks' \subseteq LockType
    <3>1. \A l \in Mine(p) : [l EXCEPT !.level = 0] \in LockType
      BY Leaving DEF Mine, LockTypeOK, LockType
    <3>2. locks' \in {locks, (locks \ Mine(p)) \cup {[l EXCEPT !.level = 0] : l \in Mine(p)}, locks \ Mine(p)}
      BY <1>6 DEF Close, Release
    <3>. QED BY <3>1, <3>2 DEF LockTypeOK, LockType
  <2>5. /\ conn' \in [Procs -> {"none", "open", "dead"}] /\ idle' \in [Procs -> IdleTimeouts]
        /\ outcome' \in [Procs -> {"none", "well", "failed"}] /\ spoiled' \in [Procs -> BOOLEAN]
    BY <1>6, <2>3 DEF Close, LockTypeOK, FrameType
  <2>6. depth' \in [Procs -> 0 .. Depth] /\ Room'
    BY <1>6, <2>1 DEF Close, Room, Running, LockTypeOK
  <2>. QED BY <1>6, <2>2, <2>4, <2>5, <2>6 DEF Close, LockTypeOK, FrameType, LockType
<1>7. CASE BeginTx(p)
  <2>1. tx' \in [Procs -> TxType]
    BY <1>7 DEF BeginTx, LockTypeOK, TxType
  <2>. QED BY <1>7, <2>1 DEF BeginTx, LockTypeOK, TxType, Room
<1>8. CASE StatementFails(p)
  <2>1. tx' \in [Procs -> TxType]
    <3> DEFINE t == [tx[p] EXCEPT !.aborted = TRUE]
    <3>1. tx[p] \in TxType
      BY DEF LockTypeOK, TxType
    <3>2. t \in TxType
      BY <3>1, Failing
    <3>3. tx' = [tx EXCEPT ![p] = t]
      BY <1>8 DEF StatementFails
    <3> HIDE DEF t
    <3>. QED BY <3>2, <3>3 DEF LockTypeOK, TxType
  <2>. QED BY <1>8, <2>1 DEF StatementFails, LockTypeOK, TxType, Room
<1>9. CASE SessionKilled(p)
  <2>1. SessionEnds(p, "dead")
    BY <1>9 DEF SessionKilled
  <2>. QED BY <1>9, <2>1, SessionEndsTyped DEF SessionKilled, LockTypeOK, FrameType, LockType, Room
<1>10. CASE CloseConnection(p)
  <2>1. SessionEnds(p, "none")
    BY <1>10 DEF CloseConnection
  <2>. QED BY <1>10, <2>1, SessionEndsTyped DEF CloseConnection, LockTypeOK, FrameType, LockType, Room
<1>11. ASSUME NEW commit \in BOOLEAN, EndTx(p, commit) PROVE LockTypeOK' /\ Room'
  <2>1. tx' \in [Procs -> TxType] /\ idle' \in [Procs -> IdleTimeouts]
    BY <1>11, NoneTyped DEF EndTx, LockTypeOK, TxType
  <2>. QED BY <1>11, <2>1 DEF EndTx, LockTypeOK, TxType, Room
<1>. QED BY <1>1, <1>2, <1>3, <1>4, <1>5, <1>6, <1>7, <1>8, <1>9, <1>10, <1>11 DEF Act

-----------------------------------------------------------------------------
(* Who is told that he has a lock has it                                   *)

LockOf(p, d) == [proc |-> p, level |-> d, id |-> frame[p][d].id, shared |-> frame[p][d].shared]
Held == \A p \in Procs : \A d \in Levels :
  d <= depth[p] /\ frame[p][d].got /\ frame[p][d].live => LockOf(p, d) \in locks

(* The end of a session takes the locks of the process, and tells its blocks. *)
LEMMA SessionEndsHeld ==
  ASSUME LockTypeOK, NEW p \in Procs, NEW c, SessionEnds(p, c)
  PROVE  /\ \A q \in Procs \ {p} : frame'[q] = frame[q]
         /\ \A d \in Levels :
              /\ frame'[p][d].id = frame[p][d].id /\ frame'[p][d].shared = frame[p][d].shared
              /\ frame'[p][d].got = frame[p][d].got /\ ~frame'[p][d].live
              /\ frame'[p][d].timed = frame[p][d].timed /\ frame'[p][d].saved = frame[p][d].saved
         /\ \A l \in locks : l.proc # p => l \in locks'
         /\ \A l \in locks' : l \in locks /\ l.proc # p
<1>1. \A d \in Levels : frame[p][d] \in FrameType
  BY DEF LockTypeOK, FrameType
<1>2. \A d \in Levels : frame'[p][d] = [frame[p][d] EXCEPT !.live = FALSE]
  BY DEF SessionEnds, LockTypeOK
<1>3. \A q \in Procs \ {p} : frame'[q] = frame[q]
  BY DEF SessionEnds, LockTypeOK
<1>. QED BY <1>1, <1>2, <1>3, Dying DEF SessionEnds, LocksOf

LEMMA HeldStep ==
  ASSUME LockTypeOK, Room, Held, NEW p \in Procs, Act(p)
  PROVE  Held'
<1>. USE LockAssumption
<1>1. ASSUME UNCHANGED <<depth, frame, locks>> PROVE Held'
  BY <1>1 DEF Held, LockOf
<1>2. ASSUME NEW c, SessionEnds(p, c), depth' = depth PROVE Held'
  BY <1>2, SessionEndsHeld DEF Held, LockOf
<1>3. CASE Granted(p)
  <2>1. Opens(p, TRUE) /\ asked[p].on
    BY <1>3 DEF Granted
  <2>2. depth' = [depth EXCEPT ![p] = depth[p] + 1] /\ depth[p] + 1 \in Levels
    BY <2>1, OpensTyped
  <2>. DEFINE n == depth[p] + 1
  <2>3. /\ locks \subseteq locks'
        /\ [proc |-> p, level |-> n, id |-> asked[p].id, shared |-> asked[p].shared] \in locks'
    BY <1>3 DEF Granted
  <2>4. /\ frame'[p][n].id = asked[p].id /\ frame'[p][n].shared = asked[p].shared
        /\ \A q \in Procs, d \in Levels : q # p \/ d # n => frame'[q][d] = frame[q][d]
    BY <2>1, <2>2 DEF Opens, LockTypeOK
  <2>. SUFFICES ASSUME NEW q \in Procs, NEW d \in Levels, d <= depth'[q], frame'[q][d].got, frame'[q][d].live
                PROVE  LockOf(q, d)' \in locks'
    BY DEF Held
  <2>5. CASE q = p /\ d = n
    BY <2>3, <2>4, <2>5 DEF LockOf
  <2>6. CASE ~(q = p /\ d = n)
    <3>1. frame'[q][d] = frame[q][d] /\ d <= depth[q]
      BY <2>2, <2>4, <2>6 DEF LockTypeOK, Levels
    <3>. QED BY <3>1, <2>3 DEF LockOf, Held
  <2>. QED BY <2>5, <2>6
<1>4. CASE Refused(p)
  <2>1. Opens(p, FALSE) /\ asked[p].on /\ locks' = locks
    BY <1>4 DEF Refused
  <2>2. depth' = [depth EXCEPT ![p] = depth[p] + 1] /\ depth[p] + 1 \in Levels
    BY <2>1, OpensTyped
  <2>. DEFINE n == depth[p] + 1
  <2>3. /\ ~frame'[p][n].got
        /\ \A q \in Procs, d \in Levels : q # p \/ d # n => frame'[q][d] = frame[q][d]
    BY <2>1, <2>2 DEF Opens, LockTypeOK
  <2>. SUFFICES ASSUME NEW q \in Procs, NEW d \in Levels, d <= depth'[q], frame'[q][d].got, frame'[q][d].live
                PROVE  LockOf(q, d)' \in locks'
    BY DEF Held
  <2>4. frame'[q][d] = frame[q][d] /\ d <= depth[q]
    BY <2>2, <2>3 DEF LockTypeOK, Levels
  <2>. QED BY <2>1, <2>4 DEF LockOf, Held
<1>5. ASSUME NEW error \in {"no", "operational", "other"}, Close(p, error) PROVE Held'
  <2>1. depth[p] \in Levels /\ depth' = [depth EXCEPT ![p] = depth[p] - 1]
    BY <1>5 DEF Close, LockTypeOK, Levels
  <2>2. \A q \in Procs, d \in Levels : q # p \/ d # depth[p] => frame'[q][d] = frame[q][d]
    BY <1>5, <2>1 DEF Close, LockTypeOK
  <2>3. \A l \in locks : l \notin Mine(p) => l \in locks'
    BY <1>5 DEF Close, Release
  <2>. SUFFICES ASSUME NEW q \in Procs, NEW d \in Levels, d <= depth'[q], frame'[q][d].got, frame'[q][d].live
                PROVE  LockOf(q, d)' \in locks'
    BY DEF Held
  <2>4. d <= depth[q] /\ (q = p => d # depth[p])
    BY <2>1 DEF LockTypeOK, Levels
  <2>5. LockOf(q, d) \in locks /\ LockOf(q, d)' = LockOf(q, d)
    BY <2>2, <2>4 DEF LockOf, Held
  <2>6. LockOf(q, d) \notin Mine(p)
    BY <2>4 DEF LockOf, Mine
  <2>. QED BY <2>3, <2>5, <2>6
<1>6. Ask(p) \/ WaitCancelled(p) \/ WaitBroken(p) \/ BeginTx(p) \/ StatementFails(p)
      \/ (\E commit \in BOOLEAN : EndTx(p, commit)) => Held'
  BY <1>1 DEF Ask, WaitCancelled, WaitBroken, BeginTx, StatementFails, EndTx
<1>7. SessionKilled(p) \/ CloseConnection(p) => Held'
  BY <1>2 DEF SessionKilled, CloseConnection
<1>. QED BY <1>3, <1>4, <1>5, <1>6, <1>7 DEF Act

LockInv == LockTypeOK /\ Room /\ Held

LEMMA LockInvInit == LockInit => LockInv
  BY TypeInit, LockAssumption DEF LockInit, LockInv, Held, Levels

LEMMA LockInvStep == LockInv /\ [LockNext]_lockVars => LockInv'
<1>. SUFFICES ASSUME LockInv, [LockNext]_lockVars PROVE LockInv'
  OBVIOUS
<1>1. CASE LockNext
  <2>1. PICK p \in Procs : Act(p)
    BY <1>1 DEF LockNext, Act
  <2>. QED BY <2>1, TypeStep, HeldStep DEF LockInv
<1>2. CASE UNCHANGED lockVars
  BY <1>2 DEF lockVars, LockInv, LockTypeOK, Room, Held, LockOf
<1>. QED BY <1>1, <1>2

-----------------------------------------------------------------------------
(* The refinement                                                          *)

(* What a caller sees of one block. *)
See(p, d) ==
  IF d > depth[p] THEN Promise!NoBlock
  ELSE [id |-> frame[p][d].id, shared |-> frame[p][d].shared,
        status |-> IF ~frame[p][d].got THEN "refused"
                   ELSE IF frame[p][d].live THEN "held" ELSE "lost"]

LEMMA Sees == Seen = [p \in Procs |-> [d \in Levels |-> See(p, d)]]
  BY DEF Seen, See, Promise!NoBlock

LEMMA SeesNext == Seen' = [p \in Procs |-> [d \in Levels |-> See(p, d)']]
  BY DEF Seen, See, Promise!NoBlock

LEMMA SeesOne == \A p \in Procs, d \in Levels : Seen[p][d] = See(p, d)
  BY Sees

LEMMA SeesFields ==
  ASSUME NEW p \in Procs, NEW d \in Levels
  PROVE  /\ (See(p, d).status # "none") <=> ~(d > depth[p])
         /\ See(p, d).status = "held" <=> ~(d > depth[p]) /\ frame[p][d].got /\ frame[p][d].live
         /\ See(p, d).status = "lost" <=> ~(d > depth[p]) /\ frame[p][d].got /\ ~frame[p][d].live
         /\ ~(d > depth[p]) => See(p, d).id = frame[p][d].id /\ See(p, d).shared = frame[p][d].shared
  BY DEF See, Promise!NoBlock

(* A step of one process that changes what is seen of one level. *)
LEMMA SeesChange ==
  ASSUME NEW p \in Procs, NEW n \in Levels, NEW B, See(p, n)' = B,
         \A q \in Procs, d \in Levels : q # p \/ d # n => See(q, d)' = See(q, d)
  PROVE  Seen' = [Seen EXCEPT ![p][n] = B]
<1>1. Seen' = [q \in Procs |-> [d \in Levels |-> See(q, d)']]
  BY SeesNext
<1>2. Seen' = [q \in Procs |-> [d \in Levels |-> IF q = p /\ d = n THEN B ELSE See(q, d)]]
  BY <1>1
<1>. QED BY <1>2, Sees

LEMMA SeesOpen ==
  ASSUME LockTypeOK, NEW p \in Procs, NEW d \in Levels
  PROVE  Promise!Open(p, d) <=> d <= depth[p]
<1>1. Promise!Open(p, d) <=> ~(d > depth[p])
  BY SeesOne, SeesFields DEF Promise!Open
<1>. QED BY <1>1, LockAssumption DEF LockTypeOK, Levels

LEMMA SameSeen ==
  ASSUME UNCHANGED <<depth, frame, outcome>>
  PROVE  UNCHANGED <<Seen, outcome>>
  BY DEF Seen

LEMMA Opening ==
  ASSUME LockTypeOK, Room, NEW p \in Procs, asked[p].on, NEW got \in BOOLEAN, Opens(p, got)
  PROVE  /\ depth[p] + 1 \in Levels /\ Promise!Free(p, depth[p] + 1)
         /\ Seen' = [Seen EXCEPT ![p][depth[p] + 1] =
              [id |-> asked[p].id, shared |-> asked[p].shared, status |-> IF got THEN "held" ELSE "refused"]]
<1>. USE LockAssumption
<1>1. PICK n \in Levels : n = depth[p] + 1 /\ depth' = [depth EXCEPT ![p] = n]
  BY OpensTyped
<1>2. /\ frame'[p][n] = [id |-> asked[p].id, shared |-> asked[p].shared, got |-> got, live |-> TRUE,
                          timed |-> asked[p].timed, saved |-> asked[p].saved]
      /\ \A q \in Procs, d \in Levels : q # p \/ d # n => frame'[q][d] = frame[q][d]
  BY <1>1 DEF Opens, LockTypeOK
<1>3. See(p, n)' = [id |-> asked[p].id, shared |-> asked[p].shared, status |-> IF got THEN "held" ELSE "refused"]
  <2>1. ~(n > depth'[p])
    BY <1>1 DEF LockTypeOK, Levels
  <2>2. /\ frame'[p][n].id = asked[p].id /\ frame'[p][n].shared = asked[p].shared
        /\ frame'[p][n].got = got /\ frame'[p][n].live = TRUE
    BY <1>2
  <2>. QED BY <2>1, <2>2 DEF See
<1>4. \A q \in Procs, d \in Levels : q # p \/ d # n => See(q, d)' = See(q, d)
  BY <1>1, <1>2 DEF See, LockTypeOK, Levels
<1>5. Promise!Free(p, n)
  <2>1. n = depth[p] + 1 /\ depth[p] \in Nat /\ \A d \in Levels : d \in Nat
    BY <1>1 DEF LockTypeOK, Levels
  <2>. QED BY <1>1, <2>1, SeesOpen DEF Promise!Free, Promise!Levels, Levels
<1>. QED BY <1>1, <1>3, <1>4, <1>5, SeesChange

LEMMA RefinesGranted ==
  ASSUME LockInv, NEW p \in Procs, Granted(p)
  PROVE  Promise!Enter(p)
<1>. USE DEF LockInv
<1>1. asked[p].on /\ Opens(p, TRUE) /\ Grantable(p, asked[p].id, asked[p].shared)
  BY DEF Granted
<1>2. /\ depth[p] + 1 \in Levels /\ Promise!Free(p, depth[p] + 1)
      /\ Seen' = [Seen EXCEPT ![p][depth[p] + 1] =
           [id |-> asked[p].id, shared |-> asked[p].shared, status |-> "held"]]
  BY <1>1, Opening
<1>3. ~Promise!Excluded(p, asked[p].id, asked[p].shared)
  <2>. SUFFICES ASSUME NEW q \in Procs \ {p}, NEW d \in Levels, Seen[q][d].status = "held",
                       Seen[q][d].id = asked[p].id
                PROVE  asked[p].shared /\ Seen[q][d].shared
    BY DEF Promise!Excluded, Promise!Levels, Levels
  <2>1. d <= depth[q] /\ frame[q][d].got /\ frame[q][d].live
    BY SeesOne, SeesFields DEF LockTypeOK, Levels
  <2>2. frame[q][d].id = asked[p].id /\ Seen[q][d].shared = frame[q][d].shared
    BY <2>1, SeesOne, SeesFields DEF LockTypeOK, Levels
  <2>3. LockOf(q, d) \in locks /\ LockOf(q, d).proc = q /\ LockOf(q, d).id = frame[q][d].id
        /\ LockOf(q, d).shared = frame[q][d].shared
    BY <2>1 DEF Held, LockOf
  <2>. QED BY <1>1, <2>2, <2>3 DEF Grantable
<1>4. asked[p].id \in Ids /\ asked[p].shared \in BOOLEAN
  BY DEF LockTypeOK
<1>. QED BY <1>1, <1>2, <1>3, <1>4 DEF Promise!Enter, Promise!Levels, Levels, Opens

LEMMA RefinesRefused ==
  ASSUME LockInv, NEW p \in Procs, Refused(p)
  PROVE  Promise!Refuse(p)
<1>. USE DEF LockInv
<1>1. asked[p].on /\ Opens(p, FALSE)
  BY DEF Refused
<1>2. /\ depth[p] + 1 \in Levels /\ Promise!Free(p, depth[p] + 1)
      /\ Seen' = [Seen EXCEPT ![p][depth[p] + 1] =
           [id |-> asked[p].id, shared |-> asked[p].shared, status |-> "refused"]]
  BY <1>1, Opening
<1>4. asked[p].id \in Ids /\ asked[p].shared \in BOOLEAN
  BY DEF LockTypeOK
<1>. QED BY <1>1, <1>2, <1>4 DEF Promise!Refuse, Promise!Levels, Levels, Opens

LEMMA RefinesClose ==
  ASSUME LockInv, NEW p \in Procs, NEW error \in {"no", "operational", "other"}, Close(p, error)
  PROVE  Promise!Leave(p) \/ Promise!Fail(p)
<1>. USE LockAssumption DEF LockInv
<1>0. depth[p] \in Levels /\ depth[p] > 0 /\ depth' = [depth EXCEPT ![p] = depth[p] - 1]
  BY DEF Close, LockTypeOK, Levels
<1>1. PICK n \in Levels : n = depth[p] /\ n > 0 /\ depth' = [depth EXCEPT ![p] = n - 1]
  BY <1>0
<1>2. \A q \in Procs, d \in Levels : q # p \/ d # n => frame'[q][d] = frame[q][d]
  BY <1>1 DEF Close, LockTypeOK
<1>3. See(p, n)' = Promise!NoBlock
  <2>1. n > depth'[p]
    BY <1>1 DEF LockTypeOK, Levels
  <2>. QED BY <2>1 DEF See
<1>4. \A q \in Procs, d \in Levels : q # p \/ d # n => See(q, d)' = See(q, d)
  <2>. SUFFICES ASSUME NEW q \in Procs, NEW d \in Levels, q # p \/ d # n PROVE See(q, d)' = See(q, d)
    OBVIOUS
  <2>1. (d > depth'[q]) <=> (d > depth[q])
    BY <1>1 DEF LockTypeOK, Levels
  <2>2. frame'[q][d] = frame[q][d]
    BY <1>2
  <2>. QED BY <2>1, <2>2 DEF See, Promise!NoBlock
<1>5. Seen' = [Seen EXCEPT ![p][n] = Promise!NoBlock]
  BY <1>1, <1>3, <1>4, SeesChange
<1>6. Promise!Innermost(p, n)
  <2>1. n = depth[p] /\ depth[p] \in Nat /\ \A d \in Levels : d \in Nat
    BY <1>1 DEF LockTypeOK, Levels
  <2>. QED BY <1>1, <2>1, SeesOpen DEF Promise!Innermost, Promise!Levels, Levels
<1>7. PICK e \in AfterRelease(p, frame[p][n], error) :
        outcome' = [outcome EXCEPT ![p] =
          IF e = "no" /\ ~(e # "operational" /\ frame[p][n].timed /\ (conn[p] = "dead" \/ Aborted(p)))
          THEN "well" ELSE "failed"]
  BY <1>1 DEF Close
<1>8. e = "no" => Seen[p][n].status # "lost"
  BY <1>1, <1>7, SeesOne, SeesFields DEF AfterRelease
<1>9. \/ outcome' = [outcome EXCEPT ![p] = "well"] /\ e = "no"
      \/ outcome' = [outcome EXCEPT ![p] = "failed"]
  BY <1>7
<1>. QED BY <1>1, <1>5, <1>6, <1>8, <1>9 DEF Promise!Leave, Promise!Fail, Promise!Levels, Levels

LEMMA RefinesLost ==
  ASSUME LockInv, NEW p \in Procs, NEW c, SessionEnds(p, c), depth' = depth, outcome' = outcome
  PROVE  Promise!Lose(p)
<1>. USE DEF LockInv
<1>. DEFINE L(b) == IF b.status = "held" THEN [b EXCEPT !.status = "lost"] ELSE b
<1>1. \A d \in Levels : See(p, d)' = L(See(p, d))
  <2>. TAKE d \in Levels
  <2>1. /\ frame'[p][d].id = frame[p][d].id /\ frame'[p][d].shared = frame[p][d].shared
        /\ frame'[p][d].got = frame[p][d].got /\ ~frame'[p][d].live
    BY SessionEndsHeld
  <2>2. [[id |-> frame[p][d].id, shared |-> frame[p][d].shared, status |-> "held"] EXCEPT !.status = "lost"]
        = [id |-> frame[p][d].id, shared |-> frame[p][d].shared, status |-> "lost"]
    OBVIOUS
  <2>. QED BY <2>1, <2>2 DEF See, Promise!NoBlock
<1>2. \A q \in Procs, d \in Levels : q # p => See(q, d)' = See(q, d)
  BY SessionEndsHeld DEF See, Promise!NoBlock
<1>. HIDE DEF L
<1>3. Seen' = [q \in Procs |-> [d \in Levels |-> See(q, d)']]
  BY SeesNext
<1>4. Seen' = [Seen EXCEPT ![p] = [d \in Levels |-> L(Seen[p][d])]]
  BY <1>1, <1>2, <1>3, Sees, SeesOne
<1>. QED BY <1>4 DEF L, Promise!Lose, Promise!Levels, Levels

(* Every step of the lock is a step of NamedLock, or one that its callers do not see. *)
LEMMA Refines ==
  LockInv /\ [LockNext]_lockVars => [Promise!ANext]_(Promise!avars)
<1>. SUFFICES ASSUME LockInv, [LockNext]_lockVars PROVE [Promise!ANext]_(Promise!avars)
  OBVIOUS
<1>1. ASSUME UNCHANGED <<depth, frame, outcome>> PROVE UNCHANGED Promise!avars
  BY <1>1, SameSeen DEF Promise!avars
<1>2. CASE UNCHANGED lockVars
  BY <1>1, <1>2 DEF lockVars
<1>3. CASE LockNext
  <2>1. PICK p \in Procs : Act(p)
    BY <1>3 DEF LockNext, Act
  <2>2. Granted(p) => Promise!Enter(p)
    BY RefinesGranted
  <2>3. Refused(p) => Promise!Refuse(p)
    BY RefinesRefused
  <2>4. (\E error \in {"no", "operational", "other"} : Close(p, error)) => Promise!Leave(p) \/ Promise!Fail(p)
    BY RefinesClose
  <2>5. SessionKilled(p) \/ CloseConnection(p) => Promise!Lose(p)
    BY RefinesLost DEF SessionKilled, CloseConnection
  <2>6. Ask(p) \/ WaitCancelled(p) \/ WaitBroken(p) \/ BeginTx(p) \/ StatementFails(p)
        \/ (\E commit \in BOOLEAN : EndTx(p, commit)) => UNCHANGED Promise!avars
    BY <1>1 DEF Ask, WaitCancelled, WaitBroken, BeginTx, StatementFails, EndTx
  <2>. QED BY <2>1, <2>2, <2>3, <2>4, <2>5, <2>6 DEF Act, Promise!ANext
<1>. QED BY <1>2, <1>3

LEMMA RefinesInit == LockInit => Promise!AInit
<1>. SUFFICES ASSUME LockInit PROVE Promise!AInit
  OBVIOUS
<1>1. \A p \in Procs, d \in Levels : See(p, d) = Promise!NoBlock
  BY LockAssumption DEF LockInit, See, Levels
<1>2. Seen = [p \in Procs |-> [d \in Levels |-> Promise!NoBlock]]
  BY <1>1, Sees
<1>. QED BY <1>2 DEF LockInit, Promise!AInit, Promise!Levels, Levels

(***************************************************************************)
(* db.py:43-166: with any number of processes, however deep their blocks   *)
(* and whatever ends their sessions, advisory_lock is the lock of          *)
(* NamedLock: blocks that have it exclude each other, and one that lost it *)
(* ends with an error.                                                     *)
(***************************************************************************)
THEOREM LockIsNamedLock == LockSpec => IsNamedLock
<1>1. LockInit => LockInv
  BY LockInvInit
<1>2. LockInv /\ [LockNext]_lockVars => LockInv'
  BY LockInvStep
<1>3. LockInv /\ [LockNext]_lockVars => [Promise!ANext]_(Promise!avars)
  BY Refines
<1>4. LockInit => Promise!AInit
  BY RefinesInit
<1>. QED BY <1>1, <1>2, <1>3, <1>4, PTL DEF LockSpec, IsNamedLock, Promise!ASpec

-----------------------------------------------------------------------------
(* The timeouts of a session while the block of a level, or none, is the innermost. *)
Expect(p, d) == IF d = 0 THEN "default" ELSE IF frame[p][d].timed THEN "lock" ELSE frame[p][d].saved

(* What holds of a session between two steps, whatever failed. *)
Sound(p) ==
  /\ tx[p].on => tx[p].at <= depth[p] /\ conn[p] # "none"
  /\ conn[p] = "dead" => idle[p] = "default"
(* And what holds while nothing has. *)
IdleFits(p)   == Running(p) => idle[p] \in {"default", Expect(p, depth[p])}
AskedFits(p)  == asked[p].on /\ conn[p] = "open" =>
                   /\ asked[p].saved \in {"default", Expect(p, depth[p])}
                   /\ idle[p] \in {"default", IF asked[p].timed THEN "lock" ELSE asked[p].saved}
FramesFit(p)  == \A d \in Levels : d <= depth[p] => frame[p][d].saved \in {"default", Expect(p, d - 1)}
TxFits(p)     == tx[p].on /\ conn[p] = "open" => tx[p].idle \in {"default", Expect(p, tx[p].at)}
LocksFit(p)   == \A l \in locks : l.proc = p =>
                   l.level \in Levels /\ l.level <= depth[p] /\ frame[p][l.level].got /\ frame[p][l.level].live
Tidy(p) == IdleFits(p) /\ AskedFits(p) /\ FramesFit(p) /\ TxFits(p) /\ LocksFit(p)
CleanAt(p) == Sound(p) /\ (~spoiled[p] => Tidy(p))
Clean == \A p \in Procs : CleanAt(p)

LEMMA CleanInit == LockInit => Clean
<1>. SUFFICES ASSUME LockInit, NEW p \in Procs PROVE CleanAt(p)
  BY DEF Clean
<1>1. /\ conn[p] = "none" /\ idle[p] = "default" /\ ~tx[p].on /\ depth[p] = 0 /\ ~asked[p].on
      /\ locks = {}
  BY DEF LockInit, NoTx, NotAsked
<1>2. FramesFit(p)
  BY <1>1 DEF FramesFit, Levels
<1>. QED BY <1>1, <1>2 DEF CleanAt, Sound, Tidy, IdleFits, AskedFits, TxFits, LocksFit

LEMMA CleanMeans ==
  ASSUME LockTypeOK, Clean PROVE CleanUnlessFailed
<1>. SUFFICES ASSUME NEW p \in Procs, depth[p] = 0, Running(p), ~spoiled[p]
              PROVE  LocksOf(p) = {} /\ idle[p] = "default"
  BY DEF CleanUnlessFailed
<1>1. IdleFits(p) /\ LocksFit(p)
  BY DEF Clean, CleanAt, Tidy
<1>. QED BY <1>1 DEF IdleFits, LocksFit, Expect, LocksOf, Levels

(* What a step leaves alone of one process. *)
Same(q) == /\ conn'[q] = conn[q] /\ idle'[q] = idle[q] /\ tx'[q] = tx[q] /\ depth'[q] = depth[q]
           /\ frame'[q] = frame[q] /\ asked'[q] = asked[q] /\ spoiled'[q] = spoiled[q]
           /\ \A l \in locks' : l.proc = q => l \in locks

LEMMA SameClean ==
  ASSUME NEW q \in Procs, CleanAt(q), Same(q) PROVE CleanAt(q)'
  BY DEF CleanAt, Same, Sound, Tidy, IdleFits, AskedFits, FramesFit, TxFits, LocksFit, Expect, Running

LEMMA OthersSame ==
  ASSUME LockTypeOK, Room, NEW p \in Procs, Act(p), NEW q \in Procs, q # p
  PROVE  Same(q)
<1>1. ASSUME NEW c, SessionEnds(p, c), UNCHANGED <<tx, depth, asked>> PROVE Same(q)
  BY <1>1, SessionEndsHeld DEF Same, SessionEnds, LockTypeOK
<1>2. CASE Ask(p)
  BY <1>2 DEF Ask, Same, LockTypeOK
<1>3. CASE Granted(p) \/ Refused(p)
  BY <1>3 DEF Granted, Refused, Opens, Same, LockTypeOK
<1>4. CASE WaitCancelled(p) \/ WaitBroken(p)
  BY <1>4 DEF WaitCancelled, WaitBroken, Same, LockTypeOK
<1>5. ASSUME NEW error \in {"no", "operational", "other"}, Close(p, error) PROVE Same(q)
  <2>1. \A l \in Mine(p) : [l EXCEPT !.level = 0].proc = p
    BY Leaving DEF Mine, LockTypeOK, LockType
  <2>2. locks' \in {locks, (locks \ Mine(p)) \cup {[l EXCEPT !.level = 0] : l \in Mine(p)}, locks \ Mine(p)}
    BY <1>5 DEF Close, Release
  <2>3. \A l \in locks' : l.proc = q => l \in locks
    BY <2>1, <2>2
  <2>. QED BY <1>5, <2>3 DEF Close, Same, LockTypeOK
<1>6. CASE BeginTx(p) \/ StatementFails(p)
  BY <1>6 DEF BeginTx, StatementFails, Same, LockTypeOK
<1>7. CASE SessionKilled(p) \/ CloseConnection(p)
  BY <1>1, <1>7 DEF SessionKilled, CloseConnection
<1>8. ASSUME NEW commit \in BOOLEAN, EndTx(p, commit) PROVE Same(q)
  BY <1>8 DEF EndTx, Same, LockTypeOK
<1>. QED BY <1>2, <1>3, <1>4, <1>5, <1>6, <1>7, <1>8 DEF Act

-----------------------------------------------------------------------------
(* The steps of the process itself                                         *)

LEMMA AskClean ==
  ASSUME LockTypeOK, NEW p \in Procs, CleanAt(p), Ask(p) PROVE CleanAt(p)'
<1>. PICK r \in Requests :
       /\ asked' = [asked EXCEPT ![p] = [on |-> TRUE, id |-> KeyOf[r.name], shared |-> r.shared,
                                         wait |-> r.wait, timed |-> r.timed, saved |-> idle[p]]]
       /\ idle' = [idle EXCEPT ![p] = IF r.timed THEN "lock" ELSE @]
  BY DEF Ask
<1>1. /\ asked'[p].on /\ asked'[p].saved = idle[p] /\ asked'[p].timed = r.timed
      /\ idle'[p] = (IF r.timed THEN "lock" ELSE idle[p]) /\ conn'[p] = "open"
      /\ conn[p] # "dead" /\ Running(p)
      /\ UNCHANGED <<tx, depth, frame, locks, spoiled>>
  BY DEF Ask, LockTypeOK
<1>2. Sound(p)'
  BY <1>1 DEF CleanAt, Sound
<1>3. ASSUME ~spoiled[p] PROVE Tidy(p)'
  <2>1. IdleFits(p)' /\ FramesFit(p)' /\ LocksFit(p)'
    BY <1>1, <1>3 DEF CleanAt, Tidy, IdleFits, FramesFit, LocksFit, Running, Expect
  <2>2. AskedFits(p)'
    BY <1>1, <1>3 DEF CleanAt, Tidy, IdleFits, AskedFits, Expect
  <2>3. TxFits(p)'
    BY <1>1, <1>3 DEF CleanAt, Sound, Tidy, TxFits, Expect, LockTypeOK
  <2>. QED BY <2>1, <2>2, <2>3 DEF Tidy
<1>. QED BY <1>1, <1>2, <1>3 DEF CleanAt

LEMMA TxStill ==
  ASSUME NEW p \in Procs, TxFits(p), tx' = tx, conn'[p] = "open" => conn[p] = "open",
         tx[p].on /\ tx[p].at # 0 => /\ frame'[p][tx[p].at].timed = frame[p][tx[p].at].timed
                                    /\ frame'[p][tx[p].at].saved = frame[p][tx[p].at].saved
  PROVE  TxFits(p)'
  BY DEF TxFits, Expect

LEMMA OpensClean ==
  ASSUME LockTypeOK, Room, NEW p \in Procs, CleanAt(p), Granted(p) \/ Refused(p) PROVE CleanAt(p)'
<1>. PICK got \in BOOLEAN : Opens(p, got) /\ (~got => locks' = locks)
       /\ (got => locks' = locks \cup {[proc |-> p, level |-> depth[p] + 1, id |-> asked[p].id, shared |-> asked[p].shared]})
  BY DEF Granted, Refused
<1>0. asked[p].on /\ conn[p] = "open"
  BY DEF Granted, Refused
<1>. PICK n \in Levels : n = depth[p] + 1
  BY <1>0, OpensTyped
<1>1. /\ depth'[p] = n /\ ~asked'[p].on
      /\ frame'[p][n].got = got /\ frame'[p][n].live
      /\ frame'[p][n].timed = asked[p].timed /\ frame'[p][n].saved = asked[p].saved
      /\ \A d \in Levels : d # n => frame'[p][d] = frame[p][d]
      /\ UNCHANGED <<conn, idle, tx, spoiled>>
  BY <1>0, OpensTyped DEF Opens, LockTypeOK, NotAsked
<1>2. n \in Nat /\ n # 0 /\ n - 1 = depth[p] /\ depth[p] \in 0 .. Depth /\ \A d \in Levels : d \in Nat /\ d # 0
  BY LockAssumption DEF Levels, LockTypeOK
<1>3. \A d \in 0 .. depth[p] : Expect(p, d)' = Expect(p, d)
  BY <1>1, <1>2, LockAssumption DEF Expect, Levels
<1>4. Expect(p, n)' = IF asked[p].timed THEN "lock" ELSE asked[p].saved
  BY <1>1, <1>2 DEF Expect
<1>5. Sound(p)'
  BY <1>1, <1>2 DEF CleanAt, Sound, LockTypeOK
<1>6. ASSUME ~spoiled[p] PROVE Tidy(p)'
  <2>1. IdleFits(p)' /\ AskedFits(p)'
    BY <1>0, <1>1, <1>4, <1>6 DEF CleanAt, Tidy, IdleFits, AskedFits
  <2>2. FramesFit(p)'
    <3>. SUFFICES ASSUME NEW d \in Levels, d <= n PROVE frame'[p][d].saved \in {"default", Expect(p, d - 1)'}
      BY <1>1 DEF FramesFit
    <3>1. d - 1 \in 0 .. depth[p] /\ (d # n => d <= depth[p])
      BY <1>2
    <3>2. Expect(p, d - 1)' = Expect(p, d - 1)
      BY <3>1, <1>3
    <3>3. CASE d = n
      BY <3>2, <3>3, <1>0, <1>1, <1>2, <1>6 DEF CleanAt, Tidy, AskedFits
    <3>4. CASE d # n
      BY <3>1, <3>2, <3>4, <1>1, <1>6 DEF CleanAt, Tidy, FramesFit
    <3>. QED BY <3>3, <3>4
  <2>3. TxFits(p)'
    <3>1. tx[p].on /\ tx[p].at # 0 => tx[p].at \in Levels /\ tx[p].at # n
      BY <1>2, LockAssumption DEF CleanAt, Sound, LockTypeOK, Levels
    <3>. QED BY <3>1, <1>1, <1>6, TxStill DEF CleanAt, Tidy
  <2>4. LocksFit(p)'
    <3>. SUFFICES ASSUME NEW l \in locks', l.proc = p
                  PROVE  l.level \in Levels /\ l.level <= n /\ frame'[p][l.level].got /\ frame'[p][l.level].live
      BY <1>1 DEF LocksFit
    <3>1. CASE l \in locks
      <4>1. l.level \in Levels /\ l.level <= depth[p]
        BY <3>1, <1>6 DEF CleanAt, Tidy, LocksFit
      <4>2. frame[p][l.level].got /\ frame[p][l.level].live
        BY <3>1, <1>6 DEF CleanAt, Tidy, LocksFit
      <4>3. l.level \in Nat
        BY <4>1, <1>2
      <4>4. l.level # n /\ l.level <= n
        BY <4>1, <4>3, <1>2
      <4>5. frame'[p][l.level] = frame[p][l.level]
        BY <4>1, <4>4, <1>1, Zenon
      <4>. QED BY <4>1, <4>2, <4>4, <4>5, Zenon
    <3>2. CASE l \notin locks
      <4>1. got /\ l.level = n
        BY <3>2
      <4>2. frame'[p][l.level].got = got /\ frame'[p][l.level].live
        BY <4>1, <1>1, Zenon
      <4>3. frame'[p][l.level].got
        BY <4>1, <4>2, Zenon
      <4>4. l.level \in Levels /\ l.level <= n
        BY <4>1, <1>2
      <4>. QED BY <4>2, <4>3, <4>4, Zenon
    <3>. QED BY <3>1, <3>2
  <2>. QED BY <2>1, <2>2, <2>3, <2>4 DEF Tidy
<1>. QED BY <1>1, <1>5, <1>6 DEF CleanAt

LEMMA CloseClean ==
  ASSUME LockTypeOK, NEW p \in Procs, CleanAt(p), NEW error \in {"no", "operational", "other"}, Close(p, error)
  PROVE  CleanAt(p)'
<1>. PICK n \in Levels : n = depth[p]
  BY DEF Close, LockTypeOK, Levels
<1>. PICK e \in AfterRelease(p, frame[p][n], error) :
       LET restores == e # "operational" /\ frame[p][n].timed
           fails == restores /\ (conn[p] = "dead" \/ Aborted(p))
           well == e = "no" /\ ~fails
       IN /\ conn' = [conn EXCEPT ![p] = IF e = "operational" /\ @ = "dead" /\ ~tx[p].on THEN "none"
                                        ELSE IF restores /\ @ = "none" THEN "open" ELSE @]
          /\ idle' = [idle EXCEPT ![p] = IF restores /\ ~fails THEN frame[p][n].saved ELSE @]
          /\ spoiled' = [spoiled EXCEPT ![p] = @ \/ ~well]
  BY DEF Close
<1>1. /\ Running(p) /\ (tx[p].on => tx[p].at < n) /\ depth'[p] = n - 1 /\ ~asked'[p].on
      /\ \A d \in Levels : d # n => frame'[p][d] = frame[p][d]
      /\ UNCHANGED <<tx, asked>>
  BY DEF Close, LockTypeOK, Running
<1>2. n \in Nat /\ n # 0 /\ n - 1 \in 0 .. Depth /\ \A d \in Levels : d \in Nat /\ d # 0 /\ (d <= n - 1 => d <= n /\ d # n)
  BY LockAssumption DEF Levels
<1>3. \A d \in 0 .. n - 1 : Expect(p, d)' = Expect(p, d)
  BY <1>1, <1>2, LockAssumption DEF Expect, Levels
<1>4. Sound(p)'
  <2>1. tx'[p].on => tx'[p].at <= depth'[p] /\ conn'[p] # "none"
    BY <1>1, <1>2 DEF CleanAt, Sound, LockTypeOK
  <2>2. conn'[p] = "dead" => conn[p] = "dead" /\ idle'[p] = idle[p]
    BY DEF LockTypeOK
  <2>. QED BY <2>1, <2>2 DEF CleanAt, Sound
<1>5. ASSUME ~spoiled'[p] PROVE Tidy(p)'
  <2>1. /\ e = "no" /\ ~spoiled[p]
        /\ conn'[p] = "open" /\ tx[p].on => conn[p] = "open"
        /\ idle'[p] = IF frame[p][n].timed THEN frame[p][n].saved ELSE idle[p]
    BY <1>5 DEF LockTypeOK, CleanAt, Sound
  <2>2. ~frame[p][n].got \/ (frame[p][n].got /\ frame[p][n].live /\ ~Aborted(p))
    BY <2>1 DEF AfterRelease
  <2>3. Tidy(p)
    BY <2>1 DEF CleanAt
  <2>4. frame[p][n].saved \in {"default", Expect(p, n - 1)}
    BY <2>3, <1>2 DEF Tidy, FramesFit
  <2>5. IdleFits(p)' /\ AskedFits(p)'
    <3>1. Expect(p, n - 1)' = Expect(p, n - 1)
      BY <1>2, <1>3
    <3>2. idle[p] \in {"default", IF frame[p][n].timed THEN "lock" ELSE frame[p][n].saved}
      BY <2>3, <1>1, <1>2 DEF Tidy, IdleFits, Expect
    <3>3. idle'[p] \in {"default", Expect(p, n - 1)'}
      BY <3>1, <3>2, <2>1, <2>4
    <3>4. Expect(p, depth[p])' = Expect(p, n - 1)'
      BY <1>1 DEF Expect
    <3>. QED BY <3>3, <3>4, <1>1 DEF IdleFits, AskedFits
  <2>6. FramesFit(p)'
    <3>. SUFFICES ASSUME NEW d \in Levels, d <= n - 1 PROVE frame'[p][d].saved \in {"default", Expect(p, d - 1)'}
      BY <1>1 DEF FramesFit
    <3>1. d - 1 \in 0 .. n - 1 /\ d <= n /\ d # n
      BY <1>2
    <3>2. Expect(p, d - 1)' = Expect(p, d - 1)
      BY <3>1, <1>3
    <3>. QED BY <3>1, <3>2, <1>1, <2>3 DEF Tidy, FramesFit
  <2>7. TxFits(p)'
    <3>1. tx[p].on /\ tx[p].at # 0 => tx[p].at \in Levels /\ tx[p].at # n
      BY <1>1, <1>2, LockAssumption DEF LockTypeOK, Levels
    <3>2. conn'[p] = "open" => conn[p] = "open" \/ ~tx[p].on
      BY <2>1
    <3>. QED BY <3>1, <3>2, <1>1, <2>3 DEF Tidy, TxFits, Expect
  <2>8. LocksFit(p)'
    <3>1. \A l \in locks' : l \in locks /\ (l.proc = p => l.level # n)
      <4>1. CASE ~frame[p][n].got
        BY <4>1, <2>3 DEF Close, Release, Tidy, LocksFit
      <4>2. CASE frame[p][n].got /\ frame[p][n].live /\ ~Aborted(p)
        BY <4>2 DEF Close, Release, Mine
      <4>. QED BY <4>1, <4>2, <2>2
    <3>2. SUFFICES ASSUME NEW l \in locks', l.proc = p
                   PROVE  l.level \in Levels /\ l.level <= depth'[p] /\ frame'[p][l.level].got /\ frame'[p][l.level].live
      BY DEF LocksFit
    <3>3. /\ l.level \in Levels /\ l.level <= n /\ l.level # n
          /\ frame[p][l.level].got /\ frame[p][l.level].live
      BY <3>1, <3>2, <2>3 DEF Tidy, LocksFit
    <3>4. l.level <= depth'[p]
      <4>1. l.level \in Nat /\ n \in Nat /\ depth'[p] = n - 1
        BY <3>3, <1>1, <1>2
      <4>2. \A i, j \in Nat : i <= j /\ i # j => i <= j - 1
        OBVIOUS
      <4>. QED BY <4>1, <4>2, <3>3
    <3>. QED BY <3>3, <3>4, <1>1
  <2>. QED BY <2>5, <2>6, <2>7, <2>8 DEF Tidy
<1>. QED BY <1>4, <1>5 DEF CleanAt

(* The end of a session leaves nothing behind; where no block is open, it is as new. *)
LEMMA EndClean ==
  ASSUME LockTypeOK, NEW p \in Procs, CleanAt(p), NEW c \in {"none", "dead"}, SessionEnds(p, c),
         UNCHANGED <<tx, depth, asked>>, tx[p].on => c # "none"
  PROVE  CleanAt(p)'
<1>1. /\ conn'[p] = c /\ idle'[p] = "default" /\ spoiled'[p] = (spoiled[p] /\ depth[p] > 0)
  BY DEF SessionEnds, LockTypeOK
<1>2. Sound(p)'
  BY <1>1 DEF CleanAt, Sound
<1>3. ASSUME ~spoiled'[p] PROVE Tidy(p)'
  <2>1. IdleFits(p)' /\ AskedFits(p)' /\ TxFits(p)'
    BY <1>1 DEF IdleFits, AskedFits, TxFits
  <2>2. LocksFit(p)'
    BY SessionEndsHeld DEF LocksFit
  <2>3. FramesFit(p)'
    <3>. SUFFICES ASSUME NEW d \in Levels, d <= depth[p] PROVE frame'[p][d].saved \in {"default", Expect(p, d - 1)'}
      BY DEF FramesFit
    <3>1. Tidy(p) /\ d \in Nat /\ d # 0
      BY <1>1, <1>3, LockAssumption DEF CleanAt, LockTypeOK, Levels
    <3>2. d - 1 = 0 \/ d - 1 \in Levels
      BY <3>1, LockAssumption DEF Levels
    <3>3. Expect(p, d - 1)' = Expect(p, d - 1)
      BY <3>2, SessionEndsHeld DEF Expect
    <3>. QED BY <3>1, <3>3, SessionEndsHeld DEF Tidy, FramesFit
  <2>. QED BY <2>1, <2>2, <2>3 DEF Tidy
<1>. QED BY <1>2, <1>3 DEF CleanAt

LEMMA WaitClean ==
  ASSUME LockTypeOK, NEW p \in Procs, CleanAt(p), WaitCancelled(p) \/ WaitBroken(p) PROVE CleanAt(p)'
<1>1. CASE WaitCancelled(p)
  <2>1. tx[p] \in TxType /\ tx[p].on \in BOOLEAN
    BY DEF LockTypeOK, TxType
  <2>2. tx'[p] = [tx[p] EXCEPT !.aborted = tx[p].on]
    BY <1>1 DEF WaitCancelled, LockTypeOK
  <2>3. tx'[p].on = tx[p].on /\ tx'[p].at = tx[p].at
    BY <2>1, <2>2, Failing
  <2>. QED BY <1>1, <2>3 DEF WaitCancelled, CleanAt, Sound, LockTypeOK
<1>2. CASE WaitBroken(p)
  <2>1. /\ conn[p] = "dead" /\ ~asked'[p].on /\ conn'[p] = (IF tx[p].on THEN "dead" ELSE "none")
        /\ UNCHANGED <<idle, tx, depth, frame, locks, spoiled>>
    BY <1>2 DEF WaitBroken, NotAsked, LockTypeOK
  <2>. QED BY <2>1 DEF CleanAt, Sound, Tidy, IdleFits, AskedFits, FramesFit, TxFits, LocksFit, Expect
<1>. QED BY <1>1, <1>2

LEMMA TxClean ==
  ASSUME LockTypeOK, NEW p \in Procs, CleanAt(p),
         BeginTx(p) \/ StatementFails(p) \/ \E commit \in BOOLEAN : EndTx(p, commit)
  PROVE  CleanAt(p)'
<1>1. CASE BeginTx(p)
  <2>1. /\ Running(p) /\ conn[p] # "dead" /\ conn'[p] = "open" /\ tx'[p].on /\ tx'[p].at = depth[p] /\ tx'[p].idle = idle[p]
        /\ UNCHANGED <<idle, depth, frame, asked, locks, spoiled>>
    BY <1>1 DEF BeginTx, LockTypeOK
  <2>2. Sound(p)'
    BY <2>1 DEF Sound, LockTypeOK
  <2>3. ASSUME ~spoiled[p] PROVE Tidy(p)'
    <3>1. IdleFits(p)' /\ AskedFits(p)' /\ FramesFit(p)' /\ LocksFit(p)'
      BY <2>1, <2>3 DEF CleanAt, Tidy, IdleFits, AskedFits, FramesFit, LocksFit, Expect, Running
    <3>2. TxFits(p)'
      BY <2>1, <2>3 DEF CleanAt, Tidy, IdleFits, TxFits, Expect
    <3>. QED BY <3>1, <3>2 DEF Tidy
  <2>. QED BY <2>1, <2>2, <2>3 DEF CleanAt
<1>2. CASE StatementFails(p)
  <2>1. tx[p] \in TxType
    BY DEF LockTypeOK, TxType
  <2>2. tx'[p] = [tx[p] EXCEPT !.aborted = TRUE]
    BY <1>2 DEF StatementFails, LockTypeOK
  <2>3. tx'[p].on = tx[p].on /\ tx'[p].at = tx[p].at /\ tx'[p].idle = tx[p].idle
    BY <2>1, <2>2, Failing
  <2>. QED BY <1>2, <2>3 DEF StatementFails, CleanAt, Sound, Tidy, IdleFits, AskedFits, FramesFit, TxFits, LocksFit, Expect, Running
<1>3. ASSUME NEW commit \in BOOLEAN, EndTx(p, commit) PROVE CleanAt(p)'
  <2>1. /\ Running(p) /\ tx[p].on /\ tx[p].at = depth[p] /\ ~tx'[p].on
        /\ idle'[p] = (IF commit \/ conn[p] = "dead" THEN idle[p] ELSE tx[p].idle)
        /\ conn'[p] = (IF conn[p] = "dead" THEN "none" ELSE conn[p])
        /\ UNCHANGED <<depth, frame, asked, locks, spoiled>>
    BY <1>3 DEF EndTx, LockTypeOK, NoTx
  <2>2. Sound(p)'
    BY <2>1 DEF Sound
  <2>3. ASSUME ~spoiled[p] PROVE Tidy(p)'
    <3>1. conn[p] # "dead" => conn[p] = "open"
      BY <2>1 DEF CleanAt, Sound, LockTypeOK
    <3>2. IdleFits(p)'
      BY <2>1, <2>3, <3>1 DEF CleanAt, Tidy, IdleFits, TxFits, Expect
    <3>3. AskedFits(p)' /\ FramesFit(p)' /\ LocksFit(p)' /\ TxFits(p)'
      BY <2>1, <2>3 DEF CleanAt, Tidy, AskedFits, FramesFit, LocksFit, TxFits, Expect, Running
    <3>. QED BY <3>2, <3>3 DEF Tidy
  <2>. QED BY <2>1, <2>2, <2>3 DEF CleanAt
<1>. QED BY <1>1, <1>2, <1>3

-----------------------------------------------------------------------------
(* Together                                                                *)

LEMMA CleanStep ==
  ASSUME LockTypeOK, Room, Clean, NEW p \in Procs, Act(p) PROVE Clean'
<1>. SUFFICES ASSUME NEW q \in Procs PROVE CleanAt(q)'
  BY DEF Clean
<1>. CleanAt(q) /\ CleanAt(p)
  BY DEF Clean
<1>1. CASE q # p
  BY <1>1, OthersSame, SameClean
<1>2. CASE q = p
  <2>1. SessionKilled(p) => CleanAt(p)'
    BY EndClean DEF SessionKilled
  <2>2. CloseConnection(p) => CleanAt(p)'
    BY EndClean DEF CloseConnection
  <2>3. Ask(p) => CleanAt(p)'
    BY AskClean
  <2>4. Granted(p) \/ Refused(p) => CleanAt(p)'
    BY OpensClean
  <2>5. WaitCancelled(p) \/ WaitBroken(p) => CleanAt(p)'
    BY WaitClean
  <2>6. (\E error \in {"no", "operational", "other"} : Close(p, error)) => CleanAt(p)'
    BY CloseClean
  <2>7. BeginTx(p) \/ StatementFails(p) \/ (\E commit \in BOOLEAN : EndTx(p, commit)) => CleanAt(p)'
    BY TxClean
  <2>. QED BY <1>2, <2>1, <2>2, <2>3, <2>4, <2>5, <2>6, <2>7 DEF Act
<1>. QED BY <1>1, <1>2

(***************************************************************************)
(* db.py:116-125 and 162-166: whatever processes do, a session none of     *)
(* whose blocks failed has no lock and its own timeouts once its blocks    *)
(* have ended.                                                             *)
(***************************************************************************)
THEOREM LockLeavesSessionsClean == LockSpec => []CleanUnlessFailed
<1>1. LockInit => LockInv /\ Clean
  BY LockInvInit, CleanInit
<1>2. LockInv /\ Clean /\ [LockNext]_lockVars => LockInv' /\ Clean'
  <2>. SUFFICES ASSUME LockInv, Clean, [LockNext]_lockVars PROVE Clean'
    BY LockInvStep
  <2>1. CASE LockNext
    <3>1. PICK p \in Procs : Act(p)
      BY <2>1 DEF LockNext, Act
    <3>. QED BY <3>1, CleanStep DEF LockInv
  <2>2. CASE UNCHANGED lockVars
    BY <2>2, SameClean DEF lockVars, Clean, Same
  <2>. QED BY <2>1, <2>2
<1>3. LockInv /\ Clean => CleanUnlessFailed
  BY CleanMeans DEF LockInv
<1>. QED BY <1>1, <1>2, <1>3, PTL DEF LockSpec

-----------------------------------------------------------------------------
(* Exclusion                                                               *)

SeenType == [Procs -> [Levels -> [id : Ids, shared : BOOLEAN, status : {"none", "refused", "held", "lost"}]]]

LEMMA SeenTyped ==
  ASSUME LockTypeOK PROVE Seen \in SeenType
<1>1. \A p \in Procs, d \in Levels : See(p, d) \in [id : Ids, shared : BOOLEAN, status : {"none", "refused", "held", "lost"}]
  BY LockAssumption DEF See, Promise!NoBlock, LockTypeOK
<1>. QED BY <1>1, Sees DEF SeenType

(* The promised lock excludes: a block is opened where nothing excludes it, and what changes later is only given up. *)
LEMMA ExclusionStep ==
  ASSUME Seen \in SeenType, Promise!Exclusion, [Promise!ANext]_(Promise!avars)
  PROVE  Promise!Exclusion'
<1>. SUFFICES ASSUME NEW p \in Procs, NEW q \in Procs, NEW d \in Levels, NEW e \in Levels, p # q,
                     Seen'[p][d].status = "held", Seen'[q][e].status = "held", Seen'[p][d].id = Seen'[q][e].id
              PROVE  Seen'[p][d].shared /\ Seen'[q][e].shared
  BY DEF Promise!Exclusion, Promise!Levels, Levels
<1>1. ASSUME NEW r \in Procs, NEW k \in Levels, Seen' = [Seen EXCEPT ![r][k] = Promise!NoBlock]
      PROVE  Seen'[p][d].shared /\ Seen'[q][e].shared
  <2>1. Seen'[p][d] = Seen[p][d] /\ Seen'[q][e] = Seen[q][e]
    BY <1>1 DEF SeenType, Promise!NoBlock
  <2>. QED BY <2>1 DEF Promise!Exclusion, Promise!Levels, Levels
<1>2. ASSUME NEW r \in Procs, Promise!Enter(r)
      PROVE  Seen'[p][d].shared /\ Seen'[q][e].shared
  <2>. PICK k \in Levels, id \in Ids, shared \in BOOLEAN :
         /\ ~Promise!Excluded(r, id, shared)
         /\ Seen' = [Seen EXCEPT ![r][k] = [id |-> id, shared |-> shared, status |-> "held"]]
    BY <1>2 DEF Promise!Enter, Promise!Levels, Levels
  <2>1. \A x \in Procs, y \in Levels : ~(x = r /\ y = k) => Seen'[x][y] = Seen[x][y]
    BY DEF SeenType
  <2>2. Seen'[r][k] = [id |-> id, shared |-> shared, status |-> "held"]
    BY DEF SeenType
  <2>3. \A x \in Procs \ {r}, y \in Levels : Seen[x][y].status = "held" /\ Seen[x][y].id = id => shared /\ Seen[x][y].shared
    BY DEF Promise!Excluded, Promise!Levels, Levels
  <2>4. CASE p = r /\ d = k
    BY <2>1, <2>2, <2>3, <2>4
  <2>5. CASE q = r /\ e = k
    BY <2>1, <2>2, <2>3, <2>5
  <2>6. CASE ~(p = r /\ d = k) /\ ~(q = r /\ e = k)
    BY <2>1, <2>6 DEF Promise!Exclusion, Promise!Levels, Levels
  <2>. QED BY <2>4, <2>5, <2>6
<1>3. ASSUME NEW r \in Procs, Promise!Refuse(r)
      PROVE  Seen'[p][d].shared /\ Seen'[q][e].shared
  <2>. PICK k \in Levels, id \in Ids, shared \in BOOLEAN :
         Seen' = [Seen EXCEPT ![r][k] = [id |-> id, shared |-> shared, status |-> "refused"]]
    BY <1>3 DEF Promise!Refuse, Promise!Levels, Levels
  <2>1. Seen'[p][d] = Seen[p][d] /\ Seen'[q][e] = Seen[q][e]
    BY DEF SeenType
  <2>. QED BY <2>1 DEF Promise!Exclusion, Promise!Levels, Levels
<1>4. ASSUME NEW r \in Procs, Promise!Lose(r)
      PROVE  Seen'[p][d].shared /\ Seen'[q][e].shared
  <2>. DEFINE lost(b) == [b EXCEPT !.status = "lost"]
  <2>1. \A x \in Procs, y \in Levels : Seen'[x][y] =
          IF x = r /\ Seen[x][y].status = "held" THEN lost(Seen[x][y]) ELSE Seen[x][y]
    BY <1>4 DEF Promise!Lose, Promise!Levels, Levels, SeenType
  <2>2. \A x \in Procs, y \in Levels : lost(Seen[x][y]).status = "lost"
    BY DEF SeenType
  <2>. HIDE DEF lost
  <2>3. Seen'[p][d] = Seen[p][d] /\ Seen'[q][e] = Seen[q][e]
    BY <2>1, <2>2
  <2>. QED BY <2>3 DEF Promise!Exclusion, Promise!Levels, Levels
<1>5. ASSUME NEW r \in Procs, Promise!Leave(r) \/ Promise!Fail(r)
      PROVE  Seen'[p][d].shared /\ Seen'[q][e].shared
  BY <1>1, <1>5 DEF Promise!Leave, Promise!Fail, Promise!Levels, Levels
<1>6. CASE UNCHANGED Promise!avars
  BY <1>6 DEF Promise!avars, Promise!Exclusion, Promise!Levels, Levels
<1>. QED BY <1>2, <1>3, <1>4, <1>5, <1>6 DEF Promise!ANext

(***************************************************************************)
(* db.py:104-117: of the blocks of different processes that have a lock of *)
(* the same key, and have not lost it, either there is one or all of them  *)
(* share it.                                                               *)
(***************************************************************************)
THEOREM LockExcludes == LockSpec => []Promise!Exclusion
<1>1. LockInit => LockInv /\ Promise!Exclusion
  <2>1. ASSUME LockInit, NEW p \in Procs, NEW d \in Levels PROVE Seen[p][d].status = "none"
    <3>1. Seen[p][d] = Promise!NoBlock
      BY <2>1, SeesOne, LockAssumption DEF LockInit, See, Levels
    <3>2. Promise!NoBlock.status = "none"
      BY DEF Promise!NoBlock
    <3>. QED BY <3>1, <3>2
  <2>. QED BY <2>1, LockInvInit DEF Promise!Exclusion, Promise!Levels, Levels
<1>2. LockInv /\ Promise!Exclusion /\ [LockNext]_lockVars => LockInv' /\ Promise!Exclusion'
  BY LockInvStep, Refines, SeenTyped, ExclusionStep DEF LockInv
<1>. QED BY <1>1, <1>2, PTL DEF LockSpec

-----------------------------------------------------------------------------
(***************************************************************************)
(* Invalidation                                                            *)
(***************************************************************************)
Message == [to : Nodes, key : Keys, origin : STRING]

InvalidationTypeOK ==
  /\ configured \in Settings
  /\ store \in [Nodes -> [Keys -> {Absent, "last", "old"}]]
  /\ writer \in [Workers -> Keys \cup {Absent}]
  /\ msgs \subseteq Message
  /\ unheard \in [Keys -> BOOLEAN]

\* Somebody is about to tell node n to drop k, or a message that it will not
\* skip is on its way.
WillHear(n, k) ==
  \/ \E w \in Workers : writer[w] = k /\ NodeOf[w] # n
  \/ \E m \in msgs : m.to = n /\ m.key = k /\ ~Skips(n, m)
OldWillGo == \A n \in Nodes, k \in Keys : store[n][k] = "old" /\ ~unheard[k] => WillHear(n, k)
InvalidationInv == InvalidationTypeOK /\ OldWillGo

LEMMA SameSkips ==
    ASSUME configured' = configured, NEW n, NEW m
    PROVE  Skips(n, m)' <=> Skips(n, m)
  BY DEF Skips

LEMMA StillHeard ==
    ASSUME NEW n, NEW k, WillHear(n, k), configured' = configured,
           \A w \in Workers : writer[w] = k => writer'[w] = k,
           \A m \in msgs : m.to = n /\ m.key = k => m \in msgs'
    PROVE  WillHear(n, k)'
  <1>1. CASE \E w \in Workers : writer[w] = k /\ NodeOf[w] # n
    BY <1>1 DEF WillHear
  <1>2. CASE \E m \in msgs : m.to = n /\ m.key = k /\ ~Skips(n, m)
    BY <1>2, SameSkips DEF WillHear
  <1> QED
    BY <1>1, <1>2 DEF WillHear

LEMMA StoredType ==
    ASSUME InvalidationTypeOK, NEW n \in Nodes, NEW k \in Keys, NEW v \in Values, Stored(n, k, v)
    PROVE  /\ store' \in [Nodes -> [Keys -> {Absent, "last", "old"}]]
           /\ \A m \in Nodes, j \in Keys :
                store'[m][j] = "old" => IF j = k THEN m # n ELSE store[m][j] = "old"
  <1>1. ASSUME NEW m \in Nodes
        PROVE  /\ store'[m] \in [Keys -> {Absent, "last", "old"}]
               /\ \A j \in Keys : store'[m][j] = "old" => IF j = k THEN m # n ELSE store[m][j] = "old"
    <2>1. store'[m] = [store[m] EXCEPT ![k] =
            IF m = n THEN v ELSE IF store[m][k] = Absent THEN Absent ELSE "old"]
      BY DEF Stored
    <2>2. store[m] \in [Keys -> {Absent, "last", "old"}]
      BY DEF InvalidationTypeOK
    <2> QED
      BY <2>1, <2>2, InvalidationAssumption DEF Values
  <1>2. store' = [m \in Nodes |-> store'[m]]
    BY DEF Stored
  <1> QED
    BY <1>1, <1>2

LEMMA ClearType ==
    ASSUME InvalidationTypeOK, NEW n \in Nodes, NEW keys, NEW resolved, clear_cache(n, keys, resolved)
    PROVE  /\ store' \in [Nodes -> [Keys -> {Absent, "last", "old"}]]
           /\ \A m \in Nodes, j \in Keys :
                store'[m][j] = "old" => store[m][j] = "old" /\ (m = n => j \notin keys)
  <1>1. store' = [store EXCEPT ![n] =
          [k \in Keys |-> IF k \in Cleared(keys, resolved) THEN Absent ELSE store[n][k]]]
    BY DEF clear_cache
  <1>2. keys \subseteq Cleared(keys, resolved)
    BY DEF Cleared
  <1>3. store \in [Nodes -> [Keys -> {Absent, "last", "old"}]]
    BY DEF InvalidationTypeOK
  <1> HIDE DEF Cleared
  <1>4. \A m \in Nodes \ {n} : store'[m] = store[m]
    BY <1>1, <1>3
  <1>5. store'[n] = [k \in Keys |-> IF k \in Cleared(keys, resolved) THEN Absent ELSE store[n][k]]
    BY <1>1, <1>3
  <1>6. store'[n] \in [Keys -> {Absent, "last", "old"}]
    BY <1>3, <1>5
  <1>7. store' \in [Nodes -> [Keys -> {Absent, "last", "old"}]]
    BY <1>1, <1>3, <1>5, <1>6
  <1>8. \A j \in Keys : store'[n][j] = "old" => store[n][j] = "old" /\ j \notin keys
    BY <1>2, <1>5, InvalidationAssumption
  <1> QED
    BY <1>4, <1>7, <1>8

\* When every broadcast has been handled, a value that is not the one last
\* written is held by no node, whatever the order of writes, broadcasts and
\* deliveries among any number of nodes, unless the write was not broadcast or
\* a message was lost (the names of nodes are unique or not set).
THEOREM QuietCachesAgree == InvalidationSpec => []CoherentWhenQuiet
  <1>1. InvalidationInit => InvalidationInv
    <2> SUFFICES ASSUME InvalidationInit PROVE InvalidationInv
      OBVIOUS
    <2>1. InvalidationTypeOK
      BY DEF InvalidationInit, InvalidationTypeOK
    <2>2. \A n \in Nodes, k \in Keys : store[n][k] # "old"
      BY InvalidationAssumption DEF InvalidationInit
    <2> QED
      BY <2>1, <2>2 DEF InvalidationInv, OldWillGo
  <1>2. InvalidationInv /\ [InvalidationNext]_invalidationVars => InvalidationInv'
    <2> SUFFICES ASSUME InvalidationInv, [InvalidationNext]_invalidationVars
                 PROVE  InvalidationInv'
      OBVIOUS
    <2> USE DEF InvalidationInv
    <2>1. ASSUME NEW w \in Workers, Write(w)
          PROVE  InvalidationInv'
      <3>1. PICK k \in Keys, v \in Values :
              /\ Stored(NodeOf[w], k, v) /\ writer[w] = Absent
              /\ writer' = [writer EXCEPT ![w] = k] /\ unheard' = [unheard EXCEPT ![k] = FALSE]
              /\ UNCHANGED <<configured, msgs>>
        BY <2>1 DEF Write
      <3>2. NodeOf[w] \in Nodes
        BY InvalidationAssumption
      <3>3. /\ store' \in [Nodes -> [Keys -> {Absent, "last", "old"}]]
            /\ \A m \in Nodes, j \in Keys :
                 store'[m][j] = "old" => IF j = k THEN m # NodeOf[w] ELSE store[m][j] = "old"
        BY <3>1, <3>2, StoredType
      <3>4. InvalidationTypeOK'
        BY <3>1, <3>3 DEF InvalidationTypeOK
      <3>5. ASSUME NEW n \in Nodes, NEW j \in Keys, store'[n][j] = "old", ~unheard'[j]
            PROVE  WillHear(n, j)'
        <4>1. CASE j = k
          <5>1. writer'[w] = k /\ NodeOf[w] # n
            BY <3>1, <3>3, <3>5, <4>1 DEF InvalidationTypeOK
          <5> QED BY <4>1, <5>1 DEF WillHear
        <4>2. CASE j # k
          <5>1. WillHear(n, j)
            BY <3>1, <3>3, <3>5, <4>2 DEF OldWillGo, InvalidationTypeOK
          <5>2. \A x \in Workers : writer[x] = j => writer'[x] = j
            BY <3>1, InvalidationAssumption DEF InvalidationTypeOK
          <5> QED BY <3>1, <5>1, <5>2 DEF WillHear, Skips
        <4> QED BY <4>1, <4>2
      <3> QED BY <3>4, <3>5 DEF OldWillGo
    <2>2. ASSUME NEW w \in Workers, _broadcast_invalidation(w)
          PROVE  InvalidationInv'
      <3> DEFINE k == writer[w]
                 new == {[to |-> n, key |-> k, origin |-> configured.host[NodeOf[w]]] : n \in Nodes}
      <3>1. k \in Keys /\ NodeOf[w] \in Nodes /\ configured.host \in [Nodes -> STRING]
        BY <2>2, InvalidationAssumption DEF _broadcast_invalidation, InvalidationTypeOK
      <3>2. /\ writer' = [writer EXCEPT ![w] = Absent]
            /\ store' = store /\ configured' = configured
            /\ \/ msgs' = msgs \cup new /\ unheard' = unheard
               \/ msgs' = msgs /\ unheard' = [unheard EXCEPT ![k] = TRUE]
        BY <2>2 DEF _broadcast_invalidation
      <3>3. new \subseteq Message
        BY <3>1 DEF Message
      <3>4. InvalidationTypeOK'
        <4> HIDE DEF new
        <4> QED BY <3>1, <3>2, <3>3 DEF InvalidationTypeOK
      <3>5. ASSUME NEW n \in Nodes, NEW j \in Keys, store'[n][j] = "old", ~unheard'[j]
            PROVE  WillHear(n, j)'
        <4>1. WillHear(n, j)
          BY <3>1, <3>2, <3>5 DEF OldWillGo, InvalidationTypeOK
        <4>2. CASE \E x \in Workers \ {w} : writer[x] = j /\ NodeOf[x] # n
          <5>1. \A x \in Workers \ {w} : writer'[x] = writer[x]
            BY <3>2 DEF InvalidationTypeOK
          <5> QED BY <4>2, <5>1 DEF WillHear
        <4>3. CASE \E m \in msgs : m.to = n /\ m.key = j /\ ~Skips(n, m)
          BY <3>2, <4>3 DEF WillHear, Skips
        <4>4. CASE k = j /\ NodeOf[w] # n
          <5>1. PICK m \in new : m = [to |-> n, key |-> k, origin |-> configured.host[NodeOf[w]]]
            OBVIOUS
          <5>2. msgs' = msgs \cup new
            BY <3>1, <3>2, <3>5, <4>4 DEF InvalidationTypeOK
          <5>3. ~Skips(n, m)
            BY <3>1, <4>4, <5>1, InvalidationAssumption DEF Skips, InvalidationTypeOK
          <5>4. ~Skips(n, m)'
            BY <3>2, <5>3, SameSkips
          <5>5. m \in msgs' /\ m.to = n /\ m.key = j
            BY <4>4, <5>1, <5>2
          <5> QED BY <5>4, <5>5 DEF WillHear
        <4> QED BY <4>1, <4>2, <4>3, <4>4 DEF WillHear
      <3> QED BY <3>4, <3>5 DEF OldWillGo
    <2>3. ASSUME NEW w \in Workers, WriteUnheard(w)
          PROVE  InvalidationInv'
      <3>1. PICK k \in Keys, v \in Values :
              /\ Stored(NodeOf[w], k, v) /\ unheard' = [unheard EXCEPT ![k] = TRUE]
              /\ UNCHANGED <<configured, writer, msgs>>
        BY <2>3 DEF WriteUnheard
      <3>2. NodeOf[w] \in Nodes
        BY InvalidationAssumption
      <3>3. /\ store' \in [Nodes -> [Keys -> {Absent, "last", "old"}]]
            /\ \A m \in Nodes, j \in Keys :
                 store'[m][j] = "old" => IF j = k THEN m # NodeOf[w] ELSE store[m][j] = "old"
        BY <3>1, <3>2, StoredType
      <3>4. InvalidationTypeOK'
        BY <3>1, <3>3 DEF InvalidationTypeOK
      <3>5. ASSUME NEW n \in Nodes, NEW j \in Keys, store'[n][j] = "old", ~unheard'[j]
            PROVE  WillHear(n, j)'
        <4>1. j # k /\ store[n][j] = "old" /\ ~unheard[j]
          BY <3>1, <3>3, <3>5 DEF InvalidationTypeOK
        <4>2. WillHear(n, j)
          BY <4>1 DEF OldWillGo
        <4> QED BY <3>1, <4>2, StillHeard
      <3> QED BY <3>4, <3>5 DEF OldWillGo
    <2>4. ASSUME NEW m \in msgs, broadcast_cache_invalidation(m)
          PROVE  InvalidationInv'
      <3>0. m \in Message
        BY DEF InvalidationTypeOK
      <3>1. /\ msgs' \in {msgs, msgs \ {m}}
            /\ UNCHANGED <<configured, writer, unheard>>
            /\ IF Skips(m.to, m) THEN store' = store ELSE clear_cache(m.to, {m.key}, {})
        BY <2>4 DEF broadcast_cache_invalidation
      <3>2. /\ store' \in [Nodes -> [Keys -> {Absent, "last", "old"}]]
            /\ \A n \in Nodes, j \in Keys : store'[n][j] = "old" =>
                 store[n][j] = "old" /\ (n = m.to /\ j = m.key => Skips(n, m))
        <4>1. CASE Skips(m.to, m)
          BY <3>1, <4>1 DEF InvalidationTypeOK
        <4>2. CASE ~Skips(m.to, m)
          <5>1. m.to \in Nodes
            BY <3>0 DEF Message
          <5>2. clear_cache(m.to, {m.key}, {})
            BY <3>1, <4>2
          <5> QED BY <5>1, <5>2, ClearType
        <4> QED BY <4>1, <4>2
      <3>3. InvalidationTypeOK'
        BY <3>1, <3>2 DEF InvalidationTypeOK
      <3>4. ASSUME NEW n \in Nodes, NEW j \in Keys, store'[n][j] = "old", ~unheard'[j]
            PROVE  WillHear(n, j)'
        <4>1. WillHear(n, j)
          BY <3>1, <3>2, <3>4 DEF OldWillGo
        <4>2. \A x \in msgs : x.to = n /\ x.key = j /\ ~Skips(n, x) => x \in msgs'
          BY <3>1, <3>2, <3>4
        <4> QED BY <3>1, <4>1, <4>2 DEF WillHear, Skips
      <3> QED BY <3>3, <3>4 DEF OldWillGo
    <2>5. ASSUME NEW m \in msgs, Lost(m)
          PROVE  InvalidationInv'
      <3>0. m.key \in Keys
        BY DEF InvalidationTypeOK, Message
      <3>1. msgs' = msgs \ {m} /\ unheard' = [unheard EXCEPT ![m.key] = TRUE]
            /\ UNCHANGED <<configured, store, writer>>
        BY <2>5 DEF Lost
      <3>2. InvalidationTypeOK'
        BY <3>1 DEF InvalidationTypeOK
      <3>3. ASSUME NEW n \in Nodes, NEW j \in Keys, store'[n][j] = "old", ~unheard'[j]
            PROVE  WillHear(n, j)'
        <4>1. j # m.key /\ WillHear(n, j)
          BY <3>0, <3>1, <3>3 DEF OldWillGo, InvalidationTypeOK
        <4> QED BY <3>1, <4>1 DEF WillHear, Skips
      <3> QED BY <3>2, <3>3 DEF OldWillGo
    <2>6. ASSUME NEW n \in Nodes, ServiceClears(n)
          PROVE  InvalidationInv'
      <3>1. PICK k \in Keys, resolved \in SUBSET Keys : clear_cache(n, {k}, resolved)
        BY <2>6 DEF ServiceClears
      <3>2. UNCHANGED <<configured, writer, msgs, unheard>>
        BY <2>6 DEF ServiceClears
      <3>3. /\ store' \in [Nodes -> [Keys -> {Absent, "last", "old"}]]
            /\ \A x \in Nodes, j \in Keys : store'[x][j] = "old" => store[x][j] = "old"
        BY <3>1, ClearType
      <3>4. InvalidationTypeOK'
        BY <3>2, <3>3 DEF InvalidationTypeOK
      <3>5. \A x, j : WillHear(x, j) => WillHear(x, j)'
        BY <3>2, StillHeard
      <3> QED
        BY <3>2, <3>3, <3>4, <3>5 DEF OldWillGo
    <2>7. CASE UNCHANGED invalidationVars
      <3>1. \A x, j : WillHear(x, j) => WillHear(x, j)'
        BY <2>7, StillHeard DEF invalidationVars
      <3> QED
        BY <2>7, <3>1 DEF invalidationVars, InvalidationTypeOK, OldWillGo
    <2> QED
      BY <2>1, <2>2, <2>3, <2>4, <2>5, <2>6, <2>7 DEF InvalidationNext
  <1>3. InvalidationInv => CoherentWhenQuiet
    BY DEF InvalidationInv, OldWillGo, WillHear, CoherentWhenQuiet
  <1> QED
    BY <1>1, <1>2, <1>3, PTL DEF InvalidationSpec

-----------------------------------------------------------------------------
(***************************************************************************)
(* The cache with a fallback                                               *)
(***************************************************************************)
Recovering(steps) == \E t \in Threads : recovery[t] \in steps

\* What the caches hold as long as nothing raced: the one in use holds no old
\* value; the fallback is empty when it is not in use, or about to be left; a
\* recovery that has cleared the primary keeps it empty until the file goes.
InUseIsCurrent ==
  /\ ~old
  /\ flag => fallback # "old"
  /\ ~flag => primary # "old" /\ fallback = None
  /\ flag /\ Recovering({"clear fallback", "unlink"}) => primary = None
  /\ Recovering({"unlink"}) => fallback = None
FallbackInv == /\ recovery \in [Threads -> {"none", "ping", "clear primary", "clear fallback", "unlink"}]
               /\ ~raced => InUseIsCurrent

LEMMA OperationKeeps ==
    ASSUME NEW o, NEW v, v # "old"
    PROVE  /\ Here(o, v) # "old"
           /\ \A other : other = None => There(o, v, other) = None
  BY FallbackAssumption DEF Here, There

\* A value that was overwritten is read only after a race of the kinds that
\* raced names, whatever the number of threads and processes, of failures of the
\* primary, recoveries and restarts: clearing both caches before the file goes
\* is enough, and the order (primary, fallback, file) matters.
THEOREM OldValuesAreRaces == FallbackSpec => []OldValuesNeedARace
  <1>1. FallbackInit => FallbackInv
    BY FallbackAssumption DEF FallbackInit, FallbackInv, InUseIsCurrent, Recovering
  <1>2. FallbackInv /\ [FallbackNext]_fallbackVars => FallbackInv'
    <2> SUFFICES ASSUME FallbackInv, [FallbackNext]_fallbackVars
                 PROVE  FallbackInv'
      OBVIOUS
    <2>k. ASSUME UNCHANGED <<flag, primary, fallback, recovery, old, raced>>
          PROVE  FallbackInv'
      BY <2>k DEF FallbackInv, InUseIsCurrent, Recovering
    <2>1. ASSUME NEW t \in Threads, Begin(t)
          PROVE  FallbackInv'
      BY <2>1, <2>k DEF Begin
    <2>2. ASSUME NEW t \in Threads, OnPrimary(t)
          PROVE  FallbackInv'
      <3>1. CASE UNCHANGED <<primary, fallback, old, raced>>
        BY <2>2, <2>k, <3>1 DEF OnPrimary
      <3>2. CASE raced' = (raced \/ flag) /\ \E o \in Operations :
                   /\ primary' = Here(o, primary) /\ fallback' = There(o, primary, fallback)
                   /\ ReadsOld(o, primary)
        <4>1. PICK o \in Operations : /\ primary' = Here(o, primary)
                                      /\ fallback' = There(o, primary, fallback)
                                      /\ ReadsOld(o, primary)
          BY <3>2
        <4>2. UNCHANGED <<flag, recovery>>
          BY <2>2 DEF OnPrimary
        <4>3. ASSUME ~raced' PROVE InUseIsCurrent'
          <5>1. ~raced /\ ~flag /\ InUseIsCurrent
            BY <3>2, <4>3 DEF FallbackInv
          <5>2. primary' # "old" /\ fallback' = None
            BY <4>1, <5>1, OperationKeeps DEF InUseIsCurrent
          <5>3. ~old'
            BY <4>1, <5>1 DEF InUseIsCurrent, ReadsOld
          <5> QED BY <4>2, <5>1, <5>2, <5>3 DEF InUseIsCurrent, Recovering
        <4> QED BY <4>2, <4>3 DEF FallbackInv
      <3> QED BY <2>2, <3>1, <3>2 DEF OnPrimary
    <2>3. ASSUME NEW t \in Threads, create_temp_file(t)
          PROVE  FallbackInv'
      <3>1. /\ flag' = TRUE /\ UNCHANGED <<primary, fallback, recovery, old>>
            /\ raced' = (raced \/ (~flag /\ Recovering({"clear fallback", "unlink"})))
        BY <2>3 DEF create_temp_file, Recovering
      <3>2. Recovering({"clear fallback", "unlink"})' <=> Recovering({"clear fallback", "unlink"})
        BY <3>1 DEF Recovering
      <3>3. Recovering({"unlink"})' <=> Recovering({"unlink"})
        BY <3>1 DEF Recovering
      <3> QED BY <3>1, <3>2, <3>3, FallbackAssumption DEF FallbackInv, InUseIsCurrent
    <2>4. ASSUME NEW t \in Threads, OnFallback(t)
          PROVE  FallbackInv'
      <3>1. PICK o \in Operations : /\ fallback' = Here(o, fallback)
                                    /\ primary' = There(o, fallback, primary)
                                    /\ ReadsOld(o, fallback)
        BY <2>4 DEF OnFallback
      <3>2. /\ UNCHANGED <<flag, recovery>>
            /\ raced' = (raced \/ ~flag \/ Recovering({"unlink"}))
        BY <2>4 DEF OnFallback, Recovering
      <3>3. ASSUME ~raced' PROVE InUseIsCurrent'
        <4>1. ~raced /\ flag /\ ~Recovering({"unlink"}) /\ InUseIsCurrent
          BY <3>2, <3>3 DEF FallbackInv
        <4>2. fallback # "old"
          BY <4>1 DEF InUseIsCurrent
        <4>3. fallback' # "old" /\ (primary = None => primary' = None)
          BY <3>1, <4>2, OperationKeeps
        <4>4. ~old'
          BY <3>1, <4>1, <4>2 DEF InUseIsCurrent, ReadsOld
        <4>5. /\ Recovering({"unlink"})' <=> Recovering({"unlink"})
              /\ Recovering({"clear fallback", "unlink"})' <=> Recovering({"clear fallback", "unlink"})
          BY <3>2 DEF Recovering
        <4> QED BY <3>2, <4>1, <4>3, <4>4, <4>5 DEF InUseIsCurrent
      <3> QED BY <3>2, <3>3 DEF FallbackInv
    <2>5. ASSUME NEW t \in Threads, AskRecoverer(t)
          PROVE  FallbackInv'
      BY <2>5, <2>k DEF AskRecoverer
    <2>6. ASSUME NEW t \in Threads, Submit(t)
          PROVE  FallbackInv'
      <3>1. /\ recovery' = [recovery EXCEPT ![t] = IF @ = "none" THEN "ping" ELSE @]
            /\ UNCHANGED <<flag, primary, fallback, old, raced>>
        BY <2>6 DEF Submit
      <3>2. \A x \in Threads : recovery'[x] \in {"clear fallback", "unlink"} => recovery'[x] = recovery[x]
        BY <3>1 DEF FallbackInv
      <3>3. /\ Recovering({"unlink"})' => Recovering({"unlink"})
            /\ Recovering({"clear fallback", "unlink"})' => Recovering({"clear fallback", "unlink"})
        BY <3>2 DEF Recovering
      <3> QED BY <3>1, <3>3 DEF FallbackInv, InUseIsCurrent
    <2>7. ASSUME NEW t \in Threads, RecoveryStep(t)
          PROVE  FallbackInv'
      <3>0. UNCHANGED <<old, raced>>
        BY <2>7 DEF RecoveryStep
      <3>1. CASE Ping(t)
        <4>1. recovery' = [recovery EXCEPT ![t] = IF PrimaryWorks /\ flag THEN "clear primary" ELSE "none"]
              /\ UNCHANGED <<flag, primary, fallback>>
          BY <3>1 DEF Ping, Recovers
        <4>2. \A x \in Threads : recovery'[x] \in {"clear fallback", "unlink"} => recovery'[x] = recovery[x]
          BY <4>1 DEF FallbackInv
        <4>3. /\ Recovering({"unlink"})' => Recovering({"unlink"})
              /\ Recovering({"clear fallback", "unlink"})' => Recovering({"clear fallback", "unlink"})
          BY <4>2 DEF Recovering
        <4> QED BY <3>0, <4>1, <4>3 DEF FallbackInv, InUseIsCurrent
      <3>2. CASE ClearPrimary(t)
        <4>1. /\ recovery' = [recovery EXCEPT ![t] = IF PrimaryWorks THEN "clear fallback" ELSE "none"]
              /\ primary' = IF PrimaryWorks THEN None ELSE primary
              /\ UNCHANGED <<flag, fallback>>
          BY <3>2 DEF ClearPrimary, Recovers
        <4>2. \A x \in Threads : /\ recovery'[x] = "unlink" => recovery'[x] = recovery[x]
                                 /\ recovery'[x] = "clear fallback" =>
                                      PrimaryWorks \/ recovery'[x] = recovery[x]
          BY <4>1 DEF FallbackInv
        <4>3. /\ Recovering({"unlink"})' => Recovering({"unlink"})
              /\ Recovering({"clear fallback", "unlink"})' =>
                   PrimaryWorks \/ Recovering({"clear fallback", "unlink"})
          BY <4>2 DEF Recovering
        <4> QED BY <3>0, <4>1, <4>3, FallbackAssumption DEF FallbackInv, InUseIsCurrent
      <3>3. CASE ClearFallback(t)
        <4>1. /\ recovery[t] = "clear fallback" /\ recovery' = [recovery EXCEPT ![t] = "unlink"]
              /\ fallback' = None /\ UNCHANGED <<flag, primary>>
          BY <3>3 DEF ClearFallback
        <4>2. Recovering({"clear fallback", "unlink"})
          BY <4>1 DEF Recovering
        <4> QED BY <3>0, <4>1, <4>2, FallbackAssumption DEF FallbackInv, InUseIsCurrent
      <3>4. CASE Unlink(t)
        <4>1. /\ recovery[t] = "unlink" /\ recovery' = [recovery EXCEPT ![t] = "none"]
              /\ flag' = FALSE /\ UNCHANGED <<primary, fallback>>
          BY <3>4 DEF Unlink, Recovers
        <4>2. Recovering({"clear fallback", "unlink"}) /\ Recovering({"unlink"})
          BY <4>1 DEF Recovering
        <4> QED BY <3>0, <4>1, <4>2, FallbackAssumption DEF FallbackInv, InUseIsCurrent
      <3> QED BY <2>7, <3>1, <3>2, <3>3, <3>4 DEF RecoveryStep
    <2>8. CASE ServerChanges
      BY <2>8, <2>k DEF ServerChanges
    <2>9. CASE Expire
      BY <2>9, <2>k DEF Expire
    <2>10. ASSUME NEW i \in Instances, Restart(i)
           PROVE  FallbackInv'
      <3>1. /\ recovery' = [t \in Threads |-> IF InstanceOf[t] = i THEN "none" ELSE recovery[t]]
            /\ flag' = FALSE /\ raced' = (raced \/ flag) /\ UNCHANGED <<primary, fallback, old>>
        BY <2>10 DEF Restart
      <3>2. Recovering({"unlink"})' => Recovering({"unlink"})
        BY <3>1 DEF Recovering
      <3>3. recovery' \in [Threads -> {"none", "ping", "clear primary", "clear fallback", "unlink"}]
        BY <3>1 DEF FallbackInv
      <3> QED BY <3>1, <3>2, <3>3 DEF FallbackInv, InUseIsCurrent
    <2>11. CASE UNCHANGED fallbackVars
      BY <2>11, <2>k DEF fallbackVars
    <2> QED
      BY <2>1, <2>2, <2>3, <2>4, <2>5, <2>6, <2>7, <2>8, <2>9, <2>10, <2>11 DEF FallbackNext, OpStep
  <1>3. FallbackInv => OldValuesNeedARace
    BY DEF FallbackInv, InUseIsCurrent, OldValuesNeedARace
  <1> QED
    BY <1>1, <1>2, <1>3, PTL DEF FallbackSpec

-----------------------------------------------------------------------------
(***************************************************************************)
(* What a run of the periodic sync may choose to delete                    *)
(***************************************************************************)
\* What the run has seen of the server still holds; the manifest it looks for
\* orphans with has all of the type that the server has listed all along, and an
\* orphan it is about to delete is nothing of that.
DeleteInv == /\ {"always", "orphans", "phase", "manifest", "type"} \subseteq DOMAIN sync
             /\ sync.always \subseteq Listed(server)
             /\ sync.orphans \cap sync.always = {}
             /\ sync.phase = "orphans" =>
                  \A id \in sync.always : TypeOf[id] = Types[sync.type] => id \in {m[1] : m \in sync.manifest}

\* What is listed is in the database.
LEMMA ListedExists == \A db : Listed(db) \subseteq DOMAIN db
BY DEF Listed

\* A run that is over, or has not begun, has nothing to delete.
LEMMA IdleInv == /\ {"always", "orphans", "phase", "manifest", "type"} \subseteq DOMAIN Idle
                 /\ Idle.always = {} /\ Idle.orphans = {} /\ Idle.phase = "idle"
BY DEF Idle

\* The turn to the next type leaves the run's record of the server alone.
LEMMA NextTypeInv ==
    ASSUME NEW s, {"always", "orphans", "phase", "manifest", "type"} \subseteq DOMAIN s
    PROVE  LET n == NextType(s)
           IN  /\ {"always", "orphans", "phase", "manifest", "type"} \subseteq DOMAIN n
               /\ \/ n = Idle
                  \/ n.always = s.always /\ n.orphans = s.orphans /\ n.phase = "manifest"
BY DEF NextType, Idle

\* The manifest of a type, complete, has everything the server lists of it.
LEMMA ManifestHasListed ==
    ASSUME sync.always \subseteq Listed(server),
           NEW id \in sync.always, TypeOf[id] = Types[sync.type]
    PROVE  id \in {m[1] : m \in Manifest(sync.type)}
<1>1. id \in Visible(sync.type)
      BY ListedExists DEF Visible, OfType
<1>2. <<id, Data(server[id])>> \in Manifest(sync.type)
      BY <1>1 DEF Manifest
<1> QED BY <1>2

\* The orphans that such a manifest leaves have not been listed all along.
LEMMA OrphansNotListed ==
    ASSUME \A id \in sync.always : TypeOf[id] = Types[sync.type] => id \in {m[1] : m \in sync.manifest}
    PROVE  OrphansOf(sync.manifest) \cap sync.always = {}
BY DEF OrphansOf, OfType

\* People change the server under a run: what it has seen is forgotten.
LEMMA ServerBecomesInv ==
    ASSUME DeleteInv, NEW db, ServerBecomes(db)
    PROVE  DeleteInv'
BY DEF DeleteInv, ServerBecomes, Listed

\* DeleteInv is inductive.
LEMMA DeleteInvInit == Init => DeleteInv
BY IdleInv DEF Init, DeleteInv

LEMMA DeleteInvNext == DeleteInv /\ [Next]_vars => DeleteInv'
<1> SUFFICES ASSUME DeleteInv, [Next]_vars PROVE DeleteInv'
    OBVIOUS
<1>1. ASSUME NEW id \in Id, NEW row \in Row, ServerSave(id, row) PROVE DeleteInv'
      BY <1>1, ServerBecomesInv DEF ServerSave
<1>2. ASSUME NEW id \in Id, NEW row \in Row, LocalSave(id, row) PROVE DeleteInv'
      BY <1>2 DEF LocalSave, DeleteInv, Listed
<1>3. ASSUME NEW id \in Id, NEW row \in Row, SharedCreate(id, row) PROVE DeleteInv'
      BY <1>3, ServerBecomesInv DEF SharedCreate
<1>4. ASSUME NEW id \in Id, ServerDelete(id) PROVE DeleteInv'
      BY <1>4, ServerBecomesInv DEF ServerDelete
<1>5. ASSUME NEW id \in Id, LocalDelete(id) PROVE DeleteInv'
      BY <1>5 DEF LocalDelete, DeleteInv, Listed
<1>6. CASE StartSync
      BY <1>6, IdleInv DEF StartSync, DeleteInv, Idle, Listed
<1>7. CASE FetchManifest
  <2>1. UNCHANGED server
        BY <1>7 DEF FetchManifest
  <2>2. Listed(server)' = Listed(server)
        BY <2>1 DEF Listed
  <2>3. CASE sync' = Fetched(Manifest(sync.type), "orphans")
    <3>1. /\ sync'.always = sync.always /\ sync'.orphans = sync.orphans
          /\ sync'.type = sync.type /\ sync'.manifest = Manifest(sync.type)
          /\ {"always", "orphans", "phase", "manifest", "type"} \subseteq DOMAIN sync'
          BY <2>3 DEF Fetched, DeleteInv
    <3> QED BY <2>2, <3>1, ManifestHasListed DEF DeleteInv
  <2>4. ASSUME NEW M, sync' = Fetched(M, "process")
        PROVE  DeleteInv'
        BY <2>2, <2>4 DEF DeleteInv, Fetched
  <2>5. CASE sync' = NextType(sync)
        BY <2>2, <2>5, NextTypeInv, IdleInv DEF DeleteInv
  <2>6. CASE Abort
        BY <2>2, <2>6, IdleInv DEF Abort, DeleteInv
  <2> QED BY <1>7, <2>3, <2>4, <2>5, <2>6 DEF FetchManifest
<1>7a. CASE FindOrphans
       BY <1>7a, OrphansNotListed DEF FindOrphans, DeleteInv, Listed
<1>8. CASE CleanupDone
      BY <1>8 DEF CleanupDone, DeleteInv, Listed
<1>9. CASE ListDone
  <2> DEFINE s == [sync EXCEPT !.unavailable = Unavailable, !.missing = {}, !.manifest = {}]
  <2>1. Listed(server)' = Listed(server)
        BY <1>9 DEF ListDone, Listed
  <2>2. /\ s.always = sync.always /\ s.orphans = sync.orphans /\ s.phase = sync.phase
        /\ {"always", "orphans", "phase", "manifest", "type"} \subseteq DOMAIN s
        BY DEF DeleteInv
  <2>3. \/ sync' = [s EXCEPT !.todo = Unavailable, !.manifest = Unavailable,
                             !.attempts = @ + 1]
        \/ sync' = NextType(s)
        BY <1>9 DEF ListDone
  <2> HIDE DEF s
  <2>4. CASE sync' = [s EXCEPT !.todo = Unavailable, !.manifest = Unavailable,
                             !.attempts = @ + 1]
        BY <1>9, <2>1, <2>2, <2>4 DEF DeleteInv, ListDone
  <2>5. CASE sync' = NextType(s)
        BY <2>1, <2>2, <2>5, NextTypeInv, IdleInv DEF DeleteInv
  <2> QED BY <2>3, <2>4, <2>5
<1>10. ASSUME NEW id \in Id, CleanupOrphan(id) PROVE DeleteInv'
       BY <1>10 DEF CleanupOrphan, DeleteInv, Listed
<1>11. ASSUME NEW m \in sync.todo, ProcessItem(m) PROVE DeleteInv'
  <2>1. Listed(server)' = Listed(server)
        BY <1>11 DEF ProcessItem, Listed
  <2>2. \/ Did(m) \/ Abort
        \/ sync' = [sync EXCEPT !.todo = @ \ {m}, !.missing = @ \cup {m}]
        BY <1>11 DEF ProcessItem
  <2> QED BY <2>1, <2>2, IdleInv DEF Did, Abort, DeleteInv
<1>12. CASE UNCHANGED vars
       BY <1>12 DEF vars, DeleteInv, Listed
<1> QED BY <1>1, <1>2, <1>3, <1>4, <1>5, <1>6, <1>7, <1>7a, <1>8, <1>9, <1>10, <1>11, <1>12
        DEF Next, SyncStep

-----------------------------------------------------------------------------
\* A deletion takes the resource and the teams of the resource.
LEMMA DeletionTarget ==
    ASSUME NEW id, NEW S,
           id \in DOMAIN local,
           DOMAIN local' = (DOMAIN local \ Cascade(local, id)) \cup S,
           id \notin S
    PROVE  \A i \in Removed : local[i].org \notin Removed => i = id
<1>1. id \in Cascade(local, id)
      BY DEF Cascade
<1>2. id \in Removed
      BY <1>1 DEF Removed
<1> SUFFICES ASSUME NEW i \in Removed, i # id PROVE local[i].org \in Removed
    OBVIOUS
<1>3. i \in Cascade(local, id)
      BY DEF Removed
<1>4. local[i].org = id
      BY <1>3 DEF Cascade
<1> QED BY <1>2, <1>4

\* Writing an item removes nothing, or removes the resource in its way, which the
\* server does not have.
LEMMA ItemTarget ==
    ASSUME NEW m \in sync.todo, ProcessItem(m)
    PROVE  \A i \in Removed : local[i].org \notin Removed => i \notin DOMAIN server
<1> DEFINE id == m[1]
<1>1. \/ UNCHANGED local
      \/ local' = Written(local, id, server[id])
      \/ \E c \in Clashes(local, id, server[id]) : local' = Resolved(id, c) \/ local' = Handled(c)
      BY DEF ProcessItem, Abort
<1>2. CASE UNCHANGED local \/ local' = Written(local, id, server[id])
  <2>1. DOMAIN local \subseteq DOMAIN local'
        BY <1>2 DEF Written, Put
  <2> QED BY <2>1 DEF Removed
<1>3. ASSUME NEW c \in Clashes(local, id, server[id]), local' = Resolved(id, c) \/ local' = Handled(c)
      PROVE  \A i \in Removed : local[i].org \notin Removed => i \notin DOMAIN server
  <2>1. c \in DOMAIN local /\ c # id
        BY DEF Clashes
  <2>2. DOMAIN local' = DOMAIN Handled(c) \/ DOMAIN local' = DOMAIN Handled(c) \cup {id}
        BY <1>3 DEF Resolved, Written, Put
  <2>3. CASE c \notin DOMAIN server
    <3>1. DOMAIN Handled(c) = DOMAIN local \ Cascade(local, c)
          BY <2>3 DEF Handled, Delete, Restrict
    <3>2. PICK S \in {{}, {id}} : DOMAIN local' = (DOMAIN local \ Cascade(local, c)) \cup S
          BY <2>2, <3>1
    <3>3. c \notin S
          BY <2>1, <3>2
    <3> QED BY <2>1, <2>3, <3>2, <3>3, DeletionTarget
  <2>4. CASE c \in DOMAIN server
    <3>1. DOMAIN local \subseteq DOMAIN local'
          BY <2>2, <2>4 DEF Handled, Put
    <3> QED BY <3>1 DEF Removed
  <2> QED BY <2>3, <2>4
<1> QED BY <1>1, <1>2, <1>3

\* The step of a run that deletes, in a state that satisfies the invariant.
LEMMA DeletionStep ==
    ASSUME DeleteInv, SyncStep
    PROVE  \A id \in Removed : local[id].org \notin Removed => id \notin sync.always
<1>1. CASE StartSync \/ FetchManifest \/ FindOrphans \/ CleanupDone \/ ListDone
      BY <1>1 DEF StartSync, FetchManifest, FindOrphans, Abort, CleanupDone, ListDone, Removed
<1>2. ASSUME NEW id \in Id, CleanupOrphan(id)
      PROVE  \A i \in Removed : local[i].org \notin Removed => i \notin sync.always
  <2>1. CASE UNCHANGED local
        BY <2>1 DEF Removed
  <2>2. CASE id \in DOMAIN local /\ local' = Delete(local, id)
    <3>1. DOMAIN local' = (DOMAIN local \ Cascade(local, id)) \cup {}
          BY <2>2 DEF Delete, Restrict
    <3>2. id \notin sync.always
          BY <1>2 DEF CleanupOrphan, DeleteInv
    <3> QED BY <2>2, <3>1, <3>2, DeletionTarget
  <2> QED BY <1>2, <2>1, <2>2 DEF CleanupOrphan
<1>3. ASSUME NEW m \in sync.todo, ProcessItem(m)
      PROVE  \A i \in Removed : local[i].org \notin Removed => i \notin sync.always
      BY <1>3, ItemTarget, ListedExists DEF DeleteInv
<1> QED BY <1>1, <1>2, <1>3 DEF SyncStep

\* In every behaviour a run chooses for deletion only what the server has not
\* listed all along: incomplete manifests, failures, races and conflicts included.
THEOREM SyncDeletesOnlyGone == Spec => DeletesOnlyGone
<1>1. Init => DeleteInv
      BY DeleteInvInit
<1>2. DeleteInv /\ [Next]_vars => DeleteInv'
      BY DeleteInvNext
<1>3. DeleteInv /\ [Next]_vars =>
         [SyncStep => \A id \in Removed : local[id].org \notin Removed => id \notin sync.always]_vars
      BY DeletionStep
<1> QED BY <1>1, <1>2, <1>3, PTL DEF Spec, DeletesOnlyGone
=============================================================================

-------------------------- MODULE AssignmentSyncProofs --------------------------
(***************************************************************************)
(* Proofs about AssignmentSync: whatever happens at both ends while the    *)
(* task pages through the server's lists, it deletes and creates nothing   *)
(* without reason.                                                         *)
(***************************************************************************)
EXTENDS AssignmentSync, SequenceTheorems, FiniteSetTheorems, TLAPS

-----------------------------------------------------------------------------
(* The server's lists *)

\* Unique rows, each in the list of its kind.
Lists(s) == /\ s \in [Kind -> Seq(Asg)]
            /\ \A k \in Kind : IsInjective(s[k]) /\ \A a \in ToSet(s[k]) : KindOf(a) = k

\* Every assignment is of one of the two kinds.
LEMMA KindIsKind == \A a : KindOf(a) \in Kind
  BY DEF KindOf, Kind

\* What is listed is listed under its kind.
LEMMA ListedByKind ==
  ASSUME NEW s, Lists(s), NEW a
  PROVE  /\ a \in Listed(s) => a \in ToSet(s[KindOf(a)]) /\ a \in Asg
         /\ \A k \in Kind : a \in ToSet(s[k]) => a \in Listed(s)
<1>1. ASSUME NEW k \in Kind, a \in ToSet(s[k])
      PROVE  KindOf(a) = k /\ a \in Asg
  <2>1. s[k] \in Seq(Asg)
    BY DEF Lists
  <2>2. PICK i \in DOMAIN s[k] : a = s[k][i]
    BY <1>1 DEF ToSet
  <2>3. a \in Asg
    BY <2>1, <2>2
  <2> QED BY <1>1, <2>3 DEF Lists
<1> QED BY <1>1 DEF Listed

\* A row that is added to the end of its list leaves the lists well formed.
LEMMA AssignedLists ==
  ASSUME NEW s, Lists(s), NEW a \in Asg
  PROVE  Lists(Assigned(s, a))
<1>1. CASE a \in Listed(s)
  BY <1>1 DEF Assigned
<1>2. CASE a \notin Listed(s)
  <2> DEFINE k == KindOf(a)
             t == Append(s[k], a)
  <2>1. k \in Kind /\ s[k] \in Seq(Asg) /\ IsInjective(s[k])
    BY KindIsKind DEF Lists
  <2>2. Assigned(s, a) = [s EXCEPT ![k] = t]
    BY <1>2 DEF Assigned
  <2>3. t \in Seq(Asg) /\ DOMAIN t = 1 .. Len(s[k]) + 1 /\ t[Len(s[k]) + 1] = a
        /\ \A i \in 1 .. Len(s[k]) : t[i] = s[k][i]
    BY <2>1
  <2>4. \A i \in 1 .. Len(s[k]) : s[k][i] # a
    BY <1>2, <2>1, ListedByKind DEF ToSet
  <2>5. IsInjective(t)
    BY <2>1, <2>3, <2>4 DEF IsInjective
  <2>6. \A b \in ToSet(t) : b \in ToSet(s[k]) \/ b = a
    BY <2>1, <2>3 DEF ToSet
  <2>7. \A b \in ToSet(t) : KindOf(b) = k
    BY <2>1, <2>6 DEF Lists
  <2> HIDE DEF t, k
  <2>8. \A j \in Kind : [s EXCEPT ![k] = t][j] = IF j = k THEN t ELSE s[j]
    BY <2>1 DEF Lists
  <2>9. [s EXCEPT ![k] = t] \in [Kind -> Seq(Asg)]
    BY <2>1, <2>3 DEF Lists
  <2> QED BY <2>2, <2>5, <2>7, <2>8, <2>9 DEF Lists
<1> QED BY <1>1, <1>2

\* What is left of a sequence when one element is taken out.
LEMMA RemoveAtIs ==
  ASSUME NEW S, NEW q \in Seq(S), NEW p \in 1 .. Len(q)
  PROVE  /\ RemoveAt(q, p) \in Seq(S) /\ Len(RemoveAt(q, p)) = Len(q) - 1
         /\ \A i \in 1 .. Len(q) - 1 : RemoveAt(q, p)[i] = q[IF i < p THEN i ELSE i + 1]
<1> DEFINE u == SubSeq(q, 1, p - 1)
           v == SubSeq(q, p + 1, Len(q))
<1>1. Len(q) \in Nat
  OBVIOUS
<1>2. u \in Seq(S) /\ Len(u) = p - 1 /\ \A i \in 1 .. p - 1 : u[i] = q[i]
  BY <1>1
<1>3. v \in Seq(S) /\ Len(v) = Len(q) - p /\ \A i \in 1 .. Len(q) - p : v[i] = q[p + i]
  BY <1>1
<1> HIDE DEF u, v
<1>4. /\ u \o v \in Seq(S) /\ Len(u \o v) = Len(u) + Len(v)
      /\ \A i \in 1 .. Len(u) + Len(v) : (u \o v)[i] = IF i <= Len(u) THEN u[i] ELSE v[i - Len(u)]
  <2>1. u \in Seq(S) /\ v \in Seq(S)
    BY <1>2, <1>3
  <2> QED BY <2>1, ConcatProperties
<1>5. ASSUME NEW i \in 1 .. Len(q) - 1
      PROVE  (u \o v)[i] = q[IF i < p THEN i ELSE i + 1]
  <2>1. CASE i < p
    BY <1>1, <1>2, <1>3, <1>4, <2>1
  <2>2. CASE ~ (i < p)
    <3>1. (u \o v)[i] = v[i - (p - 1)] /\ i - (p - 1) \in 1 .. Len(q) - p
      BY <1>1, <1>2, <1>3, <1>4, <2>2
    <3>2. p + (i - (p - 1)) = i + 1
      BY <1>1
    <3> QED BY <1>3, <2>2, <3>1, <3>2
  <2> QED BY <2>1, <2>2
<1>6. RemoveAt(q, p) = u \o v
  BY DEF RemoveAt, u, v
<1>7. Len(u) + Len(v) = Len(q) - 1
  BY <1>1, <1>2, <1>3
<1> QED BY <1>4, <1>5, <1>6, <1>7

\* A row that is taken out of its list leaves the lists well formed.
LEMMA UnassignedLists ==
  ASSUME NEW s, Lists(s), NEW a \in Asg
  PROVE  Lists(Unassigned(s, a))
<1>1. CASE a \notin Listed(s)
  BY <1>1 DEF Unassigned
<1>2. CASE a \in Listed(s)
  <2> DEFINE k == KindOf(a)
             p == Place(s, a)
             t == RemoveAt(s[k], p)
  <2>1. k \in Kind /\ s[k] \in Seq(Asg) /\ IsInjective(s[k])
    BY KindIsKind DEF Lists
  <2>2. Unassigned(s, a) = [s EXCEPT ![k] = t]
    BY <1>2 DEF Unassigned
  <2>3. \E i \in DOMAIN s[k] : s[k][i] = a
    BY <1>2, ListedByKind DEF ToSet
  <2>4. p \in 1 .. Len(s[k])
    BY <2>1, <2>3 DEF Place
  <2> HIDE DEF p
  <2>5. t \in Seq(Asg) /\ Len(t) = Len(s[k]) - 1
        /\ \A i \in 1 .. Len(t) : t[i] = s[k][IF i < p THEN i ELSE i + 1]
    BY <2>1, <2>4, RemoveAtIs
  <2> HIDE DEF t, k
  <2>6. DOMAIN t = 1 .. Len(t) /\ DOMAIN s[k] = 1 .. Len(s[k]) /\ Len(t) \in Nat
    BY <2>1, <2>5
  <2>7. \A i \in DOMAIN t : (IF i < p THEN i ELSE i + 1) \in DOMAIN s[k]
    BY <2>4, <2>5, <2>6
  <2>8. \A i \in DOMAIN t : t[i] \in ToSet(s[k])
    BY <2>5, <2>6, <2>7 DEF ToSet
  <2>9. ASSUME NEW i \in DOMAIN t, NEW j \in DOMAIN t, t[i] = t[j]
        PROVE  i = j
    <3>1. (IF i < p THEN i ELSE i + 1) = (IF j < p THEN j ELSE j + 1)
      BY <2>1, <2>5, <2>6, <2>7, <2>9 DEF IsInjective
    <3> QED BY <2>4, <2>6, <3>1
  <2>10. IsInjective(t)
    BY <2>9 DEF IsInjective
  <2>11. \A b \in ToSet(t) : KindOf(b) = k
    BY <2>1, <2>8 DEF Lists, ToSet
  <2>12. \A j \in Kind : [s EXCEPT ![k] = t][j] = IF j = k THEN t ELSE s[j]
    BY <2>1 DEF Lists
  <2>13. [s EXCEPT ![k] = t] \in [Kind -> Seq(Asg)]
    BY <2>1, <2>5 DEF Lists
  <2> QED BY <2>2, <2>10, <2>11, <2>12, <2>13 DEF Lists
<1> QED BY <1>1, <1>2

-----------------------------------------------------------------------------
(* What the task knows of the server *)

\* An assignment that the fetch has passed by is fetched, or of a role that the
\* service does not know, or was moved past the fetch.
Seen == sync.fetched \cup UnknownRole \cup sync.jumped

\* The history variables mean what their names say.
Watched == /\ sync.always \subseteq OnServer
           /\ sync.phase # "idle" => OnServer \subseteq sync.ever
           /\ sync.fetched \subseteq sync.ever

\* Of the assignments that were there all along, those on the pages read so far
\* have been seen: the users' when the teams' are read, and all when all
\* requests were answered.
PagesRead == sync.phase = "fetch" =>
    /\ Before(server) \cap sync.always \subseteq Seen
    /\ sync.kind = "team" => \A a \in sync.always : KindOf(a) = "user" => a \in Seen
AllRead == sync.phase = "compare" /\ sync.complete => sync.always \subseteq Seen

SyncInv == ChangesJustified /\ Watched /\ PagesRead /\ AllRead

\* The first conjunct of TypeOK is Lists.
LEMMA TypeOKLists == TypeOK => Lists(server)
  BY DEF TypeOK, TaskStates, Lists

\* Assignments that are listed are in Asg.
LEMMA ListedInAsg == ASSUME NEW s, Lists(s) PROVE Listed(s) \subseteq Asg
  BY ListedByKind

\* What is on the pages read so far is listed under the kind that is being read.
LEMMA BeforeListed ==
  ASSUME TypeOK, NEW s, Lists(s)
  PROVE  /\ Before(s) \subseteq Listed(s) /\ \A a \in Before(s) : KindOf(a) = sync.kind
         /\ Before(s) \subseteq Asg
<1>1. sync.kind \in Kind
  BY DEF TypeOK, TaskStates
<1>2. Before(s) \subseteq ToSet(s[sync.kind])
  BY DEF Before, ToSet
<1>3. \A a \in Before(s) : KindOf(a) = sync.kind
  BY <1>1, <1>2 DEF Lists
<1> QED BY <1>1, <1>2, <1>3, ListedInAsg DEF Listed

\* Every page advances by PageSize rows, and the first begins at the first row.
LEMMA Offsets ==
  ASSUME NEW p \in Nat \ {0}
  PROVE  /\ (p + 1 - 1) * PageSize = (p - 1) * PageSize + PageSize
         /\ (p - 1) * PageSize \in Nat
         /\ (1 - 1) * PageSize = 0
<1>1. PageSize \in Nat
  BY AssignmentSyncAssumption
<1> DEFINE n == p - 1
<1>2. n \in Nat /\ p = n + 1
  OBVIOUS
<1> HIDE DEF n
<1>3. (n + 1) * PageSize = n * PageSize + PageSize /\ n * PageSize \in Nat
  BY <1>1, <1>2
<1>4. p + 1 - 1 = n + 1 /\ p - 1 = n /\ 1 - 1 = 0
  BY <1>2
<1> QED BY <1>1, <1>3, <1>4

\* A change of the server's lists disturbs no knowledge of the task.
LEMMA SetServerInv ==
  ASSUME SyncInv, NEW s, Lists(s), SetServer(s),
         local' \subseteq Asg \ UnknownRole, calls' \subseteq Op \X Asg,
         changes' \in 0 .. MaxChanges, failures' \in 0 .. MaxFailures
  PROVE  SyncInv'
<1> DEFINE new == IF sync.phase = "fetch" THEN Before(s) \ Before(server) ELSE {}
<1>1. TypeOK /\ Lists(server) /\ DeletionsJustified /\ CreationsJustified
  BY TypeOKLists DEF SyncInv, ChangesJustified
<1>2. server' = s /\ sync' = [sync EXCEPT !.always = @ \cap Listed(s), !.ever = @ \cup Listed(s),
                                          !.jumped = @ \cup new]
  BY DEF SetServer, Observe
<1>3. new \subseteq Asg
  BY <1>1, BeforeListed
<1> HIDE DEF new
<1>4. /\ sync'.always = sync.always \cap Listed(s) /\ sync'.ever = sync.ever \cup Listed(s)
      /\ sync'.jumped = sync.jumped \cup new
      /\ sync'.phase = sync.phase /\ sync'.kind = sync.kind /\ sync'.page = sync.page
      /\ sync'.complete = sync.complete /\ sync'.fetched = sync.fetched
      /\ sync'.toDelete = sync.toDelete /\ sync'.toCreate = sync.toCreate
  BY <1>1, <1>2 DEF TypeOK, TaskStates
<1>5. TypeOK'
  <2>1. Listed(s) \subseteq Asg
    BY ListedInAsg
  <2>2. (server \in [Kind -> Seq(Asg)]
         /\ \A k \in Kind : IsInjective(server[k]) /\ \A a \in ToSet(server[k]) : KindOf(a) = k)'
    BY <1>2 DEF Lists
  <2>3. sync' \in TaskStates
    BY <1>1, <1>2, <1>3, <2>1 DEF TypeOK, TaskStates
  <2> QED BY <2>2, <2>3 DEF TypeOK, TaskStates
<1>6. DeletionsJustified' /\ CreationsJustified'
  BY <1>1, <1>4 DEF DeletionsJustified, CreationsJustified
<1>7. Watched'
  <2>1. Watched
    BY DEF SyncInv
  <2>2. OnServer' = Listed(s)
    BY <1>2 DEF OnServer, Listed
  <2> QED BY <1>4, <2>1, <2>2 DEF Watched
<1>8. Seen \subseteq Seen'
  BY <1>4 DEF Seen
<1>9. PagesRead'
  <2>1. SUFFICES ASSUME sync.phase = "fetch"
                 PROVE  (/\ Before(server) \cap sync.always \subseteq Seen
                         /\ sync.kind = "team" => \A a \in sync.always : KindOf(a) = "user" => a \in Seen)'
    BY <1>4 DEF PagesRead
  <2>2. Before(server)' = Before(s)
    BY <1>2, <1>4 DEF Before, Offset
  <2>3. Before(server) \cap sync.always \subseteq Seen
        /\ (sync.kind = "team" => \A a \in sync.always : KindOf(a) = "user" => a \in Seen)
    BY <2>1 DEF SyncInv, PagesRead
  <2>4. new = Before(s) \ Before(server)
    BY <2>1 DEF new
  <2>5. Before(s) \cap sync'.always \subseteq Seen'
    <3>1. sync'.jumped \subseteq Seen'
      BY DEF Seen
    <3> QED BY <1>4, <1>8, <2>3, <2>4, <3>1
  <2> QED BY <1>4, <1>8, <2>2, <2>3, <2>5 DEF KindOf
<1>10. AllRead'
  BY <1>4, <1>8 DEF SyncInv, AllRead
<1> QED BY <1>5, <1>6, <1>7, <1>9, <1>10 DEF SyncInv, ChangesJustified

-----------------------------------------------------------------------------
(* The steps of the task *)

\* At the start nothing is known.
LEMMA InitInv == Init => SyncInv
<1> SUFFICES ASSUME Init PROVE SyncInv
  OBVIOUS
<1>1. sync = Idle /\ sync.phase = "idle" /\ sync.toDelete = {} /\ sync.toCreate = {} /\ sync.always = {}
      /\ sync.fetched = {} /\ sync.ever = {}
  BY DEF Init, Idle
<1>2. Lists(server)
  <2>1. ASSUME NEW S \in SUBSET Asg, NEW q \in SetToSeqs(S)
        PROVE  q \in Seq(Asg) /\ IsInjective(q)
    <3>1. q \in [1 .. Cardinality(S) -> S] /\ \A i, j \in 1 .. Cardinality(S) : i # j => q[i] # q[j]
      BY <2>1 DEF SetToSeqs
    <3>2. Cardinality(S) \in Nat
      BY AssignmentSyncAssumption, FS_CardinalityType, FS_Subset
    <3> QED BY <3>1, <3>2, SeqDef DEF IsInjective
  <2>2. \A k \in Kind : server[k] \in UNION {SetToSeqs(S) : S \in SUBSET Asg}
    BY DEF Init
  <2> QED BY <2>1, <2>2 DEF Init, Lists
<1>3. TypeOK
  <2>1. sync \in TaskStates
    BY <1>1 DEF Idle, Kind, TaskStates
  <2>2. 0 \in 0 .. MaxChanges /\ 0 \in 0 .. MaxFailures
    BY AssignmentSyncAssumption
  <2> QED BY <1>2, <2>1, <2>2 DEF Init, TypeOK, Lists
<1> QED BY <1>1, <1>3 DEF SyncInv, ChangesJustified, DeletionsJustified, CreationsJustified, Watched,
                         PagesRead, AllRead

\* The run begins: what the server has now is what it has had all along.
LEMMA StartSyncInv == SyncInv /\ StartSync => SyncInv'
<1> SUFFICES ASSUME SyncInv, StartSync PROVE SyncInv'
  OBVIOUS
<1>1. TypeOK /\ Lists(server) /\ OnServer \subseteq Asg
  BY TypeOKLists, ListedInAsg DEF SyncInv, ChangesJustified, OnServer
<1>2. UNCHANGED <<server, local, calls, changes, failures>>
      /\ sync' = [Idle EXCEPT !.phase = "fetch", !.always = OnServer, !.ever = OnServer]
  BY DEF StartSync
<1>3. sync'.phase = "fetch" /\ sync'.toDelete = {} /\ sync'.toCreate = {} /\ sync'.always = OnServer
      /\ sync'.ever = OnServer /\ sync'.fetched = {} /\ sync'.page = 1 /\ sync'.kind = "user"
  BY <1>2 DEF Idle
<1>4. OnServer' = OnServer
  BY <1>2 DEF OnServer, Listed
<1>5. TypeOK'
  <2>1. sync' \in TaskStates
    <3>1. sync' = [phase |-> "fetch", kind |-> "user", page |-> 1, fetched |-> {}, complete |-> FALSE,
                   toDelete |-> {}, toCreate |-> {}, always |-> OnServer, ever |-> OnServer, jumped |-> {}]
      BY <1>2 DEF Idle
    <3>2. "user" \in Kind /\ 1 \in Nat \ {0}
      BY DEF Kind
    <3> QED BY <1>1, <3>1, <3>2 DEF TaskStates
  <2> QED BY <1>1, <1>2, <2>1 DEF TypeOK
<1>6. Before(server)' = {}
  <2>1. Offset' = 0
    BY <1>3, Offsets DEF Offset
  <2>2. server[sync'.kind] \in Seq(Asg)
    BY <1>1, <1>3 DEF Lists, Kind
  <2>3. \A j \in DOMAIN server[sync'.kind] : ~ (j <= 0)
    BY <2>2
  <2> QED BY <1>2, <2>1, <2>3 DEF Before
<1> QED BY <1>3, <1>4, <1>5, <1>6 DEF SyncInv, ChangesJustified, DeletionsJustified, CreationsJustified,
                                     Watched, PagesRead, AllRead

\* A page is read: everything on it and before it has been seen.
LEMMA FetchPageInv == SyncInv /\ FetchPage => SyncInv'
<1> SUFFICES ASSUME SyncInv, FetchPage PROVE SyncInv'
  OBVIOUS
<1> DEFINE got == sync.fetched \cup (Page \ UnknownRole)
           known == got \cup UnknownRole \cup sync.jumped
<1>1. TypeOK /\ Lists(server) /\ DeletionsJustified /\ CreationsJustified /\ Watched
  BY TypeOKLists DEF SyncInv, ChangesJustified
<1>2. sync.phase = "fetch" /\ UNCHANGED <<server, local, calls, changes, failures>>
  BY DEF FetchPage
<1>3. sync.kind \in Kind /\ sync.page \in Nat \ {0} /\ Rows \in Seq(Asg) /\ Rows = server[sync.kind]
  BY <1>1 DEF TypeOK, TaskStates, Rows
<1>4. Page \subseteq ToSet(Rows) /\ ToSet(Rows) \subseteq OnServer /\ Page \subseteq Asg
  <2>1. Page \subseteq ToSet(Rows)
    BY DEF Page, ToSet
  <2>2. ToSet(Rows) \subseteq OnServer
    BY <1>3 DEF OnServer, Listed
  <2> QED BY <1>1, <2>1, <2>2, ListedInAsg DEF OnServer
<1>5. \A i \in DOMAIN Rows : i <= Offset + PageSize /\ Rows[i] \in sync.always => Rows[i] \in known
  <2>1. Before(server) \cap sync.always \subseteq known
    BY <1>2 DEF SyncInv, PagesRead, Seen
  <2> SUFFICES ASSUME NEW i \in DOMAIN Rows, i <= Offset + PageSize, Rows[i] \in sync.always
               PROVE  Rows[i] \in known
    OBVIOUS
  <2>2. Offset \in Nat /\ i \in Nat
    BY <1>3, Offsets DEF Offset
  <2>3. CASE i <= Offset
    BY <1>3, <2>1, <2>3 DEF Before
  <2>4. CASE Offset < i
    BY <2>4 DEF Page
  <2> QED BY <2>2, <2>3, <2>4
<1>6. sync.kind = "team" => \A a \in sync.always : KindOf(a) = "user" => a \in known
  BY <1>2 DEF SyncInv, PagesRead, Seen
<1>7. ~ HasNext => \A a \in sync.always : KindOf(a) = sync.kind => a \in known
  <2> SUFFICES ASSUME ~ HasNext, NEW a \in sync.always, KindOf(a) = sync.kind PROVE a \in known
    OBVIOUS
  <2>1. a \in ToSet(Rows)
    BY <1>1, <1>3, ListedByKind DEF Watched, OnServer
  <2>2. PICK i \in DOMAIN Rows : a = Rows[i]
    BY <2>1 DEF ToSet
  <2>3. i <= Offset + PageSize
    <3>1. Offset \in Nat /\ PageSize \in Nat /\ Len(Rows) \in Nat /\ i \in 1 .. Len(Rows)
      BY <1>3, Offsets, AssignmentSyncAssumption DEF Offset
    <3> QED BY <3>1 DEF HasNext
  <2> QED BY <1>5, <2>2, <2>3
<1>8. sync' = CASE HasNext -> [sync EXCEPT !.fetched = got, !.page = @ + 1]
                [] ~ HasNext /\ sync.kind = "user" -> [sync EXCEPT !.fetched = got, !.kind = "team", !.page = 1]
                [] OTHER -> [sync EXCEPT !.fetched = got, !.phase = "compare", !.complete = TRUE]
  BY <1>1 DEF FetchPage, TypeOK
<1>9. got \subseteq Asg \ UnknownRole /\ got \subseteq sync.ever
  BY <1>1, <1>2, <1>4 DEF TypeOK, TaskStates, Watched
<1> HIDE DEF got
<1>10. /\ sync'.always = sync.always /\ sync'.ever = sync.ever /\ sync'.jumped = sync.jumped
       /\ sync'.fetched = got /\ sync'.toDelete = sync.toDelete /\ sync'.toCreate = sync.toCreate
       /\ sync'.phase # "idle"
  BY <1>1, <1>2, <1>8 DEF TypeOK, TaskStates
<1>11. TypeOK'
  <2>1. sync' \in TaskStates
    <3>1. sync \in TaskStates /\ sync.page + 1 \in Nat \ {0}
      BY <1>1, <1>3 DEF TypeOK
    <3>2. CASE HasNext
      <4> DEFINE next == sync.page + 1
      <4>1. sync' = [sync EXCEPT !.fetched = got, !.page = next] /\ next \in Nat \ {0}
        BY <1>8, <3>1, <3>2 DEF TaskStates
      <4> HIDE DEF next, known
      <4>2. sync \in TaskStates /\ got \in SUBSET (Asg \ UnknownRole)
        BY <1>9, <3>1
      <4>3. [sync EXCEPT !.fetched = got, !.page = next] \in TaskStates
        BY <4>1, <4>2 DEF TaskStates
      <4> QED BY <4>1, <4>3
    <3>3. CASE ~ HasNext /\ sync.kind = "user"
      <4>1. sync' = [sync EXCEPT !.fetched = got, !.kind = "team", !.page = 1]
        BY <1>8, <3>3
      <4> HIDE DEF known
      <4>2. sync \in TaskStates /\ got \in SUBSET (Asg \ UnknownRole)
        BY <1>9, <3>1
      <4>3. "team" \in Kind /\ 1 \in Nat \ {0}
        BY DEF Kind
      <4>4. [sync EXCEPT !.fetched = got, !.kind = "team", !.page = 1] \in TaskStates
        BY <4>2, <4>3 DEF TaskStates
      <4> QED BY <4>1, <4>4
    <3>4. CASE ~ HasNext /\ sync.kind # "user"
      <4>1. sync' = [sync EXCEPT !.fetched = got, !.phase = "compare", !.complete = TRUE]
        BY <1>8, <3>4
      <4> QED BY <1>9, <3>1, <4>1 DEF TaskStates
    <3> QED BY <3>2, <3>3, <3>4
  <2> QED BY <1>1, <1>2, <2>1 DEF TypeOK, TaskStates
<1>12. Watched'
  BY <1>1, <1>2, <1>9, <1>10 DEF Watched, OnServer, Listed
<1>13. Seen' = known
  BY <1>10 DEF Seen
<1>14. PagesRead'
  <2>1. CASE HasNext
    <3>1. sync'.kind = sync.kind /\ sync'.page = sync.page + 1
      BY <1>1, <1>8, <2>1 DEF TypeOK, TaskStates
    <3>2. Offset' = Offset + PageSize
      BY <1>3, <3>1, Offsets DEF Offset
    <3>3. Before(server)' = {Rows[i] : i \in {j \in DOMAIN Rows : j <= Offset + PageSize}}
      BY <1>2, <1>3, <3>1, <3>2 DEF Before
    <3> QED BY <1>5, <1>6, <1>10, <1>13, <3>1, <3>3 DEF PagesRead, KindOf
  <2>2. CASE ~ HasNext /\ sync.kind = "user"
    <3>1. sync'.kind = "team" /\ sync'.page = 1
      BY <1>1, <1>8, <2>2 DEF TypeOK, TaskStates
    <3>2. Before(server)' = {}
      <4>1. Offset' = 0
        BY <3>1, Offsets DEF Offset
      <4>2. server["team"] \in Seq(Asg)
        BY <1>1 DEF Lists, Kind
      <4>3. \A j \in DOMAIN server["team"] : ~ (j <= 0)
        BY <4>2
      <4> QED BY <1>2, <3>1, <4>1, <4>3 DEF Before
    <3> QED BY <1>7, <1>10, <1>13, <2>2, <3>1, <3>2 DEF PagesRead, KindOf
  <2>3. CASE ~ HasNext /\ sync.kind # "user"
    BY <1>1, <1>8, <2>3 DEF TypeOK, TaskStates, PagesRead
  <2> QED BY <2>1, <2>2, <2>3
<1>15. AllRead'
  <2> SUFFICES ASSUME sync'.phase = "compare" PROVE sync'.always \subseteq Seen'
    BY DEF AllRead
  <2>1. ~ HasNext /\ sync.kind = "team"
    BY <1>1, <1>2, <1>8 DEF TypeOK, TaskStates, Kind
  <2>2. \A a \in sync.always : KindOf(a) \in {"user", "team"}
    BY KindIsKind DEF Kind
  <2> QED BY <1>6, <1>7, <1>10, <1>13, <2>1, <2>2
<1> QED BY <1>1, <1>10, <1>11, <1>12, <1>14, <1>15
        DEF SyncInv, ChangesJustified, DeletionsJustified, CreationsJustified

\* A fetch that stops is not complete, so nothing is to be known of it.
LEMMA FetchFailsInv == SyncInv /\ FetchFails => SyncInv'
<1> SUFFICES ASSUME SyncInv, FetchFails PROVE SyncInv'
  OBVIOUS
<1>1. TypeOK /\ sync \in TaskStates /\ sync.phase = "fetch"
  BY DEF SyncInv, ChangesJustified, TypeOK, FetchFails
<1>2. UNCHANGED <<server, local, calls, changes>> /\ failures' \in 0 .. MaxFailures
      /\ sync' = [sync EXCEPT !.phase = "compare", !.complete = FALSE]
  BY <1>1, AssignmentSyncAssumption DEF FetchFails, FetchStops, Failed, TypeOK
<1>3. /\ sync'.always = sync.always /\ sync'.ever = sync.ever /\ sync'.jumped = sync.jumped
      /\ sync'.fetched = sync.fetched /\ sync'.toDelete = sync.toDelete /\ sync'.toCreate = sync.toCreate
      /\ sync'.phase = "compare" /\ sync'.complete = FALSE
  BY <1>1, <1>2 DEF TaskStates
<1>4. sync' \in TaskStates
  BY <1>1, <1>2 DEF TaskStates
<1>5. TypeOK' /\ OnServer' = OnServer
  BY <1>1, <1>2, <1>4 DEF TypeOK, OnServer, Listed
<1> QED BY <1>1, <1>3, <1>5 DEF SyncInv, ChangesJustified, DeletionsJustified, CreationsJustified, Watched,
                               PagesRead, AllRead

\* After a complete fetch only what was never seen is missing from it.
LEMMA CompareInv == SyncInv /\ Compare => SyncInv'
<1> SUFFICES ASSUME SyncInv, Compare PROVE SyncInv'
  OBVIOUS
<1> DEFINE gone == IF sync.complete THEN LocalAssignments \ sync.fetched ELSE {}
           new == sync.fetched \ LocalAssignments
<1>1. TypeOK /\ Watched /\ sync \in TaskStates /\ sync.phase = "compare"
  BY DEF SyncInv, ChangesJustified, TypeOK, Compare
<1>2. UNCHANGED <<server, local, calls, changes, failures>>
      /\ sync' = [sync EXCEPT !.phase = "apply", !.toDelete = gone, !.toCreate = new]
  BY DEF Compare
<1>3. gone \subseteq Asg \ NoResource /\ new \subseteq Asg \ UnknownRole
  BY <1>1 DEF LocalAssignments, TypeOK, TaskStates
<1>4. gone \cap sync.always \subseteq sync.jumped
  <2>1. CASE sync.complete
    <3>1. sync.always \subseteq Seen
      BY <1>1, <2>1 DEF SyncInv, AllRead
    <3>2. gone \cap UnknownRole = {}
      BY <1>1 DEF LocalAssignments, TypeOK
    <3>3. gone \cap sync.fetched = {}
      OBVIOUS
    <3> QED BY <3>1, <3>2, <3>3 DEF Seen
  <2> QED BY <2>1
<1>5. new \subseteq sync.ever
  BY <1>1 DEF Watched
<1> HIDE DEF gone, new
<1>6. /\ sync'.always = sync.always /\ sync'.ever = sync.ever /\ sync'.jumped = sync.jumped
      /\ sync'.fetched = sync.fetched /\ sync'.toDelete = gone /\ sync'.toCreate = new
      /\ sync'.phase = "apply"
  BY <1>1, <1>2 DEF TaskStates
<1>7. sync' \in TaskStates
  BY <1>1, <1>2, <1>3 DEF TaskStates
<1>8. TypeOK' /\ OnServer' = OnServer
  BY <1>1, <1>2, <1>7 DEF TypeOK, OnServer, Listed
<1> QED BY <1>1, <1>4, <1>5, <1>6, <1>8
        DEF SyncInv, ChangesJustified, DeletionsJustified, CreationsJustified, Watched, PagesRead, AllRead

\* What the steps of the last phase have in common: less is left to do.
LEMMA ApplyInv ==
  ASSUME SyncInv, sync.phase = "apply", NEW del \in SUBSET sync.toDelete, NEW cre \in SUBSET sync.toCreate,
         sync' = [sync EXCEPT !.toDelete = del, !.toCreate = cre], server' = server, calls' = calls,
         local' \subseteq Asg \ UnknownRole, changes' = changes, failures' \in 0 .. MaxFailures
  PROVE  SyncInv'
<1>1. TypeOK /\ Watched /\ sync \in TaskStates /\ DeletionsJustified /\ CreationsJustified
  BY DEF SyncInv, ChangesJustified, TypeOK
<1>2. /\ sync'.always = sync.always /\ sync'.ever = sync.ever /\ sync'.jumped = sync.jumped
      /\ sync'.fetched = sync.fetched /\ sync'.toDelete = del /\ sync'.toCreate = cre
      /\ sync'.phase = "apply"
  BY <1>1 DEF TaskStates
<1>3. del \subseteq Asg \ NoResource /\ cre \subseteq Asg \ UnknownRole
  BY <1>1 DEF TaskStates
<1>4. sync' \in TaskStates
  BY <1>1, <1>3 DEF TaskStates
<1>5. TypeOK' /\ OnServer' = OnServer
  BY <1>1, <1>4 DEF TypeOK, OnServer, Listed
<1> QED BY <1>1, <1>2, <1>5
        DEF SyncInv, ChangesJustified, DeletionsJustified, CreationsJustified, Watched, PagesRead, AllRead

LEMMA DeleteInv == ASSUME SyncInv, NEW a \in Asg, DeleteLocalAssignment(a) PROVE SyncInv'
<1>1. sync \in TaskStates /\ local \subseteq Asg \ UnknownRole /\ failures \in 0 .. MaxFailures
  BY DEF SyncInv, ChangesJustified, TypeOK
<1>2. sync' = [sync EXCEPT !.toDelete = sync.toDelete \ {a}, !.toCreate = sync.toCreate]
  BY <1>1 DEF DeleteLocalAssignment, TaskStates
<1>3. local' \subseteq Asg \ UnknownRole /\ failures' \in 0 .. MaxFailures
  BY <1>1, AssignmentSyncAssumption DEF DeleteLocalAssignment, Failed
<1> QED BY <1>2, <1>3, ApplyInv DEF DeleteLocalAssignment

\* What is created was fetched, so its role is known.
LEMMA CreateInv == ASSUME SyncInv, NEW a \in Asg, CreateLocalAssignment(a) PROVE SyncInv'
<1>1. sync \in TaskStates /\ local \subseteq Asg \ UnknownRole /\ failures \in 0 .. MaxFailures
  BY DEF SyncInv, ChangesJustified, TypeOK
<1>2. sync' = [sync EXCEPT !.toDelete = sync.toDelete, !.toCreate = sync.toCreate \ {a}]
  BY <1>1 DEF CreateLocalAssignment, TaskStates
<1>3. local' \subseteq Asg \ UnknownRole /\ failures' \in 0 .. MaxFailures
  BY <1>1, AssignmentSyncAssumption DEF CreateLocalAssignment, Failed, TaskStates
<1> QED BY <1>2, <1>3, ApplyInv DEF CreateLocalAssignment

LEMMA FinishSyncInv == SyncInv /\ (FinishSync \/ CompareFails) => SyncInv'
<1> SUFFICES ASSUME SyncInv, FinishSync \/ CompareFails PROVE SyncInv'
  OBVIOUS
<1>1. TypeOK /\ sync' = Idle /\ UNCHANGED <<server, local, calls, changes>> /\ failures' \in 0 .. MaxFailures
  BY AssignmentSyncAssumption DEF SyncInv, ChangesJustified, TypeOK, FinishSync, CompareFails, Failed
<1>2. sync'.phase = "idle" /\ sync'.toDelete = {} /\ sync'.toCreate = {} /\ sync'.always = {}
      /\ sync'.fetched = {} /\ sync'.ever = {}
  BY <1>1 DEF Idle
<1>3. sync' \in TaskStates
  BY <1>1 DEF Idle, Kind, TaskStates
<1>4. TypeOK'
  BY <1>1, <1>3 DEF TypeOK
<1> QED BY <1>2, <1>4 DEF SyncInv, ChangesJustified, DeletionsJustified, CreationsJustified, Watched,
                         PagesRead, AllRead

\* People's changes and the requests in flight: local assignments are of known
\* roles, requests of assignments, and both ends change by AssignedLists and
\* UnassignedLists alone.
LEMMA PeopleInv ==
  ASSUME SyncInv, NEW a \in Asg,
         ServerAssign(a) \/ ServerUnassign(a) \/ LocalAssign(a) \/ LocalUnassign(a)
  PROVE  SyncInv'
<1>1. Lists(server) /\ local \subseteq Asg \ UnknownRole /\ calls \subseteq Op \X Asg
      /\ changes \in 0 .. MaxChanges /\ failures \in 0 .. MaxFailures
  BY TypeOKLists DEF SyncInv, ChangesJustified, TypeOK
<1>2. Changed => changes' \in 0 .. MaxChanges
  BY <1>1, AssignmentSyncAssumption DEF Changed
<1>3. CASE ServerAssign(a)
  BY <1>1, <1>2, <1>3, AssignedLists, SetServerInv DEF ServerAssign
<1>4. CASE ServerUnassign(a)
  BY <1>1, <1>2, <1>4, UnassignedLists, SetServerInv DEF ServerUnassign
<1>5. ASSUME UNCHANGED <<server, sync, failures>>, Changed,
             local' \subseteq Asg \ UnknownRole, calls' \subseteq Op \X Asg
      PROVE  SyncInv'
  BY <1>2, <1>5 DEF SyncInv, ChangesJustified, TypeOK, DeletionsJustified, CreationsJustified, Watched,
                    PagesRead, AllRead, OnServer, Listed, Before, Offset, Seen
<1>6. CASE LocalAssign(a)
  <2>1. local' \subseteq Asg \ UnknownRole /\ calls' \subseteq Op \X Asg
    BY <1>1, <1>6 DEF LocalAssign, Op
  <2> QED BY <1>5, <1>6, <2>1 DEF LocalAssign
<1>7. CASE LocalUnassign(a)
  <2>1. local' \subseteq Asg \ UnknownRole /\ calls' \subseteq Op \X Asg
    BY <1>1, <1>7 DEF LocalUnassign, Op
  <2> QED BY <1>5, <1>7, <2>1 DEF LocalUnassign
<1> QED BY <1>3, <1>4, <1>6, <1>7

LEMMA AnswerInv == SyncInv /\ Answer => SyncInv'
<1> SUFFICES ASSUME SyncInv, NEW c \in calls, Deliver(c) \/ CallFails(c) PROVE SyncInv'
  BY DEF Answer
<1>1. Lists(server) /\ local \subseteq Asg \ UnknownRole /\ calls \subseteq Op \X Asg
      /\ changes \in 0 .. MaxChanges /\ failures \in 0 .. MaxFailures
  BY TypeOKLists DEF SyncInv, ChangesJustified, TypeOK
<1>2. c[2] \in Asg
  BY <1>1
<1>3. CASE Deliver(c)
  <2> DEFINE s == IF c[1] = "assign" THEN Assigned(server, c[2]) ELSE Unassigned(server, c[2])
  <2>1. Lists(s)
    BY <1>1, <1>2, AssignedLists, UnassignedLists
  <2>2. SetServer(s) /\ calls' \subseteq Op \X Asg /\ UNCHANGED <<local, changes, failures>>
    BY <1>1, <1>3 DEF Deliver
  <2> HIDE DEF s
  <2> QED BY <1>1, <2>1, <2>2, SetServerInv
<1>4. CASE CallFails(c)
  <2>1. failures' \in 0 .. MaxFailures /\ calls' \subseteq Op \X Asg
    BY <1>1, <1>4, AssignmentSyncAssumption DEF CallFails, Failed
  <2>2. UNCHANGED <<server, local, sync, changes>>
    BY <1>4 DEF CallFails
  <2> QED BY <2>1, <2>2 DEF SyncInv, ChangesJustified, TypeOK, DeletionsJustified, CreationsJustified,
                            Watched, PagesRead, AllRead, OnServer, Listed, Before, Offset, Seen
<1> QED BY <1>3, <1>4

-----------------------------------------------------------------------------

\* For any assignments, page size, order of ids, changes and failures: the task
\* deletes no assignment that the server had all along, unless the removal of
\* another moved its row to a page already read, and creates none that the
\* server never had meanwhile (SyncExecutor._sync_assignments).
THEOREM SyncChangesJustified == Spec => []ChangesJustified
<1>1. Init => SyncInv
  BY InitInv
<1>2. SyncInv /\ [Next]_vars => SyncInv'
  <2> SUFFICES ASSUME SyncInv, [Next]_vars PROVE SyncInv'
    OBVIOUS
  <2>1. CASE UNCHANGED vars
    BY <2>1 DEF vars, SyncInv, ChangesJustified, TypeOK, DeletionsJustified, CreationsJustified, Watched,
                PagesRead, AllRead, OnServer, Listed, Before, Offset, Seen
  <2>2. ASSUME NEW a \in Asg, ServerAssign(a) \/ ServerUnassign(a) \/ LocalAssign(a) \/ LocalUnassign(a)
        PROVE  SyncInv'
    BY <2>2, PeopleInv
  <2>3. CASE Answer
    BY <2>3, AnswerInv
  <2>4. CASE StartSync \/ FetchPage \/ FetchFails \/ Compare \/ CompareFails \/ FinishSync
    BY <2>4, StartSyncInv, FetchPageInv, FetchFailsInv, CompareInv, FinishSyncInv
  <2>5. ASSUME NEW a \in Asg, DeleteLocalAssignment(a) \/ CreateLocalAssignment(a)
        PROVE  SyncInv'
    BY <2>5, DeleteInv, CreateInv
  <2> QED BY <2>1, <2>2, <2>3, <2>4, <2>5 DEF Next, SyncStep
<1>3. SyncInv => ChangesJustified
  BY DEF SyncInv
<1> QED BY <1>1, <1>2, <1>3, PTL DEF Spec

=============================================================================

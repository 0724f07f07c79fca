----------------------------- MODULE RbacApiProofs -----------------------------
(***************************************************************************)
(* Theorems of the specification of module RbacApi, for every value of its *)
(* constants.                                                              *)
(*   - Roles stay where superusers have let them go, and whoever may give  *)
(*     a role may take it back.  A set of objects confines the tables when *)
(*     every ObjectRole and every RoleEvaluation row is on one of its      *)
(*     objects and what is below one of them is in it too.  The functions  *)
(*     of rbac/pipeline.py, rbac/triggers.py and rbac/caching.py never     *)
(*     leave such a set; the requests decide when it grows.                *)
(*   - Checks answer what the assignments mean, and the access lists tell  *)
(*     the same as the checks, since every request that recomputes leaves  *)
(*     the computed tables coherent.                                       *)
(*   - Whoever makes an object has the permissions of its creator.         *)
(***************************************************************************)
EXTENDS RbacApi, RbacTablesProofs, FiniteSetTheorems

\* Foreign keys are kept.
KeysHold(d) ==
    /\ \A r \in d.roles : r[2] \in d.objs
    /\ \A a \in d.uasg : a[2] \in d.roles
    /\ \A a \in d.tasg : a[1] \in d.objs /\ a[2] \in d.roles
    /\ \A x \in d.provides : x[1] \in d.roles /\ x[2] \in d.objs
    /\ \A x \in d.evals : x[1] \in d.roles

\* The parent of an object exists and is of the parent type.
ParentsHold(d) ==
    \A c \in d.objs : d.parent[c] # NoObj =>
        d.parent[c] \in d.objs /\ TypeOf[d.parent[c]] = ParentType[TypeOf[c]]

\* What is put under an object of O is in O.
ClosedBelow(d, O) == \A c \in d.objs : d.parent[c] \in O => c \in O

\* Roles and evaluations are on objects of O.
RowsIn(d, O) ==
    /\ \A r \in d.roles : r[2] \in O
    /\ \A x \in d.evals : x[2][2] \in O

Confined(d, O) ==
    d \in Db /\ KeysHold(d) /\ ParentsHold(d) /\ ClosedBelow(d, O) /\ RowsIn(d, O)

\* What a function that leaves the objects alone makes of such a database
Keeps(d, O, e) == Confined(e, O) /\ e.objs = d.objs /\ e.parent = d.parent

LEMMA KeptIsConfined ==
    ASSUME NEW d, NEW O, NEW e, Keeps(d, O, e)
    PROVE  Confined(e, O)
  BY DEF Keeps

LEMMA KeepsNothing ==
    ASSUME NEW d, NEW O, Confined(d, O)
    PROVE  Keeps(d, O, d)
  BY DEF Keeps

LEMMA KeepsOn ==
    ASSUME NEW d, NEW O, NEW e, NEW f, Keeps(d, O, e), Keeps(e, O, f)
    PROVE  Keeps(d, O, f)
  BY DEF Keeps

-----------------------------------------------------------------------------
(***************************************************************************)
(* Changing one table                                                      *)
(***************************************************************************)
LEMMA NewEvals ==
    ASSUME NEW d, NEW O, Confined(d, O), NEW E,
           \A x \in E : x \in d.roles \X Evaluation /\ x[2][2] \in O
    PROVE  Keeps(d, O, [d EXCEPT !.evals = E])
  <1> DEFINE e == [d EXCEPT !.evals = E]
  <1>1. d.roles \subseteq Role
    BY DEF Confined, Db
  <1>2. e \in Db
    BY <1>1 DEF Confined, Db
  <1>3. e.evals = E /\ e.roles = d.roles /\ e.objs = d.objs /\ e.parent = d.parent
        /\ e.uasg = d.uasg /\ e.tasg = d.tasg /\ e.provides = d.provides
    BY DEF Confined, Db
  <1> HIDE DEF e
  <1>4. KeysHold(e)
    BY <1>3 DEF Confined, KeysHold
  <1>5. ParentsHold(e) /\ ClosedBelow(e, O) /\ RowsIn(e, O)
    BY <1>3 DEF Confined, ParentsHold, ClosedBelow, RowsIn
  <1>6. Keeps(d, O, e)
    BY <1>2, <1>3, <1>4, <1>5 DEF Keeps, Confined
  <1> QED
    BY <1>6 DEF e

LEMMA NewProvides ==
    ASSUME NEW d, NEW O, Confined(d, O), NEW V, V \subseteq d.roles \X (Team \cap d.objs)
    PROVE  Keeps(d, O, [d EXCEPT !.provides = V])
  <1> DEFINE e == [d EXCEPT !.provides = V]
  <1>1. d.roles \subseteq Role
    BY DEF Confined, Db
  <1>2. e \in Db
    BY <1>1 DEF Confined, Db
  <1>3. e.evals = d.evals /\ e.roles = d.roles /\ e.objs = d.objs /\ e.parent = d.parent
        /\ e.uasg = d.uasg /\ e.tasg = d.tasg /\ e.provides = V
    BY DEF Confined, Db
  <1> HIDE DEF e
  <1>4. KeysHold(e)
    BY <1>3 DEF Confined, KeysHold
  <1>5. ParentsHold(e) /\ ClosedBelow(e, O) /\ RowsIn(e, O)
    BY <1>3 DEF Confined, ParentsHold, ClosedBelow, RowsIn
  <1>6. Keeps(d, O, e)
    BY <1>2, <1>3, <1>4, <1>5 DEF Keeps, Confined
  <1> QED
    BY <1>6 DEF e

LEMMA NewPerms ==
    ASSUME NEW d, NEW O, Confined(d, O), NEW rd \in RoleDef, NEW S \in SUBSET Perm
    PROVE  Keeps(d, O, [d EXCEPT !.perms[rd] = S])
  <1> DEFINE e == [d EXCEPT !.perms[rd] = S]
  <1>1. e \in Db
    BY DEF Confined, Db
  <1>2. e.evals = d.evals /\ e.roles = d.roles /\ e.objs = d.objs /\ e.parent = d.parent
        /\ e.uasg = d.uasg /\ e.tasg = d.tasg /\ e.provides = d.provides
    BY DEF Confined, Db
  <1> HIDE DEF e
  <1>3. KeysHold(e)
    BY <1>2 DEF Confined, KeysHold
  <1>4. ParentsHold(e) /\ ClosedBelow(e, O) /\ RowsIn(e, O)
    BY <1>2 DEF Confined, ParentsHold, ClosedBelow, RowsIn
  <1>5. Keeps(d, O, e)
    BY <1>1, <1>2, <1>3, <1>4 DEF Keeps, Confined
  <1> QED
    BY <1>5 DEF e

LEMMA NewDefinitions ==
    ASSUME NEW d, NEW O, Confined(d, O), NEW D \in SUBSET RoleDef
    PROVE  Keeps(d, O, [d EXCEPT !.rds = D])
  <1> DEFINE e == [d EXCEPT !.rds = D]
  <1>1. e \in Db
    BY DEF Confined, Db
  <1>2. e.evals = d.evals /\ e.roles = d.roles /\ e.objs = d.objs /\ e.parent = d.parent
        /\ e.uasg = d.uasg /\ e.tasg = d.tasg /\ e.provides = d.provides
    BY DEF Confined, Db
  <1> HIDE DEF e
  <1>3. KeysHold(e)
    BY <1>2 DEF Confined, KeysHold
  <1>4. ParentsHold(e) /\ ClosedBelow(e, O) /\ RowsIn(e, O)
    BY <1>2 DEF Confined, ParentsHold, ClosedBelow, RowsIn
  <1>5. Keeps(d, O, e)
    BY <1>1, <1>2, <1>3, <1>4 DEF Keeps, Confined
  <1> QED
    BY <1>5 DEF e

\* Some assignments go.
LEMMA FewerAssignments ==
    ASSUME NEW d, NEW O, Confined(d, O),
           NEW U, U \subseteq d.uasg, NEW T, T \subseteq d.tasg
    PROVE  Keeps(d, O, [d EXCEPT !.uasg = U, !.tasg = T])
  <1> DEFINE e == [d EXCEPT !.uasg = U, !.tasg = T]
  <1>1. e \in Db
    BY DEF Confined, Db
  <1>2. e.evals = d.evals /\ e.roles = d.roles /\ e.objs = d.objs /\ e.parent = d.parent
        /\ e.uasg = U /\ e.tasg = T /\ e.provides = d.provides
    BY DEF Confined, Db
  <1> HIDE DEF e
  <1>3. KeysHold(e)
    BY <1>2 DEF Confined, KeysHold
  <1>4. ParentsHold(e) /\ ClosedBelow(e, O) /\ RowsIn(e, O)
    BY <1>2 DEF Confined, ParentsHold, ClosedBelow, RowsIn
  <1>5. Keeps(d, O, e)
    BY <1>1, <1>2, <1>3, <1>4 DEF Keeps, Confined
  <1> QED
    BY <1>5 DEF e

\* A set with more objects that is still closed confines the tables as well.
LEMMA Wider ==
    ASSUME NEW d, NEW O, Confined(d, O), NEW W, O \subseteq W, ClosedBelow(d, W)
    PROVE  Confined(d, W)
  BY DEF Confined, RowsIn

-----------------------------------------------------------------------------
(***************************************************************************)
(* The functions of caching.py, as module RbacCaching has them             *)
(***************************************************************************)
LEMMA BelowStays ==
    ASSUME NEW d, NEW O, Confined(d, O), NEW o \in O
    PROVE  Below(d, o) \subseteq O \cap Obj
  <1> SUFFICES ASSUME NEW c \in Below(d, o)
               PROVE  c \in O \cap Obj
    OBVIOUS
  <1>1. c \in d.objs /\ c \in Obj
    BY DEF Below, Confined, Db
  <1>2. CASE d.parent[c] = o
    BY <1>1, <1>2 DEF Confined, ClosedBelow
  <1>3. CASE d.parent[c] \in Obj /\ d.parent[d.parent[c]] = o
    <2>1. d.parent[c] \in d.objs
      BY <1>1, <1>3, CachingAssumption DEF Confined, ParentsHold
    <2>2. d.parent[c] \in O
      BY <2>1, <1>3 DEF Confined, ClosedBelow
    <2> QED
      BY <2>2, <1>1 DEF Confined, ClosedBelow
  <1> QED
    BY <1>2, <1>3 DEF Below

LEMMA DirectStays ==
    ASSUME NEW d, NEW O, Confined(d, O), NEW r \in d.roles
    PROVE  ExpectedDirect(d, r) \subseteq {e \in Evaluation : e[2] \in O}
  <1>1. r[1] \in RoleDef /\ r[2] \in Obj /\ r[2] \in O
    BY DEF Confined, Db, Role, RowsIn
  <1>2. d.perms[r[1]] \subseteq Perm
    BY <1>1 DEF Confined, Db
  <1>3. Below(d, r[2]) \subseteq O \cap Obj
    BY <1>1, BelowStays
  <1> QED
    BY <1>1, <1>2, <1>3 DEF ExpectedDirect, Evaluation

LEMMA TeamRolesExist ==
    ASSUME NEW d, NEW O, Confined(d, O), NEW r
    PROVE  TeamRoles(d, r) \subseteq d.roles
  BY DEF TeamRoles, Confined, KeysHold

LEMMA ComputeStays ==
    ASSUME NEW d, NEW O, Confined(d, O), NEW T
    PROVE  Keeps(d, O, ComputeTeamMemberRoles(d, T))
  <1> DEFINE graph == TeamGraph(d)
             scope == d.objs \cap Reach(graph, T \cap Team)
             old   == {x \in d.provides : x[2] \notin scope}
             new   == UNION {MemberRolesIn(d, graph, t) \X {t} : t \in scope}
  <1>1. scope \subseteq Team \cap d.objs
    BY DEF Reach
  <1>2. \A t : MemberRolesIn(d, graph, t) \subseteq d.roles
    BY DEF MemberRolesIn, DirectMemberRoles
  <1>3. new \subseteq d.roles \X (Team \cap d.objs)
    <2> HIDE DEF graph, scope
    <2> QED BY <1>1, <1>2
  <1>4. old \subseteq d.roles \X (Team \cap d.objs)
    BY DEF Confined, Db, KeysHold
  <1>5. Keeps(d, O, [d EXCEPT !.provides = old \cup new])
    <2> HIDE DEF old, new
    <2> QED BY <1>3, <1>4, NewProvides
  <1> QED
    BY <1>5 DEF ComputeTeamMemberRoles

LEMMA RecomputeStays ==
    ASSUME NEW d, NEW O, Confined(d, O), NEW RR
    PROVE  Keeps(d, O, RecomputeRoleEvaluations(d, RR))
  <1> DEFINE live == RR \cap d.roles
             new  == UNION {{r} \X ExpectedEvaluations(d, r) : r \in live}
             old  == {x \in d.evals : x[1] \notin live}
  <1>1. \A r \in live : ExpectedEvaluations(d, r) \subseteq {e \in Evaluation : e[2] \in O}
    BY DirectStays, TeamRolesExist DEF ExpectedEvaluations
  <1>2. \A x \in new : x \in d.roles \X Evaluation /\ x[2][2] \in O
    BY <1>1
  <1>3. \A x \in old : x \in d.roles \X Evaluation /\ x[2][2] \in O
    BY DEF Confined, Db, KeysHold, RowsIn
  <1>4. Keeps(d, O, [d EXCEPT !.evals = old \cup new])
    <2> HIDE DEF old, new
    <2> QED BY <1>2, <1>3, NewEvals
  <1> QED
    BY <1>4 DEF RecomputeRoleEvaluations

LEMMA LookAheadStays ==
    ASSUME NEW d, NEW O, Confined(d, O), NEW RR, NEW look
    PROVE  Keeps(d, O, RecomputeLookAhead(d, RR, look))
  <1> DEFINE live == RR \cap d.roles
             want(r) == ExpectedLook(d, r, look)
                        \cup UNION {ExpectedLook(d, q, look) : q \in TeamRoles(d, r)}
             new  == UNION {{r} \X want(r) : r \in live}
             old  == {x \in d.evals : x[1] \in live /\ x[2][2] = look => x[2] \in want(x[1])}
  <1>1. \A r \in d.roles : ExpectedLook(d, r, look) \subseteq {e \in Evaluation : e[2] \in O}
    BY DirectStays DEF ExpectedLook
  <1>2. \A r \in live : want(r) \subseteq {e \in Evaluation : e[2] \in O}
    BY <1>1, TeamRolesExist
  <1>3. \A x \in new : x \in d.roles \X Evaluation /\ x[2][2] \in O
    <2> HIDE DEF want
    <2> QED BY <1>2
  <1>4. \A x \in old : x \in d.roles \X Evaluation /\ x[2][2] \in O
    <2> HIDE DEF want
    <2> QED BY DEF Confined, Db, KeysHold, RowsIn
  <1>5. Keeps(d, O, [d EXCEPT !.evals = old \cup new])
    <2> HIDE DEF old, new
    <2> QED BY <1>3, <1>4, NewEvals
  <1> QED
    BY <1>5 DEF RecomputeLookAhead

LEMMA FewerRoles ==
    ASSUME NEW d, NEW O, Confined(d, O), NEW RR
    PROVE  Keeps(d, O, DeleteObjectRoles(d, RR))
  <1> DEFINE e == DeleteObjectRoles(d, RR)
  <1>2. e \in Db
    BY DEF DeleteObjectRoles, Confined, Db
  <1>3. /\ e.objs = d.objs /\ e.parent = d.parent
        /\ e.roles = d.roles \ RR
        /\ e.uasg = {a \in d.uasg : a[2] \notin RR}
        /\ e.tasg = {a \in d.tasg : a[2] \notin RR}
        /\ e.provides = {x \in d.provides : x[1] \notin RR}
        /\ e.evals = {x \in d.evals : x[1] \notin RR}
    BY DEF DeleteObjectRoles, Confined, Db
  <1> HIDE DEF e
  <1>4. KeysHold(e)
    BY <1>3 DEF Confined, KeysHold
  <1>5. ParentsHold(e) /\ ClosedBelow(e, O) /\ RowsIn(e, O)
    BY <1>3 DEF Confined, ParentsHold, ClosedBelow, RowsIn
  <1>6. Keeps(d, O, e)
    BY <1>2, <1>3, <1>4, <1>5 DEF Keeps, Confined
  <1> QED
    BY <1>6 DEF e

-----------------------------------------------------------------------------
(***************************************************************************)
(* The operations of module RbacTriggers                                   *)
(***************************************************************************)
\* Assignments whose roles are on existing objects of O, and to existing teams
Asked(d, O, ua, ta) ==
    /\ ua \subseteq User \X Role /\ ta \subseteq Team \X Role
    /\ \A a \in ta : a[1] \in d.objs
    /\ \A a \in ua \cup ta : a[2][2] \in d.objs \cap O

LEMMA AssignedStays ==
    ASSUME NEW d, NEW O, Confined(d, O), NEW ua, NEW ta, Asked(d, O, ua, ta)
    PROVE  Keeps(d, O, CreateAssignments(d, ua, ta))
  <1> DEFINE new == RolesIn(ua) \cup RolesIn(ta)
             e == CreateAssignments(d, ua, ta)
  <1>1. \A r \in new : r \in Role /\ r[2] \in d.objs \cap O
    BY DEF RolesIn, Asked
  <1>2. /\ \A a \in ua : a \in User \X Role /\ a[2] \in new
        /\ \A a \in ta : a \in Team \X Role /\ a[1] \in d.objs /\ a[2] \in new
    BY DEF RolesIn, Asked
  <1>3. /\ e = [d EXCEPT !.roles = @ \cup RolesIn(ua) \cup RolesIn(ta),
                         !.uasg = @ \cup ua, !.tasg = @ \cup ta]
    BY DEF CreateAssignments
  <1>4. /\ e.objs = d.objs /\ e.parent = d.parent /\ e.provides = d.provides /\ e.evals = d.evals
        /\ e.roles = d.roles \cup new /\ e.uasg = d.uasg \cup ua /\ e.tasg = d.tasg \cup ta
    BY <1>3 DEF Confined, Db
  <1>5. e \in Db
    <2>1. d.roles \cup new \in SUBSET Role /\ d.uasg \cup ua \in SUBSET (User \X Role)
          /\ d.tasg \cup ta \in SUBSET (Team \X Role)
      <3> HIDE DEF new
      <3> QED BY <1>1, <1>2 DEF Confined, Db
    <2> HIDE DEF e
    <2> QED BY <2>1, <1>3 DEF Confined, Db
  <1> HIDE DEF e, new
  <1>6. KeysHold(e)
    BY <1>1, <1>2, <1>4 DEF Confined, KeysHold
  <1>7. ParentsHold(e) /\ ClosedBelow(e, O) /\ RowsIn(e, O)
    BY <1>1, <1>4 DEF Confined, ParentsHold, ClosedBelow, RowsIn
  <1>8. Keeps(d, O, e)
    BY <1>4, <1>5, <1>6, <1>7 DEF Keeps, Confined
  <1> QED
    BY <1>8 DEF e

LEMMA GivenStays ==
    ASSUME NEW d, NEW O, Confined(d, O), NEW ua, NEW ta, Asked(d, O, ua, ta)
    PROVE  Keeps(d, O, GiveAssignments(d, ua, ta))
  <1> DEFINE d1 == CreateAssignments(d, ua, ta)
             ids == CollectRecomputeTeamIds(d1, RolesIn(ua) \cup RolesIn(ta))
             d2 == IF ids = {} THEN d1 ELSE ComputeTeamMemberRoles(d1, ids)
  <1>1. Keeps(d, O, d1)
    BY AssignedStays
  <1>2. Keeps(d, O, d2)
    <2> HIDE DEF d1, ids
    <2> QED BY <1>1, ComputeStays, KeptIsConfined, KeepsOn
  <1> HIDE DEF d2
  <1>3. \A RR : Keeps(d, O, RecomputeRoleEvaluations(d2, RR))
    BY <1>2, RecomputeStays, KeptIsConfined, KeepsOn
  <1> QED
    BY <1>3 DEF GiveAssignments, d2

LEMMA TakenStays ==
    ASSUME NEW d, NEW O, Confined(d, O), NEW ua, NEW ta
    PROVE  Keeps(d, O, RemoveAssignments(d, ua, ta))
  <1> DEFINE d1 == [d EXCEPT !.uasg = @ \ ua, !.tasg = @ \ ta]
             ids == CollectRecomputeTeamIds(d1, RolesIn(ua) \cup RolesIn(ta))
             d2 == IF ids = {} THEN d1 ELSE ComputeTeamMemberRoles(d1, ids)
  <1>1. Keeps(d, O, d1)
    BY FewerAssignments
  <1>2. Keeps(d, O, d2)
    <2> HIDE DEF d1, ids
    <2> QED BY <1>1, ComputeStays, KeptIsConfined, KeepsOn
  <1> HIDE DEF d2
  <1>3. \A RR : Keeps(d, O, RecomputeRoleEvaluations(d2, RR))
    BY <1>2, RecomputeStays, KeptIsConfined, KeepsOn
  <1>4. \A RR, gone :
           Keeps(d, O, DeleteObjectRoles(RecomputeRoleEvaluations(d2, RR), gone))
    BY <1>3, FewerRoles, KeptIsConfined, KeepsOn
  <1> QED
    BY <1>4 DEF RemoveAssignments, d2

LEMMA ChangedStays ==
    ASSUME NEW d, NEW O, Confined(d, O), NEW rd, NEW S, NEW adding
    PROVE  Keeps(d, O, PermissionsChanged(d, rd, S, adding))
  <1>1. \A T, RR : /\ Keeps(d, O, RecomputeRoleEvaluations(d, RR))
                   /\ Keeps(d, O, RecomputeRoleEvaluations(ComputeTeamMemberRoles(d, T), RR))
    BY ComputeStays, RecomputeStays, KeptIsConfined, KeepsOn
  <1> QED
    BY <1>1, KeepsNothing DEF PermissionsChanged

LEMMA SetStays ==
    ASSUME NEW d, NEW O, Confined(d, O), NEW rd \in RoleDef, NEW S \in SUBSET Perm
    PROVE  Keeps(d, O, PermissionsSet(d, rd, S))
  <1> DEFINE less == d.perms[rd] \ S
             more == S \ d.perms[rd]
             d1 == IF less = {} THEN d
                   ELSE PermissionsChanged([d EXCEPT !.perms[rd] = @ \ less], rd, less, FALSE)
  <1>1. Keeps(d, O, d1)
    <2>1. d.perms[rd] \ less \in SUBSET Perm
      BY DEF Confined, Db
    <2> DEFINE d0 == [d EXCEPT !.perms[rd] = @ \ less]
    <2>2. Keeps(d, O, d0)
      BY <2>1, NewPerms
    <2> HIDE DEF d0, less
    <2>3. Keeps(d, O, PermissionsChanged(d0, rd, less, FALSE))
      BY <2>2, ChangedStays, KeptIsConfined, KeepsOn
    <2> QED
      BY <2>3, KeepsNothing DEF d0
  <1>2. Keeps(d, O, [d1 EXCEPT !.perms[rd] = @ \cup more])
    <2> HIDE DEF d1
    <2>1. d1.perms[rd] \cup more \in SUBSET Perm
      BY <1>1 DEF Keeps, Confined, Db
    <2>2. Keeps(d1, O, [d1 EXCEPT !.perms[rd] = @ \cup more])
      BY <2>1, <1>1, NewPerms, KeptIsConfined
    <2> QED
      BY <2>2, <1>1, KeepsOn
  <1> HIDE DEF d1, more
  <1>3. Keeps(d, O, IF more = {} THEN d1
                 ELSE PermissionsChanged([d1 EXCEPT !.perms[rd] = @ \cup more], rd, more, TRUE))
    <2> DEFINE d2 == [d1 EXCEPT !.perms[rd] = @ \cup more]
    <2>1. Keeps(d, O, d2)
      BY <1>2
    <2> HIDE DEF d2
    <2>2. Keeps(d, O, PermissionsChanged(d2, rd, more, TRUE))
      BY <2>1, ChangedStays, KeptIsConfined, KeepsOn
    <2> QED
      BY <1>1, <2>2 DEF d2
  <1> QED
    BY <1>3 DEF PermissionsSet, d1, more

LEMMA CreatedStays ==
    ASSUME NEW d, NEW O, Confined(d, O), NEW o
    PROVE  Keeps(d, O, CreatedNow(d, o))
  <1>1. \A T, RR : /\ Keeps(d, O, RecomputeLookAhead(d, RR, o))
                   /\ Keeps(d, O, RecomputeLookAhead(ComputeTeamMemberRoles(d, T), RR, o))
    BY ComputeStays, LookAheadStays, KeptIsConfined, KeepsOn
  <1> QED
    BY <1>1 DEF CreatedNow

-----------------------------------------------------------------------------
(***************************************************************************)
(* The inductive invariant                                                 *)
(***************************************************************************)
\* Where a role may be: where a superuser let it go, and on objects of other
\* services when the check on them is switched off.
LaxOn(o) == TypeOf[o] \in Remote /\ ~On("enforce_remote")
Open == seeds \cup {o \in Obj : LaxOn(o)}

OtherTypes ==
    /\ rdt \in [RoleDef -> Type \cup {"none"}]
    /\ managed \subseteq RoleDef
    /\ gasg \subseteq Actor \X RoleDef
    /\ owner \in [Obj -> User \cup {Nobody}]
    /\ conf \in Confs
    /\ seeds \subseteq Obj
    /\ IsFiniteSet(done) /\ Cardinality(done) <= MaxEdits

\* Only superusers give global roles, and with the first one everything is open.
GlobalOpens == gasg # {} => seeds = Obj

\* The permissions of users come from open objects: the tables are confined to
\* them, and what is put under one of them is open as well.
ApiInv == OtherTypes /\ GlobalOpens /\ ClosedBelow(db, seeds) /\ Confined(db, Open)

\* Three levels of objects at most: what is under an object is closed.
LEMMA UnderIsClosed ==
    ASSUME NEW d, NEW O, Confined(d, O), NEW o \in d.objs
    PROVE  ClosedBelow(d, {o} \cup Below(d, o))
  <1> SUFFICES ASSUME NEW c \in d.objs, d.parent[c] \in {o} \cup Below(d, o)
               PROVE  c \in {o} \cup Below(d, o)
    BY DEF ClosedBelow
  <1> DEFINE b == d.parent[c]
             p == d.parent[b]
  <1>1. d.objs \subseteq Obj /\ NoObj \notin Obj /\ "none" \notin Type
    BY CachingAssumption DEF Confined, Db
  <1>2. \A x \in d.objs : TypeOf[x] \in Type
    BY <1>1, CachingAssumption
  <1>3. CASE b = o
    BY <1>3 DEF Below
  <1>4. CASE b \in Below(d, o)
    <2>1. b \in d.objs /\ b # NoObj /\ TypeOf[b] = ParentType[TypeOf[c]]
      BY <1>1, <1>4 DEF Below, Confined, ParentsHold
    <2>2. CASE p = o
      BY <2>1, <2>2, <1>1 DEF Below
    <2>3. CASE p \in Obj /\ d.parent[p] = o
      <3>1. p \in d.objs /\ TypeOf[p] = ParentType[TypeOf[b]]
        BY <2>1, <2>3, <1>1 DEF Confined, ParentsHold
      <3>2. TypeOf[o] = ParentType[TypeOf[p]]
        BY <3>1, <2>3, <1>1 DEF Confined, ParentsHold
      <3>3. ~Top(TypeOf[c]) /\ ~Top(ParentType[TypeOf[c]]) /\ ~Top(ParentType[ParentType[TypeOf[c]]])
        BY <2>1, <3>1, <3>2, <1>1, <1>2 DEF Top
      <3>4. TypeOf[c] \in Type
        BY <1>2
      <3> QED
        BY <3>3, <3>4, CachingAssumption
    <2> QED
      BY <1>4, <2>2, <2>3 DEF Below
  <1> QED
    BY <1>3, <1>4

\* What is below an object of another service is of another service.
LEMMA LaxIsClosed ==
    ASSUME NEW d \in Db, ParentsHold(d), NEW S, ClosedBelow(d, S)
    PROVE  ClosedBelow(d, S \cup {o \in Obj : LaxOn(o)})
  <1> SUFFICES ASSUME NEW c \in d.objs, d.parent[c] \in S \cup {o \in Obj : LaxOn(o)}
               PROVE  c \in S \cup {o \in Obj : LaxOn(o)}
    BY DEF ClosedBelow
  <1>1. CASE d.parent[c] \in S
    BY <1>1 DEF ClosedBelow
  <1>2. CASE d.parent[c] \in Obj /\ LaxOn(d.parent[c])
    <2>1. c \in Obj /\ TypeOf[c] \in Type
      BY CachingAssumption DEF Db
    <2>2. TypeOf[d.parent[c]] = ParentType[TypeOf[c]]
      BY <1>2, CachingAssumption DEF ParentsHold
    <2>3. TypeOf[c] \in Remote
      BY <1>2, <2>1, <2>2, ApiAssumption DEF LaxOn
    <2> QED
      BY <1>2, <2>1, <2>3 DEF LaxOn
  <1> QED
    BY <1>1, <1>2

\* Whoever has a permission by a role, on an object or everywhere, has it on an
\* open object.
LEMMA PermittedIsOpen ==
    ASSUME ApiInv, NEW u, NEW p, NEW o \in Obj, u \notin Superuser, HasObjPerm(u, p, o)
    PROVE  o \in Open
  <1>1. CASE p \in Global(u)
    <2>1. gasg # {}
      BY <1>1 DEF Global
    <2> QED
      BY <2>1 DEF ApiInv, GlobalOpens, Open
  <1>2. CASE Evaluated(u, p, o)
    BY <1>2 DEF Evaluated, ApiInv, Confined, RowsIn
  <1> QED
    BY <1>1, <1>2 DEF HasObjPerm, SuperPerm

LEMMA ManagedIsOpen ==
    ASSUME ApiInv, NEW u, NEW o \in Obj, u \notin Superuser, MayManage(u, o)
    PROVE  o \in Open
  <1>1. CASE LaxOn(o)
    BY <1>1 DEF Open
  <1>2. CASE ~LaxOn(o)
    <2>1. TypeOf[o] \in Type
      BY CachingAssumption
    <2>2. PICK q \in Perm : q.type = TypeOf[o] /\ ~IsAdd(q)
      BY <2>1, ApiAssumption
    <2>3. HasObjPerm(u, P("change", TypeOf[o]), o) \/ HasObjPerm(u, q, o)
      BY <1>2, <2>2 DEF MayManage, LaxOn
    <2> QED
      BY <2>3, PermittedIsOpen
  <1> QED
    BY <1>1, <1>2

\* The invariant says what TypeOK and Sealed say.
LEMMA InvariantSuffices == ApiInv => TypeOK /\ Sealed
  <1> SUFFICES ASSUME ApiInv
               PROVE  TypeOK /\ Sealed
    OBVIOUS
  <1>1. db \in Db /\ KeysHold(db) /\ RowsIn(db, Open)
    BY DEF ApiInv, Confined
  <1>2. DOMAIN db = {"objs", "gone", "parent", "users", "rds", "perms", "roles",
                     "uasg", "tasg", "provides", "evals"}
    BY <1>1 DEF Db
  <1>3. /\ db.objs \subseteq Obj /\ db.rds \subseteq RoleDef
        /\ db.roles \subseteq RoleDef \X db.objs
    BY <1>1 DEF Db, Role, KeysHold
  <1>4. /\ db.uasg \subseteq User \X db.roles /\ db.tasg \subseteq Team \X db.roles
        /\ db.provides \subseteq db.roles \X Team
    BY <1>1 DEF Db, KeysHold
  <1>5. \A x \in db.evals : x[1] \in db.roles /\ x[2] \in Evaluation
    BY <1>1 DEF Db, KeysHold
  <1>6. Sealed
    BY <1>1 DEF Sealed, KeysHold, RowsIn, Open, LaxOn
  <1> QED
    BY <1>2, <1>3, <1>4, <1>5, <1>6 DEF TypeOK, ApiInv, OtherTypes

\* A role that may be given may be taken, and the deletion finds it.
LEMMA GiversTake == TypeOK => GiversCanTakeBack
  <1> SUFFICES ASSUME TypeOK, NEW u \in db.users, NEW o \in db.objs,
                      NEW x \in {y \in db.uasg \cup db.tasg : y[2][2] = o},
                      MayGive(u, x[2][1], o), LocallyManaged(x[2][1]), ~LaxOn(o)
               PROVE  MayTake(u, x[1], x[2][1], o)
    BY DEF GiversCanTakeBack, LaxOn
  <1>1. o \in Obj /\ o # NoObj /\ TypeOf[o] \in Type
    BY CachingAssumption DEF TypeOK
  <1>2. MayManage(u, o)
    BY <1>1 DEF MayGive
  <1>3. CanRemove(u, x[1], o)
    BY <1>1, <1>2 DEF CanRemove
  <1>4. PICK q \in Perm : q.type = TypeOf[o] /\ ~IsAdd(q)
    BY <1>1, ApiAssumption
  <1>5. PICK p \in Perm : p.type = TypeOf[o] /\ HasObjPerm(u, p, o)
    <2>1. CASE Tracked(P("change", TypeOf[o]))
      BY <1>2, <2>1 DEF MayManage, LaxOn, Tracked, P
    <2>2. CASE ~Tracked(P("change", TypeOf[o]))
      BY <1>2, <1>4, <2>2 DEF MayManage, LaxOn
    <2> QED
      BY <2>1, <2>2
  <1>6. ListsAssignment(u, x[1], x[2][1], o)
    <2>1. CASE u \in Superuser
      BY <2>1 DEF ListsAssignment, SuperView
    <2>2. CASE p \in Global(u)
      BY <2>2, <1>5 DEF ListsAssignment
    <2>3. CASE Evaluated(u, p, o)
      BY <2>3, <1>1 DEF ListsAssignment
    <2> QED
      BY <1>5, <2>1, <2>2, <2>3 DEF HasObjPerm, SuperPerm
  <1> QED
    BY <1>3, <1>6 DEF MayTake

-----------------------------------------------------------------------------
(***************************************************************************)
(* Every request keeps the invariant                                       *)
(***************************************************************************)
LEMMA InitHolds == Init => ApiInv
  <1> SUFFICES ASSUME Init
               PROVE  ApiInv
    OBVIOUS
  <1> USE ApiAssumption
  <1>1. db \in Db
    BY DEF Init, Db
  <1>2. KeysHold(db) /\ RowsIn(db, Open)
    BY DEF Init, KeysHold, RowsIn
  <1>3. ParentsHold(db)
    BY DEF Init, ParentsHold
  <1>4. ClosedBelow(db, seeds)
    BY DEF Init, ClosedBelow
  <1>5. ClosedBelow(db, Open)
    BY <1>1, <1>3, <1>4, LaxIsClosed DEF Open
  <1>6. OtherTypes
    <2>1. IsFiniteSet(done) /\ Cardinality(done) = 0
      BY FS_EmptySet DEF Init
    <2> QED
      BY <2>1 DEF Init, OtherTypes
  <1> QED
    BY <1>1, <1>2, <1>3, <1>4, <1>5, <1>6 DEF ApiInv, Confined, GlobalOpens, Init

\* The bound on edits
LEMMA OnceCounts ==
    ASSUME ApiInv, NEW kind, Once(kind)
    PROVE  IsFiniteSet(done') /\ Cardinality(done') <= MaxEdits
  <1>1. IsFiniteSet(done) /\ MaxEdits \in Nat
    BY ApiAssumption DEF ApiInv, OtherTypes
  <1>2. Cardinality(done) \in Nat
    BY <1>1, FS_CardinalityType
  <1>3. IsFiniteSet(done \cup {kind}) /\ Cardinality(done \cup {kind}) = Cardinality(done) + 1
    BY <1>1, FS_AddElement DEF Once
  <1> QED
    BY <1>1, <1>2, <1>3 DEF Once

\* The tables of a request that opens nothing stay confined.
LEMMA SameOpen ==
    ASSUME ApiInv, OtherTypes', GlobalOpens', UNCHANGED <<conf, seeds>>,
           Keeps(db, Open, db')
    PROVE  ApiInv'
  <1>1. Open' = Open
    BY DEF Open, LaxOn, On
  <1>2. ClosedBelow(db', seeds')
    BY DEF ApiInv, ClosedBelow, Keeps
  <1> QED
    BY <1>1, <1>2 DEF ApiInv, Keeps

\* Requests that write role definitions open nothing.
LEMMA DefinitionsStay ==
    ASSUME ApiInv, NEW u \in User, NEW rd \in Patchable, NEW S \in PermSets,
           NEW ty \in Type \cup {"none"}
    PROVE  /\ CreateRoleDefinition(u, rd, S, ty) => ApiInv'
           /\ \A method : UpdateRoleDefinition(u, rd, S, ty, method) => ApiInv'
  <1>1. rd \in RoleDef /\ S \in SUBSET Perm /\ Confined(db, Open)
    BY ApiAssumption DEF ApiInv
  <1>2. ASSUME CreateRoleDefinition(u, rd, S, ty)
        PROVE  ApiInv'
    <2>1. db.rds \cup {rd} \in SUBSET RoleDef
      BY <1>1 DEF Confined, Db
    <2>2. Keeps(db, Open, [db EXCEPT !.rds = @ \cup {rd}])
      BY <2>1, <1>1, NewDefinitions
    <2> DEFINE d == [db EXCEPT !.rds = @ \cup {rd}]
    <2>3. db' = [d EXCEPT !.perms[rd] = S]
      BY <1>2 DEF CreateRoleDefinition
    <2>4. Keeps(db, Open, db')
      <3> HIDE DEF d
      <3>1. Keeps(d, Open, [d EXCEPT !.perms[rd] = S])
        BY <2>2, <1>1, NewPerms, KeptIsConfined DEF d
      <3> QED
        BY <2>2, <2>3, <3>1, KeepsOn DEF d
    <2>5. OtherTypes' /\ GlobalOpens'
      BY <1>1, <1>2, OnceCounts DEF CreateRoleDefinition, ApiInv, OtherTypes, GlobalOpens
    <2> QED
      BY <2>4, <2>5, <1>2, SameOpen DEF CreateRoleDefinition
  <1>3. ASSUME NEW method, UpdateRoleDefinition(u, rd, S, ty, method)
        PROVE  ApiInv'
    <2>1. Keeps(db, Open, db')
      BY <1>1, <1>3, SetStays DEF UpdateRoleDefinition
    <2>2. OtherTypes' /\ GlobalOpens'
      BY <1>1, <1>3, OnceCounts DEF UpdateRoleDefinition, ApiInv, OtherTypes, GlobalOpens
    <2> QED
      BY <2>1, <2>2, <1>3, SameOpen DEF UpdateRoleDefinition
  <1> QED
    BY <1>2, <1>3

\* So does the deletion of a role definition, whose roles go with it.
LEMMA DestroyingStays ==
    ASSUME ApiInv, NEW u \in User, NEW rd \in Patchable, DestroyRoleDefinition(u, rd)
    PROVE  ApiInv'
  <1> DEFINE gone == {r \in db.roles : r[1] = rd}
             d == DeleteObjectRoles(db, gone)
  <1>1. Keeps(db, Open, d)
    BY FewerRoles DEF ApiInv
  <1>2. db' = [d EXCEPT !.rds = @ \ {rd}]
    BY DEF DestroyRoleDefinition
  <1> HIDE DEF d
  <1>3. d.rds \ {rd} \in SUBSET RoleDef
    BY <1>1 DEF Keeps, Confined, Db
  <1>4. Keeps(db, Open, db')
    BY <1>1, <1>2, <1>3, NewDefinitions DEF Keeps
  <1>5. OtherTypes' /\ GlobalOpens'
    BY OnceCounts DEF DestroyRoleDefinition, ApiInv, OtherTypes, GlobalOpens
  <1> QED
    BY <1>4, <1>5, SameOpen DEF DestroyRoleDefinition

\* The set of open objects after a request that does not change the settings
LEMMA OpenAfter ==
    ASSUME UNCHANGED conf
    PROVE  Open' = seeds' \cup {o \in Obj : LaxOn(o)}
  BY DEF Open, LaxOn, On

\* A role given by an ordinary user is on an open object; one given by a
\* superuser opens its object and what is below.
LEMMA GivingStays ==
    ASSUME ApiInv, NEW u \in User, NEW g \in Grants, NEW o \in Obj \cup {NoObj},
           Assign(u, g[1], g[2], o)
    PROVE  ApiInv'
  <1> DEFINE a == g[1]
             rd == g[2]
             S == seeds'
  <1>1. a \in User \cup Team /\ rd \in RoleDef /\ Confined(db, Open) /\ db.objs \subseteq Obj
    BY ApiAssumption DEF ApiInv, Confined, Db
  <1>2. UNCHANGED <<rdt, managed, owner, conf, done>>
    BY DEF Assign
  <1>3. CASE o = NoObj
    <2>1. u \in Superuser /\ db' = db /\ gasg' = gasg \cup {<<a, rd>>}
      BY <1>3 DEF Assign, MayGive, Given, GivenGlobal
    <2>2. seeds' = Obj
      BY <1>3, <2>1 DEF Assign, Sown, ApiInv, OtherTypes
    <2>3. OtherTypes' /\ GlobalOpens'
      BY <1>1, <1>2, <2>1, <2>2 DEF ApiInv, OtherTypes, GlobalOpens, Actor
    <2>4. ClosedBelow(db, Obj)
      BY <1>1 DEF ClosedBelow
    <2>5. Open' = Obj /\ Open \subseteq Obj
      BY <1>2, <2>2, OpenAfter DEF Open, ApiInv, OtherTypes
    <2>6. Confined(db, Obj)
      BY <1>1, <2>4, <2>5, Wider
    <2> QED
      BY <2>1, <2>2, <2>3, <2>4, <2>5, <2>6 DEF ApiInv
  <1>4. CASE o # NoObj
    <2>1. o \in db.objs /\ gasg' = gasg
          /\ db' = GiveAssignments(db, Batch(a, {<<rd, o>>}), TeamBatch(a, {<<rd, o>>}))
      BY <1>4 DEF Assign, Given, GivenGlobal
    <2>2. UnderOrAt(o) \subseteq Obj /\ ClosedBelow(db, UnderOrAt(o))
      BY <1>1, <2>1, UnderIsClosed DEF UnderOrAt, Below
    <2>3. seeds \subseteq seeds' /\ seeds' \subseteq Obj /\ ClosedBelow(db, seeds')
      BY <1>4, <2>2 DEF Assign, Sown, ApiInv, OtherTypes, ClosedBelow
    <2>4. Confined(db, Open')
      <3>1. ClosedBelow(db, Open')
        BY <1>1, <1>2, <2>3, LaxIsClosed, OpenAfter DEF Confined
      <3>2. Open \subseteq Open'
        BY <1>2, <2>3, OpenAfter DEF Open
      <3> QED
        BY <1>1, <3>1, <3>2, Wider
    <2>5. o \in Open'
      <3>1. CASE u \in Superuser
        <4>1. o \in seeds'
          BY <1>4, <3>1 DEF Assign, Sown, UnderOrAt
        <4> QED
          BY <4>1, <1>2, OpenAfter
      <3>2. CASE u \notin Superuser
        <4>1. MayManage(u, o)
          BY <1>4 DEF Assign, MayGive
        <4>2. o \in Open
          BY <1>1, <2>1, <3>2, <4>1, ManagedIsOpen
        <4> QED
          BY <4>2, <1>2, <2>3, OpenAfter DEF Open
      <3> QED
        BY <3>1, <3>2
    <2>6. Asked(db, Open', Batch(a, {<<rd, o>>}), TeamBatch(a, {<<rd, o>>}))
      <3>1. a \in Team => a \in db.objs
        <4>1. a \in db.users \cup (db.objs \cap Team) /\ db.users \subseteq User
          BY <1>1 DEF Assign, Confined, Db
        <4> QED BY <4>1, ApiAssumption DEF Team
      <3> QED
        BY <1>1, <2>1, <2>5, <3>1 DEF Asked, Batch, TeamBatch, Role
    <2>7. Keeps(db, Open', db')
      BY <2>1, <2>4, <2>6, GivenStays
    <2>8. OtherTypes' /\ GlobalOpens'
      BY <1>2, <2>1, <2>3 DEF ApiInv, OtherTypes, GlobalOpens
    <2>9. ClosedBelow(db', seeds')
      BY <2>3, <2>7 DEF Keeps, ClosedBelow
    <2> QED
      BY <2>7, <2>8, <2>9 DEF ApiInv, Keeps
  <1> QED
    BY <1>3, <1>4

\* Taking roles away opens nothing.
LEMMA TakingStays ==
    ASSUME ApiInv, NEW u \in User, NEW a, NEW rd, NEW o \in Obj \cup {NoObj},
           Unassign(u, a, rd, o) \/ ServiceUnassign(u, a, rd, o)
    PROVE  ApiInv'
  <1>1. /\ db' = Taken(a, rd, o) /\ gasg' = TakenGlobal(a, rd, o)
        /\ UNCHANGED <<rdt, managed, owner, conf, seeds, done>>
    BY DEF Unassign, ServiceUnassign
  <1>2. Keeps(db, Open, db')
    BY <1>1, TakenStays, KeepsNothing DEF Taken, TakenGlobal, ApiInv
  <1>3. gasg' \subseteq gasg
    BY <1>1 DEF Taken, TakenGlobal
  <1>4. OtherTypes' /\ GlobalOpens'
    BY <1>1, <1>3 DEF ApiInv, OtherTypes, GlobalOpens
  <1> QED
    BY <1>1, <1>2, <1>4, SameOpen

LEMMA PurgeStays ==
    ASSUME ApiInv, NEW o \in Obj, ServiceObjectDelete(o)
    PROVE  ApiInv'
  <1> DEFINE U == {a \in db.uasg : a[2][2] # o}
             T == {a \in db.tasg : a[2][2] # o}
  <1>1. db' = [db EXCEPT !.uasg = U, !.tasg = T]
    BY DEF ServiceObjectDelete
  <1>2. Keeps(db, Open, db')
    <2>1. U \subseteq db.uasg /\ T \subseteq db.tasg /\ Confined(db, Open)
      BY DEF ApiInv
    <2> HIDE DEF U, T
    <2> QED
      BY <1>1, <2>1, FewerAssignments
  <1>3. OtherTypes' /\ GlobalOpens'
    BY OnceCounts DEF ServiceObjectDelete, ApiInv, OtherTypes, GlobalOpens
  <1> QED
    BY <1>2, <1>3, SameOpen DEF ServiceObjectDelete

\* A new object under an open one is open, and its creator, who could add it
\* there, gets a role on it only then.
LEMMA CreatingStays ==
    ASSUME ApiInv, NEW u \in User, NEW o \in Creatable, NEW p \in Obj \cup {NoObj},
           CreateObject(u, o, p)
    PROVE  ApiInv'
  <1> DEFINE ty == TypeOf[o]
             d0 == [db EXCEPT !.objs = @ \cup {o}, !.parent[o] = p]
             d == CreatedNow(d0, o)
  <1>1. o \in Obj /\ o \notin db.objs /\ db \in Db /\ db.objs \subseteq Obj
        /\ NoObj \notin Obj /\ Confined(db, Open) /\ seeds \subseteq Obj
    BY ApiAssumption, CachingAssumption
       DEF ApiInv, Confined, Db, OtherTypes, CreateObject
  <1>2. p # NoObj => p \in db.objs /\ TypeOf[p] = ParentType[ty]
    BY DEF CreateObject, ValidParent
  <1>3. /\ seeds' = IF p \in seeds THEN seeds \cup {o} ELSE seeds
        /\ UNCHANGED <<gasg, conf>>
        /\ owner' = [owner EXCEPT ![o] = u]
    BY DEF CreateObject
  <1>4. /\ d0 \in Db /\ d0.objs = db.objs \cup {o} /\ d0.parent = [db.parent EXCEPT ![o] = p]
        /\ d0.roles = db.roles /\ d0.uasg = db.uasg /\ d0.tasg = db.tasg
        /\ d0.provides = db.provides /\ d0.evals = db.evals
    BY <1>1 DEF Db
  <1> HIDE DEF d0
  <1>5. d0.parent[o] = p /\ \A c \in db.objs : d0.parent[c] = db.parent[c]
    BY <1>1, <1>4 DEF Db
  <1>6. ParentsHold(d0)
    BY <1>1, <1>2, <1>4, <1>5 DEF Confined, ParentsHold
  <1>7. ClosedBelow(d0, seeds')
    <2>1. \A c \in db.objs : db.parent[c] # o
      BY <1>1 DEF Confined, ParentsHold
    <2>2. p # o
      BY <1>1, <1>2
    <2> QED
      BY <1>3, <1>4, <1>5, <2>1, <2>2 DEF ApiInv, ClosedBelow
  <1>8. ClosedBelow(d0, Open')
    BY <1>3, <1>4, <1>6, <1>7, LaxIsClosed, OpenAfter
  <1>9. Open \subseteq Open'
    BY <1>3, OpenAfter DEF Open
  <1>10. Confined(d0, Open')
    <2>1. KeysHold(d0) /\ RowsIn(d0, Open')
      BY <1>1, <1>4, <1>9 DEF Confined, KeysHold, RowsIn
    <2> QED
      BY <2>1, <1>4, <1>6, <1>8 DEF Confined
  <1>11. Keeps(d0, Open', d)
    BY <1>10, CreatedStays
  <1>12. PICK rd \in CreatorDefinition(d, ty) :
            /\ db' = GiveCreatorPermissions(d, u, o, rd)
            /\ IF rd \in db'.rds \ db.rds
               THEN /\ rdt' = [rdt EXCEPT ![rd] = ty]
                    /\ managed' = IF AsCustom(ty) THEN managed \ {rd} ELSE managed \cup {rd}
               ELSE UNCHANGED <<rdt, managed>>
    BY DEF CreateObject, d0
  <1> HIDE DEF d
  <1>13. ty \in Type /\ rd \in RoleDef
    <2>1. ty \in Type
      BY <1>1, CachingAssumption
    <2> QED
      BY <2>1, <1>11, <1>12, ApiAssumption
         DEF CreatorDefinition, Exact, Keeps, Confined, Db
  <1>14. Keeps(d0, Open', db')
    <2>1. CASE ~NeedsCreatorRole(d, u, o)
      BY <2>1, <1>11, <1>12 DEF GiveCreatorPermissions
    <2>2. CASE NeedsCreatorRole(d, u, o)
      <3> DEFINE w == WithDefinition(d, rd, ty)
      <3>1. Keeps(d0, Open', w)
        <4> DEFINE e == [d EXCEPT !.rds = @ \cup {rd}]
        <4>1. d.rds \cup {rd} \in SUBSET RoleDef /\ CreatorPerms(ty) \in SUBSET Perm
          BY <1>11, <1>13 DEF Keeps, Confined, Db, CreatorPerms
        <4>2. Keeps(d0, Open', e)
          BY <1>11, <4>1, NewDefinitions, KeptIsConfined, KeepsOn
        <4>3. rd \notin d.rds => w = [e EXCEPT !.perms[rd] = CreatorPerms(ty)]
          BY DEF WithDefinition
        <4>4. rd \in d.rds => w = d
          BY DEF WithDefinition
        <4> HIDE DEF e, w
        <4>5. Keeps(e, Open', [e EXCEPT !.perms[rd] = CreatorPerms(ty)])
          BY <1>13, <4>1, <4>2, NewPerms, KeptIsConfined
        <4> QED
          BY <1>11, <4>2, <4>3, <4>4, <4>5, KeepsOn
      <3>2. o \in Open'
        <4>1. u \notin Superuser
          BY <2>2 DEF NeedsCreatorRole
        <4>2. CASE ParentType[ty] = "none"
          <5>1. gasg # {}
            BY <4>1, <4>2 DEF CreateObject, SuperPerm, Global
          <5> QED
            BY <5>1, <1>1, <1>9 DEF ApiInv, GlobalOpens, Open
        <4>3. CASE ParentType[ty] # "none" /\ P("add", ty) \in Global(u)
          <5>1. gasg # {}
            BY <4>3 DEF Global
          <5> QED
            BY <5>1, <1>1, <1>9 DEF ApiInv, GlobalOpens, Open
        <4>4. CASE ParentType[ty] # "none" /\ P("add", ty) \notin Global(u)
          <5>1. MayPutUnder(d, u, o, p)
            BY <4>4 DEF CreateObject, d, d0
          <5>2. PICK x \in d.evals : x[2][2] = p
            BY <5>1, <4>1, <4>4 DEF MayPutUnder, SuperPerm
          <5>3. p \in Open'
            BY <5>2, <1>11 DEF Keeps, Confined, RowsIn
          <5> QED
            BY <5>3, <1>4, <1>5, <1>8 DEF ClosedBelow
        <4> QED
          BY <4>2, <4>3, <4>4
      <3>3. Asked(w, Open', {<<u, <<rd, o>>>>}, {})
        BY <3>1, <3>2, <1>1, <1>4, <1>13 DEF Asked, Role, Keeps
      <3> HIDE DEF w
      <3>4. Keeps(d0, Open', GiveAssignments(w, {<<u, <<rd, o>>>>}, {}))
        BY <3>1, <3>3, GivenStays, KeptIsConfined, KeepsOn
      <3> QED
        BY <2>2, <3>4, <1>12 DEF GiveCreatorPermissions, w
    <2> QED
      BY <2>1, <2>2
  <1>15. OtherTypes' /\ GlobalOpens'
    <2>1. IsFiniteSet(done') /\ Cardinality(done') <= MaxEdits
      BY OnceCounts DEF CreateObject
    <2>2. rdt' \in [RoleDef -> Type \cup {"none"}]
      BY <1>12, <1>13 DEF ApiInv, OtherTypes
    <2>3. managed' \subseteq RoleDef
      BY <1>12, <1>13 DEF ApiInv, OtherTypes
    <2> QED
      BY <2>1, <2>2, <2>3, <1>1, <1>3 DEF ApiInv, OtherTypes, GlobalOpens
  <1>16. ClosedBelow(db', seeds')
    BY <1>7, <1>14 DEF Keeps, ClosedBelow
  <1> QED
    BY <1>14, <1>15, <1>16 DEF ApiInv, Keeps

\* What is moved under an open object is opened with all that is below it.
LEMMA MovingStays ==
    ASSUME ApiInv, NEW u \in User, NEW o \in Movable, NEW p \in Obj \cup {NoObj},
           MoveObject(u, o, p)
    PROVE  ApiInv'
  <1> DEFINE d0 == [db EXCEPT !.parent[o] = p]
  <1>1. o \in Obj /\ db \in Db /\ NoObj \notin Obj /\ db.objs \subseteq Obj
        /\ Confined(db, Open) /\ seeds \subseteq Obj
    BY ApiAssumption, CachingAssumption
       DEF ApiInv, Confined, Db, OtherTypes
  <1>2. o \in db.objs /\ (p # NoObj => p \in db.objs /\ TypeOf[p] = ParentType[TypeOf[o]])
    BY <1>1 DEF MoveObject, ValidParent
  <1>3. /\ seeds' = IF p \in seeds THEN seeds \cup UnderOrAt(o) ELSE seeds
        /\ UNCHANGED <<rdt, managed, gasg, owner, conf>>
    BY DEF MoveObject
  <1>4. /\ d0 \in Db /\ d0.objs = db.objs /\ d0.parent = [db.parent EXCEPT ![o] = p]
        /\ d0.roles = db.roles /\ d0.uasg = db.uasg /\ d0.tasg = db.tasg
        /\ d0.provides = db.provides /\ d0.evals = db.evals
    BY <1>1 DEF Db
  <1>5. \E T, RR : db' \in {RecomputeRoleEvaluations(d0, RR),
                           RecomputeRoleEvaluations(ComputeTeamMemberRoles(d0, T), RR)}
    BY DEF MoveObject, Moved
  <1> HIDE DEF d0
  <1>6. d0.parent[o] = p /\ \A c \in db.objs \ {o} : d0.parent[c] = db.parent[c]
    BY <1>1, <1>4 DEF Db
  <1>7. ParentsHold(d0)
    BY <1>1, <1>2, <1>4, <1>6 DEF Confined, ParentsHold
  <1>8. UnderOrAt(o) \subseteq Obj /\ ClosedBelow(db, UnderOrAt(o)) /\ o \in UnderOrAt(o)
    BY <1>1, <1>2, UnderIsClosed DEF UnderOrAt, Below
  <1>9. ClosedBelow(d0, seeds')
    BY <1>3, <1>4, <1>6, <1>8 DEF ApiInv, ClosedBelow
  <1>10. Confined(d0, Open')
    <2>1. ClosedBelow(d0, Open')
      BY <1>3, <1>4, <1>7, <1>9, LaxIsClosed, OpenAfter
    <2>2. Open \subseteq Open'
      BY <1>3, OpenAfter DEF Open
    <2>3. KeysHold(d0) /\ RowsIn(d0, Open')
      BY <1>1, <1>4, <2>2 DEF Confined, KeysHold, RowsIn
    <2> QED
      BY <2>1, <2>3, <1>4, <1>7 DEF Confined
  <1>11. Keeps(d0, Open', db')
    <2>1. \A T, RR : /\ Keeps(d0, Open', RecomputeRoleEvaluations(d0, RR))
                     /\ Keeps(d0, Open', RecomputeRoleEvaluations(ComputeTeamMemberRoles(d0, T), RR))
      BY <1>10, ComputeStays, RecomputeStays, KeptIsConfined, KeepsOn
    <2> QED
      BY <2>1, <1>5
  <1>12. OtherTypes' /\ GlobalOpens'
    <2>1. IsFiniteSet(done') /\ Cardinality(done') <= MaxEdits
      BY OnceCounts DEF MoveObject
    <2> QED
      BY <2>1, <1>1, <1>3, <1>8 DEF ApiInv, OtherTypes, GlobalOpens
  <1>13. ClosedBelow(db', seeds')
    BY <1>9, <1>11 DEF Keeps, ClosedBelow
  <1> QED
    BY <1>11, <1>12, <1>13 DEF ApiInv, Keeps

LEMMA StepHolds == ApiInv /\ [Next]_vars => ApiInv'
  <1> SUFFICES ASSUME ApiInv, [Next]_vars
               PROVE  ApiInv'
    OBVIOUS
  <1>1. CASE \E u \in User, rd \in Patchable, S \in PermSets, ty \in Type \cup {"none"} :
                \/ CreateRoleDefinition(u, rd, S, ty)
                \/ \E method \in {"PUT", "PATCH"} : UpdateRoleDefinition(u, rd, S, ty, method)
    BY <1>1, DefinitionsStay
  <1>2. CASE \E u \in User, rd \in Patchable : DestroyRoleDefinition(u, rd)
    BY <1>2, DestroyingStays
  <1>3. CASE \E u \in User, g \in Grants, o \in Obj \cup {NoObj} :
                \/ Assign(u, g[1], g[2], o)
                \/ Unassign(u, g[1], g[2], o)
                \/ ServiceUnassign(u, g[1], g[2], o)
    BY <1>3, GivingStays, TakingStays
  <1>4. CASE \E o \in Obj : ServiceObjectDelete(o)
    BY <1>4, PurgeStays
  <1>5. CASE \E u \in User, o \in Creatable, p \in Obj \cup {NoObj} : CreateObject(u, o, p)
    BY <1>5, CreatingStays
  <1>6. CASE \E u \in User, o \in Movable, p \in Obj \cup {NoObj} : MoveObject(u, o, p)
    BY <1>6, MovingStays
  <1>7. CASE UNCHANGED vars
    BY <1>7 DEF vars, ApiInv, OtherTypes, GlobalOpens, Open, LaxOn, On
  <1> QED
    BY <1>1, <1>2, <1>3, <1>4, <1>5, <1>6, <1>7 DEF Next

-----------------------------------------------------------------------------
(***************************************************************************)
(* The theorem                                                             *)
(***************************************************************************)
\* Under the policies of rbac/policies.py and the checks of the serializers, no
\* sequence of requests, however long, puts a role on an object that no
\* superuser has let go: giving, editing definitions, creating and moving
\* objects and the recomputations behind them all start from a permission on
\* an object that is open already.  And every role that somebody may give, the
\* same person finds in the list and may take away.
THEOREM RolesStayWhereTheyWereLet == Spec => []SharingIsSound
  <1>1. Init => ApiInv
    BY InitHolds
  <1>2. ApiInv /\ [Next]_vars => ApiInv'
    BY StepHolds
  <1>3. ApiInv => SharingIsSound
    BY InvariantSuffices, GiversTake DEF SharingIsSound
  <1> QED
    BY <1>1, <1>2, <1>3, PTL DEF Spec

-----------------------------------------------------------------------------
(***************************************************************************)
(* The computed tables                                                     *)
(***************************************************************************)
\* Nothing was requested that recomputes nothing: no definition was deleted and
\* no object of another service.
Undisturbed == done \cap {"dropped", "purged"} = {}

\* Roles are of definitions that exist.
DefinitionsExist(d, g) == (\A r \in d.roles : r[1] \in d.rds) /\ (\A a \in g : a[2] \in d.rds)

\* The tables of the module, with one look-ahead recomputation for a new object
\* and full ones for the rest, are those that a recomputation of everything
\* would write.
InStep(d, g) == Sound(d) /\ Coherent(d) /\ DefinitionsExist(d, g)
TablesInStep == Undisturbed => InStep(db, gasg)

\* Where the parents of what is moved have no parents of their own, the direct
\* parents lead to every role that gains or loses rows.
MovesSuffice == \A o \in Movable : Top(TypeOf[o]) \/ Top(ParentType[TypeOf[o]])

\* None of the functions touches the role definitions.
LEMMA DefinitionsAside ==
    ASSUME NEW d \in Db
    PROVE  /\ \A T : ComputeTeamMemberRoles(d, T).rds = d.rds
           /\ \A RR : RecomputeRoleEvaluations(d, RR).rds = d.rds
           /\ \A RR, o : RecomputeLookAhead(d, RR, o).rds = d.rds
           /\ \A RR : DeleteObjectRoles(d, RR).rds = d.rds
           /\ \A ua, ta : CreateAssignments(d, ua, ta).rds = d.rds
  BY DEF Db, ComputeTeamMemberRoles, RecomputeRoleEvaluations, RecomputeLookAhead,
         DeleteObjectRoles, CreateAssignments

LEMMA ChangedDefinitions ==
    ASSUME NEW d \in Db, NEW rd, NEW S, NEW adding
    PROVE  PermissionsChanged(d, rd, S, adding).rds = d.rds
  BY DefinitionsAside, ComputeType DEF PermissionsChanged

LEMMA CreatedDefinitions ==
    ASSUME NEW d \in Db, NEW o
    PROVE  CreatedNow(d, o).rds = d.rds
  BY DefinitionsAside, ComputeType DEF CreatedNow

LEMMA MovedDefinitions ==
    ASSUME NEW d \in Db, NEW o, NEW p \in Obj \cup {NoObj}
    PROVE  /\ Moved(d, o, p).rds = d.rds /\ Moved(d, o, p).roles = d.roles
           /\ Moved(d, o, p).objs = d.objs
  <1> DEFINE e == [d EXCEPT !.parent[o] = p]
             Same(f) == f \in Db /\ f.rds = d.rds /\ f.roles = d.roles /\ f.objs = d.objs
  <1>1. Same(e)
    BY DEF Db
  <1> HIDE DEF e
  <1>2. \A T : Same(ComputeTeamMemberRoles(e, T))
    BY <1>1, ComputeType DEF Db, ComputeTeamMemberRoles
  <1>3. ASSUME NEW f, NEW RR, Same(f)
        PROVE  Same(RecomputeRoleEvaluations(f, RR))
    <2>1. RecomputeRoleEvaluations(f, RR) \in Db
      BY <1>3, RecomputeType
    <2>2. /\ RecomputeRoleEvaluations(f, RR).rds = f.rds
          /\ RecomputeRoleEvaluations(f, RR).roles = f.roles
          /\ RecomputeRoleEvaluations(f, RR).objs = f.objs
      BY <1>3 DEF Db, RecomputeRoleEvaluations
    <2> QED BY <1>3, <2>1, <2>2
  <1>4. Same(Moved(d, o, p))
    <2> HIDE DEF Same
    <2> QED BY <1>1, <1>2, <1>3 DEF Moved, e
  <1> QED
    BY <1>4

LEMMA GivenDefinitions ==
    ASSUME NEW d \in Db, NEW ua \in SUBSET (User \X Role), NEW ta \in SUBSET (Team \X Role)
    PROVE  GiveAssignments(d, ua, ta).rds = d.rds
  <1> DEFINE d1 == CreateAssignments(d, ua, ta)
             ids == CollectRecomputeTeamIds(d1, RolesIn(ua) \cup RolesIn(ta))
             d2 == IF ids = {} THEN d1 ELSE ComputeTeamMemberRoles(d1, ids)
  <1>1. d1 \in Db /\ d1.rds = d.rds
    BY CreateAssignmentsType, DefinitionsAside
  <1>2. d2 \in Db /\ d2.rds = d.rds
    <2> HIDE DEF d1, ids
    <2> QED BY <1>1, ComputeType, DefinitionsAside
  <1> HIDE DEF d2
  <1>3. \A RR : RecomputeRoleEvaluations(d2, RR).rds = d.rds
    BY <1>2, DefinitionsAside
  <1> QED
    BY <1>3 DEF GiveAssignments, d2

LEMMA TakenDefinitions ==
    ASSUME NEW d \in Db, NEW ua, NEW ta
    PROVE  RemoveAssignments(d, ua, ta).rds = d.rds
  <1> DEFINE d1 == [d EXCEPT !.uasg = @ \ ua, !.tasg = @ \ ta]
             ids == CollectRecomputeTeamIds(d1, RolesIn(ua) \cup RolesIn(ta))
             d2 == IF ids = {} THEN d1 ELSE ComputeTeamMemberRoles(d1, ids)
             Same(f) == f \in Db /\ f.rds = d.rds
  <1>1. Same(d1)
    BY DEF Db
  <1>2. Same(d2)
    <2> HIDE DEF d1, ids
    <2> QED BY <1>1, ComputeType, DefinitionsAside
  <1> HIDE DEF d2
  <1>3. \A RR : Same(RecomputeRoleEvaluations(d2, RR))
    BY <1>2, DefinitionsAside, RecomputeType
  <1>4. \A RR, gone : Same(DeleteObjectRoles(RecomputeRoleEvaluations(d2, RR), gone))
    BY <1>3, DefinitionsAside, DeleteRolesType
  <1>5. Same(RemoveAssignments(d, ua, ta))
    <2> HIDE DEF Same
    <2> QED BY <1>4 DEF RemoveAssignments, d2
  <1> QED
    BY <1>5

\* A new definition has no roles yet.
Defined(d, rd, S) == [d EXCEPT !.rds = @ \cup {rd}, !.perms[rd] = S]
LEMMA DefinedInStep ==
    ASSUME NEW d, NEW g, InStep(d, g), NEW rd \in RoleDef \ d.rds, NEW S \in SUBSET Perm
    PROVE  /\ InStep(Defined(d, rd, S), g)
           /\ Defined(d, rd, S).rds = d.rds \cup {rd} /\ Defined(d, rd, S).objs = d.objs
  <1> DEFINE c == [d EXCEPT !.rds = @ \cup {rd}]
             e == [c EXCEPT !.perms[rd] = S]
  <1>1. d \in Db /\ Sound(d) /\ Coherent(d) /\ DefinitionsExist(d, g)
    BY DEF InStep, Sound
  <1>2. c \in Db /\ SameTables(d, c) /\ c.rds = d.rds \cup {rd}
    BY <1>1 DEF Db, SameTables, SameSource
  <1>3. e.roles = c.roles /\ e.rds = c.rds /\ e.objs = c.objs
    BY <1>2 DEF Db
  <1>4. e = Defined(d, rd, S)
    BY <1>1 DEF Db, Defined
  <1> HIDE DEF c
  <1>5. RolesOfDefinition(c, rd) = {}
    BY <1>1, <1>2 DEF RolesOfDefinition, DefinitionsExist, SameTables, SameSource
  <1>6. Sound(e) /\ Coherent(e)
    BY <1>1, <1>2, <1>5, TablesAside, UnusedDefinitionEdited
  <1>7. DefinitionsExist(e, g)
    BY <1>1, <1>2, <1>3 DEF DefinitionsExist, SameTables, SameSource
  <1> QED
    BY <1>2, <1>3, <1>4, <1>6, <1>7 DEF InStep, SameTables, SameSource

LEMMA ChangedInStep ==
    ASSUME NEW d, NEW g, InStep(d, g), NEW rd \in RoleDef, NEW N \in SUBSET Perm, NEW P1,
           NEW adding \in BOOLEAN,
           MemberTeam \notin P1 => (MemberTeam \in N <=> MemberTeam \in d.perms[rd]),
           ~adding => (MemberTeam \in N => MemberTeam \in d.perms[rd])
    PROVE  InStep(PermissionsChanged([d EXCEPT !.perms[rd] = N], rd, P1, adding), g)
  <1> DEFINE e == [d EXCEPT !.perms[rd] = N]
  <1>1. d \in Db /\ Sound(d) /\ Coherent(d) /\ DefinitionsExist(d, g)
    BY DEF InStep, Sound
  <1>2. Sound(PermissionsChanged(e, rd, P1, adding)) /\ Coherent(PermissionsChanged(e, rd, P1, adding))
    BY <1>1, PermissionsChangedCoherent
  <1>3. e \in Db /\ e.roles = d.roles /\ e.rds = d.rds
    BY <1>1 DEF Db
  <1> HIDE DEF e
  <1>4. /\ PermissionsChanged(e, rd, P1, adding).rds = d.rds
        /\ PermissionsChanged(e, rd, P1, adding).roles = d.roles
    BY <1>3, ChangedDefinitions, PermissionsChangedKeeps DEF SameAssignments
  <1> QED
    BY <1>1, <1>2, <1>4 DEF InStep, DefinitionsExist, e

\* permissions.set() in its two steps
LEMMA SetInStep ==
    ASSUME NEW d, NEW g, InStep(d, g), NEW rd \in RoleDef, NEW S \in SUBSET Perm
    PROVE  InStep(PermissionsSet(d, rd, S), g)
  <1> DEFINE less == d.perms[rd] \ S
             more == S \ d.perms[rd]
             d1 == IF less = {} THEN d
                   ELSE PermissionsChanged([d EXCEPT !.perms[rd] = @ \ less], rd, less, FALSE)
  <1>1. d.perms[rd] \in SUBSET Perm
    BY DEF InStep, Sound, Db
  <1>2. InStep(d1, g)
    <2> DEFINE N == d.perms[rd] \ less
    <2>1. N \in SUBSET Perm
      BY <1>1
    <2>2. MemberTeam \notin less => (MemberTeam \in N <=> MemberTeam \in d.perms[rd])
      OBVIOUS
    <2>3. InStep(PermissionsChanged([d EXCEPT !.perms[rd] = N], rd, less, FALSE), g)
      <3> HIDE DEF less
      <3> QED BY <2>1, <2>2, ChangedInStep
    <2> QED
      BY <2>3
  <1> HIDE DEF d1, less
  <1>3. d1.perms[rd] \in SUBSET Perm
    BY <1>2 DEF InStep, Sound, Db
  <1>4. InStep(PermissionsChanged([d1 EXCEPT !.perms[rd] = d1.perms[rd] \cup more], rd, more, TRUE), g)
    <2>1. d1.perms[rd] \cup more \in SUBSET Perm
      BY <1>3
    <2> HIDE DEF more
    <2> QED BY <1>2, <2>1, ChangedInStep
  <1> HIDE DEF more
  <1>5. PermissionsSet(d, rd, S)
          = IF more = {} THEN d1
            ELSE PermissionsChanged([d1 EXCEPT !.perms[rd] = d1.perms[rd] \cup more], rd, more, TRUE)
    BY DEF PermissionsSet, more, less, d1
  <1> QED
    BY <1>2, <1>4, <1>5

LEMMA GiveInStep ==
    ASSUME NEW d, NEW g, InStep(d, g),
           NEW ua \in SUBSET (User \X Role), NEW ta \in SUBSET (Team \X Role),
           Holders(ta) \subseteq d.objs,
           \A r \in RolesIn(ua) \cup RolesIn(ta) : r[1] \in d.rds /\ r[2] \in d.objs
    PROVE  InStep(GiveAssignments(d, ua, ta), g)
  <1>1. d \in Db /\ Sound(d) /\ Coherent(d) /\ DefinitionsExist(d, g)
    BY DEF InStep, Sound
  <1>2. Sound(GiveAssignments(d, ua, ta)) /\ Coherent(GiveAssignments(d, ua, ta))
    BY <1>1, GiveCoherent
  <1>3. /\ GiveAssignments(d, ua, ta).rds = d.rds
        /\ GiveAssignments(d, ua, ta).roles = d.roles \cup RolesIn(ua) \cup RolesIn(ta)
    BY <1>1, GiveRoles, GivenDefinitions
  <1> QED
    BY <1>1, <1>2, <1>3 DEF InStep, DefinitionsExist

LEMMA TakeInStep ==
    ASSUME NEW d, NEW g, InStep(d, g), NEW ua, NEW ta \in SUBSET (Team \X Role)
    PROVE  InStep(RemoveAssignments(d, ua, ta), g)
  <1>1. d \in Db /\ Sound(d) /\ Coherent(d) /\ DefinitionsExist(d, g)
    BY DEF InStep, Sound
  <1>2. Sound(RemoveAssignments(d, ua, ta)) /\ Coherent(RemoveAssignments(d, ua, ta))
    BY <1>1, RemoveCoherent
  <1>3. /\ RemoveAssignments(d, ua, ta).rds = d.rds
        /\ RemoveAssignments(d, ua, ta).roles \subseteq d.roles
    BY <1>1, RemoveRoles, TakenDefinitions
  <1> QED
    BY <1>1, <1>2, <1>3 DEF InStep, DefinitionsExist

\* A request of a kind that recomputes leaves the history undisturbed or finds
\* it so.
LEMMA UndisturbedBefore ==
    ASSUME NEW kind, Once(kind) \/ UNCHANGED done, Undisturbed'
    PROVE  Undisturbed /\ (Once(kind) => kind \notin {"dropped", "purged"})
  BY DEF Undisturbed, Once

LEMMA DefinitionsInStep ==
    ASSUME ApiInv, TablesInStep, Undisturbed',
           NEW u \in User, NEW rd \in Patchable, NEW S \in PermSets,
           NEW ty \in Type \cup {"none"}
    PROVE  /\ CreateRoleDefinition(u, rd, S, ty) => InStep(db', gasg')
           /\ \A method : UpdateRoleDefinition(u, rd, S, ty, method) => InStep(db', gasg')
  <1>1. rd \in RoleDef /\ S \in SUBSET Perm
    BY ApiAssumption
  <1>2. ASSUME CreateRoleDefinition(u, rd, S, ty)
        PROVE  InStep(db', gasg')
    <2>1. InStep(db, gasg) /\ rd \notin db.rds /\ gasg' = gasg
      BY <1>2, UndisturbedBefore DEF CreateRoleDefinition, TablesInStep
    <2>2. InStep(Defined(db, rd, S), gasg)
      BY <1>1, <2>1, DefinedInStep
    <2> QED
      BY <1>2, <2>1, <2>2 DEF CreateRoleDefinition, Defined
  <1>3. ASSUME NEW method, UpdateRoleDefinition(u, rd, S, ty, method)
        PROVE  InStep(db', gasg')
    <2>1. InStep(db, gasg) /\ gasg' = gasg
      BY <1>3, UndisturbedBefore DEF UpdateRoleDefinition, TablesInStep
    <2> QED
      BY <1>1, <1>3, <2>1, SetInStep DEF UpdateRoleDefinition
  <1> QED
    BY <1>2, <1>3

LEMMA AssignedInStep ==
    ASSUME ApiInv, TablesInStep, Undisturbed',
           NEW u \in User, NEW g \in Grants, NEW o \in Obj \cup {NoObj},
           Assign(u, g[1], g[2], o)
    PROVE  InStep(db', gasg')
  <1> DEFINE a == g[1]
             rd == g[2]
             ua == Batch(a, {<<rd, o>>})
             ta == TeamBatch(a, {<<rd, o>>})
  <1>1. InStep(db, gasg) /\ rd \in db.rds /\ a \in User \cup Team /\ rd \in RoleDef
    BY UndisturbedBefore, ApiAssumption DEF Assign, TablesInStep
  <1>2. CASE o = NoObj
    <2>1. db' = db /\ gasg' = gasg \cup {<<a, rd>>}
      BY <1>2 DEF Assign, Given, GivenGlobal
    <2> QED
      BY <1>1, <2>1 DEF InStep, DefinitionsExist
  <1>3. CASE o # NoObj
    <2>1. o \in db.objs /\ gasg' = gasg /\ db' = GiveAssignments(db, ua, ta)
      BY <1>3 DEF Assign, Given, GivenGlobal
    <2>2. a \in Team => a \in db.objs
      <3>1. a \in db.users \cup (db.objs \cap Team) /\ db.users \subseteq User
        BY DEF Assign, ApiInv, Confined, Db
      <3> QED BY <3>1, ApiAssumption DEF Team
    <2>3. o \in Obj
      BY <1>3
    <2>4. ua \in SUBSET (User \X Role) /\ ta \in SUBSET (Team \X Role)
      BY <1>1, <2>3 DEF Batch, TeamBatch, Role
    <2>5. Holders(ta) \subseteq db.objs
      BY <2>2 DEF Holders, TeamBatch
    <2>6. \A r \in RolesIn(ua) \cup RolesIn(ta) : r = <<rd, o>>
      BY DEF RolesIn, Batch, TeamBatch
    <2> HIDE DEF ua, ta
    <2> QED
      BY <1>1, <2>1, <2>4, <2>5, <2>6, GiveInStep
  <1> QED
    BY <1>2, <1>3

LEMMA UnassignedInStep ==
    ASSUME ApiInv, TablesInStep, Undisturbed',
           NEW u \in User, NEW g \in Grants, NEW o \in Obj \cup {NoObj},
           Unassign(u, g[1], g[2], o) \/ ServiceUnassign(u, g[1], g[2], o)
    PROVE  InStep(db', gasg')
  <1> DEFINE a == g[1]
             rd == g[2]
             ua == Batch(a, {<<rd, o>>})
             ta == TeamBatch(a, {<<rd, o>>})
  <1>1. /\ UNCHANGED done
        /\ db' = Taken(a, rd, o) /\ gasg' = TakenGlobal(a, rd, o) /\ rd \in RoleDef
    BY ApiAssumption DEF Unassign, ServiceUnassign
  <1>2. InStep(db, gasg)
    BY <1>1 DEF Undisturbed, TablesInStep
  <1>3. CASE o = NoObj
    <2>1. db' = db /\ gasg' \subseteq gasg
      BY <1>1, <1>3 DEF Taken, TakenGlobal
    <2> QED
      BY <1>2, <2>1 DEF InStep, DefinitionsExist
  <1>4. CASE o # NoObj
    <2>1. gasg' = gasg /\ db' = RemoveAssignments(db, ua, ta)
      BY <1>1, <1>4 DEF Taken, TakenGlobal
    <2>2. ta \in SUBSET (Team \X Role)
      BY <1>1, <1>4 DEF TeamBatch, Role
    <2> HIDE DEF ua, ta
    <2> QED
      BY <1>2, <2>1, <2>2, TakeInStep
  <1> QED
    BY <1>3, <1>4

LEMMA MovedInStep ==
    ASSUME MovesSuffice, ApiInv, TablesInStep, Undisturbed',
           NEW u \in User, NEW o \in Movable, NEW p \in Obj \cup {NoObj}, MoveObject(u, o, p)
    PROVE  InStep(db', gasg')
  <1>1. InStep(db, gasg) /\ gasg' = gasg /\ db' = Moved(db, o, p)
    BY UndisturbedBefore DEF MoveObject, TablesInStep
  <1>2. /\ o \in db.objs /\ p # db.parent[o]
        /\ p = NoObj \/ (p \in db.objs /\ TypeOf[p] = ParentType[TypeOf[o]])
    BY CachingAssumption DEF MoveObject, ValidParent
  <1>3. Sound(db') /\ Coherent(db')
    BY <1>1, <1>2, MoveCoherent DEF MovesSuffice, InStep
  <1>4. db'.rds = db.rds /\ db'.roles = db.roles
    BY <1>1, MovedDefinitions DEF InStep, Sound
  <1> QED
    BY <1>1, <1>3, <1>4 DEF InStep, DefinitionsExist

\* A new object, under what it may be under
Put(d, o, p) == [d EXCEPT !.objs = @ \cup {o}, !.parent[o] = p]
LEMMA MadeInStep ==
    ASSUME NEW d, NEW g, InStep(d, g), NEW o \in Obj \ d.objs, NEW p \in Obj \cup {NoObj},
           ValidParent(d, o, p)
    PROVE  /\ InStep(CreatedNow(Put(d, o, p), o), g)
           /\ CreatedNow(Put(d, o, p), o).rds = d.rds
           /\ CreatedNow(Put(d, o, p), o).roles = d.roles
           /\ CreatedNow(Put(d, o, p), o).objs = d.objs \cup {o}
  <1> DEFINE d0 == Put(d, o, p)
  <1>1. d \in Db /\ Sound(d) /\ Coherent(d) /\ DefinitionsExist(d, g)
    BY DEF InStep, Sound
  <1>2. /\ d0 \in Db /\ d0.objs = d.objs \cup {o} /\ d0.parent = [d.parent EXCEPT ![o] = p]
        /\ d0.perms = d.perms /\ d0.rds = d.rds
        /\ d0.roles = d.roles /\ d0.uasg = d.uasg /\ d0.tasg = d.tasg
        /\ d0.provides = d.provides /\ d0.evals = d.evals
    BY <1>1 DEF Db, Put
  <1> HIDE DEF d0
  <1>3. d0.parent[o] = p /\ \A c \in d.objs : d0.parent[c] = d.parent[c]
    BY <1>1, <1>2 DEF Db
  <1>4. p = NoObj \/ (p \in d.objs /\ TypeOf[p] = ParentType[TypeOf[o]])
    BY DEF ValidParent
  <1>5. Sound(d0)
    BY <1>1, <1>2, <1>3, <1>4 DEF Sound, Linked, ParentsExist
  <1>6. Added(d, d0, {o})
    BY <1>1, <1>2, <1>3, <1>5 DEF Added
  <1>7. Sound(CreatedNow(d0, o)) /\ Coherent(CreatedNow(d0, o))
    BY <1>6, CreatedNowCoherent
  <1>8. CreatedNow(d0, o).rds = d.rds /\ CreatedNow(d0, o).roles = d.roles
        /\ CreatedNow(d0, o).objs = d.objs \cup {o}
    BY <1>2, CreatedDefinitions, CreatedNowKeeps DEF SameAssignments
  <1> QED
    BY <1>1, <1>7, <1>8 DEF InStep, DefinitionsExist, d0

\* The creator's role, of a definition found or made
LEMMA OwnedInStep ==
    ASSUME NEW d, NEW g, InStep(d, g), NEW u \in User, NEW o \in d.objs,
           NEW rd \in CreatorDefinition(d, TypeOf[o])
    PROVE  InStep(GiveCreatorPermissions(d, u, o, rd), g)
  <1> DEFINE ty == TypeOf[o]
             w == WithDefinition(d, rd, ty)
             ua == {<<u, <<rd, o>>>>}
  <1>1. d \in Db /\ o \in Obj /\ ty \in Type
    BY CachingAssumption DEF InStep, Sound, Db
  <1>2. rd \in RoleDef /\ CreatorPerms(ty) \in SUBSET Perm
    BY <1>1, ApiAssumption DEF CreatorDefinition, Exact, CreatorPerms, Db
  <1>3. InStep(w, g) /\ rd \in w.rds /\ w.objs = d.objs
    <2>1. CASE rd \in d.rds
      BY <2>1 DEF WithDefinition
    <2>2. CASE rd \notin d.rds
      <3> DEFINE e == Defined(d, rd, CreatorPerms(ty))
      <3>1. w = e
        BY <2>2 DEF WithDefinition, Defined
      <3>2. InStep(e, g) /\ e.rds = d.rds \cup {rd} /\ e.objs = d.objs
        BY <1>2, <2>2, DefinedInStep
      <3> HIDE DEF w, e
      <3> QED
        BY <3>1, <3>2
    <2> QED
      BY <2>1, <2>2
  <1> HIDE DEF w
  <1>4. InStep(GiveAssignments(w, ua, {}), g)
    <2>1. ua \in SUBSET (User \X Role) /\ Holders({}) = {}
      BY <1>1, <1>2 DEF Role, Holders
    <2>2. \A r \in RolesIn(ua) \cup RolesIn({}) : r = <<rd, o>>
      BY DEF RolesIn
    <2> HIDE DEF ua
    <2> QED
      BY <1>3, <2>1, <2>2, GiveInStep
  <1> QED
    BY <1>4 DEF GiveCreatorPermissions, w

LEMMA CreatedInStep ==
    ASSUME ApiInv, TablesInStep, Undisturbed',
           NEW u \in User, NEW o \in Creatable, NEW p \in Obj \cup {NoObj},
           CreateObject(u, o, p)
    PROVE  InStep(db', gasg')
  <1> DEFINE d == CreatedNow(Put(db, o, p), o)
  <1>1. /\ InStep(db, gasg) /\ gasg' = gasg
        /\ o \in Obj \ db.objs /\ ValidParent(db, o, p)
    BY UndisturbedBefore, ApiAssumption DEF CreateObject, TablesInStep
  <1>2. PICK rd \in CreatorDefinition(d, TypeOf[o]) : db' = GiveCreatorPermissions(d, u, o, rd)
    BY DEF CreateObject, Put
  <1>3. InStep(d, gasg) /\ o \in d.objs
    BY <1>1, MadeInStep
  <1> HIDE DEF d
  <1> QED
    BY <1>1, <1>2, <1>3, OwnedInStep

LEMMA StepInStep ==
    ASSUME MovesSuffice, ApiInv, TablesInStep, [Next]_vars
    PROVE  TablesInStep'
  <1> SUFFICES ASSUME Undisturbed'
               PROVE  InStep(db', gasg')
    BY DEF TablesInStep
  <1>1. CASE \E u \in User, rd \in Patchable, S \in PermSets, ty \in Type \cup {"none"} :
                \/ CreateRoleDefinition(u, rd, S, ty)
                \/ \E method \in {"PUT", "PATCH"} : UpdateRoleDefinition(u, rd, S, ty, method)
    BY <1>1, DefinitionsInStep
  <1>2. ~\E u \in User, rd \in Patchable : DestroyRoleDefinition(u, rd)
    BY UndisturbedBefore DEF DestroyRoleDefinition
  <1>3. CASE \E u \in User, g \in Grants, o \in Obj \cup {NoObj} :
                \/ Assign(u, g[1], g[2], o)
                \/ Unassign(u, g[1], g[2], o)
                \/ ServiceUnassign(u, g[1], g[2], o)
    BY <1>3, AssignedInStep, UnassignedInStep
  <1>4. ~\E o \in Obj : ServiceObjectDelete(o)
    BY UndisturbedBefore DEF ServiceObjectDelete
  <1>5. CASE \E u \in User, o \in Creatable, p \in Obj \cup {NoObj} : CreateObject(u, o, p)
    BY <1>5, CreatedInStep
  <1>6. CASE \E u \in User, o \in Movable, p \in Obj \cup {NoObj} : MoveObject(u, o, p)
    BY <1>6, MovedInStep
  <1>7. CASE UNCHANGED vars
    BY <1>7 DEF vars, Undisturbed, TablesInStep
  <1> QED
    BY <1>1, <1>2, <1>3, <1>4, <1>5, <1>6, <1>7 DEF Next

LEMMA InitInStep == Init => TablesInStep
  <1> SUFFICES ASSUME Init
               PROVE  InStep(db, gasg)
    BY DEF TablesInStep
  <1>1. /\ db.objs = InitObjs /\ db.parent = InitParent /\ db.roles = {} /\ db.uasg = {} /\ db.tasg = {}
        /\ db.provides = {} /\ db.evals = {} /\ gasg = {}
    BY DEF Init
  <1>2. db \in Db
    BY InitHolds DEF ApiInv, Confined
  <1>3. Sound(db)
    BY <1>1, <1>2, ApiAssumption DEF Sound, Linked, ParentsExist
  <1>4. Coherent(db)
    <2>1. \A r \in Role, t \in Team : t \notin Provided(db, r)
      BY <1>1, <1>3, ProvidedExist
    <2> QED BY <1>1, <2>1 DEF Coherent, RightProvides, RightEvals
  <1> QED
    BY <1>1, <1>3, <1>4 DEF InStep, DefinitionsExist

-----------------------------------------------------------------------------
(***************************************************************************)
(* What a permission check answers                                         *)
(***************************************************************************)
\* The teams that the computed table makes somebody a member of are those the
\* assignments mean, and every team that is a member exists.
LEMMA TeamsAsMembers ==
    ASSUME InStep(db, gasg), NEW u
    PROVE  TeamsByRoles(u) = MemberIn(db, u)
  <1>1. db \in Db /\ Linked(db) /\ ProvidesCoherentIn(db) /\ \A r \in db.roles : r[2] \in db.objs
    BY CoherentMeans DEF InStep, Sound
  <1>2. \A t : t \in MemberIn(db, u) <=> \E r \in db.roles : <<u, r>> \in db.uasg /\ <<r, t>> \in db.provides
    BY <1>1, HeldThroughTeams
  <1>3. MemberIn(db, u) \subseteq Team
    BY ReachType DEF MemberIn
  <1> QED
    BY <1>2, <1>3 DEF TeamsByRoles, HeldRoles

\* RoleEvaluation answers what the roles of a user and of the user's teams list.
LEMMA EvaluatedMeans ==
    ASSUME InStep(db, gasg), NEW u, NEW p \in Perm, NEW o \in Obj
    PROVE  Evaluated(u, p, o) <=> <<p, o>> \in EntitledIn(db, u)
  <1>1. db \in Db /\ Linked(db) /\ ProvidesCoherentIn(db) /\ RightEvals(db)
        /\ \A r \in db.roles : r[2] \in db.objs
    BY CoherentMeans DEF InStep, Sound, Coherent
  <1>2. \A q : q \in HeldIn(db, u) <=>
            \E r \in db.roles : <<u, r>> \in db.uasg /\ (q = r \/ q \in TeamRoles(db, r))
    BY <1>1, HeldThroughTeams
  <1> DEFINE e == <<p, o>>
  <1>3. e \in Evaluation /\ \A r \in db.roles : r \in Role
    BY <1>1 DEF Evaluation, Db
  <1>4. \A r \in db.roles : <<r, e>> \in db.evals <=> e \in ExpectedEvaluations(db, r)
    BY <1>1, <1>3 DEF RightEvals
  <1>5. Evaluated(u, p, o) <=> \E r \in db.roles : <<u, r>> \in db.uasg /\ <<r, e>> \in db.evals
    BY DEF Evaluated, HeldRoles
  <1> HIDE DEF e
  <1>6. \A r : e \in ExpectedEvaluations(db, r) <=>
            \E q : (q = r \/ q \in TeamRoles(db, r)) /\ e \in ExpectedDirect(db, q)
    BY DEF ExpectedEvaluations
  <1>7. e \in EntitledIn(db, u) <=> \E q \in HeldIn(db, u) : e \in ExpectedDirect(db, q)
    BY DEF EntitledIn
  <1> QED
    BY <1>2, <1>4, <1>5, <1>6, <1>7 DEF e

\* The definitions of the global roles of a user and of the user's teams
GlobalDefinitions(u) ==
    {rd \in db.rds : rdt[rd] = "none"
        /\ (\/ On("user_roles") /\ <<u, rd>> \in gasg
            \/ On("team_roles") /\ \E t \in MemberIn(db, u) : <<t, rd>> \in gasg)}

LEMMA GlobalMeans ==
    ASSUME InStep(db, gasg), NEW u
    PROVE  Global(u) = UNION {db.perms[rd] : rd \in GlobalDefinitions(u)}
  <1>1. TeamsByRoles(u) = MemberIn(db, u)
    BY TeamsAsMembers
  <1> QED
    BY <1>1 DEF Global, GlobalDefinitions

\* The entitlement of the property, in the terms of the lemmas
LEMMA EntitledMeans ==
    ASSUME ApiInv, InStep(db, gasg), NEW u \in User \ Superuser
    PROVE  Entitled(u) = EntitledIn(db, u) \cup (Global(u) \X db.objs)
  <1> DEFINE as == {u} \cup RolesOfTeams(u)
             enabled(a) == On(IF a \in User THEN "user_roles" ELSE "team_roles")
             held == {x[2] : x \in {y \in db.uasg \cup db.tasg : y[1] \in as}}
             glob == {x[2] : x \in {y \in gasg : y[1] \in as /\ enabled(y[1]) /\ rdt[y[2]] = "none"}}
             onObjects == UNION {ExpectedDirect(db, r) : r \in held}
             anywhere == UNION {db.perms[rd] : rd \in glob}
  <1>1. db \in Db /\ Linked(db) /\ \A a \in gasg : a[2] \in db.rds
    BY DEF InStep, Sound, DefinitionsExist
  <1>2. RolesOfTeams(u) = MemberIn(db, u) /\ MemberIn(db, u) \subseteq Team
    BY ReachType DEF RolesOfTeams, MemberIn
  <1>3. \A t \in Team : t \notin User
    BY ApiAssumption DEF Team
  <1>4. held = HeldIn(db, u)
    <2>1. \A q : q \in held <=> \E a \in as : <<a, q>> \in db.uasg \cup db.tasg
      <3>1. \A q : q \in held <=> \E y \in db.uasg \cup db.tasg : y[1] \in as /\ y[2] = q
        OBVIOUS
      <3> HIDE DEF as, held
      <3>2. ASSUME NEW q \in held PROVE \E a \in as : <<a, q>> \in db.uasg \cup db.tasg
        <4>1. PICK y \in db.uasg \cup db.tasg : y[1] \in as /\ y[2] = q
          BY <3>1, <3>2
        <4>2. y = <<y[1], q>>
          BY <1>1, <4>1 DEF Db
        <4> QED BY <4>1, <4>2
      <3>3. ASSUME NEW q, NEW a \in as, <<a, q>> \in db.uasg \cup db.tasg PROVE q \in held
        BY <3>1, <3>3
      <3> QED BY <3>2, <3>3
    <2>2. \A a \in as : \A q : <<a, q>> \in db.uasg \cup db.tasg =>
              IF a = u THEN <<u, q>> \in db.uasg ELSE a \in MemberIn(db, u) /\ <<a, q>> \in db.tasg
      BY <1>1, <1>2, <1>3 DEF Db
    <2>3. \A a, q : <<a, q>> \in db.uasg \cup db.tasg => q \in db.roles
      BY <1>1 DEF Linked
    <2>4. \A a \in MemberIn(db, u) : a # u
      BY <1>2, <1>3
    <2> HIDE DEF held
    <2>5. ASSUME NEW q \in held PROVE q \in HeldIn(db, u)
      BY <2>1, <2>2, <2>3, <2>5 DEF HeldIn
    <2>6. ASSUME NEW q \in HeldIn(db, u) PROVE q \in held
      BY <1>2, <2>1, <2>6 DEF HeldIn
    <2> QED
      BY <2>5, <2>6
  <1>5. glob = GlobalDefinitions(u)
    <2>1. \A x \in gasg : x = <<x[1], x[2]>> /\ x[2] \in db.rds
      BY <1>1 DEF ApiInv, OtherTypes
    <2>2. \A rd : rd \in glob <=> \E a \in as : <<a, rd>> \in gasg /\ enabled(a) /\ rdt[rd] = "none"
      BY <2>1
    <2>3. enabled(u) = On("user_roles") /\ \A a \in MemberIn(db, u) : enabled(a) = On("team_roles")
      BY <1>2, <1>3
    <2>4. \A a, rd : <<a, rd>> \in gasg => rd \in db.rds
      BY <1>1
    <2> HIDE DEF glob, enabled
    <2> QED
      BY <1>2, <2>2, <2>3, <2>4 DEF GlobalDefinitions
  <1>6. Entitled(u) = onObjects \cup (anywhere \X db.objs)
    BY DEF Entitled
  <1> HIDE DEF held, glob, as, enabled
  <1>7. onObjects = EntitledIn(db, u)
    BY <1>4 DEF EntitledIn
  <1>8. anywhere = Global(u)
    BY <1>5, GlobalMeans
  <1> HIDE DEF onObjects, anywhere
  <1> QED
    BY <1>6, <1>7, <1>8

LEMMA ChecksAnswer ==
    ASSUME ApiInv, InStep(db, gasg), NEW u \in User
    PROVE  {x \in Perm \X db.objs : HasObjPerm(u, x[1], x[2])} = {x \in Entitled(u) : x[2] \in db.objs}
  <1>1. db \in Db /\ db.objs \subseteq Obj /\ db.perms \in [RoleDef -> SUBSET Perm] /\ db.rds \subseteq RoleDef
    BY DEF InStep, Sound, Db
  <1>2. CASE u \in Superuser
    BY <1>2 DEF Entitled, HasObjPerm, SuperPerm
  <1>3. CASE u \notin Superuser
    <2>1. Entitled(u) = EntitledIn(db, u) \cup (Global(u) \X db.objs)
      BY <1>3, EntitledMeans
    <2>2. Global(u) \subseteq Perm
      BY <1>1 DEF Global
    <2>3. EntitledIn(db, u) \subseteq Perm \X Obj
      <3>1. \A r \in HeldIn(db, u) : r \in Role
        BY <1>1 DEF HeldIn, Db
      <3> QED
        BY <1>1, <3>1, ExpectedDirectType DEF EntitledIn, Evaluation
    <2>4. \A p \in Perm, o \in db.objs :
              HasObjPerm(u, p, o) <=> p \in Global(u) \/ <<p, o>> \in EntitledIn(db, u)
      BY <1>1, <1>3, EvaluatedMeans DEF HasObjPerm, SuperPerm
    <2> QED
      BY <2>1, <2>2, <2>3, <2>4
  <1> QED
    BY <1>2, <1>3

\* A permission check, the evaluations of the roles held and the global roles
\* behind it, answers what the assignments of the user and of the teams the
\* user is in mean: through any number of requests that recompute, in chains
\* and loops of teams, with global roles of users and teams switched on or off.
THEOREM ChecksMeanAssignments ==
    ASSUME MovesSuffice
    PROVE  Spec => []ChecksMean
  <1>1. Init => ApiInv /\ TablesInStep
    BY InitHolds, InitInStep
  <1>2. ApiInv /\ TablesInStep /\ [Next]_vars => (ApiInv /\ TablesInStep)'
    BY StepHolds, StepInStep
  <1>3. ApiInv /\ TablesInStep => ChecksMean
    <2> SUFFICES ASSUME ApiInv, InStep(db, gasg), NEW u \in db.users
                 PROVE  {x \in Perm \X db.objs : HasObjPerm(u, x[1], x[2])}
                          = {x \in Entitled(u) : x[2] \in db.objs}
      BY DEF ChecksMean, TablesInStep, Undisturbed
    <2>1. u \in User
      BY DEF InStep, Sound, Db
    <2> QED
      BY <2>1, ChecksAnswer
  <1> QED
    BY <1>1, <1>2, <1>3, PTL DEF Spec

-----------------------------------------------------------------------------
(***************************************************************************)
(* What the access lists show                                              *)
(***************************************************************************)
\* No registered model is under a team.
NothingUnderTeams == \A ty \in Type : ParentType[ty] # "team"

\* A row of an explanation is a global assignment or the assignment of a role
\* whose evaluations are what its definition and its teams' roles list.
LEMMA ExplainedRole ==
    ASSUME ApiInv, InStep(db, gasg), NEW p \in Perm, NEW o \in Obj, NEW r \in db.roles
    PROVE  <<r, <<p, o>>>> \in db.evals <=> \E q : /\ q = r \/ q \in TeamRoles(db, r)
                                                   /\ <<p, o>> \in ExpectedDirect(db, q)
  <1>1. r \in Role /\ <<p, o>> \in Evaluation
    BY DEF InStep, Sound, Db, Evaluation
  <1>2. <<r, <<p, o>>>> \in db.evals <=> <<p, o>> \in ExpectedEvaluations(db, r)
    BY <1>1 DEF InStep, Coherent, RightEvals
  <1> DEFINE e == <<p, o>>
  <1> HIDE DEF e
  <1>3. e \in ExpectedEvaluations(db, r) <=>
            \E q : (q = r \/ q \in TeamRoles(db, r)) /\ e \in ExpectedDirect(db, q)
    BY DEF ExpectedEvaluations
  <1> QED
    BY <1>2, <1>3 DEF e

\* The roles the lists are built from
Conferring(p, o) == {x[1] : x \in {e \in db.evals : e[2] = <<p, o>>}}
LEMMA ConferringRoles ==
    ASSUME InStep(db, gasg), NEW p, NEW o, NEW r
    PROVE  r \in Conferring(p, o) <=> <<r, <<p, o>>>> \in db.evals
  <1>1. ASSUME r \in Conferring(p, o)
        PROVE  <<r, <<p, o>>>> \in db.evals
    <2>1. PICK x \in db.evals : x[2] = <<p, o>> /\ x[1] = r
      BY <1>1 DEF Conferring
    <2>2. x = <<x[1], x[2]>>
      BY DEF InStep, Sound, Db
    <2> QED
      BY <2>1, <2>2
  <1>2. ASSUME <<r, <<p, o>>>> \in db.evals
        PROVE  r \in Conferring(p, o)
    <2> DEFINE x == <<r, <<p, o>>>>
    <2>1. x \in db.evals /\ x[2] = <<p, o>> /\ x[1] = r
      BY <1>2
    <2> HIDE DEF x
    <2> QED
      BY <2>1 DEF Conferring
  <1> QED
    BY <1>1, <1>2

\* A role that lists a permission explains it to the team that holds the role.
LEMMA ExplainedTeam ==
    ASSUME ApiInv, InStep(db, gasg), NEW p \in Perm, NEW o \in Obj, NEW t, NEW q,
           <<t, q>> \in db.tasg, <<q, <<p, o>>>> \in db.evals
    PROVE  t \in Team /\ <<t, q>> \in Explain(t, p, o) /\ t \in AccessList(p, o)
  <1>1. t \in Team
    BY DEF InStep, Sound, Db
  <1>2. <<t, q>> \in Explain(t, p, o)
    BY DEF Explain
  <1>3. \E r \in Conferring(p, o) : <<t, r>> \in db.uasg \cup db.tasg
    BY ConferringRoles
  <1> QED
    BY <1>1, <1>2, <1>3 DEF AccessList, Actor, Conferring

\* The teams a role on a team makes members of: the team itself and those that
\* one of its own roles leads to.
LEMMA ThroughTheTeam ==
    ASSUME NEW d, Sound(d), NEW r \in d.roles, TypeOf[r[2]] = "team", NEW t \in Provided(d, r)
    PROVE  t = r[2] \/ \E q : <<r[2], q>> \in d.tasg /\ t \in Provided(d, q)
  <1> DEFINE t0 == r[2]
             C == {y \in Team : y = t0 \/ \E q : <<t0, q>> \in d.tasg /\ y \in Provided(d, q)}
  <1>1. Targets(d, r) \subseteq C
    <2>1. \A y \in Targets(d, r) : y \in Team /\ y = t0
      BY DEF Targets, DirectMemberRoles
    <2> QED BY <2>1
  <1>2. Closed(TeamGraph(d), C)
    <2> SUFFICES ASSUME NEW e \in TeamGraph(d), e[1] \in C
                 PROVE  e[2] \in C
      BY DEF Closed
    <2>1. e[2] \in Team /\ \E q \in DirectMemberRoles(d, e[2]) : <<e[1], q>> \in d.tasg
      BY DEF TeamGraph
    <2>2. CASE e[1] = t0
      <3>1. PICK q \in DirectMemberRoles(d, e[2]) : <<t0, q>> \in d.tasg
        BY <2>1, <2>2
      <3>2. e[2] \in Provided(d, q)
        BY <2>1, <3>1, ProvidedClosed DEF Targets
      <3> QED BY <2>1, <3>1, <3>2
    <2>3. CASE e[1] # t0
      <3>1. PICK q : <<t0, q>> \in d.tasg /\ e[1] \in Provided(d, q)
        BY <2>3
      <3>2. e[2] \in Provided(d, q)
        BY <3>1, ProvidedClosed DEF Closed
      <3> QED BY <2>1, <3>1, <3>2
    <2> QED BY <2>2, <2>3
  <1>3. t \in C
    <2>1. C \in SUBSET Team
      OBVIOUS
    <2> HIDE DEF C
    <2> QED BY <1>1, <1>2, <2>1, ProvidedClosed
  <1> QED
    BY <1>3

LEMMA NothingBelowTeams ==
    ASSUME NothingUnderTeams, NEW d, Sound(d), NEW t, TypeOf[t] = "team", t \in Obj
    PROVE  Below(d, t) = {}
  <1>1. \A c \in d.objs : c \in Obj /\ TypeOf[c] \in Type /\ d.parent[c] # t
    BY CachingAssumption DEF NothingUnderTeams, Sound, ParentsExist, Db
  <1>2. \A c \in d.objs : d.parent[c] \in Obj => d.parent[c] \in d.objs
    BY CachingAssumption DEF Sound, ParentsExist
  <1> QED
    BY <1>1, <1>2 DEF Below

\* Who is listed has an explanation, and the summary of a page is that of the
\* drill-down.
LEMMA ListedExplained ==
    ASSUME ApiInv, InStep(db, gasg), NEW p \in Perm, NEW o \in Obj
    PROVE  /\ AccessList(p, o) = {a \in Actor : Explain(a, p, o) # {}} \cup Superuser
           /\ \A A : \A a \in A : Listed(A, p, o)[a] = Explain(a, p, o)
  <1>1. Superuser \subseteq Actor
    BY ApiAssumption DEF Actor
  <1>2. \A x \in gasg : x = <<x[1], x[2]>> /\ x[2] \in db.rds
    BY DEF ApiInv, OtherTypes, InStep, DefinitionsExist
  <1>3. \A x \in db.uasg \cup db.tasg : x = <<x[1], x[2]>>
    BY DEF InStep, Sound, Db
  <1>4. \A a : a \in AccessList(p, o) <=>
            /\ a \in Actor
            /\ \/ \E r : <<r, <<p, o>>>> \in db.evals /\ <<a, r>> \in db.uasg \cup db.tasg
               \/ \E rd \in db.rds : <<a, rd>> \in gasg /\ p \in db.perms[rd]
               \/ a \in Superuser
    <2>1. AccessList(p, o) = {a \in Actor : \/ \E r \in Conferring(p, o) : <<a, r>> \in db.uasg \cup db.tasg
                                            \/ \E rd \in db.rds : <<a, rd>> \in gasg /\ p \in db.perms[rd]
                                            \/ a \in Superuser}
      BY DEF AccessList, Conferring
    <2> QED
      BY <2>1, ConferringRoles
  <1>5. \A a : Explain(a, p, o) # {} <=>
            \/ \E r : <<r, <<p, o>>>> \in db.evals /\ <<a, r>> \in db.uasg \cup db.tasg
            \/ \E rd \in db.rds : <<a, rd>> \in gasg /\ p \in db.perms[rd]
    <2> SUFFICES ASSUME NEW a
                 PROVE  Explain(a, p, o) # {} <=>
                          \/ \E r : <<r, <<p, o>>>> \in db.evals /\ <<a, r>> \in db.uasg \cup db.tasg
                          \/ \E rd \in db.rds : <<a, rd>> \in gasg /\ p \in db.perms[rd]
      OBVIOUS
    <2>1. ASSUME NEW x \in Explain(a, p, o)
          PROVE  \/ \E r : <<r, <<p, o>>>> \in db.evals /\ <<a, r>> \in db.uasg \cup db.tasg
                 \/ \E rd \in db.rds : <<a, rd>> \in gasg /\ p \in db.perms[rd]
      <3>1. CASE x \in gasg /\ x[1] = a /\ p \in db.perms[x[2]]
        BY <1>2, <3>1
      <3>2. CASE x \in db.uasg \cup db.tasg /\ x[1] = a /\ <<x[2], <<p, o>>>> \in db.evals
        BY <1>3, <3>2
      <3> QED BY <2>1, <3>1, <3>2 DEF Explain
    <2>2. ASSUME NEW r, <<r, <<p, o>>>> \in db.evals, <<a, r>> \in db.uasg \cup db.tasg
          PROVE  <<a, r>> \in Explain(a, p, o)
      BY <2>2 DEF Explain
    <2>3. ASSUME NEW rd \in db.rds, <<a, rd>> \in gasg, p \in db.perms[rd]
          PROVE  <<a, rd>> \in Explain(a, p, o)
      BY <2>3 DEF Explain
    <2> QED
      BY <2>1, <2>2, <2>3
  <1>6. ASSUME NEW A, NEW a \in A
        PROVE  Listed(A, p, o)[a] = Explain(a, p, o)
    <2> DEFINE byRole == {x \in db.uasg \cup db.tasg : x[2] \in Conferring(p, o) /\ x[1] \in A}
               global == {x \in gasg : x[1] \in A /\ p \in db.perms[x[2]]}
    <2>1. Listed(A, p, o)[a] = {x \in byRole \cup global : x[1] = a}
      BY DEF Listed, Conferring
    <2>2. \A x \in db.uasg \cup db.tasg : x \in byRole <=> <<x[2], <<p, o>>>> \in db.evals /\ x[1] \in A
      BY ConferringRoles
    <2>3. \A x : x \in byRole => x \in db.uasg \cup db.tasg
      OBVIOUS
    <2> HIDE DEF byRole
    <2> QED
      BY <2>1, <2>2, <2>3 DEF Explain
  <1> QED
    BY <1>1, <1>4, <1>5, <1>6

\* Every assignment of an explanation leads to the object.
LEMMA ExplanationLeads ==
    ASSUME ApiInv, InStep(db, gasg), NEW p \in Perm, NEW o \in Obj, ~IsAdd(p), TypeOf[o] = p.type,
           NEW a, NEW x \in Explain(a, p, o), x \notin gasg
    PROVE  /\ \/ o \in UnderOrAt(x[2][2])
              \/ \E t \in AccessList(p, o) \cap Team : <<x[2], t>> \in db.provides /\ Explain(t, p, o) # {}
           /\ NothingUnderTeams /\ TypeOf[x[2][2]] = "team" /\ p.type # "team"
                => Explain(x[2][2], p, o) # {}
  <1> DEFINE r == x[2]
  <1>1. <<r, <<p, o>>>> \in db.evals /\ x \in db.uasg \cup db.tasg
    BY DEF Explain
  <1>2. r \in db.roles /\ r \in Role /\ Sound(db) /\ RightProvides(db) /\ r[2] \in Obj
    BY <1>1, RoleFields DEF InStep, Sound, Linked, Coherent, Db
  <1> HIDE DEF r
  <1>3. PICK q : (q = r \/ q \in TeamRoles(db, r)) /\ <<p, o>> \in ExpectedDirect(db, q)
    BY <1>1, <1>2, ExplainedRole
  <1>4. ASSUME NEW s, <<p, o>> \in ExpectedDirect(db, s)
        PROVE  o \in {s[2]} \cup Below(db, s[2])
    <2> DEFINE below(y) == IF y.type = TypeOf[s[2]] THEN {}
                           ELSE {c \in Below(db, s[2]) : TypeOf[c] = EvalType(y)}
    <2>1. \/ <<p, o>> \in db.perms[s[1]] \X {s[2]}
          \/ \E y \in db.perms[s[1]] : <<p, o>> \in {y} \X below(y)
      BY <1>4 DEF ExpectedDirect
    <2>2. \A y : below(y) \subseteq Below(db, s[2])
      OBVIOUS
    <2> HIDE DEF below
    <2> QED
      BY <2>1, <2>2
  <1>5. CASE q = r
    <2>1. o \in UnderOrAt(r[2])
      BY <1>3, <1>4, <1>5 DEF UnderOrAt
    <2>2. ~(NothingUnderTeams /\ TypeOf[r[2]] = "team" /\ p.type # "team")
      BY <1>2, <2>1, NothingBelowTeams DEF UnderOrAt
    <2> QED
      BY <2>1, <2>2 DEF r
  <1>6. CASE q \in TeamRoles(db, r)
    <2>1. PICK t : <<t, q>> \in db.tasg /\ <<r, t>> \in db.provides
      <3>1. PICK y \in db.tasg : <<r, y[1]>> \in db.provides /\ y[2] = q
        BY <1>6 DEF TeamRoles
      <3>2. y = <<y[1], q>>
        BY <1>2, <3>1 DEF Sound, Db
      <3> QED BY <3>1, <3>2
    <2>2. q \in db.roles /\ t \in Team
      BY <1>2, <2>1 DEF Sound, Linked, Db
    <2>3. <<q, <<p, o>>>> \in db.evals
      BY <1>3, <2>2, ExplainedRole
    <2>4. t \in AccessList(p, o) \cap Team /\ Explain(t, p, o) # {}
      BY <2>1, <2>3, ExplainedTeam
    <2>5. ASSUME TypeOf[r[2]] = "team"
          PROVE  Explain(r[2], p, o) # {}
      <3>1. t \in Provided(db, r)
        BY <1>2, <2>1, <2>2 DEF RightProvides
      <3>2. CASE t = r[2]
        BY <2>4, <3>2
      <3>3. CASE t # r[2]
        <4>1. PICK s : <<r[2], s>> \in db.tasg /\ t \in Provided(db, s)
          BY <1>2, <2>5, <3>1, <3>3, ThroughTheTeam
        <4>2. s \in db.roles /\ s \in Role
          BY <1>2, <4>1 DEF Sound, Linked, Db
        <4>3. <<s, t>> \in db.provides
          BY <1>2, <2>2, <4>1, <4>2 DEF RightProvides
        <4>4. q \in TeamRoles(db, s)
          <5> DEFINE y == <<t, q>>
          <5>1. y \in db.tasg /\ y[2] = q /\ <<s, y[1]>> \in db.provides
            BY <2>1, <4>3
          <5> HIDE DEF y
          <5> QED BY <5>1 DEF TeamRoles
        <4>5. <<s, <<p, o>>>> \in db.evals
          BY <1>3, <4>2, <4>4, ExplainedRole
        <4> QED
          BY <4>1, <4>5, ExplainedTeam
      <3> QED BY <3>2, <3>3
    <2> QED
      BY <2>1, <2>4, <2>5 DEF r
  <1> QED
    BY <1>3, <1>5, <1>6

\* Who is listed has the permission, once the global roles that count for the
\* list count for the check too.
LEMMA ListedMay ==
    ASSUME ApiInv, InStep(db, gasg), NEW p \in Perm, NEW o \in Obj,
           NEW u \in AccessList(p, o) \cap User,
           \A x \in gasg : rdt[x[2]] = "none", On("user_roles")
    PROVE  HasObjPerm(u, p, o)
  <1>1. \/ \E r \in Conferring(p, o) : <<u, r>> \in db.uasg \cup db.tasg
        \/ \E rd \in db.rds : <<u, rd>> \in gasg /\ p \in db.perms[rd]
        \/ u \in Superuser
    BY DEF AccessList, Conferring
  <1>2. ASSUME NEW r \in Conferring(p, o), <<u, r>> \in db.uasg \cup db.tasg
        PROVE  Evaluated(u, p, o)
    <2>1. <<r, <<p, o>>>> \in db.evals
      BY <1>2, ConferringRoles
    <2>2. u \notin Team
      BY ApiAssumption DEF Team
    <2>3. <<u, r>> \in db.uasg /\ r \in db.roles
      BY <1>2, <2>2 DEF InStep, Sound, Linked, Db
    <2> QED
      BY <2>1, <2>3 DEF Evaluated, HeldRoles
  <1>3. ASSUME NEW rd \in db.rds, <<u, rd>> \in gasg, p \in db.perms[rd]
        PROVE  p \in Global(u)
    <2>1. rdt[rd] = "none"
      <3> DEFINE x == <<u, rd>>
      <3>1. x \in gasg /\ x[2] = rd
        BY <1>3
      <3> HIDE DEF x
      <3> QED BY <3>1
    <2>2. rd \in GlobalDefinitions(u)
      BY <1>3, <2>1 DEF GlobalDefinitions
    <2> QED
      BY <1>3, <2>2, GlobalMeans
  <1> QED
    BY <1>1, <1>2, <1>3 DEF HasObjPerm, SuperPerm

\* The list of the people and teams with access, the summaries of a page of it
\* and the drill-down into one of them tell the same story after any number of
\* requests that recompute: nobody is listed without an assignment that
\* explains it, every explanation ends in a role on the object or above it or
\* in a team with an explanation of its own, and who is listed has the
\* permission.
THEOREM AccessListsTellTheSame ==
    ASSUME MovesSuffice, NothingUnderTeams
    PROVE  Spec => []AccessListsAgree
  <1>1. Init => ApiInv /\ TablesInStep
    BY InitHolds, InitInStep
  <1>2. ApiInv /\ TablesInStep /\ [Next]_vars => (ApiInv /\ TablesInStep)'
    BY StepHolds, StepInStep
  <1>3. ApiInv /\ TablesInStep => AccessListsAgree
    <2> SUFFICES ASSUME ApiInv, InStep(db, gasg),
                        NEW p \in {x \in Perm : ~IsAdd(x)}, NEW o \in {x \in db.objs : TypeOf[x] = p.type}
                 PROVE  LET list == AccessList(p, o)
                            why == Listed(list, p, o)
                        IN  /\ list = {a \in Actor : Explain(a, p, o) # {}} \cup Superuser
                            /\ \A a \in list : \A x \in why[a] :
                                  /\ x \in Explain(a, p, o)
                                  /\ \/ Kind(x, o) = "global"
                                     \/ o \in UnderOrAt(x[2][2])
                                     \/ \E t \in list \cap Team : <<x[2], t>> \in db.provides /\ why[t] # {}
                                  /\ Kind(x, o) = "team" /\ p.type # "team" => Intermediary(x, p, o) # {}
                            /\ \A a \in list : Explain(a, p, o) \subseteq why[a]
                            /\ \A u \in list \cap User :
                                  (\A x \in gasg : rdt[x[2]] = "none") /\ On("team_roles") /\ On("user_roles")
                                     => HasObjPerm(u, p, o)
      BY DEF AccessListsAgree, TablesInStep, Undisturbed
    <2> DEFINE list == AccessList(p, o)
               why == Listed(list, p, o)
    <2>1. p \in Perm /\ o \in Obj /\ ~IsAdd(p) /\ TypeOf[o] = p.type
      BY DEF InStep, Sound, Db
    <2>2. /\ list = {a \in Actor : Explain(a, p, o) # {}} \cup Superuser
          /\ \A a \in list : why[a] = Explain(a, p, o)
      BY <2>1, ListedExplained
    <2>3. \A u \in list \cap User :
             (\A x \in gasg : rdt[x[2]] = "none") /\ On("team_roles") /\ On("user_roles")
                => HasObjPerm(u, p, o)
      BY <2>1, ListedMay
    <2>4. ASSUME NEW a \in list, NEW x \in why[a]
          PROVE  /\ \/ Kind(x, o) = "global"
                    \/ o \in UnderOrAt(x[2][2])
                    \/ \E t \in list \cap Team : <<x[2], t>> \in db.provides /\ why[t] # {}
                 /\ Kind(x, o) = "team" /\ p.type # "team" => Intermediary(x, p, o) # {}
      <3>1. x \in Explain(a, p, o)
        BY <2>2, <2>4
      <3>2. CASE x \in gasg
        BY <3>2 DEF Kind
      <3>3. CASE x \notin gasg
        <4>1. /\ \/ o \in UnderOrAt(x[2][2])
                 \/ \E t \in list \cap Team : <<x[2], t>> \in db.provides /\ Explain(t, p, o) # {}
              /\ TypeOf[x[2][2]] = "team" /\ p.type # "team" => Explain(x[2][2], p, o) # {}
          BY <2>1, <3>1, <3>3, ExplanationLeads
        <4>2. Kind(x, o) = "team" => TypeOf[x[2][2]] = "team"
          BY <3>3 DEF Kind
        <4> HIDE DEF list, why
        <4> QED
          BY <2>2, <4>1, <4>2 DEF Intermediary
      <3> QED
        BY <3>2, <3>3
    <2> HIDE DEF list, why
    <2>5. \A a \in list : \A x \in why[a] : x \in Explain(a, p, o)
      BY <2>2
    <2>6. \A a \in list : Explain(a, p, o) \subseteq why[a]
      BY <2>2
    <2> QED
      BY <2>2, <2>3, <2>4, <2>5, <2>6 DEF list, why
  <1> QED
    BY <1>1, <1>2, <1>3, PTL DEF Spec

-----------------------------------------------------------------------------
(***************************************************************************)
(* What the creator of an object gets                                      *)
(***************************************************************************)
\* The rows of a new object aside, the handler of its creation changes nothing:
\* no role can be held by a team that has just been made.
LEMMA CreatedLeaves ==
    ASSUME ApiInv, NEW o \in Obj \ db.objs, NEW p \in Obj \cup {NoObj}
    PROVE  LET d == CreatedNow(Put(db, o, p), o)
           IN  /\ d \in Db /\ d.objs = db.objs \cup {o} /\ d.rds = db.rds /\ d.perms = db.perms
               /\ d.roles = db.roles /\ d.uasg = db.uasg /\ db.provides \subseteq d.provides
  <1> DEFINE d0 == Put(db, o, p)
             d1 == IF TypeOf[o] = "team" THEN ComputeTeamMemberRoles(d0, {o}) ELSE d0
             Leaves(d) == /\ d \in Db /\ d.objs = db.objs \cup {o} /\ d.rds = db.rds /\ d.perms = db.perms
                          /\ d.roles = db.roles /\ d.uasg = db.uasg /\ db.provides \subseteq d.provides
  <1>1. db \in Db /\ KeysHold(db)
    BY DEF ApiInv, Confined
  <1>2. Leaves(d0) /\ d0.tasg = db.tasg /\ d0.provides = db.provides
    BY <1>1 DEF Db, Put
  <1> HIDE DEF d0
  <1>3. Leaves(ComputeTeamMemberRoles(d0, {o}))
    <2> DEFINE graph == TeamGraph(d0)
               scope == d0.objs \cap Reach(graph, {o} \cap Team)
               new == UNION {MemberRolesIn(d0, graph, t) \X {t} : t \in scope}
               f == [d0 EXCEPT !.provides = {x \in @ : x[2] \notin scope} \cup new]
    <2>1. Closed(graph, {o} \cap Team)
      <3>1. \A e \in graph : e[1] \in db.objs
        <4>1. \A e \in graph : \E r : <<e[1], r>> \in d0.tasg
          BY DEF TeamGraph
        <4>2. \A t, r : <<t, r>> \in db.tasg => t \in db.objs
          BY <1>1 DEF KeysHold
        <4> QED
          BY <1>2, <4>1, <4>2
      <3> HIDE DEF graph
      <3> QED
        BY <3>1 DEF Closed
    <2>2. scope \subseteq {o}
      BY <2>1, ReachLeast
    <2>3. f = ComputeTeamMemberRoles(d0, {o})
      BY DEF ComputeTeamMemberRoles
    <2>4. f.provides = {x \in d0.provides : x[2] \notin scope} \cup new
      <3> HIDE DEF scope, new
      <3> QED BY <1>2 DEF Db
    <2>5. db.provides \subseteq f.provides
      <3> HIDE DEF scope, new, f
      <3> QED BY <1>1, <1>2, <2>2, <2>4 DEF KeysHold
    <2>6. f.objs = d0.objs /\ f.rds = d0.rds /\ f.perms = d0.perms /\ f.roles = d0.roles /\ f.uasg = d0.uasg
      <3> HIDE DEF scope, new
      <3> QED BY <1>2 DEF Db
    <2> HIDE DEF f
    <2>7. f \in Db
      BY <1>2, <2>3, ComputeType
    <2> QED
      BY <1>2, <2>3, <2>5, <2>6, <2>7
  <1>4. Leaves(d1)
    BY <1>2, <1>3
  <1> HIDE DEF d1
  <1>5. \A RR : Leaves(RecomputeLookAhead(d1, RR, o))
    <2> SUFFICES ASSUME NEW RR
                 PROVE  Leaves(RecomputeLookAhead(d1, RR, o))
      OBVIOUS
    <2>1. \E E : RecomputeLookAhead(d1, RR, o) = [d1 EXCEPT !.evals = E]
      BY DEF RecomputeLookAhead
    <2>2. RecomputeLookAhead(d1, RR, o) \in Db
      BY <1>4, LookAheadType
    <2> QED
      BY <1>4, <2>1, <2>2 DEF Db
  <1>6. Leaves(CreatedNow(d0, o))
    <2> HIDE DEF Leaves
    <2> QED BY <1>5 DEF CreatedNow, d1
  <1> QED
    BY <1>6 DEF d0

\* A role that is given to a user lists what its definition does at once.
LEMMA GivenEvaluated ==
    ASSUME NEW d \in Db, NEW u \in User, NEW r \in Role
    PROVE  LET e == GiveAssignments(d, {<<u, r>>}, {})
           IN  /\ r \in e.roles /\ <<u, r>> \in e.uasg
               /\ \A x \in ExpectedDirect(d, r) : <<r, x>> \in e.evals
  <1> DEFINE ua == {<<u, r>>}
             d1 == CreateAssignments(d, ua, {})
             given == RolesIn(ua) \cup RolesIn({})
             ids == CollectRecomputeTeamIds(d1, given)
             d2 == IF ids = {} THEN d1 ELSE ComputeTeamMemberRoles(d1, ids)
             Same(f) == /\ f \in Db /\ r \in f.roles /\ <<u, r>> \in f.uasg
                        /\ f.objs = d.objs /\ f.parent = d.parent /\ f.perms = d.perms
  <1>1. r \in given
    BY DEF RolesIn
  <1>2. Same(d1)
    <2>1. d1 \in Db
      BY CreateAssignmentsType
    <2>2. r \in RolesIn(ua)
      BY DEF RolesIn
    <2> HIDE DEF ua
    <2>3. d1.roles = d.roles \cup RolesIn(ua) \cup RolesIn({}) /\ d1.uasg = d.uasg \cup ua
          /\ d1.objs = d.objs /\ d1.parent = d.parent /\ d1.perms = d.perms
      BY DEF CreateAssignments, Db
    <2> HIDE DEF d1
    <2> QED BY <2>1, <2>2, <2>3 DEF ua
  <1>3. Same(d2)
    <2> HIDE DEF d1, ids
    <2>1. \A T : Same(ComputeTeamMemberRoles(d1, T))
      BY <1>2, ComputeFields DEF SameSource
    <2> QED BY <1>2, <2>1
  <1> HIDE DEF d2
  <1>4. ASSUME NEW RR, r \in RR
        PROVE  /\ Same(RecomputeRoleEvaluations(d2, RR))
               /\ \A x \in ExpectedDirect(d, r) : <<r, x>> \in RecomputeRoleEvaluations(d2, RR).evals
    <2>1. ExpectedDirect(d, r) \subseteq ExpectedEvaluations(d2, r)
      BY <1>3, DirectIsLocal DEF ExpectedEvaluations
    <2>2. ExpectedDirect(d, r) \subseteq Evaluation
      BY ExpectedDirectType
    <2>3. \A x \in ExpectedDirect(d, r) : <<r, x>> \in RecomputeRoleEvaluations(d2, RR).evals
      BY <1>3, <1>4, <2>1, <2>2, RecomputeFields
    <2>4. Same(RecomputeRoleEvaluations(d2, RR))
      BY <1>3, RecomputeFields DEF SameSource
    <2> QED
      BY <2>3, <2>4
  <1> HIDE DEF Same
  <1>5. /\ Same(GiveAssignments(d, ua, {}))
        /\ \A x \in ExpectedDirect(d, r) : <<r, x>> \in GiveAssignments(d, ua, {}).evals
    <2>1. \E RR : r \in RR /\ GiveAssignments(d, ua, {}) = RecomputeRoleEvaluations(d2, RR)
      <3> DEFINE update == given \cup IF {} = {} THEN {}
                                      ELSE DescendentRoles(d1, given) \cup AncestorRoles(d1, Holders({}))
      <3>1. GiveAssignments(d, ua, {}) = RecomputeRoleEvaluations(d2, update)
        BY DEF GiveAssignments, d2
      <3>2. r \in update
        <4> HIDE DEF given
        <4> QED BY <1>1
      <3> HIDE DEF update
      <3> QED BY <3>1, <3>2
    <2> QED
      BY <1>4, <2>1
  <1> QED
    BY <1>5 DEF Same

\* Only the creation of an object makes one.
LEMMA OthersMakeNothing ==
    ASSUME ApiInv
    PROVE  /\ \A u \in User, rd \in Patchable, S \in PermSets, ty \in Type \cup {"none"} :
                 /\ CreateRoleDefinition(u, rd, S, ty) => db'.objs = db.objs
                 /\ \A method : UpdateRoleDefinition(u, rd, S, ty, method) => db'.objs = db.objs
           /\ \A u \in User, rd \in Patchable : DestroyRoleDefinition(u, rd) => db'.objs = db.objs
           /\ \A u \in User, g \in Grants, o \in Obj \cup {NoObj} :
                 Assign(u, g[1], g[2], o) \/ Unassign(u, g[1], g[2], o) \/ ServiceUnassign(u, g[1], g[2], o)
                    => db'.objs = db.objs
           /\ \A o \in Obj : ServiceObjectDelete(o) => db'.objs = db.objs
           /\ \A u \in User, o \in Movable, p \in Obj \cup {NoObj} : MoveObject(u, o, p) => db'.objs = db.objs
  <1>1. db \in Db /\ Confined(db, Open)
    BY DEF ApiInv, Confined
  <1>2. ASSUME NEW u \in User, NEW rd \in Patchable, NEW S \in PermSets, NEW ty \in Type \cup {"none"}
        PROVE  /\ CreateRoleDefinition(u, rd, S, ty) => db'.objs = db.objs
               /\ \A method : UpdateRoleDefinition(u, rd, S, ty, method) => db'.objs = db.objs
    <2>1. rd \in RoleDef /\ S \in SUBSET Perm
      BY ApiAssumption
    <2>2. PermissionsSet(db, rd, S).objs = db.objs
      BY <1>1, <2>1, SetStays DEF Keeps
    <2> QED
      BY <1>1, <2>2 DEF CreateRoleDefinition, UpdateRoleDefinition, Db
  <1>3. ASSUME NEW u \in User, NEW rd \in Patchable, DestroyRoleDefinition(u, rd)
        PROVE  db'.objs = db.objs
    BY <1>1, <1>3 DEF DestroyRoleDefinition, DeleteObjectRoles, Db
  <1>4. ASSUME NEW u \in User, NEW g \in Grants, NEW o \in Obj \cup {NoObj},
               Assign(u, g[1], g[2], o) \/ Unassign(u, g[1], g[2], o) \/ ServiceUnassign(u, g[1], g[2], o)
        PROVE  db'.objs = db.objs
    <2> DEFINE ua == Batch(g[1], {<<g[2], o>>})
               ta == TeamBatch(g[1], {<<g[2], o>>})
    <2>1. CASE o = NoObj
      BY <1>4, <2>1 DEF Assign, Unassign, ServiceUnassign, Given, GivenGlobal, Taken, TakenGlobal
    <2>2. CASE o # NoObj
      <3>1. \/ db' = GiveAssignments(db, ua, ta)
            \/ db' = RemoveAssignments(db, ua, ta)
        BY <1>4, <2>2 DEF Assign, Unassign, ServiceUnassign, Given, GivenGlobal, Taken, TakenGlobal
      <3>2. ua \in SUBSET (User \X Role) /\ ta \in SUBSET (Team \X Role)
        BY <2>2, ApiAssumption DEF Batch, TeamBatch, Role
      <3> HIDE DEF ua, ta
      <3>3. GiveAssignments(db, ua, ta).objs = db.objs
        <4>1. \A U \in SUBSET (User \X Role), T \in SUBSET (Team \X Role) :
                 GiveAssignments(db, U, T).objs = db.objs
          BY <1>1, GiveRoles
        <4> QED BY <3>2, <4>1
      <3>4. RemoveAssignments(db, ua, ta).objs = db.objs
        BY <1>1, RemoveRoles
      <3> QED
        BY <3>1, <3>3, <3>4
    <2> QED
      BY <2>1, <2>2
  <1>5. ASSUME NEW o \in Obj, ServiceObjectDelete(o)
        PROVE  db'.objs = db.objs
    BY <1>1, <1>5 DEF ServiceObjectDelete, Db
  <1>6. ASSUME NEW u \in User, NEW o \in Movable, NEW p \in Obj \cup {NoObj}, MoveObject(u, o, p)
        PROVE  db'.objs = db.objs
    BY <1>1, <1>6, MovedDefinitions DEF MoveObject
  <1> QED
    BY <1>2, <1>3, <1>4, <1>5, <1>6

\* The permissions the creator's definition has when the creator needs the role
LEMMA CreatorDefinitionLists ==
    ASSUME NEW d \in Db, NEW ty \in Type, NEW rd \in CreatorDefinition(d, ty)
    PROVE  /\ rd \in RoleDef
           /\ WithDefinition(d, rd, ty) \in Db
           /\ WithDefinition(d, rd, ty).objs = d.objs
           /\ (CreatorRd[ty] \in d.rds => d.perms[CreatorRd[ty]] = CreatorPerms(ty))
                 => WithDefinition(d, rd, ty).perms[rd] = CreatorPerms(ty)
  <1>1. rd \in RoleDef /\ CreatorPerms(ty) \in SUBSET Perm
    BY ApiAssumption DEF CreatorDefinition, Exact, CreatorPerms, Db
  <1>2. CASE rd \in d.rds
    <2>1. (CreatorRd[ty] \in d.rds => d.perms[CreatorRd[ty]] = CreatorPerms(ty))
             => d.perms[rd] = CreatorPerms(ty)
      BY <1>2 DEF CreatorDefinition, Exact
    <2> QED
      BY <1>1, <1>2, <2>1 DEF WithDefinition
  <1>3. CASE rd \notin d.rds
    <2> DEFINE N == CreatorPerms(ty)
               e == [d EXCEPT !.rds = @ \cup {rd}, !.perms[rd] = N]
    <2>1. WithDefinition(d, rd, ty) = e
      BY <1>3 DEF WithDefinition
    <2> HIDE DEF N
    <2>2. e \in Db /\ e.perms[rd] = N /\ e.objs = d.objs
      BY <1>1 DEF Db, N
    <2> QED
      BY <1>1, <2>1, <2>2 DEF N
  <1> QED
    BY <1>2, <1>3

\* What is global stays so when no row it depends on goes.
LEMMA GlobalStays ==
    ASSUME UNCHANGED <<rdt, gasg, conf>>, NEW u,
           db'.rds = db.rds, db'.perms = db.perms, db'.roles = db.roles, db'.uasg = db.uasg,
           db.provides \subseteq db'.provides
    PROVE  Global(u) \subseteq Global(u)'
  <1>1. TeamsByRoles(u) \subseteq TeamsByRoles(u)'
    BY DEF TeamsByRoles, HeldRoles
  <1> QED
    BY <1>1 DEF Global, On

LEMMA CreatedObjects ==
    ASSUME ApiInv, NEW u \in User, NEW o \in Creatable, NEW p \in Obj \cup {NoObj},
           CreateObject(u, o, p)
    PROVE  db'.objs = db.objs \cup {o}
  <1> DEFINE ty == TypeOf[o]
             d == CreatedNow(Put(db, o, p), o)
  <1>1. o \in Obj \ db.objs /\ ty \in Type
    BY ApiAssumption, CachingAssumption DEF CreateObject
  <1>2. d \in Db /\ d.objs = db.objs \cup {o}
    BY <1>1, CreatedLeaves
  <1>3. PICK rd \in CreatorDefinition(d, ty) : db' = GiveCreatorPermissions(d, u, o, rd)
    BY DEF CreateObject, Put
  <1> HIDE DEF d
  <1> DEFINE w == WithDefinition(d, rd, ty)
  <1>4. rd \in RoleDef /\ w \in Db /\ w.objs = d.objs
    BY <1>1, <1>2, <1>3, CreatorDefinitionLists
  <1>5. db' = d \/ db' = GiveAssignments(w, {<<u, <<rd, o>>>>}, {})
    BY <1>3 DEF GiveCreatorPermissions
  <1>6. {<<u, <<rd, o>>>>} \in SUBSET (User \X Role) /\ {} \in SUBSET (Team \X Role)
    BY <1>1, <1>4 DEF Role
  <1> HIDE DEF w
  <1>7. \A U \in SUBSET (User \X Role), T \in SUBSET (Team \X Role) :
           GiveAssignments(w, U, T).objs = w.objs
    BY <1>4, GiveRoles
  <1> QED
    BY <1>2, <1>4, <1>5, <1>6, <1>7

\* The creator has what the setting names, through the role that is given now
\* or because the roles held, and the global ones, list it already.
LEMMA CreatorGets ==
    ASSUME ApiInv, NEW u \in User, NEW o \in Creatable, NEW p \in Obj \cup {NoObj},
           CreateObject(u, o, p), NamedAsNeeded(TypeOf[o])
    PROVE  CreatorHas(o)'
  <1> DEFINE ty == TypeOf[o]
             d == CreatedNow(Put(db, o, p), o)
             Wanted(q) == q.type = TypeOf[o] \/ IsAdd(q) \/ CacheParentPermissions
  <1>1. o \in Obj \ db.objs /\ ty \in Type /\ UNCHANGED <<gasg, conf>>
    BY ApiAssumption, CachingAssumption DEF CreateObject
  <1>2. owner'[o] = u
    BY <1>1 DEF CreateObject, ApiInv, OtherTypes
  <1>3. /\ d \in Db /\ d.rds = db.rds /\ d.perms = db.perms
        /\ d.roles = db.roles /\ d.uasg = db.uasg /\ db.provides \subseteq d.provides
    BY <1>1, CreatedLeaves
  <1>4. PICK rd \in CreatorDefinition(d, ty) :
            /\ db' = GiveCreatorPermissions(d, u, o, rd)
            /\ rd \notin db'.rds \ db.rds => rdt' = rdt
    BY DEF CreateObject, Put
  <1> HIDE DEF d
  <1>5. SUFFICES \A q \in CreatorPerms(ty) : Wanted(q) =>
                    u \in Superuser \/ q \in Global(u)' \/ Evaluated(u, q, o)'
    BY <1>2 DEF CreatorHas, HasObjPerm, SuperPerm
  <1>6. CASE ~NeedsCreatorRole(d, u, o)
    <2> DEFINE has == {q \in Perm : \E r \in d.roles : <<u, r>> \in d.uasg /\ <<r, <<q, o>>>> \in d.evals}
    <2>1. db' = d /\ rdt' = rdt
      BY <1>3, <1>4, <1>6 DEF GiveCreatorPermissions
    <2>2. u \in Superuser \/ CreatorPerms(ty) \subseteq has \cup Global(u)
      BY <1>6 DEF NeedsCreatorRole
    <2>3. Global(u) \subseteq Global(u)'
      BY <1>1, <1>3, <2>1, GlobalStays
    <2>4. \A q \in has : Evaluated(u, q, o)'
      BY <2>1 DEF Evaluated, HeldRoles
    <2> HIDE DEF has
    <2> QED
      BY <2>2, <2>3, <2>4
  <1>7. CASE NeedsCreatorRole(d, u, o)
    <2> DEFINE w == WithDefinition(d, rd, ty)
               r == <<rd, o>>
    <2>1. rd \in RoleDef /\ w \in Db /\ w.perms[rd] = CreatorPerms(ty)
      BY <1>1, <1>3, <1>4, CreatorDefinitionLists DEF NamedAsNeeded
    <2>2. db' = GiveAssignments(w, {<<u, r>>}, {})
      BY <1>4, <1>7 DEF GiveCreatorPermissions
    <2>3. r \in Role /\ r[1] = rd /\ r[2] = o
      BY <1>1, <2>1 DEF Role
    <2> HIDE DEF w, r
    <2>4. \A q \in CreatorPerms(ty) : Wanted(q) => <<q, o>> \in ExpectedDirect(w, r)
      BY <2>1, <2>3 DEF ExpectedDirect
    <2>5. r \in db'.roles /\ <<u, r>> \in db'.uasg /\ \A x \in ExpectedDirect(w, r) : <<r, x>> \in db'.evals
      BY <2>1, <2>2, <2>3, GivenEvaluated
    <2>6. \A q \in CreatorPerms(ty) : Wanted(q) => Evaluated(u, q, o)'
      BY <2>4, <2>5 DEF Evaluated, HeldRoles
    <2> QED
      BY <2>6
  <1> QED
    BY <1>6, <1>7

\* Whoever makes an object can use it at once, whatever roles the parents
\* confer already and whether the definition that carries the permissions of
\* creators exists, is found among others or is made.
THEOREM CreatorsOwn == Spec => CreatorOwns
  <1>1. Init => ApiInv
    BY InitHolds
  <1>2. ApiInv /\ [Next]_vars => ApiInv'
    BY StepHolds
  <1>3. ApiInv /\ [Next]_vars =>
          [\A o \in Creatable : o \in db'.objs \ db.objs /\ NamedAsNeeded(TypeOf[o]) => CreatorHas(o)']_vars
    <2> SUFFICES ASSUME ApiInv, Next, NEW o \in Creatable,
                        o \in db'.objs \ db.objs, NamedAsNeeded(TypeOf[o])
                 PROVE  CreatorHas(o)'
      OBVIOUS
    <2>1. PICK u \in User, c \in Creatable, p \in Obj \cup {NoObj} : CreateObject(u, c, p)
      BY OthersMakeNothing DEF Next
    <2>2. c = o
      BY <2>1, CreatedObjects
    <2> QED
      BY <2>1, <2>2, CreatorGets
  <1> QED
    BY <1>1, <1>2, <1>3, PTL DEF Spec, CreatorOwns

=============================================================================

---------------------------- MODULE RbacTablesProofs ----------------------------
(***************************************************************************)
(* What the functions of RbacCaching and RbacTriggers do to the tables,    *)
(* for every value of the constants: they keep the rows well typed and     *)
(* refer to rows that exist, they leave both computed tables as a          *)
(* recomputation of everything would make them, and tables that are so     *)
(* answer a permission check as the assignments mean.                      *)
(***************************************************************************)
EXTENDS RbacTriggers, TLAPS

-----------------------------------------------------------------------------
(***************************************************************************)
(* The functions of RbacCaching keep the tables well typed                 *)
(***************************************************************************)
LEMMA RoleFields ==
    ASSUME NEW r \in Role
    PROVE  r[1] \in RoleDef /\ r[2] \in Obj
  BY DEF Role

LEMMA TeamsAreObjects == Team \subseteq Obj
  BY DEF Team

\* The direct evaluations of a role are pairs of a permission and an object.
LEMMA ExpectedDirectType ==
    ASSUME NEW d \in Db, NEW r \in Role
    PROVE  ExpectedDirect(d, r) \subseteq Evaluation
  <1>1. d.perms[r[1]] \subseteq Perm /\ r[2] \in Obj /\ d.objs \subseteq Obj
    BY RoleFields DEF Db
  <1>2. Below(d, r[2]) \subseteq Obj
    BY <1>1 DEF Below
  <1> QED
    BY <1>1, <1>2 DEF ExpectedDirect, Evaluation

LEMMA TeamRolesType ==
    ASSUME NEW d \in Db, NEW r
    PROVE  TeamRoles(d, r) \subseteq Role
  BY DEF TeamRoles, Db

LEMMA ExpectedEvaluationsType ==
    ASSUME NEW d \in Db, NEW r \in Role
    PROVE  ExpectedEvaluations(d, r) \subseteq Evaluation
  BY ExpectedDirectType, TeamRolesType DEF ExpectedEvaluations

LEMMA RecomputeType ==
    ASSUME NEW d \in Db, NEW R
    PROVE  RecomputeRoleEvaluations(d, R) \in Db
  <1> DEFINE live == R \cap d.roles
             new  == UNION {{r} \X ExpectedEvaluations(d, r) : r \in live}
             old  == {x \in d.evals : x[1] \notin live}
  <1>1. live \subseteq Role
    BY DEF Db
  <1>2. new \subseteq Role \X Evaluation
    BY <1>1, ExpectedEvaluationsType
  <1>3. old \subseteq Role \X Evaluation
    BY DEF Db
  <1>4. [d EXCEPT !.evals = old \cup new] \in Db
    BY <1>2, <1>3 DEF Db
  <1> QED
    BY <1>4 DEF RecomputeRoleEvaluations

LEMMA RecomputeAllType ==
    ASSUME NEW d \in Db
    PROVE  RecomputeAllRoleEvaluations(d) \in Db
  BY RecomputeType DEF RecomputeAllRoleEvaluations

LEMMA LookAheadType ==
    ASSUME NEW d \in Db, NEW R, NEW look
    PROVE  RecomputeLookAhead(d, R, look) \in Db
  <1> DEFINE live == R \cap d.roles
             want(r) == ExpectedLook(d, r, look)
                        \cup UNION {ExpectedLook(d, q, look) : q \in TeamRoles(d, r)}
             new  == UNION {{r} \X want(r) : r \in live}
             old  == {x \in d.evals : x[1] \in live /\ x[2][2] = look => x[2] \in want(x[1])}
  <1>1. live \subseteq Role
    BY DEF Db
  <1>2. \A r \in Role : ExpectedLook(d, r, look) \subseteq Evaluation
    BY ExpectedDirectType DEF ExpectedLook
  <1>3. \A r \in live : want(r) \subseteq Evaluation
    BY <1>1, <1>2, TeamRolesType
  <1>4. new \subseteq Role \X Evaluation
    <2> HIDE DEF want
    <2> QED BY <1>1, <1>3
  <1>5. old \subseteq Role \X Evaluation
    BY DEF Db
  <1>6. [d EXCEPT !.evals = old \cup new] \in Db
    <2> HIDE DEF old, new
    <2> QED BY <1>4, <1>5 DEF Db
  <1> QED
    BY <1>6 DEF RecomputeLookAhead

\* A team's member roles are ObjectRoles; only teams are reached.
LEMMA MemberRolesType ==
    ASSUME NEW d \in Db, NEW graph, NEW t
    PROVE  MemberRolesIn(d, graph, t) \subseteq Role
  BY DEF MemberRolesIn, DirectMemberRoles, Db

LEMMA ReachType == \A E, S : Reach(E, S) \subseteq Team
  BY DEF Reach

LEMMA ComputeType ==
    ASSUME NEW d \in Db, NEW T
    PROVE  ComputeTeamMemberRoles(d, T) \in Db
  <1> DEFINE graph == TeamGraph(d)
             scope == d.objs \cap Reach(graph, T \cap Team)
             old   == {x \in d.provides : x[2] \notin scope}
             new   == UNION {MemberRolesIn(d, graph, t) \X {t} : t \in scope}
  <1>1. scope \subseteq Team
    BY ReachType
  <1>2. new \subseteq Role \X Team
    <2> HIDE DEF graph, scope
    <2> QED BY <1>1, MemberRolesType
  <1>3. old \subseteq Role \X Team
    BY DEF Db
  <1>4. [d EXCEPT !.provides = old \cup new] \in Db
    <2> HIDE DEF old, new
    <2> QED BY <1>2, <1>3 DEF Db
  <1> QED
    BY <1>4 DEF ComputeTeamMemberRoles

LEMMA ComputeAllType ==
    ASSUME NEW d \in Db
    PROVE  ComputeAllTeamMemberRoles(d) \in Db
  BY ComputeType DEF ComputeAllTeamMemberRoles

LEMMA DeleteRolesType ==
    ASSUME NEW d \in Db, NEW R
    PROVE  DeleteObjectRoles(d, R) \in Db
  BY DEF DeleteObjectRoles, Db

LEMMA CleanupType ==
    ASSUME NEW d \in Db
    PROVE  CleanupOrphanedObjectRoles(d) \in Db
  BY DeleteRolesType DEF CleanupOrphanedObjectRoles

LEMMA DeleteEvaluationsType ==
    ASSUME NEW d \in Db, NEW O
    PROVE  DeleteEvaluationsOn(d, O) \in Db
  BY DEF DeleteEvaluationsOn, Db

LEMMA CleanupDeletedType ==
    ASSUME NEW d \in Db, NEW O
    PROVE  CleanupDeletedRoles(d, O) \in Db
  BY DeleteRolesType, DeleteEvaluationsType DEF CleanupDeletedRoles

-----------------------------------------------------------------------------
(***************************************************************************)
(* Type correctness                                                        *)
(***************************************************************************)
CascadeType == [todo : SUBSET Obj, batch : SUBSET Obj,
                memberRoles : SUBSET (Team \X Role), teams : SUBSET (Team \X Team)]
DeferType   == [active : BOOLEAN, teams : SUBSET Team, objs : SUBSET Obj, created : SUBSET Obj]

LEMMA CreateAssignmentsType ==
    ASSUME NEW d \in Db, NEW ua \in SUBSET (User \X Role), NEW ta \in SUBSET (Team \X Role)
    PROVE  CreateAssignments(d, ua, ta) \in Db
  <1>1. RolesIn(ua) \subseteq Role /\ RolesIn(ta) \subseteq Role
    BY DEF RolesIn
  <1> QED
    BY <1>1 DEF CreateAssignments, Db

LEMMA GiveType ==
    ASSUME NEW d \in Db, NEW ua \in SUBSET (User \X Role), NEW ta \in SUBSET (Team \X Role)
    PROVE  GiveAssignments(d, ua, ta) \in Db
  BY CreateAssignmentsType, ComputeType, RecomputeType DEF GiveAssignments

LEMMA RemoveType ==
    ASSUME NEW d \in Db, NEW ua, NEW ta
    PROVE  RemoveAssignments(d, ua, ta) \in Db
  <1>1. [d EXCEPT !.uasg = @ \ ua, !.tasg = @ \ ta] \in Db
    BY DEF Db
  <1> QED
    BY <1>1, ComputeType, RecomputeType, DeleteRolesType DEF RemoveAssignments

LEMMA PermissionsChangedType ==
    ASSUME NEW d \in Db, NEW rd, NEW P, NEW adding
    PROVE  PermissionsChanged(d, rd, P, adding) \in Db
  BY ComputeType, RecomputeType DEF PermissionsChanged

LEMMA CreatedNowType ==
    ASSUME NEW d \in Db, NEW o
    PROVE  CreatedNow(d, o) \in Db
  BY ComputeType, LookAheadType DEF CreatedNow

-----------------------------------------------------------------------------
(***************************************************************************)
(* No ObjectRole outlives its last assignment or its object                *)
(***************************************************************************)
\* NoOrphanedRoles speaks of settled states only.  In between, a role may be
\* on an object whose post_delete handler or whose flush is still to come, and
\* unused while a team whose rows were deleted waits for the same.
Linked(d) == \A a \in d.uasg \cup d.tasg : a[2] \in d.roles

SameAssignments(d, e) ==
    e.objs = d.objs /\ e.roles = d.roles /\ e.uasg = d.uasg /\ e.tasg = d.tasg

LEMMA RecomputeKeeps ==
    ASSUME NEW d \in Db, NEW R
    PROVE  SameAssignments(d, RecomputeRoleEvaluations(d, R))
  BY DEF RecomputeRoleEvaluations, SameAssignments, Db

LEMMA LookAheadKeeps ==
    ASSUME NEW d \in Db, NEW R, NEW look
    PROVE  SameAssignments(d, RecomputeLookAhead(d, R, look))
  BY DEF RecomputeLookAhead, SameAssignments, Db

LEMMA ComputeKeeps ==
    ASSUME NEW d \in Db, NEW T
    PROVE  SameAssignments(d, ComputeTeamMemberRoles(d, T))
  BY DEF ComputeTeamMemberRoles, SameAssignments, Db

LEMMA DeleteEvaluationsKeeps ==
    ASSUME NEW d \in Db, NEW O
    PROVE  SameAssignments(d, DeleteEvaluationsOn(d, O))
  BY DEF DeleteEvaluationsOn, SameAssignments, Db

LEMMA SameOrphans ==
    ASSUME NEW d, NEW e, SameAssignments(d, e)
    PROVE  Orphans(e) = Orphans(d) /\ (Linked(d) <=> Linked(e))
  BY DEF SameAssignments, Orphans, Linked

LEMMA SameTransitive ==
    ASSUME NEW d, NEW e, NEW f, SameAssignments(d, e), SameAssignments(e, f)
    PROVE  SameAssignments(d, f)
  BY DEF SameAssignments

\* Deleting roles orphans no other role.
LEMMA DeleteRolesOrphans ==
    ASSUME NEW d \in Db, NEW R
    PROVE  /\ DeleteObjectRoles(d, R).roles = d.roles \ R
           /\ DeleteObjectRoles(d, R).objs = d.objs
           /\ Orphans(DeleteObjectRoles(d, R)) = Orphans(d) \ R
           /\ Linked(d) => Linked(DeleteObjectRoles(d, R))
  <1> DEFINE e == DeleteObjectRoles(d, R)
  <1>1. /\ e.roles = d.roles \ R /\ e.objs = d.objs
        /\ e.uasg = {a \in d.uasg : a[2] \notin R}
        /\ e.tasg = {a \in d.tasg : a[2] \notin R}
    BY DEF DeleteObjectRoles, Db
  <1>2. ASSUME NEW r \in d.roles \ R, NEW x
        PROVE  /\ <<x, r>> \in e.uasg <=> <<x, r>> \in d.uasg
               /\ <<x, r>> \in e.tasg <=> <<x, r>> \in d.tasg
    BY <1>1
  <1> HIDE DEF e
  <1>3. ASSUME NEW r \in d.roles \ R
        PROVE  r \in Orphans(e) <=> r \in Orphans(d)
    BY <1>1, <1>2 DEF Orphans
  <1>4. Orphans(e) = Orphans(d) \ R
    BY <1>1, <1>3 DEF Orphans
  <1>5. Linked(d) => Linked(e)
    BY <1>1 DEF Linked
  <1> QED
    BY <1>1, <1>4, <1>5 DEF e

LEMMA CleanupOrphans ==
    ASSUME NEW d \in Db
    PROVE  /\ CleanupOrphanedObjectRoles(d).roles \subseteq d.roles
           /\ CleanupOrphanedObjectRoles(d).objs = d.objs
           /\ Orphans(CleanupOrphanedObjectRoles(d)) = {}
           /\ Linked(d) => Linked(CleanupOrphanedObjectRoles(d))
  BY DeleteRolesOrphans DEF CleanupOrphanedObjectRoles

LEMMA OrphansAreRoles == \A d : Orphans(d) \subseteq d.roles
  BY DEF Orphans

\* Giving assignments leaves no role that was used or that it names unused.
LEMMA GiveRoles ==
    ASSUME NEW d \in Db, NEW ua \in SUBSET (User \X Role), NEW ta \in SUBSET (Team \X Role)
    PROVE  /\ GiveAssignments(d, ua, ta).roles = d.roles \cup RolesIn(ua) \cup RolesIn(ta)
           /\ GiveAssignments(d, ua, ta).objs = d.objs
           /\ Orphans(GiveAssignments(d, ua, ta)) \subseteq Orphans(d)
           /\ Linked(d) => Linked(GiveAssignments(d, ua, ta))
  <1> DEFINE d1 == CreateAssignments(d, ua, ta)
  <1>1. d1 \in Db
    BY CreateAssignmentsType
  <1>2. /\ d1.roles = d.roles \cup RolesIn(ua) \cup RolesIn(ta) /\ d1.objs = d.objs
        /\ d1.uasg = d.uasg \cup ua /\ d1.tasg = d.tasg \cup ta
    BY DEF CreateAssignments, Db
  <1>3. Orphans(d1) \subseteq Orphans(d)
    <2> HIDE DEF d1
    <2> SUFFICES ASSUME NEW r \in Orphans(d1) PROVE r \in Orphans(d)
      OBVIOUS
    <2>1. r \notin RolesIn(ua)
      <3> SUFFICES ASSUME NEW a \in ua, r = a[2] PROVE FALSE
        BY DEF RolesIn
      <3>1. a = <<a[1], r>> /\ a[1] \in User
        OBVIOUS
      <3> QED BY <3>1, <1>2 DEF Orphans
    <2>2. r \notin RolesIn(ta)
      <3> SUFFICES ASSUME NEW a \in ta, r = a[2] PROVE FALSE
        BY DEF RolesIn
      <3>1. a = <<a[1], r>> /\ a[1] \in Team
        OBVIOUS
      <3> QED BY <3>1, <1>2 DEF Orphans
    <2> QED BY <2>1, <2>2, <1>2 DEF Orphans
  <1>5. Linked(d) => Linked(d1)
    <2> HIDE DEF d1
    <2> QED BY <1>2 DEF Linked, RolesIn
  <1>4. SameAssignments(d1, GiveAssignments(d, ua, ta))
    <2> HIDE DEF d1
    <2>1. \A e \in Db : \A R : SameAssignments(e, RecomputeRoleEvaluations(e, R))
      BY RecomputeKeeps
    <2>2. \A T : /\ ComputeTeamMemberRoles(d1, T) \in Db
                 /\ SameAssignments(d1, ComputeTeamMemberRoles(d1, T))
      BY <1>1, ComputeType, ComputeKeeps
    <2>3. SameAssignments(d1, d1)
      BY DEF SameAssignments
    <2> QED
      BY <1>1, <2>1, <2>2, <2>3, SameTransitive DEF GiveAssignments, d1
  <1> QED
    BY <1>2, <1>3, <1>4, <1>5, SameOrphans DEF SameAssignments

\* Removing assignments deletes exactly those of its roles that become unused.
LEMMA RemoveRoles ==
    ASSUME NEW d \in Db, NEW ua, NEW ta
    PROVE  /\ RemoveAssignments(d, ua, ta).roles \subseteq d.roles
           /\ RemoveAssignments(d, ua, ta).objs = d.objs
           /\ Orphans(RemoveAssignments(d, ua, ta)) \subseteq Orphans(d)
           /\ Linked(d) => Linked(RemoveAssignments(d, ua, ta))
  <1> DEFINE d1 == [d EXCEPT !.uasg = @ \ ua, !.tasg = @ \ ta]
             taken == RolesIn(ua) \cup RolesIn(ta)
  <1>1. d1 \in Db
    BY DEF Db
  <1>2. /\ d1.roles = d.roles /\ d1.objs = d.objs
        /\ d1.uasg = d.uasg \ ua /\ d1.tasg = d.tasg \ ta
    BY DEF Db
  <1>3. Orphans(d1) \ taken \subseteq Orphans(d)
    <2> SUFFICES ASSUME NEW r \in Orphans(d1), r \notin taken PROVE r \in Orphans(d)
      OBVIOUS
    <2>1. \A x : <<x, r>> \notin ua /\ <<x, r>> \notin ta
      BY DEF RolesIn
    <2> HIDE DEF d1
    <2> QED BY <2>1, <1>2 DEF Orphans
  <1>4. PICK d3 \in Db : /\ SameAssignments(d1, d3)
                         /\ RemoveAssignments(d, ua, ta)
                              = DeleteObjectRoles(d3, taken \cap Orphans(d3))
    <2> HIDE DEF d1
    <2>1. \A e \in Db : \A R : /\ RecomputeRoleEvaluations(e, R) \in Db
                           /\ SameAssignments(e, RecomputeRoleEvaluations(e, R))
      BY RecomputeType, RecomputeKeeps
    <2>2. \A T : /\ ComputeTeamMemberRoles(d1, T) \in Db
                 /\ SameAssignments(d1, ComputeTeamMemberRoles(d1, T))
      BY <1>1, ComputeType, ComputeKeeps
    <2>3. SameAssignments(d1, d1)
      BY DEF SameAssignments
    <2>4. \A e \in Db : SameAssignments(d1, e) => \A R :
            SameAssignments(d1, RecomputeRoleEvaluations(e, R))
      BY <2>1, SameTransitive
    <2> QED
      BY <1>1, <2>1, <2>2, <2>3, <2>4 DEF RemoveAssignments, d1
  <1> HIDE DEF d1
  <1>5. Orphans(d3) = Orphans(d1) /\ d3.roles = d.roles /\ d3.objs = d.objs
        /\ (Linked(d) => Linked(d3))
    BY <1>2, <1>4, SameOrphans DEF SameAssignments, Linked
  <1> QED
    BY <1>3, <1>4, <1>5, DeleteRolesOrphans

\* The handlers of role definitions, of creation and of parent changes touch
\* provides_teams and RoleEvaluation only.
LEMMA PermissionsChangedKeeps ==
    ASSUME NEW d \in Db, NEW rd, NEW P, NEW adding
    PROVE  SameAssignments(d, PermissionsChanged(d, rd, P, adding))
  <1>1. \A e \in Db : \A R : SameAssignments(e, RecomputeRoleEvaluations(e, R))
    BY RecomputeKeeps
  <1>2. \A T : /\ ComputeTeamMemberRoles(d, T) \in Db
               /\ SameAssignments(d, ComputeTeamMemberRoles(d, T))
    BY ComputeType, ComputeKeeps
  <1>3. SameAssignments(d, d)
    BY DEF SameAssignments
  <1> QED
    BY <1>1, <1>2, <1>3, SameTransitive DEF PermissionsChanged

LEMMA CreatedNowKeeps ==
    ASSUME NEW d \in Db, NEW o
    PROVE  SameAssignments(d, CreatedNow(d, o))
  BY ComputeType, ComputeKeeps, LookAheadKeeps, SameTransitive DEF CreatedNow

LEMMA CleanupDeletedRolesRoles ==
    ASSUME NEW d \in Db, NEW O
    PROVE  /\ CleanupDeletedRoles(d, O).roles = {r \in d.roles : r[2] \notin O}
           /\ CleanupDeletedRoles(d, O).objs = d.objs
           /\ Linked(d) => Linked(CleanupDeletedRoles(d, O))
  <1> DEFINE d1 == DeleteObjectRoles(d, RolesOn(d, O))
  <1>1. d1 \in Db /\ d1.roles = {r \in d.roles : r[2] \notin O} /\ d1.objs = d.objs
        /\ (Linked(d) => Linked(d1))
    BY DeleteRolesType, DeleteRolesOrphans DEF RolesOn
  <1>2. SameAssignments(d1, DeleteEvaluationsOn(d1, O))
    BY <1>1, DeleteEvaluationsKeeps
  <1> QED
    BY <1>1, <1>2, SameOrphans DEF CleanupDeletedRoles, SameAssignments

-----------------------------------------------------------------------------
(***************************************************************************)
(* Reachability in the team-of-team graph                                  *)
(***************************************************************************)
LEMMA ReachContains ==
    ASSUME NEW E, NEW S, NEW t \in Team, t \in S
    PROVE  t \in Reach(E, S)
  BY DEF Reach

LEMMA ReachLeast ==
    ASSUME NEW E, NEW S, NEW C \in SUBSET Team, S \subseteq C, Closed(E, C)
    PROVE  Reach(E, S) \subseteq C
  BY DEF Reach

LEMMA ReachClosed ==
    ASSUME NEW E \in SUBSET (Team \X Team), NEW S
    PROVE  Closed(E, Reach(E, S))
  <1> SUFFICES ASSUME NEW e \in E, e[1] \in Reach(E, S)
               PROVE  e[2] \in Reach(E, S)
    BY DEF Closed
  <1>1. ASSUME NEW C \in SUBSET Team, S \subseteq C, Closed(E, C)
        PROVE  e[2] \in C
    <2>1. e[1] \in C
      BY <1>1 DEF Reach
    <2> QED BY <1>1, <2>1 DEF Closed
  <1>2. e[2] \in Team
    OBVIOUS
  <1> QED
    BY <1>1, <1>2 DEF Reach

LEMMA ReversedEdges ==
    ASSUME NEW E \in SUBSET (Team \X Team)
    PROVE  /\ Reversed(E) \in SUBSET (Team \X Team)
           /\ \A a, b : <<a, b>> \in E <=> <<b, a>> \in Reversed(E)
           /\ \A C : Closed(E, C) <=> \A a, b \in Team : <<a, b>> \in E /\ a \in C => b \in C
  <1>1. \A e \in E : e = <<e[1], e[2]>> /\ e[1] \in Team /\ e[2] \in Team
    OBVIOUS
  <1>2. \A a, b : <<a, b>> \in E => <<b, a>> \in Reversed(E)
    BY DEF Reversed
  <1>3. \A a, b : <<b, a>> \in Reversed(E) => <<a, b>> \in E
    BY <1>1 DEF Reversed
  <1>4. Reversed(E) \in SUBSET (Team \X Team)
    BY <1>1 DEF Reversed
  <1>5. \A C : Closed(E, C) <=> \A a, b \in Team : <<a, b>> \in E /\ a \in C => b \in C
    BY <1>1 DEF Closed
  <1> QED
    BY <1>2, <1>3, <1>4, <1>5

\* A set is closed under the edges iff its complement is closed under their
\* reversals.
LEMMA ClosedComplement ==
    ASSUME NEW E \in SUBSET (Team \X Team), NEW C \in SUBSET Team
    PROVE  Closed(E, C) <=> Closed(Reversed(E), Team \ C)
  <1>1. Closed(Reversed(E), Team \ C)
          <=> \A a, b \in Team : <<b, a>> \in Reversed(E) /\ b \notin C => a \notin C
    BY ReversedEdges
  <1>2. Closed(E, C) <=> \A a, b \in Team : <<a, b>> \in E /\ a \in C => b \in C
    BY ReversedEdges
  <1> QED
    BY <1>1, <1>2, ReversedEdges

\* Searching down from S finds t iff searching up from t meets S: what
\* all_team_children and all_team_parents compute agree.
LEMMA ReachDuality ==
    ASSUME NEW E \in SUBSET (Team \X Team), NEW S \in SUBSET Team, NEW t \in Team
    PROVE  t \in Reach(E, S) <=> Reach(Reversed(E), {t}) \cap S # {}
  <1> DEFINE up == Reach(Reversed(E), {t})
  <1>1. up \subseteq Team /\ t \in up /\ Closed(Reversed(E), up)
    BY ReachType, ReachContains, ReachClosed, ReversedEdges
  <1>2. ASSUME t \in Reach(E, S), up \cap S = {}
        PROVE  FALSE
    <2>1. Team \ (Team \ up) = up
      BY <1>1
    <2>2. Closed(E, Team \ up)
      BY <1>1, <2>1, ClosedComplement
    <2>3. S \subseteq Team \ up
      BY <1>2
    <2>4. Reach(E, S) \subseteq Team \ up
      BY <2>2, <2>3, ReachLeast
    <2> QED
      BY <1>1, <1>2, <2>4
  <1>3. ASSUME t \notin Reach(E, S)
        PROVE  up \cap S = {}
    <2>1. PICK C \in SUBSET Team : S \subseteq C /\ Closed(E, C) /\ t \notin C
      BY <1>3 DEF Reach
    <2>2. Closed(Reversed(E), Team \ C)
      BY <2>1, ClosedComplement
    <2>3. up \subseteq Team \ C
      BY <2>1, <2>2, ReachLeast
    <2> QED
      BY <2>1, <2>3
  <1> QED
    BY <1>2, <1>3

-----------------------------------------------------------------------------
(***************************************************************************)
(* Coherent tables give the right answers                                  *)
(***************************************************************************)
LEMMA TeamGraphType == \A d : TeamGraph(d) \in SUBSET (Team \X Team)
  BY DEF TeamGraph

LEMMA ObjectTypes == Team \subseteq Obj /\ \A r \in Role : r[1] \in RoleDef /\ r[2] \in Obj
  BY TeamsAreObjects, RoleFields

\* What the assignments mean for a user: the teams of which roles held make the
\* user a member, in chains and loops of teams, and what the roles of the user
\* and of these teams list.
MemberIn(d, u) == Reach(TeamGraph(d), {t \in Team : \E r \in DirectMemberRoles(d, t) : <<u, r>> \in d.uasg})
HeldIn(d, u) == {r \in d.roles : <<u, r>> \in d.uasg \/ \E t \in MemberIn(d, u) : <<t, r>> \in d.tasg}
EntitledIn(d, u) == UNION {ExpectedDirect(d, r) : r \in HeldIn(d, u)}

\* Only existing teams are members of anything.
LEMMA MembersExist ==
    ASSUME NEW d, NEW u, \A r \in d.roles : r[2] \in d.objs
    PROVE  MemberIn(d, u) \subseteq d.objs
  <1> DEFINE S == {t \in Team : \E r \in DirectMemberRoles(d, t) : <<u, r>> \in d.uasg}
             C == d.objs \cap Team
  <1>1. \A t : DirectMemberRoles(d, t) # {} => t \in d.objs
    BY DEF DirectMemberRoles
  <1>2. S \subseteq C
    BY <1>1
  <1>3. Closed(TeamGraph(d), C)
    BY <1>1 DEF Closed, TeamGraph
  <1>4. MemberIn(d, u) \subseteq C
    BY <1>2, <1>3, ReachLeast DEF MemberIn
  <1> QED
    BY <1>4

\* A user is a member of a team iff some role held directly provides it.
LEMMA MemberThroughRole ==
    ASSUME NEW d, NEW u, NEW t \in Team
    PROVE  t \in MemberIn(d, u) <=> \E r \in MemberRoles(d, t) : <<u, r>> \in d.uasg
  <1> DEFINE S == {x \in Team : \E r \in DirectMemberRoles(d, x) : <<u, r>> \in d.uasg}
             up == Reach(Reversed(TeamGraph(d)), {t})
  <1>1. S \in SUBSET Team
    OBVIOUS
  <1>2. t \in MemberIn(d, u) <=> up \cap S # {}
    <2> HIDE DEF up
    <2> QED BY <1>1, TeamGraphType, ReachDuality DEF MemberIn, up
  <1>3. up \subseteq Team
    BY ReachType
  <1>4. \A r : r \in MemberRoles(d, t) <=> \E a \in up : r \in DirectMemberRoles(d, a)
    BY DEF MemberRoles, MemberRolesIn
  <1> HIDE DEF up
  <1>5. up \cap S # {} <=> \E a \in up : \E r \in DirectMemberRoles(d, a) : <<u, r>> \in d.uasg
    BY <1>3
  <1> QED
    BY <1>2, <1>4, <1>5

\* With provides_teams coherent, the roles held by a user directly or through
\* teams are the direct ones and their descendent_roles.
LEMMA HeldThroughTeams ==
    ASSUME NEW d \in Db, ProvidesCoherentIn(d), Linked(d), NEW u,
           \A r \in d.roles : r[2] \in d.objs
    PROVE  /\ \A t : t \in MemberIn(d, u) <=> \E r \in d.roles : <<u, r>> \in d.uasg /\ <<r, t>> \in d.provides
           /\ \A q : q \in HeldIn(d, u) <=>
                 \E r \in d.roles : <<u, r>> \in d.uasg /\ (q = r \/ q \in TeamRoles(d, r))
  <1>1. \A r, t : <<r, t>> \in d.provides <=> t \in d.objs \cap Team /\ r \in MemberRoles(d, t)
    BY DEF ProvidesCoherentIn
  <1>2. \A r, q : q \in TeamRoles(d, r) <=> \E t : <<t, q>> \in d.tasg /\ <<r, t>> \in d.provides
    <2>1. d.tasg \subseteq Team \X Role
      BY DEF Db
    <2>2. \A a \in d.tasg : a = <<a[1], a[2]>>
      BY <2>1
    <2> QED BY <2>2 DEF TeamRoles
  <1>3. \A t, r : r \in MemberRoles(d, t) => r \in d.roles
    BY DEF MemberRoles, MemberRolesIn, DirectMemberRoles
  <1>4. MemberIn(d, u) \subseteq d.objs \cap Team
    BY MembersExist, ReachType DEF MemberIn
  <1>5. \A t : t \in MemberIn(d, u) <=> \E r \in d.roles : <<u, r>> \in d.uasg /\ <<r, t>> \in d.provides
    BY <1>1, <1>3, <1>4, MemberThroughRole
  <1>6. \A t, q : <<t, q>> \in d.tasg => q \in d.roles
    BY DEF Linked
  <1>7. \A q : q \in HeldIn(d, u) <=>
           q \in d.roles /\ (<<u, q>> \in d.uasg \/ \E t \in MemberIn(d, u) : <<t, q>> \in d.tasg)
    BY DEF HeldIn
  <1> QED
    BY <1>2, <1>5, <1>6, <1>7

\* The evaluations of a role that a recomputation would write, on objects that
\* exist: a role's objects are its own and what is below it.
LEMMA ExpectedOnObjects ==
    ASSUME NEW d \in Db, NEW r \in d.roles, Linked(d), \A q \in d.roles : q[2] \in d.objs
    PROVE  \A e \in ExpectedEvaluations(d, r) : e \in Evaluation /\ e[2] \in d.objs
  <1>1. ASSUME NEW q \in d.roles, NEW e \in ExpectedDirect(d, q)
        PROVE  e[2] \in d.objs
    BY <1>1 DEF ExpectedDirect, Below
  <1>2. \A q \in TeamRoles(d, r) : q \in d.roles
    BY DEF TeamRoles, Linked
  <1>3. r \in Role
    BY DEF Db
  <1> QED
    BY <1>1, <1>2, <1>3, ExpectedEvaluationsType DEF ExpectedEvaluations

-----------------------------------------------------------------------------
(***************************************************************************)
(* The computed tables refer to existing rows                              *)
(***************************************************************************)
\* provides_teams and RoleEvaluation name existing roles, and provides_teams
\* names teams of T.
Keyed(d, T) == /\ \A x \in d.provides : x[1] \in d.roles /\ x[2] \in T
               /\ \A x \in d.evals : x[1] \in d.roles

LEMMA RecomputeKeyed ==
    ASSUME NEW d \in Db, NEW R, NEW T, Keyed(d, T)
    PROVE  Keyed(RecomputeRoleEvaluations(d, R), T)
  <1> DEFINE live == R \cap d.roles
             ev   == {x \in d.evals : x[1] \notin live}
                     \cup UNION {{r} \X ExpectedEvaluations(d, r) : r \in live}
             e    == [d EXCEPT !.evals = ev]
  <1>1. \A x \in ev : x[1] \in d.roles
    BY DEF Keyed
  <1>2. e.evals = ev /\ e.provides = d.provides /\ e.roles = d.roles
    <2> HIDE DEF ev
    <2> QED BY DEF Db
  <1>3. RecomputeRoleEvaluations(d, R) = e
    BY DEF RecomputeRoleEvaluations
  <1> HIDE DEF e, ev
  <1> QED
    BY <1>1, <1>2, <1>3 DEF Keyed

LEMMA LookAheadKeyed ==
    ASSUME NEW d \in Db, NEW R, NEW look, NEW T, Keyed(d, T)
    PROVE  Keyed(RecomputeLookAhead(d, R, look), T)
  <1> DEFINE live == R \cap d.roles
             want(r) == ExpectedLook(d, r, look)
                        \cup UNION {ExpectedLook(d, q, look) : q \in TeamRoles(d, r)}
             ev == {x \in d.evals : x[1] \in live /\ x[2][2] = look => x[2] \in want(x[1])}
                   \cup UNION {{r} \X want(r) : r \in live}
             e  == [d EXCEPT !.evals = ev]
  <1>1. \A x \in ev : x[1] \in d.roles
    <2> HIDE DEF want
    <2> QED BY DEF Keyed
  <1>2. e.evals = ev /\ e.provides = d.provides /\ e.roles = d.roles
    <2> HIDE DEF ev
    <2> QED BY DEF Db
  <1>3. RecomputeLookAhead(d, R, look) = e
    BY DEF RecomputeLookAhead
  <1> HIDE DEF e, ev
  <1> QED
    BY <1>1, <1>2, <1>3 DEF Keyed

LEMMA ComputeKeyed ==
    ASSUME NEW d \in Db, NEW S, NEW T, Keyed(d, T), d.objs \cap Team \subseteq T
    PROVE  Keyed(ComputeTeamMemberRoles(d, S), T)
  <1> DEFINE graph == TeamGraph(d)
             scope == d.objs \cap Reach(graph, S \cap Team)
             pr    == {x \in d.provides : x[2] \notin scope}
                      \cup UNION {MemberRolesIn(d, graph, t) \X {t} : t \in scope}
             e     == [d EXCEPT !.provides = pr]
  <1>1. scope \subseteq T
    BY ReachType
  <1>2. \A t : MemberRolesIn(d, graph, t) \subseteq d.roles
    BY DEF MemberRolesIn, DirectMemberRoles
  <1>3. \A x \in pr : x[1] \in d.roles /\ x[2] \in T
    <2> HIDE DEF graph, scope
    <2> QED BY <1>1, <1>2 DEF Keyed
  <1>4. e.evals = d.evals /\ e.provides = pr /\ e.roles = d.roles
    <2> HIDE DEF pr
    <2> QED BY DEF Db
  <1>5. ComputeTeamMemberRoles(d, S) = e
    BY DEF ComputeTeamMemberRoles
  <1> HIDE DEF e, pr
  <1> QED
    BY <1>3, <1>4, <1>5 DEF Keyed

LEMMA DeleteRolesKeyed ==
    ASSUME NEW d \in Db, NEW R, NEW T, Keyed(d, T)
    PROVE  Keyed(DeleteObjectRoles(d, R), T)
  BY DEF Keyed, DeleteObjectRoles, Db

LEMMA DeleteEvaluationsKeyed ==
    ASSUME NEW d \in Db, NEW O, NEW T, Keyed(d, T)
    PROVE  Keyed(DeleteEvaluationsOn(d, O), T)
  BY DEF Keyed, DeleteEvaluationsOn, Db

LEMMA CleanupKeyed ==
    ASSUME NEW d \in Db, NEW O, NEW T, Keyed(d, T)
    PROVE  /\ CleanupDeletedRoles(d, O) \in Db
           /\ CleanupDeletedRoles(d, O).objs = d.objs
           /\ Keyed(CleanupDeletedRoles(d, O), T)
  BY CleanupDeletedType, CleanupDeletedRolesRoles, DeleteRolesKeyed, DeleteRolesType,
     DeleteEvaluationsKeyed DEF CleanupDeletedRoles

\* A recomputation of provides_teams for some teams followed by one of the
\* evaluations of some roles, as every handler ends.
LEMMA BothKeyed ==
    ASSUME NEW d \in Db, NEW T, Keyed(d, T), d.objs \cap Team \subseteq T
    PROVE  /\ \A R : Keyed(RecomputeRoleEvaluations(d, R), T)
           /\ \A S : Keyed(ComputeTeamMemberRoles(d, S), T)
           /\ \A S, R : Keyed(RecomputeRoleEvaluations(ComputeTeamMemberRoles(d, S), R), T)
  BY ComputeType, ComputeKeyed, RecomputeKeyed

-----------------------------------------------------------------------------
(***************************************************************************)
(* The recomputation of everything                                         *)
(***************************************************************************)
\* provides_teams and RoleEvaluation aside, e is d.
SameSource(d, e) ==
    /\ e.objs = d.objs /\ e.parent = d.parent /\ e.perms = d.perms
    /\ e.roles = d.roles /\ e.uasg = d.uasg /\ e.tasg = d.tasg

\* Member roles are a function of the source tables.
LEMMA SourceGivesMembers ==
    ASSUME NEW d, NEW e, SameSource(d, e)
    PROVE  \A t : MemberRoles(e, t) = MemberRoles(d, t)
  <1>1. \A t : DirectMemberRoles(e, t) = DirectMemberRoles(d, t)
    BY DEF DirectMemberRoles, HasPerm, SameSource
  <1>2. TeamGraph(e) = TeamGraph(d)
    BY <1>1 DEF TeamGraph, SameSource
  <1> QED
    BY <1>1, <1>2 DEF MemberRoles, MemberRolesIn

\* Expected evaluations are a function of the source tables and provides_teams.
LEMMA SourceGivesEvaluations ==
    ASSUME NEW d, NEW e, SameSource(d, e), e.provides = d.provides
    PROVE  \A r : ExpectedEvaluations(e, r) = ExpectedEvaluations(d, r)
  <1>1. \A o : Below(e, o) = Below(d, o)
    BY DEF Below, SameSource
  <1>2. \A r : ExpectedDirect(e, r) = ExpectedDirect(d, r)
    BY <1>1 DEF ExpectedDirect, SameSource
  <1>3. \A r : TeamRoles(e, r) = TeamRoles(d, r)
    BY DEF TeamRoles, SameSource
  <1> QED
    BY <1>2, <1>3 DEF ExpectedEvaluations

LEMMA ComputeAllProvides ==
    ASSUME NEW d \in Db, Keyed(d, d.objs)
    PROVE  /\ ComputeAllTeamMemberRoles(d).provides
                = UNION {MemberRoles(d, t) \X {t} : t \in d.objs \cap Team}
           /\ SameSource(d, ComputeAllTeamMemberRoles(d))
  <1> DEFINE graph == TeamGraph(d)
             scope == d.objs \cap Reach(graph, Team \cap Team)
             pr    == {x \in d.provides : x[2] \notin scope}
                      \cup UNION {MemberRolesIn(d, graph, t) \X {t} : t \in scope}
             e     == [d EXCEPT !.provides = pr]
  <1>1. scope = d.objs \cap Team
    BY ReachContains, ReachType
  <1>2. {x \in d.provides : x[2] \notin scope} = {}
    <2> HIDE DEF scope
    <2>1. \A x \in d.provides : x[2] \in d.objs \cap Team
      BY DEF Keyed, Db
    <2> QED BY <1>1, <2>1
  <1>3. pr = UNION {MemberRoles(d, t) \X {t} : t \in d.objs \cap Team}
    <2> HIDE DEF scope
    <2> QED BY <1>1, <1>2 DEF MemberRoles
  <1>4. e.provides = pr /\ SameSource(d, e)
    <2> HIDE DEF pr
    <2> QED BY DEF Db, SameSource
  <1>5. ComputeAllTeamMemberRoles(d) = e
    BY DEF ComputeAllTeamMemberRoles, ComputeTeamMemberRoles
  <1> HIDE DEF e, pr
  <1> QED
    BY <1>3, <1>4, <1>5

LEMMA RecomputeAllEvals ==
    ASSUME NEW d \in Db, NEW T, Keyed(d, T)
    PROVE  /\ RecomputeAllRoleEvaluations(d).evals
                = UNION {{r} \X ExpectedEvaluations(d, r) : r \in d.roles}
           /\ SameSource(d, RecomputeAllRoleEvaluations(d))
           /\ RecomputeAllRoleEvaluations(d).provides = d.provides
  <1> DEFINE live == d.roles \cap d.roles
             ev   == {x \in d.evals : x[1] \notin live}
                     \cup UNION {{r} \X ExpectedEvaluations(d, r) : r \in live}
             e    == [d EXCEPT !.evals = ev]
  <1>1. ev = UNION {{r} \X ExpectedEvaluations(d, r) : r \in d.roles}
    <2>1. live = d.roles
      OBVIOUS
    <2>2. {x \in d.evals : x[1] \notin live} = {}
      BY DEF Keyed
    <2> QED BY <2>1, <2>2
  <1>2. e.evals = ev /\ SameSource(d, e) /\ e.provides = d.provides
    <2> HIDE DEF ev
    <2> QED BY DEF Db, SameSource
  <1>3. RecomputeAllRoleEvaluations(d) = e
    BY DEF RecomputeAllRoleEvaluations, RecomputeRoleEvaluations
  <1> HIDE DEF e, ev
  <1> QED
    BY <1>1, <1>2, <1>3

-----------------------------------------------------------------------------
(***************************************************************************)
(* What a role provides, searched for from the role                        *)
(***************************************************************************)
\* The teams whose member_team permission the role lists.
Targets(d, r) == {t \in Team : r \in DirectMemberRoles(d, t)}

\* The teams of which the role makes its holders members.
Provided(d, r) == Reach(TeamGraph(d), Targets(d, r))

\* Searching up from the team (compute_team_member_roles) and down from the
\* role find the same.
LEMMA ProvidedAreMembers ==
    ASSUME NEW d, NEW r, NEW t \in Team
    PROVE  r \in MemberRoles(d, t) <=> t \in Provided(d, r)
  <1> DEFINE up == Reach(Reversed(TeamGraph(d)), {t})
  <1>1. Targets(d, r) \in SUBSET Team
    BY DEF Targets
  <1>2. t \in Provided(d, r) <=> up \cap Targets(d, r) # {}
    <2> HIDE DEF up
    <2> QED BY <1>1, TeamGraphType, ReachDuality DEF Provided, up
  <1>3. up \subseteq Team
    BY ReachType
  <1>4. r \in MemberRoles(d, t) <=> \E a \in up : r \in DirectMemberRoles(d, a)
    BY DEF MemberRoles, MemberRolesIn
  <1> HIDE DEF up
  <1> QED
    BY <1>2, <1>3, <1>4 DEF Targets

\* A role provides its targets, and what is below what it provides.
LEMMA ProvidedClosed ==
    ASSUME NEW d, NEW r
    PROVE  /\ Targets(d, r) \subseteq Provided(d, r) /\ Provided(d, r) \subseteq Team
           /\ Closed(TeamGraph(d), Provided(d, r))
           /\ \A C \in SUBSET Team : Targets(d, r) \subseteq C /\ Closed(TeamGraph(d), C) => Provided(d, r) \subseteq C
  <1>1. Targets(d, r) \subseteq Team
    BY DEF Targets
  <1>2. Targets(d, r) \subseteq Provided(d, r)
    BY <1>1, ReachContains DEF Provided
  <1> QED
    BY <1>2, ReachType, ReachClosed, ReachLeast, TeamGraphType DEF Provided

\* Every provided team that is not a target is the child of a provided team.
LEMMA ProvidedStep ==
    ASSUME NEW d, NEW r, NEW t \in Provided(d, r), t \notin Targets(d, r)
    PROVE  \E a \in Provided(d, r) : <<a, t>> \in TeamGraph(d)
  <1> SUFFICES ASSUME \A a \in Provided(d, r) : <<a, t>> \notin TeamGraph(d) PROVE FALSE
    OBVIOUS
  <1> DEFINE C == Provided(d, r) \ {t}
  <1>1. C \in SUBSET Team /\ Targets(d, r) \subseteq C
    BY ProvidedClosed
  <1>2. Closed(TeamGraph(d), C)
    <2> SUFFICES ASSUME NEW e \in TeamGraph(d), e[1] \in C PROVE e[2] \in C
      BY DEF Closed
    <2>1. e[2] \in Provided(d, r)
      BY ProvidedClosed DEF Closed
    <2>2. e = <<e[1], e[2]>>
      BY TeamGraphType
    <2> QED BY <2>1, <2>2
  <1>3. Provided(d, r) \subseteq C
    BY <1>1, <1>2, ProvidedClosed
  <1> QED
    BY <1>3

\* A changed edge matters only to the roles that provide its source.
LEMMA SameProvided ==
    ASSUME NEW d, NEW e, NEW r, Targets(d, r) = Targets(e, r),
           \A x \in Provided(e, r) : \A y \in Team : <<x, y>> \in TeamGraph(d) <=> <<x, y>> \in TeamGraph(e)
    PROVE  Provided(d, r) = Provided(e, r)
  <1>0. \A x \in TeamGraph(d) \cup TeamGraph(e) : x = <<x[1], x[2]>> /\ x[2] \in Team
    BY TeamGraphType
  <1>1. Provided(d, r) \subseteq Provided(e, r)
    <2>1. Closed(TeamGraph(d), Provided(e, r))
      BY <1>0, ProvidedClosed DEF Closed
    <2> QED BY <2>1, ProvidedClosed
  <1>2. Provided(e, r) \subseteq Provided(d, r)
    <2>1. Closed(TeamGraph(e), Provided(d, r))
      BY <1>0, <1>1, ProvidedClosed DEF Closed
    <2> QED BY <2>1, ProvidedClosed
  <1> QED
    BY <1>1, <1>2

\* Teams out of reach of what changed keep their ancestors: the scope of
\* compute_team_member_roles is large enough.
LEMMA SameAncestors ==
    ASSUME NEW E \in SUBSET (Team \X Team), NEW F \in SUBSET (Team \X Team), NEW T \in SUBSET Team,
           \A x, y \in Team : y \notin T => (<<x, y>> \in E <=> <<x, y>> \in F),
           NEW t \in Team, t \notin Reach(E, T)
    PROVE  /\ Reach(Reversed(E), {t}) = Reach(Reversed(F), {t})
           /\ Reach(Reversed(E), {t}) \cap T = {}
  <1> DEFINE up == Reach(Reversed(E), {t})
             dn == Reach(Reversed(F), {t})
  <1>1. up \cap T = {}
    BY ReachDuality
  <1>2. up \in SUBSET Team /\ t \in up /\ Closed(Reversed(E), up)
    BY ReachType, ReachContains, ReachClosed, ReversedEdges
  <1>3. dn \in SUBSET Team /\ t \in dn /\ Closed(Reversed(F), dn)
    BY ReachType, ReachContains, ReachClosed, ReversedEdges
  <1> HIDE DEF up, dn
  <1>4. Closed(Reversed(F), up)
    <2> SUFFICES ASSUME NEW x \in Reversed(F), x[1] \in up PROVE x[2] \in up
      BY DEF Closed
    <2> DEFINE a == x[1]
               b == x[2]
    <2>0. a \in Team /\ b \in Team /\ <<b, a>> \in F
      BY ReversedEdges
    <2>1. <<b, a>> \in E
      BY <1>1, <2>0
    <2>2. <<a, b>> \in Reversed(E)
      BY <2>1, ReversedEdges
    <2> QED BY <1>2, <2>2 DEF Closed
  <1>5. dn \subseteq up
    BY <1>2, <1>4, ReachLeast DEF dn
  <1>6. Closed(Reversed(E), dn)
    <2> SUFFICES ASSUME NEW x \in Reversed(E), x[1] \in dn PROVE x[2] \in dn
      BY DEF Closed
    <2> DEFINE a == x[1]
               b == x[2]
    <2>0. a \in Team /\ b \in Team /\ <<b, a>> \in E
      BY ReversedEdges
    <2>1. <<b, a>> \in F
      BY <1>1, <1>5, <2>0
    <2>2. <<a, b>> \in Reversed(F)
      BY <2>1, ReversedEdges
    <2> QED BY <1>3, <2>2 DEF Closed
  <1>7. up \subseteq dn
    BY <1>3, <1>6, ReachLeast DEF up
  <1> QED
    BY <1>1, <1>5, <1>7 DEF up, dn

-----------------------------------------------------------------------------
(***************************************************************************)
(* Coherent tables                                                         *)
(***************************************************************************)
\* Parents exist and are of the type the registry gives.
ParentsExist(d) ==
    \A o \in d.objs : \/ d.parent[o] = NoObj
                      \/ d.parent[o] \in d.objs /\ TypeOf[d.parent[o]] = ParentType[TypeOf[o]]

\* The source tables refer to existing rows.
Sound(d) == /\ d \in Db /\ Linked(d) /\ ParentsExist(d)
            /\ \A r \in d.roles : r[2] \in d.objs
            /\ \A a \in d.tasg : a[1] \in d.objs

\* provides_teams and RoleEvaluation hold what the source tables imply.
RightProvides(d) ==
    \A r \in Role, t \in Team : <<r, t>> \in d.provides <=> t \in Provided(d, r)
RightEvals(d) ==
    \A r \in Role, e \in Evaluation :
       <<r, e>> \in d.evals <=> r \in d.roles /\ e \in ExpectedEvaluations(d, r)
Coherent(d) == RightProvides(d) /\ RightEvals(d)

LEMMA TeamRolesPoints ==
    ASSUME NEW d \in Db, NEW r
    PROVE  \A q : q \in TeamRoles(d, r) <=> \E t \in Team : <<r, t>> \in d.provides /\ <<t, q>> \in d.tasg
  <1>1. \A a \in d.tasg : a = <<a[1], a[2]>> /\ a[1] \in Team
    BY DEF Db
  <1> QED BY <1>1 DEF TeamRoles

LEMMA GraphPoints ==
    ASSUME NEW d
    PROVE  \A x, y : <<x, y>> \in TeamGraph(d) <=>
              x \in Team /\ y \in Team /\ \E q : q \in DirectMemberRoles(d, y) /\ <<x, q>> \in d.tasg
  BY DEF TeamGraph

\* Only existing roles provide anything, and they provide existing teams.
LEMMA ProvidedExist ==
    ASSUME NEW d, Sound(d), NEW r, NEW t \in Provided(d, r)
    PROVE  t \in d.objs /\ r \in d.roles
  <1>1. \A x, q : q \in DirectMemberRoles(d, x) => x \in d.objs /\ q \in d.roles
    BY DEF DirectMemberRoles, Sound
  <1>2. t \in d.objs
    <2>1. CASE t \in Targets(d, r)
      BY <1>1, <2>1 DEF Targets
    <2>2. CASE t \notin Targets(d, r)
      BY <1>1, <2>2, ProvidedStep, GraphPoints
    <2> QED BY <2>1, <2>2
  <1>3. r \in d.roles
    <2> SUFFICES ASSUME r \notin d.roles PROVE FALSE
      OBVIOUS
    <2>1. Targets(d, r) = {}
      BY <1>1 DEF Targets
    <2>2. Provided(d, r) \subseteq {}
      BY <2>1, ProvidedClosed DEF Closed
    <2> QED BY <2>2
  <1> QED BY <1>2, <1>3

LEMMA SamePairs ==
    ASSUME NEW A, NEW B, NEW S \in SUBSET (A \X B), NEW T \in SUBSET (A \X B),
           \A a \in A, b \in B : <<a, b>> \in S <=> <<a, b>> \in T
    PROVE  S = T
  <1>1. \A x \in S \cup T : x = <<x[1], x[2]>> /\ x[1] \in A /\ x[2] \in B
    OBVIOUS
  <1> QED
    BY <1>1

\* The two computed tables are then those of the property.
LEMMA CoherentMeans ==
    ASSUME NEW d, Sound(d), Coherent(d)
    PROVE  ProvidesCoherentIn(d) /\ EvalsCoherentIn(d) /\ \A x \in d.evals : x[2][2] \in d.objs
  <1>0. d \in Db /\ d.roles \subseteq Role /\ d.provides \subseteq Role \X Team
        /\ d.evals \subseteq Role \X Evaluation
    BY DEF Sound, Db
  <1> DEFINE P == UNION {MemberRoles(d, t) \X {t} : t \in d.objs \cap Team}
             X == UNION {{r} \X ExpectedEvaluations(d, r) : r \in d.roles}
  <1>1. P \subseteq Role \X Team
    BY <1>0, MemberRolesType DEF MemberRoles
  <1>2. X \subseteq Role \X Evaluation
    BY <1>0, ExpectedEvaluationsType
  <1>3. \A r \in Role, t \in Team : <<r, t>> \in P <=> t \in Provided(d, r)
    <2>1. \A r \in Role, t \in Team : <<r, t>> \in P <=> t \in d.objs /\ r \in MemberRoles(d, t)
      OBVIOUS
    <2> QED BY <2>1, ProvidedAreMembers, ProvidedExist
  <1>4. \A r \in Role, e \in Evaluation : <<r, e>> \in X <=> r \in d.roles /\ e \in ExpectedEvaluations(d, r)
    OBVIOUS
  <1> HIDE DEF P, X
  <1>6. d.provides = P
    <2>1. \A r \in Role, t \in Team : <<r, t>> \in d.provides <=> <<r, t>> \in P
      BY <1>3 DEF Coherent, RightProvides
    <2>2. d.provides \in SUBSET (Role \X Team) /\ P \in SUBSET (Role \X Team)
      BY <1>0, <1>1
    <2> QED BY ONLY <2>1, <2>2, SamePairs
  <1>7. d.evals = X
    <2>1. \A r \in Role, e \in Evaluation : <<r, e>> \in d.evals <=> <<r, e>> \in X
      BY <1>4 DEF Coherent, RightEvals
    <2>2. d.evals \in SUBSET (Role \X Evaluation) /\ X \in SUBSET (Role \X Evaluation)
      BY <1>0, <1>2
    <2> QED BY ONLY <2>1, <2>2, SamePairs
  <1>8. \A x \in d.evals : x[2][2] \in d.objs
    <2>1. Linked(d) /\ \A q \in d.roles : q[2] \in d.objs
      BY DEF Sound
    <2>2. \A r \in d.roles : \A e \in ExpectedEvaluations(d, r) : e[2] \in d.objs
      BY <1>0, <2>1, ExpectedOnObjects
    <2> QED BY <1>7, <2>2 DEF X
  <1> QED
    BY <1>6, <1>7, <1>8 DEF P, X, ProvidesCoherentIn, EvalsCoherentIn

\* What bulk_ancestor_roles looks up in the evaluations is there.
LEMMA ProvidedIsEvaluated ==
    ASSUME NEW d, Sound(d), Coherent(d), NEW r, NEW t, <<r, t>> \in d.provides
    PROVE  <<r, <<MemberTeam, t>>>> \in d.evals /\ r \in d.roles
  <1>0. d \in Db /\ r \in Role /\ t \in Team
    BY DEF Sound, Db
  <1>1. t \in Provided(d, r)
    BY <1>0 DEF Coherent, RightProvides
  <1>2. t \in d.objs /\ r \in d.roles
    BY <1>1, ProvidedExist
  <1>3. ASSUME NEW q \in DirectMemberRoles(d, t)
        PROVE  <<MemberTeam, t>> \in ExpectedDirect(d, q)
    <2>1. MemberTeam \in d.perms[q[1]] /\ (q[2] = t \/ (TypeOf[q[2]] = "org" /\ d.parent[t] = q[2]))
      BY <1>3 DEF DirectMemberRoles, HasPerm
    <2>2. MemberTeam.type = "team" /\ ~IsAdd(MemberTeam) /\ EvalType(MemberTeam) = "team" /\ TypeOf[t] = "team"
      BY <1>0 DEF MemberTeam, IsAdd, EvalType, Team
    <2>3. CASE q[2] = t
      BY <2>1, <2>2, <2>3 DEF ExpectedDirect
    <2>4. CASE q[2] # t
      <3>1. t \in Below(d, q[2])
        BY <1>2, <2>1, <2>4 DEF Below
      <3> QED BY <2>1, <2>2, <2>4, <3>1 DEF ExpectedDirect
    <2> QED BY <2>3, <2>4
  <1>4. <<MemberTeam, t>> \in ExpectedEvaluations(d, r)
    <2>1. CASE t \in Targets(d, r)
      BY <1>3, <2>1 DEF Targets, ExpectedEvaluations
    <2>2. CASE t \notin Targets(d, r)
      <3>0. PICK a \in Provided(d, r) : \E q : q \in DirectMemberRoles(d, t) /\ <<a, q>> \in d.tasg
        BY <1>1, <2>2, ProvidedStep, GraphPoints
      <3>1. PICK q : q \in DirectMemberRoles(d, t) /\ <<a, q>> \in d.tasg
        BY <3>0
      <3>2. a \in Team /\ <<r, a>> \in d.provides
        BY <1>0, <3>1, ProvidedClosed DEF Coherent, RightProvides
      <3>3. q \in TeamRoles(d, r)
        BY <1>0, <3>1, <3>2, TeamRolesPoints
      <3> QED BY <1>3, <3>1, <3>3 DEF ExpectedEvaluations
    <2> QED BY <2>1, <2>2
  <1>5. <<MemberTeam, t>> \in Evaluation
    BY <1>0, <1>4, ExpectedEvaluationsType
  <1> QED
    BY <1>0, <1>2, <1>4, <1>5 DEF Coherent, RightEvals

-----------------------------------------------------------------------------
(***************************************************************************)
(* What the two recomputations leave                                       *)
(***************************************************************************)
LEMMA SameReach ==
    ASSUME NEW E \in SUBSET (Team \X Team), NEW F \in SUBSET (Team \X Team), NEW S \in SUBSET Team,
           \A x \in Reach(E, S) : \A y \in Team : <<x, y>> \in E <=> <<x, y>> \in F
    PROVE  Reach(E, S) = Reach(F, S)
  <1>0. \A x \in E \cup F : x = <<x[1], x[2]>> /\ x[2] \in Team
    OBVIOUS
  <1>1. Reach(F, S) \subseteq Reach(E, S)
    <2>1. Closed(E, Reach(E, S)) /\ S \subseteq Reach(E, S) /\ Reach(E, S) \in SUBSET Team
      BY ReachClosed, ReachContains, ReachType
    <2>2. Closed(F, Reach(E, S))
      BY <1>0, <2>1 DEF Closed
    <2> QED BY <2>1, <2>2, ReachLeast
  <1>2. Reach(E, S) \subseteq Reach(F, S)
    <2>1. Closed(F, Reach(F, S)) /\ S \subseteq Reach(F, S) /\ Reach(F, S) \in SUBSET Team
      BY ReachClosed, ReachContains, ReachType
    <2>2. Closed(E, Reach(F, S))
      BY <1>0, <1>1, <2>1 DEF Closed
    <2> QED BY <2>1, <2>2, ReachLeast
  <1> QED
    BY <1>1, <1>2

LEMMA SameSourceSound ==
    ASSUME NEW d, NEW e \in Db, SameSource(d, e), Sound(d)
    PROVE  Sound(e)
  BY DEF Sound, SameSource, Linked, ParentsExist

\* What a role provides is a function of the source tables.
LEMMA SourceGivesProvided ==
    ASSUME NEW d, NEW e, SameSource(d, e)
    PROVE  \A r : Provided(e, r) = Provided(d, r) /\ Targets(e, r) = Targets(d, r)
  <1>1. \A t : DirectMemberRoles(e, t) = DirectMemberRoles(d, t)
    BY DEF DirectMemberRoles, HasPerm, SameSource
  <1>2. TeamGraph(e) = TeamGraph(d)
    BY <1>1 DEF TeamGraph, SameSource
  <1> QED
    BY <1>1, <1>2 DEF Provided, Targets

LEMMA ComputeFields ==
    ASSUME NEW d \in Db, NEW T
    PROVE  /\ ComputeTeamMemberRoles(d, T) \in Db
           /\ SameSource(d, ComputeTeamMemberRoles(d, T))
           /\ ComputeTeamMemberRoles(d, T).evals = d.evals
           /\ \A r \in Role, t \in Team :
                 <<r, t>> \in ComputeTeamMemberRoles(d, T).provides <=>
                    \/ t \in d.objs \cap Reach(TeamGraph(d), T \cap Team) /\ r \in MemberRoles(d, t)
                    \/ t \notin d.objs \cap Reach(TeamGraph(d), T \cap Team) /\ <<r, t>> \in d.provides
  <1> DEFINE graph == TeamGraph(d)
             scope == d.objs \cap Reach(graph, T \cap Team)
             pr    == {x \in d.provides : x[2] \notin scope}
                      \cup UNION {MemberRolesIn(d, graph, t) \X {t} : t \in scope}
             e     == [d EXCEPT !.provides = pr]
  <1>1. \A r \in Role, t \in Team :
           <<r, t>> \in pr <=> \/ t \in scope /\ r \in MemberRoles(d, t)
                               \/ t \notin scope /\ <<r, t>> \in d.provides
    <2> HIDE DEF scope
    <2> QED BY DEF MemberRoles
  <1>2. e.evals = d.evals /\ e.provides = pr /\ SameSource(d, e)
    <2> HIDE DEF pr
    <2> QED BY DEF Db, SameSource
  <1>3. ComputeTeamMemberRoles(d, T) = e
    BY DEF ComputeTeamMemberRoles
  <1> HIDE DEF e, pr
  <1> QED
    BY <1>1, <1>2, <1>3, ComputeType

\* With nothing to bring up to date nothing changes.
LEMMA ComputeNothing ==
    ASSUME NEW d \in Db, NEW T, T \cap Team = {}
    PROVE  ComputeTeamMemberRoles(d, T) = d
  <1>1. Reach(TeamGraph(d), {}) \subseteq {}
    BY ReachLeast DEF Closed
  <1> DEFINE scope == d.objs \cap Reach(TeamGraph(d), T \cap Team)
             pr    == {x \in d.provides : x[2] \notin scope}
                      \cup UNION {MemberRolesIn(d, TeamGraph(d), t) \X {t} : t \in scope}
  <1>2. scope = {}
    BY <1>1
  <1>3. pr = d.provides
    <2> HIDE DEF scope
    <2> QED BY <1>2
  <1>4. ComputeTeamMemberRoles(d, T) = [d EXCEPT !.provides = pr]
    BY DEF ComputeTeamMemberRoles
  <1> HIDE DEF pr
  <1> QED
    BY <1>3, <1>4 DEF Db

\* compute_team_member_roles(team_ids) suffices when the teams whose direct
\* member roles or parent teams changed are among team_ids.
LEMMA ScopedCompute ==
    ASSUME NEW d, NEW e, Sound(d), Sound(e), RightProvides(d),
           e.provides = d.provides, d.objs \cap Team \subseteq e.objs, NEW T,
           \A y \in Team \ T : DirectMemberRoles(e, y) = DirectMemberRoles(d, y),
           \A x, y \in Team : y \notin T => (<<x, y>> \in TeamGraph(e) <=> <<x, y>> \in TeamGraph(d))
    PROVE  RightProvides(ComputeTeamMemberRoles(e, T))
  <1> DEFINE f == ComputeTeamMemberRoles(e, T)
             S == T \cap Team
  <1>0. e \in Db /\ d \in Db
    BY DEF Sound
  <1>1. \A r : Provided(f, r) = Provided(e, r)
    BY <1>0, ComputeFields, SourceGivesProvided
  <1> SUFFICES ASSUME NEW r \in Role, NEW t \in Team
               PROVE  <<r, t>> \in f.provides <=> t \in Provided(e, r)
    BY <1>1 DEF RightProvides
  <1>2. r \in MemberRoles(e, t) <=> t \in Provided(e, r)
    BY ProvidedAreMembers
  <1>3. CASE t \in e.objs \cap Reach(TeamGraph(e), S)
    BY <1>0, <1>2, <1>3, ComputeFields
  <1>4. CASE t \notin e.objs
    <2>1. t \notin Provided(e, r)
      BY <1>4, ProvidedExist
    <2>2. t \notin Provided(d, r)
      BY <1>4, ProvidedExist
    <2>3. <<r, t>> \notin d.provides
      BY <2>2 DEF RightProvides
    <2> QED BY <1>0, <1>4, <2>1, <2>3, ComputeFields
  <1>5. CASE t \in e.objs /\ t \notin Reach(TeamGraph(e), S)
    <2>1. /\ Reach(Reversed(TeamGraph(e)), {t}) = Reach(Reversed(TeamGraph(d)), {t})
          /\ Reach(Reversed(TeamGraph(e)), {t}) \cap S = {}
      BY <1>5, SameAncestors, TeamGraphType
    <2>2. MemberRoles(e, t) = MemberRoles(d, t)
      <3>1. \A a \in Reach(Reversed(TeamGraph(e)), {t}) : DirectMemberRoles(e, a) = DirectMemberRoles(d, a)
        BY <2>1, ReachType
      <3> QED BY <2>1, <3>1 DEF MemberRoles, MemberRolesIn
    <2>3. <<r, t>> \in d.provides <=> r \in MemberRoles(d, t)
      BY ProvidedAreMembers DEF RightProvides
    <2> QED BY <1>0, <1>2, <1>5, <2>2, <2>3, ComputeFields
  <1> QED
    BY <1>3, <1>4, <1>5

LEMMA RecomputeFields ==
    ASSUME NEW d \in Db, NEW U
    PROVE  /\ RecomputeRoleEvaluations(d, U) \in Db
           /\ SameSource(d, RecomputeRoleEvaluations(d, U))
           /\ RecomputeRoleEvaluations(d, U).provides = d.provides
           /\ \A r \in Role, x \in Evaluation :
                 <<r, x>> \in RecomputeRoleEvaluations(d, U).evals <=>
                    \/ r \in U \cap d.roles /\ x \in ExpectedEvaluations(d, r)
                    \/ r \notin U \cap d.roles /\ <<r, x>> \in d.evals
  <1> DEFINE live == U \cap d.roles
             ev   == {x \in d.evals : x[1] \notin live}
                     \cup UNION {{r} \X ExpectedEvaluations(d, r) : r \in live}
             e    == [d EXCEPT !.evals = ev]
  <1>1. \A r \in Role, x \in Evaluation :
           <<r, x>> \in ev <=> \/ r \in live /\ x \in ExpectedEvaluations(d, r)
                               \/ r \notin live /\ <<r, x>> \in d.evals
    <2> HIDE DEF live
    <2> QED OBVIOUS
  <1>2. e.evals = ev /\ e.provides = d.provides /\ SameSource(d, e)
    <2> HIDE DEF ev
    <2> QED BY DEF Db, SameSource
  <1>3. RecomputeRoleEvaluations(d, U) = e
    BY DEF RecomputeRoleEvaluations
  <1> HIDE DEF e, ev
  <1> QED
    BY <1>1, <1>2, <1>3, RecomputeType

\* recompute_role_evaluations(object_roles) suffices when the rows of every
\* other role are right already.
LEMMA ScopedRecompute ==
    ASSUME NEW e, Sound(e), RightProvides(e), NEW U,
           \A r \in Role, x \in Evaluation : r \notin U \cap e.roles =>
              (<<r, x>> \in e.evals <=> r \in e.roles /\ x \in ExpectedEvaluations(e, r))
    PROVE  /\ Sound(RecomputeRoleEvaluations(e, U)) /\ Coherent(RecomputeRoleEvaluations(e, U))
           /\ SameSource(e, RecomputeRoleEvaluations(e, U))
  <1> DEFINE g == RecomputeRoleEvaluations(e, U)
  <1>0. e \in Db /\ g \in Db /\ SameSource(e, g) /\ g.provides = e.provides
    BY RecomputeFields DEF Sound
  <1>1. RightProvides(g)
    BY <1>0, SourceGivesProvided DEF RightProvides
  <1>2. \A r : ExpectedEvaluations(g, r) = ExpectedEvaluations(e, r)
    BY <1>0, SourceGivesEvaluations
  <1>3. \A r \in Role, x \in Evaluation :
           <<r, x>> \in g.evals <=> \/ r \in U \cap e.roles /\ x \in ExpectedEvaluations(e, r)
                                    \/ r \notin U \cap e.roles /\ <<r, x>> \in e.evals
    BY <1>0, RecomputeFields
  <1>4. g.roles = e.roles
    BY <1>0 DEF SameSource
  <1>5. RightEvals(g)
    <2> HIDE DEF g
    <2> QED BY <1>2, <1>3, <1>4 DEF RightEvals
  <1> QED
    BY <1>0, <1>1, <1>5, SameSourceSound DEF Coherent

\* How a handler that changed d to e ends: it brings the teams T, then the roles
\* U up to date.
Ended(e, T, U) == RecomputeRoleEvaluations(ComputeTeamMemberRoles(e, T), U)

\* The role's rows in d are right in e too.
RowsCarryOver(d, e, r) ==
    /\ r \in d.roles
    /\ Provided(e, r) = Provided(d, r)
    /\ \A h \in Provided(d, r) : \A q : <<h, q>> \in e.tasg <=> <<h, q>> \in d.tasg
    /\ ExpectedDirect(e, r) = ExpectedDirect(d, r)
    /\ \A q \in TeamRoles(d, r) : ExpectedDirect(e, q) = ExpectedDirect(d, q)

LEMMA HandlerEnds ==
    ASSUME NEW d, NEW e, Sound(d), Sound(e), Coherent(d),
           e.provides = d.provides, e.evals = d.evals,
           d.objs \cap Team \subseteq e.objs, d.roles \subseteq e.roles, NEW T, NEW U,
           \A y \in Team \ T : DirectMemberRoles(e, y) = DirectMemberRoles(d, y),
           \A x, y \in Team : y \notin T => (<<x, y>> \in TeamGraph(e) <=> <<x, y>> \in TeamGraph(d)),
           \A r \in e.roles \ U : RowsCarryOver(d, e, r)
    PROVE  Sound(Ended(e, T, U)) /\ Coherent(Ended(e, T, U)) /\ SameSource(e, Ended(e, T, U))
  <1> DEFINE f == ComputeTeamMemberRoles(e, T)
  <1>0. /\ d \in Db /\ e \in Db /\ f \in Db /\ SameSource(e, f) /\ f.evals = e.evals
        /\ d.roles \subseteq Role /\ e.roles \subseteq Role
    BY ComputeFields DEF Sound, Db
  <1>1. RightProvides(f)
    BY ScopedCompute DEF Coherent
  <1>2. Sound(f)
    BY <1>0, SameSourceSound
  <1>3. \A r : Provided(f, r) = Provided(e, r)
    BY <1>0, SourceGivesProvided
  <1> HIDE DEF f
  <1>4. \A r : ExpectedDirect(f, r) = ExpectedDirect(e, r)
    <2>1. \A o : Below(f, o) = Below(e, o)
      BY <1>0 DEF Below, SameSource
    <2> QED BY <1>0, <2>1 DEF ExpectedDirect, SameSource
  <1>5. ASSUME NEW r \in e.roles \ U
        PROVE  r \in d.roles /\ ExpectedEvaluations(f, r) = ExpectedEvaluations(d, r)
    <2>1. RowsCarryOver(d, e, r) /\ r \in Role
      BY <1>0
    <2>2. \A q : q \in TeamRoles(f, r) <=> \E t \in Team : t \in Provided(e, r) /\ <<t, q>> \in e.tasg
      <3>1. \A t \in Team : <<r, t>> \in f.provides <=> t \in Provided(e, r)
        BY <1>1, <1>3, <2>1 DEF RightProvides
      <3>2. f.tasg = e.tasg
        BY <1>0 DEF SameSource
      <3> QED BY <1>0, <3>1, <3>2, TeamRolesPoints
    <2>3. \A q : q \in TeamRoles(d, r) <=> \E t \in Team : t \in Provided(d, r) /\ <<t, q>> \in d.tasg
      <3>1. \A t \in Team : <<r, t>> \in d.provides <=> t \in Provided(d, r)
        BY <2>1 DEF Coherent, RightProvides
      <3> QED BY <1>0, <3>1, TeamRolesPoints
    <2>4. TeamRoles(f, r) = TeamRoles(d, r)
      <3>1. \A q : q \in TeamRoles(f, r) <=> q \in TeamRoles(d, r)
        BY <2>1, <2>2, <2>3 DEF RowsCarryOver
      <3> QED BY <3>1
    <2> QED BY <1>4, <2>1, <2>4 DEF ExpectedEvaluations, RowsCarryOver
  <1>6. \A r \in Role, x \in Evaluation : r \notin U \cap f.roles =>
           (<<r, x>> \in f.evals <=> r \in f.roles /\ x \in ExpectedEvaluations(f, r))
    <2> SUFFICES ASSUME NEW r \in Role, NEW x \in Evaluation, r \notin U \cap f.roles
                 PROVE  <<r, x>> \in f.evals <=> r \in f.roles /\ x \in ExpectedEvaluations(f, r)
      OBVIOUS
    <2>1. f.roles = e.roles /\ f.evals = d.evals
      BY <1>0 DEF SameSource
    <2>2. <<r, x>> \in d.evals <=> r \in d.roles /\ x \in ExpectedEvaluations(d, r)
      BY DEF Coherent, RightEvals
    <2> QED BY <1>5, <2>1, <2>2
  <1>7. /\ Sound(RecomputeRoleEvaluations(f, U)) /\ Coherent(RecomputeRoleEvaluations(f, U))
        /\ SameSource(f, RecomputeRoleEvaluations(f, U))
    BY <1>1, <1>2, <1>6, ScopedRecompute
  <1>8. SameSource(e, RecomputeRoleEvaluations(f, U))
    BY <1>0, <1>7 DEF SameSource
  <1> QED
    BY <1>7, <1>8 DEF Ended, f

-----------------------------------------------------------------------------
(***************************************************************************)
(* Deleting unused roles; accounts                                         *)
(***************************************************************************)
LEMMA DirectIsLocal ==
    ASSUME NEW d, NEW e, e.objs = d.objs, e.parent = d.parent, e.perms = d.perms
    PROVE  \A r : ExpectedDirect(e, r) = ExpectedDirect(d, r)
  <1>1. \A o : Below(e, o) = Below(d, o)
    BY DEF Below
  <1> QED BY <1>1 DEF ExpectedDirect

LEMMA DeleteRolesFields ==
    ASSUME NEW d \in Db, NEW R
    PROVE  LET e == DeleteObjectRoles(d, R)
           IN  /\ e \in Db
               /\ e.objs = d.objs /\ e.parent = d.parent /\ e.perms = d.perms /\ e.roles = d.roles \ R
               /\ \A h, q : <<h, q>> \in e.uasg <=> <<h, q>> \in d.uasg /\ q \notin R
               /\ \A h, q : <<h, q>> \in e.tasg <=> <<h, q>> \in d.tasg /\ q \notin R
               /\ \A r, t : <<r, t>> \in e.provides <=> <<r, t>> \in d.provides /\ r \notin R
               /\ \A r, x : <<r, x>> \in e.evals <=> <<r, x>> \in d.evals /\ r \notin R
               /\ e.uasg \subseteq d.uasg /\ e.tasg \subseteq d.tasg
  <1> DEFINE e == DeleteObjectRoles(d, R)
  <1>1. /\ e.objs = d.objs /\ e.parent = d.parent /\ e.perms = d.perms /\ e.roles = d.roles \ R
        /\ e.uasg = {a \in d.uasg : a[2] \notin R} /\ e.tasg = {a \in d.tasg : a[2] \notin R}
        /\ e.provides = {x \in d.provides : x[1] \notin R} /\ e.evals = {x \in d.evals : x[1] \notin R}
    BY DEF DeleteObjectRoles, Db
  <1>2. e \in Db
    BY DeleteRolesType
  <1> HIDE DEF e
  <1>3. /\ \A h, q : <<h, q>> \in e.uasg <=> <<h, q>> \in d.uasg /\ q \notin R
        /\ \A h, q : <<h, q>> \in e.tasg <=> <<h, q>> \in d.tasg /\ q \notin R
    BY <1>1
  <1>4. /\ \A r, t : <<r, t>> \in e.provides <=> <<r, t>> \in d.provides /\ r \notin R
        /\ \A r, x : <<r, x>> \in e.evals <=> <<r, x>> \in d.evals /\ r \notin R
    BY <1>1
  <1>5. e.uasg \subseteq d.uasg /\ e.tasg \subseteq d.tasg
    BY <1>1
  <1> QED
    BY <1>1, <1>2, <1>3, <1>4, <1>5 DEF e

LEMMA DeleteRolesSound ==
    ASSUME NEW d, Sound(d), NEW R
    PROVE  Sound(DeleteObjectRoles(d, R))
  <1> DEFINE e == DeleteObjectRoles(d, R)
  <1>1. /\ d \in Db /\ e \in Db /\ e.objs = d.objs /\ e.parent = d.parent /\ e.roles = d.roles \ R
        /\ e.uasg \subseteq d.uasg /\ e.tasg \subseteq d.tasg
    BY DeleteRolesFields DEF Sound
  <1>2. Linked(e)
    BY DeleteRolesOrphans DEF Sound
  <1> HIDE DEF e
  <1> QED
    BY <1>1, <1>2 DEF Sound, ParentsExist, e

\* A role that nobody holds affects no row of any other role.
LEMMA UnusedRolesGo ==
    ASSUME NEW d, Sound(d), Coherent(d), NEW R, R \cap d.roles \subseteq Orphans(d)
    PROVE  Sound(DeleteObjectRoles(d, R)) /\ Coherent(DeleteObjectRoles(d, R))
  <1> DEFINE e == DeleteObjectRoles(d, R)
  <1>0. d \in Db /\ Linked(d) /\ Sound(e)
    BY DeleteRolesSound DEF Sound
  <1>1. \A h, q : <<h, q>> \in d.tasg => q \notin R
    BY <1>0 DEF Orphans, Linked, Db
  <1>2. /\ e \in Db /\ e.objs = d.objs /\ e.parent = d.parent /\ e.perms = d.perms /\ e.roles = d.roles \ R
        /\ \A h, q : <<h, q>> \in e.tasg <=> <<h, q>> \in d.tasg
        /\ \A r, t : <<r, t>> \in e.provides <=> <<r, t>> \in d.provides /\ r \notin R
        /\ \A r, x : <<r, x>> \in e.evals <=> <<r, x>> \in d.evals /\ r \notin R
    BY <1>0, <1>1, DeleteRolesFields
  <1> HIDE DEF e
  <1>3. \A y, r : r \in DirectMemberRoles(e, y) <=> r \in DirectMemberRoles(d, y) /\ r \notin R
    BY <1>2 DEF DirectMemberRoles, HasPerm
  <1>4. \A x, y : <<x, y>> \in TeamGraph(e) <=> <<x, y>> \in TeamGraph(d)
    BY <1>1, <1>2, <1>3, GraphPoints
  <1>5. \A r : r \notin R => Provided(e, r) = Provided(d, r)
    <2> SUFFICES ASSUME NEW r, r \notin R PROVE Provided(e, r) = Provided(d, r)
      OBVIOUS
    <2>1. Targets(e, r) = Targets(d, r)
      BY <1>3 DEF Targets
    <2> QED BY <1>4, <2>1, SameProvided
  <1>6. RightProvides(e)
    <2> SUFFICES ASSUME NEW r \in Role, NEW t \in Team
                 PROVE  <<r, t>> \in e.provides <=> t \in Provided(e, r)
      BY DEF RightProvides
    <2>1. CASE r \in R
      BY <1>0, <1>2, <2>1, ProvidedExist
    <2>2. CASE r \notin R
      BY <1>2, <1>5, <2>2 DEF Coherent, RightProvides
    <2> QED BY <2>1, <2>2
  <1>7. \A r : r \notin R => ExpectedEvaluations(e, r) = ExpectedEvaluations(d, r)
    <2> SUFFICES ASSUME NEW r, r \notin R PROVE ExpectedEvaluations(e, r) = ExpectedEvaluations(d, r)
      OBVIOUS
    <2>1. \A q : ExpectedDirect(e, q) = ExpectedDirect(d, q)
      BY <1>2, DirectIsLocal
    <2>2. \A q : q \in TeamRoles(e, r) <=> q \in TeamRoles(d, r)
      BY <1>0, <1>2, TeamRolesPoints
    <2>3. TeamRoles(e, r) = TeamRoles(d, r)
      BY <2>2
    <2> QED BY <2>1, <2>3 DEF ExpectedEvaluations
  <1>8. RightEvals(e)
    BY <1>2, <1>7 DEF Coherent, RightEvals
  <1> QED
    BY <1>0, <1>6, <1>8 DEF Coherent, e

LEMMA CleanupCoherent ==
    ASSUME NEW d, Sound(d), Coherent(d)
    PROVE  Sound(CleanupOrphanedObjectRoles(d)) /\ Coherent(CleanupOrphanedObjectRoles(d))
  BY UnusedRolesGo DEF CleanupOrphanedObjectRoles

\* Coherence does not depend on the accounts and the role assignments of users.
SameButUsers(d, e) ==
    /\ e.objs = d.objs /\ e.parent = d.parent /\ e.perms = d.perms
    /\ e.roles = d.roles /\ e.tasg = d.tasg /\ e.provides = d.provides /\ e.evals = d.evals

LEMMA UsersAside ==
    ASSUME NEW d, NEW e, SameButUsers(d, e)
    PROVE  /\ Coherent(d) => Coherent(e)
           /\ Sound(d) /\ e \in Db /\ Linked(e) => Sound(e)
  <1>1. \A t : DirectMemberRoles(e, t) = DirectMemberRoles(d, t)
    BY DEF DirectMemberRoles, HasPerm, SameButUsers
  <1>2. TeamGraph(e) = TeamGraph(d)
    BY <1>1 DEF TeamGraph, SameButUsers
  <1>3. \A r : Provided(e, r) = Provided(d, r)
    BY <1>1, <1>2 DEF Provided, Targets
  <1>4. \A r : ExpectedDirect(e, r) = ExpectedDirect(d, r)
    BY DirectIsLocal DEF SameButUsers
  <1>5. \A r : TeamRoles(e, r) = TeamRoles(d, r)
    BY DEF TeamRoles, SameButUsers
  <1>6. \A r : ExpectedEvaluations(e, r) = ExpectedEvaluations(d, r)
    BY <1>4, <1>5 DEF ExpectedEvaluations
  <1>7. Coherent(d) => Coherent(e)
    BY <1>3, <1>6 DEF Coherent, RightProvides, RightEvals, SameButUsers
  <1>8. Sound(d) /\ e \in Db /\ Linked(e) => Sound(e)
    BY DEF Sound, ParentsExist, SameButUsers
  <1> QED
    BY <1>7, <1>8

-----------------------------------------------------------------------------
(***************************************************************************)
(* Giving and removing assignments                                         *)
(***************************************************************************)
\* team_ids_from_role_target finds every team on which a role gives membership.
LEMMA TargetsOfRole ==
    ASSUME NEW e, NEW y \in Team, NEW r \in DirectMemberRoles(e, y)
    PROVE  y \in TeamIdsFromRoleTarget(e, r) /\ HasPerm(e, r, MemberTeam)
  <1>1. HasPerm(e, r, MemberTeam) /\ (r[2] = y \/ (TypeOf[r[2]] = "org" /\ y \in TeamsOf(e, r[2])))
    BY DEF DirectMemberRoles, TeamsOf
  <1> QED
    BY <1>1 DEF TeamIdsFromRoleTarget, Team

LEMMA CollectedTeams ==
    ASSUME NEW e, NEW A, NEW y \in Team, y \notin CollectRecomputeTeamIds(e, A)
    PROVE  \A r \in A : r \notin DirectMemberRoles(e, y)
  BY TargetsOfRole DEF CollectRecomputeTeamIds

\* Only roles of A were added, and only roles of A were given to or taken from
\* teams, all of them in H: the rows to compute again are those of A and of the
\* roles that make somebody a member of a team of H.
LEMMA AssignmentsChanged ==
    ASSUME NEW d, NEW e, Sound(d), Sound(e), Coherent(d),
           e.objs = d.objs, e.parent = d.parent, e.perms = d.perms,
           e.provides = d.provides, e.evals = d.evals, d.roles \subseteq e.roles,
           NEW A, NEW H, e.roles \ d.roles \subseteq A,
           \A h, q : h \notin H \/ q \notin A => (<<h, q>> \in e.tasg <=> <<h, q>> \in d.tasg),
           NEW U, A \subseteq U, AncestorRoles(e, H) \subseteq U
    PROVE  LET g == Ended(e, CollectRecomputeTeamIds(e, A), U)
           IN  Sound(g) /\ Coherent(g) /\ SameSource(e, g)
  <1> DEFINE T == CollectRecomputeTeamIds(e, A)
  <1>0. e \in Db /\ d \in Db /\ Linked(d) /\ d.roles \subseteq Role
    BY DEF Sound, Db
  <1>1. \A y, r : r \in DirectMemberRoles(d, y) <=> r \in DirectMemberRoles(e, y) /\ r \in d.roles
    BY DEF DirectMemberRoles, HasPerm
  <1>2. \A y \in Team \ T : \A r \in A : r \notin DirectMemberRoles(e, y)
    BY <1>0, CollectedTeams
  <1> HIDE DEF T
  <1>3. ASSUME NEW y \in Team \ T
        PROVE  DirectMemberRoles(e, y) = DirectMemberRoles(d, y)
    <2>1. \A r : r \in DirectMemberRoles(e, y) => r \in e.roles
      BY DEF DirectMemberRoles
    <2>2. \A r : r \in DirectMemberRoles(e, y) <=> r \in DirectMemberRoles(d, y)
      BY <1>1, <1>2, <2>1
    <2> QED BY <2>2
  <1>4. ASSUME NEW x \in Team, NEW y \in Team, y \notin T
        PROVE  <<x, y>> \in TeamGraph(e) <=> <<x, y>> \in TeamGraph(d)
    BY <1>2, <1>3, <1>4, GraphPoints
  <1>5. ASSUME NEW r \in e.roles \ U
        PROVE  RowsCarryOver(d, e, r)
    <2>1. r \in d.roles /\ r \in Role /\ r \notin A
      BY <1>0
    <2>2. \A h \in Provided(d, r) : h \notin H
      <3> SUFFICES ASSUME NEW h \in Provided(d, r), h \in H PROVE FALSE
        OBVIOUS
      <3>1. <<r, h>> \in d.provides
        BY <2>1, ProvidedClosed DEF Coherent, RightProvides
      <3>2. <<r, <<MemberTeam, h>>>> \in e.evals
        BY <3>1, ProvidedIsEvaluated
      <3>3. r \in AncestorRoles(e, H)
        BY <3>2 DEF AncestorRoles
      <3> QED BY <3>3
    <2>3. \A h \in Provided(d, r) : \A q : <<h, q>> \in e.tasg <=> <<h, q>> \in d.tasg
      BY <2>2
    <2>4. Targets(e, r) = Targets(d, r)
      BY <1>1, <2>1 DEF Targets
    <2>5. \A x \in Provided(d, r) : \A y \in Team : <<x, y>> \in TeamGraph(e) <=> <<x, y>> \in TeamGraph(d)
      <3>1. \A h, q : <<h, q>> \in d.tasg => q \in d.roles
        BY <1>0 DEF Linked
      <3> QED BY <1>1, <2>3, <3>1, GraphPoints
    <2>6. Provided(e, r) = Provided(d, r)
      BY <2>4, <2>5, SameProvided
    <2> QED BY <2>1, <2>3, <2>6, DirectIsLocal DEF RowsCarryOver
  <1>6. Sound(Ended(e, T, U)) /\ Coherent(Ended(e, T, U)) /\ SameSource(e, Ended(e, T, U))
    BY <1>3, <1>4, <1>5, HandlerEnds
  <1> QED
    BY <1>6 DEF T

LEMMA EndedWithoutTeams ==
    ASSUME NEW e \in Db, NEW T, NEW U
    PROVE  RecomputeRoleEvaluations(IF T = {} THEN e ELSE ComputeTeamMemberRoles(e, T), U) = Ended(e, T, U)
  BY ComputeNothing DEF Ended

LEMMA GiveCoherent ==
    ASSUME NEW d, Sound(d), Coherent(d),
           NEW ua \in SUBSET (User \X Role), NEW ta \in SUBSET (Team \X Role),
           Holders(ta) \subseteq d.objs, \A r \in RolesIn(ua) \cup RolesIn(ta) : r[2] \in d.objs
    PROVE  Sound(GiveAssignments(d, ua, ta)) /\ Coherent(GiveAssignments(d, ua, ta))
  <1> DEFINE e      == CreateAssignments(d, ua, ta)
             given  == RolesIn(ua) \cup RolesIn(ta)
             H      == Holders(ta)
             update == given \cup
                       IF ta = {} THEN {} ELSE DescendentRoles(e, given) \cup AncestorRoles(e, H)
             ids    == CollectRecomputeTeamIds(e, given)
  <1>0. d \in Db /\ Linked(d) /\ e \in Db
    BY CreateAssignmentsType DEF Sound
  <1>1. /\ e.objs = d.objs /\ e.parent = d.parent /\ e.perms = d.perms
        /\ e.provides = d.provides /\ e.evals = d.evals
        /\ e.roles = d.roles \cup given /\ e.uasg = d.uasg \cup ua /\ e.tasg = d.tasg \cup ta
    BY <1>0 DEF CreateAssignments, Db
  <1> HIDE DEF e
  <1>2. /\ \A a \in ua : a[2] \in given
        /\ \A a \in ta : a[2] \in given /\ a[1] \in H
    BY DEF RolesIn, Holders
  <1> HIDE DEF given, H
  <1>3. Sound(e)
    <2>1. Linked(e)
      BY <1>0, <1>1, <1>2 DEF Linked
    <2>2. \A r \in e.roles : r[2] \in e.objs
      BY <1>1 DEF given, Sound
    <2>3. \A a \in e.tasg : a[1] \in e.objs
      BY <1>1, <1>2 DEF H, Sound
    <2>4. ParentsExist(e)
      BY <1>1 DEF Sound, ParentsExist
    <2> QED BY <1>0, <2>1, <2>2, <2>3, <2>4 DEF Sound
  <1>4. \A h, q : h \notin H \/ q \notin given => (<<h, q>> \in e.tasg <=> <<h, q>> \in d.tasg)
    <2>1. \A h, q : <<h, q>> \in ta => h \in H /\ q \in given
      BY <1>2
    <2> QED BY <1>1, <2>1
  <1>5. given \subseteq update /\ AncestorRoles(e, H) \subseteq update
    <2>1. CASE ta = {}
      <3>1. H = {}
        BY <2>1 DEF H, Holders
      <3>2. AncestorRoles(e, H) = {}
        BY <3>1 DEF AncestorRoles
      <3> QED BY <3>2
    <2>2. CASE ta # {}
      BY <2>2
    <2> QED BY <2>1, <2>2
  <1>6. GiveAssignments(d, ua, ta) = Ended(e, ids, update)
    <2>1. GiveAssignments(d, ua, ta)
            = RecomputeRoleEvaluations(IF ids = {} THEN e ELSE ComputeTeamMemberRoles(e, ids), update)
      BY DEF GiveAssignments, e, given, H
    <2> HIDE DEF ids, update
    <2> QED BY <1>0, <2>1, EndedWithoutTeams
  <1> HIDE DEF update
  <1>7. Sound(Ended(e, ids, update)) /\ Coherent(Ended(e, ids, update))
    BY <1>1, <1>3, <1>4, <1>5, AssignmentsChanged
  <1> QED
    BY <1>6, <1>7

LEMMA RemoveCoherent ==
    ASSUME NEW d, Sound(d), Coherent(d), NEW ua, NEW ta \in SUBSET (Team \X Role)
    PROVE  Sound(RemoveAssignments(d, ua, ta)) /\ Coherent(RemoveAssignments(d, ua, ta))
  <1> DEFINE e      == [d EXCEPT !.uasg = @ \ ua, !.tasg = @ \ ta]
             taken  == RolesIn(ua) \cup RolesIn(ta)
             H      == Holders(ta)
             update == taken \cup
                       IF ta = {} THEN {} ELSE DescendentRoles(e, taken) \cup AncestorRoles(e, H)
             ids    == CollectRecomputeTeamIds(e, taken)
             g      == Ended(e, ids, update)
  <1>0. d \in Db /\ Linked(d)
    BY DEF Sound
  <1>1. /\ e \in Db
        /\ e.objs = d.objs /\ e.parent = d.parent /\ e.perms = d.perms
        /\ e.provides = d.provides /\ e.evals = d.evals
        /\ e.roles = d.roles /\ e.uasg = d.uasg \ ua /\ e.tasg = d.tasg \ ta
    BY <1>0 DEF Db
  <1> HIDE DEF e
  <1>2. \A a \in ta : a[2] \in taken /\ a[1] \in H
    BY DEF RolesIn, Holders
  <1> HIDE DEF taken, H
  <1>3. Sound(e)
    BY <1>0, <1>1 DEF Sound, Linked, ParentsExist
  <1>4. \A h, q : h \notin H \/ q \notin taken => (<<h, q>> \in e.tasg <=> <<h, q>> \in d.tasg)
    <2>1. \A h, q : <<h, q>> \in ta => h \in H /\ q \in taken
      BY <1>2
    <2> QED BY <1>1, <2>1
  <1>5. taken \subseteq update /\ AncestorRoles(e, H) \subseteq update
    <2>1. CASE ta = {}
      <3>1. H = {}
        BY <2>1 DEF H, Holders
      <3>2. AncestorRoles(e, H) = {}
        BY <3>1 DEF AncestorRoles
      <3> QED BY <3>2
    <2>2. CASE ta # {}
      BY <2>2
    <2> QED BY <2>1, <2>2
  <1>6. RemoveAssignments(d, ua, ta) = DeleteObjectRoles(g, taken \cap Orphans(g))
    <2> DEFINE m == RecomputeRoleEvaluations(IF ids = {} THEN e ELSE ComputeTeamMemberRoles(e, ids), update)
    <2>1. RemoveAssignments(d, ua, ta) = DeleteObjectRoles(m, taken \cap Orphans(m))
      BY DEF RemoveAssignments, e, taken, H
    <2>2. m = g
      <3> HIDE DEF ids, update
      <3> QED BY <1>1, EndedWithoutTeams
    <2> QED BY <2>1, <2>2
  <1> HIDE DEF update
  <1>7. Sound(g) /\ Coherent(g)
    BY <1>1, <1>3, <1>4, <1>5, AssignmentsChanged
  <1> HIDE DEF g
  <1> QED
    BY <1>6, <1>7, UnusedRolesGo

LEMMA DeleteUserCoherent ==
    ASSUME NEW d, Sound(d), Coherent(d), NEW u
    PROVE  LET e == CleanupOrphanedObjectRoles([d EXCEPT !.users = @ \ {u},
                                                         !.uasg = {a \in @ : a[1] # u}])
           IN  Sound(e) /\ Coherent(e)
  <1> DEFINE f == [d EXCEPT !.users = @ \ {u}, !.uasg = {a \in @ : a[1] # u}]
  <1>1. f \in Db /\ f.uasg \subseteq d.uasg /\ SameButUsers(d, f)
    BY DEF Sound, Db, SameButUsers
  <1> HIDE DEF f
  <1>2. Sound(f) /\ Coherent(f)
    <2>1. Linked(f)
      BY <1>1 DEF Sound, Linked, SameButUsers
    <2> QED BY <1>1, <2>1, UsersAside
  <1> QED
    BY <1>2, CleanupCoherent DEF f

-----------------------------------------------------------------------------
(***************************************************************************)
(* Editing the permissions of a role definition                            *)
(***************************************************************************)
\* The roles to compute again are those of the definition and those that reach
\* one of them through a team.
LEMMA DefinitionEdited ==
    ASSUME NEW d, Sound(d), Coherent(d), NEW rd \in RoleDef, NEW N \in SUBSET Perm, NEW e,
           e = [d EXCEPT !.perms[rd] = N], NEW T, NEW U,
           \A y \in Team \ T : \A r \in RolesOfDefinition(d, rd) :
              r \in DirectMemberRoles(e, y) <=> r \in DirectMemberRoles(d, y),
           RolesOfDefinition(d, rd) \subseteq U,
           \A r \in d.roles \ U : TeamRoles(d, r) \cap RolesOfDefinition(d, rd) = {}
    PROVE  Sound(Ended(e, T, U)) /\ Coherent(Ended(e, T, U))
  <1> DEFINE own == RolesOfDefinition(d, rd)
  <1>0. d \in Db /\ Linked(d) /\ d.roles \subseteq Role
    BY DEF Sound, Db
  <1>1. /\ e \in Db /\ e.objs = d.objs /\ e.parent = d.parent /\ e.roles = d.roles
        /\ e.uasg = d.uasg /\ e.tasg = d.tasg /\ e.provides = d.provides /\ e.evals = d.evals
        /\ \A x \in RoleDef : x # rd => e.perms[x] = d.perms[x]
    BY <1>0 DEF Db
  <1>2. Sound(e)
    BY <1>1 DEF Sound, Linked, ParentsExist
  <1>3. \A q \in d.roles : q \notin own => e.perms[q[1]] = d.perms[q[1]]
    BY <1>0, <1>1, RoleFields DEF RolesOfDefinition
  <1>4. \A y, q : q \notin own => (q \in DirectMemberRoles(e, y) <=> q \in DirectMemberRoles(d, y))
    BY <1>1, <1>3 DEF DirectMemberRoles, HasPerm
  <1>5. \A q \in d.roles : q \notin own => ExpectedDirect(e, q) = ExpectedDirect(d, q)
    <2>1. \A o : Below(e, o) = Below(d, o)
      BY <1>1 DEF Below
    <2> QED BY <1>3, <2>1 DEF ExpectedDirect
  <1> HIDE DEF own
  <1>6. ASSUME NEW y \in Team \ T
        PROVE  DirectMemberRoles(e, y) = DirectMemberRoles(d, y)
    <2>1. \A q : q \in DirectMemberRoles(e, y) <=> q \in DirectMemberRoles(d, y)
      BY <1>4 DEF own
    <2> QED BY <2>1
  <1>7. ASSUME NEW x \in Team, NEW y \in Team, y \notin T
        PROVE  <<x, y>> \in TeamGraph(e) <=> <<x, y>> \in TeamGraph(d)
    BY <1>1, <1>6, <1>7, GraphPoints
  <1>8. ASSUME NEW r \in e.roles \ U
        PROVE  RowsCarryOver(d, e, r)
    <2>1. r \in d.roles /\ r \in Role /\ r \notin own /\ TeamRoles(d, r) \cap own = {}
      BY <1>0, <1>1 DEF own
    <2>2. Targets(e, r) = Targets(d, r)
      BY <1>4, <2>1 DEF Targets
    <2>3. \A x \in Provided(d, r) : \A q : <<x, q>> \in d.tasg => q \notin own
      <3>1. \A x \in Provided(d, r) : x \in Team /\ <<r, x>> \in d.provides
        BY <2>1, ProvidedClosed DEF Coherent, RightProvides
      <3> QED BY <1>0, <2>1, <3>1, TeamRolesPoints
    <2>4. \A x \in Provided(d, r) : \A y \in Team : <<x, y>> \in TeamGraph(e) <=> <<x, y>> \in TeamGraph(d)
      BY <1>1, <1>4, <2>3, GraphPoints
    <2>5. Provided(e, r) = Provided(d, r)
      BY <2>2, <2>4, SameProvided
    <2>6. \A q \in TeamRoles(d, r) : q \in d.roles /\ q \notin own
      BY <1>0, <2>1 DEF TeamRoles, Linked
    <2> QED BY <1>1, <1>5, <2>1, <2>5, <2>6 DEF RowsCarryOver
  <1> QED
    BY <1>1, <1>2, <1>6, <1>7, <1>8, HandlerEnds

LEMMA PermissionsChangedCoherent ==
    ASSUME NEW d, Sound(d), Coherent(d), NEW rd \in RoleDef, NEW N \in SUBSET Perm, NEW P,
           NEW adding \in BOOLEAN,
           MemberTeam \notin P => (MemberTeam \in N <=> MemberTeam \in d.perms[rd]),
           ~adding => (MemberTeam \in N => MemberTeam \in d.perms[rd])
    PROVE  LET g == PermissionsChanged([d EXCEPT !.perms[rd] = N], rd, P, adding)
           IN  Sound(g) /\ Coherent(g)
  <1> DEFINE e    == [d EXCEPT !.perms[rd] = N]
             own  == RolesOfDefinition(e, rd)
             team == MemberTeam \in P
             all  == IF team THEN own \cup DescendentRoles(e, own) ELSE own
             ids  == TeamsProvided(e, all)
                     \cup IF adding THEN UNION {TeamIdsFromRoleTarget(e, r) : r \in all} ELSE {}
             f    == IF team THEN ComputeTeamMemberRoles(e, ids) ELSE e
             T    == IF team THEN ids ELSE {}
             membersOf(x, R) == {q \in x.roles : \E r \in R, t \in Team :
                                    <<t, r>> \in x.tasg /\ <<q, t>> \in x.provides}
             U    == all \cup membersOf(e, own) \cup membersOf(f, all \ own)
  <1>0. d \in Db /\ d.roles \subseteq Role /\ d.perms \in [RoleDef -> SUBSET Perm]
    BY DEF Sound, Db
  <1>1. /\ e \in Db /\ e.objs = d.objs /\ e.parent = d.parent /\ e.roles = d.roles
        /\ e.uasg = d.uasg /\ e.tasg = d.tasg /\ e.provides = d.provides /\ e.evals = d.evals
        /\ e.perms = [d.perms EXCEPT ![rd] = N] /\ e.perms[rd] = N
    BY <1>0 DEF Db
  <1>2. e = [d EXCEPT !.perms[rd] = N]
    OBVIOUS
  <1> HIDE DEF e
  <1>3. own = RolesOfDefinition(d, rd)
    BY <1>1 DEF RolesOfDefinition
  <1>4. \A r \in own : r \in d.roles /\ r \in Role /\ e.perms[r[1]] = N /\ d.perms[r[1]] = d.perms[rd]
    BY <1>0, <1>1, <1>3 DEF RolesOfDefinition
  <1> HIDE DEF own
  <1>5. CASE own = {}
    <2>1. PermissionsChanged(e, rd, P, adding) = e
      BY <1>5 DEF PermissionsChanged, own
    <2>2. \A q \in d.roles : q[1] # rd /\ q[1] \in RoleDef
      BY <1>0, <1>3, <1>5, RoleFields DEF RolesOfDefinition
    <2>3. \A q \in d.roles : e.perms[q[1]] = d.perms[q[1]]
      BY <1>0, <1>1, <2>2
    <2>4. \A y : DirectMemberRoles(e, y) = DirectMemberRoles(d, y)
      BY <1>1, <2>3 DEF DirectMemberRoles, HasPerm
    <2>5. TeamGraph(e) = TeamGraph(d)
      BY ONLY <1>1, <2>4 DEF TeamGraph
    <2>6. \A r : Provided(e, r) = Provided(d, r)
      <3>1. \A r : Targets(e, r) = Targets(d, r)
        BY ONLY <2>4 DEF Targets
      <3> QED BY ONLY <2>5, <3>1 DEF Provided
    <2>7. \A o : Below(e, o) = Below(d, o)
      BY <1>1 DEF Below
    <2>8. \A q \in d.roles : ExpectedDirect(e, q) = ExpectedDirect(d, q)
      BY <2>3, <2>7 DEF ExpectedDirect
    <2>9. \A r : TeamRoles(e, r) = TeamRoles(d, r) /\ TeamRoles(d, r) \subseteq d.roles
      <3>1. \A r : TeamRoles(e, r) = TeamRoles(d, r)
        BY ONLY <1>1 DEF TeamRoles
      <3>2. \A r : TeamRoles(d, r) \subseteq d.roles
        BY DEF TeamRoles, Sound, Linked
      <3> QED BY <3>1, <3>2
    <2>10. \A r \in d.roles : ExpectedEvaluations(e, r) = ExpectedEvaluations(d, r)
      BY <2>8, <2>9 DEF ExpectedEvaluations
    <2>11. Coherent(e)
      BY <1>1, <2>6, <2>10 DEF Coherent, RightProvides, RightEvals
    <2>12. Sound(e)
      BY <1>1 DEF Sound, Linked, ParentsExist
    <2> QED BY <2>1, <2>11, <2>12 DEF e
  <1>6. CASE own # {}
    <2>1. PermissionsChanged(e, rd, P, adding) = RecomputeRoleEvaluations(f, U)
      BY <1>6 DEF PermissionsChanged, own
    <2> HIDE DEF ids, all
    <2>2. own \subseteq all
      BY DEF all
    <2>3. f = ComputeTeamMemberRoles(e, T)
      BY <1>1, ComputeNothing
    <2>4. ASSUME NEW y \in Team \ T, NEW r \in own
          PROVE  r \in DirectMemberRoles(e, y) <=> r \in DirectMemberRoles(d, y)
      <3>1. r \in DirectMemberRoles(e, y) <=>
              /\ r \in DirectMemberRoles(d, y) \/ MemberTeam \notin d.perms[rd]
              /\ r \in DirectMemberRoles(e, y)
        BY <1>1, <1>4 DEF DirectMemberRoles, HasPerm
      <3>2. CASE ~team
        BY <1>1, <1>4, <3>2 DEF DirectMemberRoles, HasPerm
      <3>3. CASE team
        <4>1. y \notin ids /\ r \in all
          BY <2>2, <2>4, <3>3
        <4>2. r \notin DirectMemberRoles(d, y)
          <5> SUFFICES ASSUME r \in DirectMemberRoles(d, y) PROVE FALSE
            OBVIOUS
          <5>1. y \in Provided(d, r)
            BY ProvidedClosed DEF Targets
          <5>2. <<r, y>> \in e.provides
            BY <1>1, <1>4, <5>1 DEF Coherent, RightProvides
          <5> QED BY <4>1, <5>2 DEF ids, TeamsProvided
        <4>3. r \notin DirectMemberRoles(e, y)
          <5>1. CASE adding
            BY <4>1, <5>1, TargetsOfRole DEF ids
          <5>2. CASE ~adding
            <6>1. MemberTeam \in d.perms[rd] \/ MemberTeam \notin N
              BY <5>2
            <6> QED BY <1>1, <1>4, <3>1, <4>2, <6>1 DEF DirectMemberRoles, HasPerm
          <5> QED BY <5>1, <5>2
        <4> QED BY <4>2, <4>3
      <3> QED BY <3>2, <3>3
    <2>5. ASSUME NEW r \in d.roles \ U
          PROVE  TeamRoles(d, r) \cap own = {}
      <3>1. r \notin membersOf(e, own)
        OBVIOUS
      <3>2. \A q \in own : ~ \E t \in Team : <<r, t>> \in d.provides /\ <<t, q>> \in d.tasg
        BY <1>1, <3>1
      <3> QED BY <1>0, <3>2, TeamRolesPoints
    <2>6. own \subseteq U
      BY <2>2
    <2> HIDE DEF T, U, f
    <2>7. Sound(Ended(e, T, U)) /\ Coherent(Ended(e, T, U))
      BY <1>2, <1>3, <2>4, <2>5, <2>6, DefinitionEdited
    <2> QED BY <2>1, <2>3, <2>7 DEF Ended, e
  <1> QED
    BY <1>5, <1>6

LEMMA ClearCoherent ==
    ASSUME NEW d, Sound(d), Coherent(d), NEW rd \in RoleDef
    PROVE  LET e   == [d EXCEPT !.perms[rd] = {}]
               own == RolesOfDefinition(e, rd)
               ids == TeamsProvided(e, own) \cup UNION {TeamIdsFromRoleTarget(e, r) : r \in own}
               g   == RecomputeAllRoleEvaluations(ComputeTeamMemberRoles(e, ids))
           IN  Sound(g) /\ Coherent(g)
  <1> DEFINE e   == [d EXCEPT !.perms[rd] = {}]
             own == RolesOfDefinition(e, rd)
             ids == TeamsProvided(e, own) \cup UNION {TeamIdsFromRoleTarget(e, r) : r \in own}
             f   == ComputeTeamMemberRoles(e, ids)
  <1>0. d \in Db /\ d.roles \subseteq Role
    BY DEF Sound, Db
  <1>1. /\ e \in Db /\ e.roles = d.roles /\ e.provides = d.provides /\ e.perms[rd] = {}
    BY <1>0 DEF Db
  <1>2. e = [d EXCEPT !.perms[rd] = {}]
    OBVIOUS
  <1> HIDE DEF e
  <1>3. own = RolesOfDefinition(d, rd) /\ \A r \in own : r \in Role /\ r[1] = rd
    BY <1>0, <1>1 DEF RolesOfDefinition
  <1> HIDE DEF own
  <1>4. ASSUME NEW y \in Team \ ids, NEW r \in own
        PROVE  r \in DirectMemberRoles(e, y) <=> r \in DirectMemberRoles(d, y)
    <2>1. r \notin DirectMemberRoles(e, y)
      BY <1>1, <1>3 DEF DirectMemberRoles, HasPerm
    <2>2. r \notin DirectMemberRoles(d, y)
      <3> SUFFICES ASSUME r \in DirectMemberRoles(d, y) PROVE FALSE
        OBVIOUS
      <3>1. y \in Provided(d, r)
        BY ProvidedClosed DEF Targets
      <3>2. <<r, y>> \in e.provides
        BY <1>1, <1>3, <3>1 DEF Coherent, RightProvides
      <3> QED BY <3>2 DEF TeamsProvided
    <2> QED BY <2>1, <2>2
  <1> HIDE DEF ids
  <1>5. own \subseteq d.roles
    BY <1>3 DEF RolesOfDefinition
  <1>6. Sound(Ended(e, ids, d.roles)) /\ Coherent(Ended(e, ids, d.roles))
    <2>1. \A r \in d.roles \ d.roles : TeamRoles(d, r) \cap own = {}
      OBVIOUS
    <2> QED BY <1>2, <1>3, <1>4, <1>5, <2>1, DefinitionEdited
  <1>7. f.roles = d.roles
    BY <1>1, ComputeFields DEF SameSource
  <1>8. RecomputeAllRoleEvaluations(f) = Ended(e, ids, d.roles)
    BY <1>7 DEF RecomputeAllRoleEvaluations, Ended
  <1> QED
    BY <1>6, <1>8 DEF e, own, ids

-----------------------------------------------------------------------------
(***************************************************************************)
(* Creating objects                                                        *)
(***************************************************************************)
\* e is d with the new objects C, which nobody has a role on yet.
Added(d, e, C) ==
    /\ Sound(d) /\ Coherent(d) /\ Sound(e)
    /\ C \cap d.objs = {} /\ e.objs = d.objs \cup C
    /\ \A o \in d.objs : e.parent[o] = d.parent[o]
    /\ e.perms = d.perms /\ e.roles = d.roles /\ e.uasg = d.uasg /\ e.tasg = d.tasg
    /\ e.provides = d.provides /\ e.evals = d.evals

LEMMA AddedDirect ==
    ASSUME NEW d, NEW e, NEW C, Added(d, e, C)
    PROVE  \A y : y \notin C => DirectMemberRoles(e, y) = DirectMemberRoles(d, y)
  <1> SUFFICES ASSUME NEW y, y \notin C PROVE DirectMemberRoles(e, y) = DirectMemberRoles(d, y)
    OBVIOUS
  <1>1. \A r : r \in DirectMemberRoles(e, y) <=> r \in DirectMemberRoles(d, y)
    BY DEF Added, DirectMemberRoles, HasPerm
  <1> QED BY <1>1

\* The rows a role has on a new object come from the parents of that object.
LEMMA AddedBelow ==
    ASSUME NEW d, NEW e, NEW C, Added(d, e, C), NEW o \in d.objs
    PROVE  \A c : c \in Below(e, o) <=> c \in Below(d, o) \/ (c \in C /\ o \in ParentChain(e, c))
  <1>0. d \in Db /\ e \in Db /\ ParentsExist(d) /\ ParentsExist(e)
    BY DEF Added, Sound
  <1>1. NoObj \notin Obj /\ o # NoObj /\ d.objs \subseteq Obj /\ e.objs \subseteq Obj
        /\ e.parent \in [Obj -> Obj \cup {NoObj}]
    BY <1>0, CachingAssumption DEF Db
  <1>2. ASSUME NEW c \in d.objs
        PROVE  c \in Below(e, o) <=> c \in Below(d, o)
    <2>1. e.parent[c] = d.parent[c] /\ c \in e.objs /\ (d.parent[c] = NoObj \/ d.parent[c] \in d.objs)
      BY <1>0 DEF Added, ParentsExist
    <2>2. d.parent[c] \in d.objs => e.parent[d.parent[c]] = d.parent[d.parent[c]]
      BY DEF Added
    <2> QED BY <1>1, <2>1, <2>2 DEF Below
  <1>3. ASSUME NEW c \in C
        PROVE  /\ c \notin Below(d, o)
               /\ c \in Below(e, o) <=> o \in ParentChain(e, c)
    <2>1. c \in e.objs /\ c \notin d.objs /\ c \in Obj
      BY <1>1 DEF Added
    <2>2. e.parent[c] = NoObj \/ e.parent[c] \in Obj
      BY <1>1, <2>1
    <2>3. o \in ParentChain(e, c)
            <=> e.parent[c] # NoObj /\ (e.parent[c] = o \/ e.parent[e.parent[c]] = o)
      BY <1>1, <2>2 DEF ParentChain
    <2>4. c \in Below(e, o)
            <=> e.parent[c] = o \/ (e.parent[c] \in Obj /\ e.parent[e.parent[c]] = o)
      BY <2>1 DEF Below
    <2>5. c \notin Below(d, o)
      BY <2>1 DEF Below
    <2> QED BY <1>1, <2>2, <2>3, <2>4, <2>5
  <1>4. \A c : c \notin d.objs \cup C => c \notin Below(e, o) /\ c \notin Below(d, o)
    BY DEF Below, Added
  <1> QED
    BY <1>2, <1>3, <1>4

LEMMA AddedExpected ==
    ASSUME NEW d, NEW e, NEW C, Added(d, e, C), NEW q \in d.roles
    PROVE  /\ ExpectedDirect(d, q) \subseteq ExpectedDirect(e, q)
           /\ \A x \in ExpectedDirect(d, q) : x[2] \in d.objs
           /\ \A x \in ExpectedDirect(e, q) :
                 x \in ExpectedDirect(d, q) \/ (x[2] \in C /\ q[2] \in ParentChain(e, x[2]))
  <1>0. q[2] \in d.objs /\ e.perms = d.perms
    BY DEF Added, Sound
  <1> DEFINE onSelf(p) == p.type = TypeOf[q[2]] \/ IsAdd(p) \/ CacheParentPermissions
             perms == d.perms[q[1]]
             kids(B, p) == IF p.type = TypeOf[q[2]] THEN {} ELSE {c \in B : TypeOf[c] = EvalType(p)}
             direct(B) == {p \in perms : onSelf(p)} \X {q[2]} \cup UNION {{p} \X kids(B, p) : p \in perms}
  <1>1. ExpectedDirect(d, q) = direct(Below(d, q[2])) /\ ExpectedDirect(e, q) = direct(Below(e, q[2]))
    BY <1>0 DEF ExpectedDirect
  <1>2. \A B : \A x \in direct(B) : x[2] = q[2] \/ x[2] \in B
    OBVIOUS
  <1>3. \A A, B : A \subseteq B => direct(A) \subseteq direct(B)
    OBVIOUS
  <1>4. \A A, B : \A x \in direct(B) : x \in direct(A) \/ (x[2] \in B /\ x[2] \notin A)
    OBVIOUS
  <1> HIDE DEF direct
  <1>5. Below(d, q[2]) \subseteq Below(e, q[2]) /\ Below(d, q[2]) \subseteq d.objs
    BY <1>0, AddedBelow DEF Below
  <1>6. ExpectedDirect(d, q) \subseteq ExpectedDirect(e, q)
    BY <1>1, <1>3, <1>5
  <1>7. \A x \in ExpectedDirect(d, q) : x[2] \in d.objs
    BY <1>0, <1>1, <1>2, <1>5
  <1>8. \A x \in ExpectedDirect(e, q) : x \in ExpectedDirect(d, q)
           \/ (x[2] \in Below(e, q[2]) /\ x[2] \notin Below(d, q[2]))
    BY <1>1, <1>4
  <1>9. \A x \in ExpectedDirect(e, q) :
           x \in ExpectedDirect(d, q) \/ (x[2] \in C /\ q[2] \in ParentChain(e, x[2]))
    BY <1>0, <1>8, AddedBelow
  <1> QED
    BY <1>6, <1>7, <1>9

\* compute_team_member_roles for new teams changes the rows of these teams only,
\* and as no role is given to them, no role inherits anything more.
LEMMA AddedProvides ==
    ASSUME NEW d, NEW e, NEW C, Added(d, e, C), NEW T, C \cap Team \subseteq T, T \cap d.objs = {}
    PROVE  LET f == ComputeTeamMemberRoles(e, T)
           IN  /\ Sound(f) /\ RightProvides(f) /\ SameSource(e, f) /\ f.evals = d.evals
               /\ \A r \in Role : TeamRoles(f, r) = TeamRoles(d, r)
  <1> DEFINE f == ComputeTeamMemberRoles(e, T)
             S == T \cap Team
  <1>0. d \in Db /\ e \in Db /\ f \in Db /\ SameSource(e, f) /\ f.evals = d.evals
    BY ComputeFields DEF Added, Sound
  <1>1. Sound(f)
    BY <1>0, SameSourceSound DEF Added
  <1>2. \A y \in Team \ T : DirectMemberRoles(e, y) = DirectMemberRoles(d, y)
    BY AddedDirect
  <1>3. \A x, y \in Team : y \notin T => (<<x, y>> \in TeamGraph(e) <=> <<x, y>> \in TeamGraph(d))
    BY <1>2, GraphPoints DEF Added
  <1>4. RightProvides(f)
    <2>1. d.objs \cap Team \subseteq e.objs /\ e.provides = d.provides
      BY DEF Added
    <2> QED BY <1>2, <1>3, <2>1, ScopedCompute DEF Added, Coherent
  <1>5. \A h, q : <<h, q>> \in e.tasg => h \notin T
    BY DEF Added, Sound
  <1>6. Reach(TeamGraph(e), S) \subseteq S
    <2>1. \A x, y : <<x, y>> \in TeamGraph(e) => x \notin S
      BY <1>5, GraphPoints
    <2>2. Closed(TeamGraph(e), S)
      <3> SUFFICES ASSUME NEW x \in TeamGraph(e), x[1] \in S PROVE FALSE
        BY DEF Closed
      <3>1. x = <<x[1], x[2]>>
        BY TeamGraphType
      <3> QED BY <2>1, <3>1
    <2> QED BY <2>2, ReachLeast
  <1>7. ASSUME NEW r \in Role
        PROVE  TeamRoles(f, r) = TeamRoles(d, r)
    <2>1. \A t \in Team \ T : <<r, t>> \in f.provides <=> <<r, t>> \in d.provides
      BY <1>0, <1>6, ComputeFields DEF Added
    <2>2. f.tasg = e.tasg /\ e.tasg = d.tasg
      BY <1>0 DEF SameSource, Added
    <2>3. \A q : q \in TeamRoles(f, r) <=> q \in TeamRoles(d, r)
      BY <1>0, <1>5, <2>1, <2>2, TeamRolesPoints
    <2> QED BY <2>3
  <1> QED
    BY <1>0, <1>1, <1>4, <1>7

\* object_roles_for_parents finds every role with rows on the new objects.
LEMMA UntouchedByAdded ==
    ASSUME NEW d, NEW e, NEW C, Added(d, e, C), NEW T, C \cap Team \subseteq T, T \cap d.objs = {},
           NEW P, NEW r \in d.roles, r \notin ObjectRolesForParents(e, P)
    PROVE  LET f == ComputeTeamMemberRoles(e, T)
           IN  \A x \in ExpectedEvaluations(f, r) :
                  x \in ExpectedEvaluations(d, r) \/ (x[2] \in C /\ ~(ParentChain(e, x[2]) \subseteq P))
  <1> DEFINE f == ComputeTeamMemberRoles(e, T)
  <1>0. d.roles \subseteq Role /\ d \in Db /\ Linked(d)
    BY DEF Added, Sound, Db
  <1>1. SameSource(e, f) /\ TeamRoles(f, r) = TeamRoles(d, r)
    BY <1>0, AddedProvides
  <1> HIDE DEF f
  <1>2. \A q : ExpectedDirect(f, q) = ExpectedDirect(e, q)
    BY <1>1, DirectIsLocal DEF SameSource
  <1>3. TeamRoles(e, r) = TeamRoles(d, r) /\ e.roles = d.roles
    BY DEF TeamRoles, Added
  <1>4. r[2] \notin P /\ \A q \in TeamRoles(d, r) : q[2] \notin P /\ q \in d.roles
    <2>1. TeamRoles(d, r) \subseteq d.roles
      BY <1>0 DEF TeamRoles, Linked
    <2> QED BY <1>3, <2>1 DEF ObjectRolesForParents
  <1>5. \A q \in {r} \cup TeamRoles(d, r) : \A x \in ExpectedDirect(f, q) :
           x \in ExpectedDirect(d, q) \/ (x[2] \in C /\ ~(ParentChain(e, x[2]) \subseteq P))
    <2> SUFFICES ASSUME NEW q \in {r} \cup TeamRoles(d, r), NEW x \in ExpectedDirect(e, q),
                        x \notin ExpectedDirect(d, q)
                 PROVE  x[2] \in C /\ ~(ParentChain(e, x[2]) \subseteq P)
      BY <1>2
    <2>1. q \in d.roles /\ q[2] \notin P
      BY <1>4
    <2>2. x[2] \in C /\ q[2] \in ParentChain(e, x[2])
      BY <2>1, AddedExpected
    <2> QED BY <2>1, <2>2
  <1>6. \A x \in ExpectedEvaluations(f, r) : \E q \in {r} \cup TeamRoles(d, r) : x \in ExpectedDirect(f, q)
    BY <1>1 DEF ExpectedEvaluations
  <1>7. \A q \in {r} \cup TeamRoles(d, r) : ExpectedDirect(d, q) \subseteq ExpectedEvaluations(d, r)
    BY DEF ExpectedEvaluations
  <1> QED
    BY <1>5, <1>6, <1>7 DEF f

\* No row is lost by creating objects.
LEMMA KeptByAdded ==
    ASSUME NEW d, NEW e, NEW C, Added(d, e, C), NEW T, C \cap Team \subseteq T, T \cap d.objs = {},
           NEW r \in d.roles
    PROVE  LET f == ComputeTeamMemberRoles(e, T)
           IN  /\ ExpectedEvaluations(d, r) \subseteq ExpectedEvaluations(f, r)
               /\ \A x \in ExpectedEvaluations(d, r) : x[2] \in d.objs
               /\ \A x \in ExpectedEvaluations(f, r) : x \in ExpectedEvaluations(d, r) \/ x[2] \in C
  <1> DEFINE f == ComputeTeamMemberRoles(e, T)
  <1>0. d.roles \subseteq Role /\ d \in Db /\ Linked(d)
    BY DEF Added, Sound, Db
  <1>1. SameSource(e, f) /\ TeamRoles(f, r) = TeamRoles(d, r)
    BY <1>0, AddedProvides
  <1> HIDE DEF f
  <1>2. \A q : ExpectedDirect(f, q) = ExpectedDirect(e, q)
    BY <1>1, DirectIsLocal DEF SameSource
  <1>3. \A q \in {r} \cup TeamRoles(d, r) : q \in d.roles
    BY <1>0 DEF TeamRoles, Linked
  <1>4. \A q \in {r} \cup TeamRoles(d, r) :
           /\ ExpectedDirect(d, q) \subseteq ExpectedDirect(f, q)
           /\ \A x \in ExpectedDirect(d, q) : x[2] \in d.objs
           /\ \A x \in ExpectedDirect(f, q) : x \in ExpectedDirect(d, q) \/ x[2] \in C
    BY <1>2, <1>3, AddedExpected
  <1>5. \A x : /\ x \in ExpectedEvaluations(f, r) <=> \E q \in {r} \cup TeamRoles(d, r) : x \in ExpectedDirect(f, q)
               /\ x \in ExpectedEvaluations(d, r) <=> \E q \in {r} \cup TeamRoles(d, r) : x \in ExpectedDirect(d, q)
    BY <1>1 DEF ExpectedEvaluations
  <1> QED
    BY <1>4, <1>5 DEF f

LEMMA AddedFull ==
    ASSUME NEW d, NEW e, NEW C, Added(d, e, C), NEW T, C \cap Team \subseteq T, T \cap d.objs = {},
           NEW P, \A c \in C : ParentChain(e, c) \subseteq P, NEW U, ObjectRolesForParents(e, P) \subseteq U
    PROVE  Sound(Ended(e, T, U)) /\ Coherent(Ended(e, T, U)) /\ SameSource(e, Ended(e, T, U))
  <1> DEFINE f == ComputeTeamMemberRoles(e, T)
  <1>1. /\ Sound(f) /\ RightProvides(f) /\ SameSource(e, f) /\ f.evals = d.evals
    BY AddedProvides
  <1>2. f.roles = d.roles
    BY <1>1 DEF SameSource, Added
  <1>3. \A r \in d.roles \ U : \A x : x \in ExpectedEvaluations(f, r) <=> x \in ExpectedEvaluations(d, r)
    <2> SUFFICES ASSUME NEW r \in d.roles \ U, NEW x
                 PROVE  x \in ExpectedEvaluations(f, r) <=> x \in ExpectedEvaluations(d, r)
      OBVIOUS
    <2>1. r \notin ObjectRolesForParents(e, P)
      OBVIOUS
    <2>2. x \in ExpectedEvaluations(f, r) => x \in ExpectedEvaluations(d, r)
      BY <2>1, UntouchedByAdded
    <2>3. ExpectedEvaluations(d, r) \subseteq ExpectedEvaluations(f, r)
      BY KeptByAdded
    <2> QED BY <2>2, <2>3
  <1> HIDE DEF f
  <1>4. \A r \in Role, x \in Evaluation : r \notin U \cap f.roles =>
              (<<r, x>> \in f.evals <=> r \in f.roles /\ x \in ExpectedEvaluations(f, r))
    BY <1>1, <1>2, <1>3 DEF Added, Coherent, RightEvals
  <1>5. /\ Sound(RecomputeRoleEvaluations(f, U)) /\ Coherent(RecomputeRoleEvaluations(f, U))
        /\ SameSource(f, RecomputeRoleEvaluations(f, U))
    BY <1>1, <1>4, ScopedRecompute
  <1>6. SameSource(e, RecomputeRoleEvaluations(f, U))
    BY <1>1, <1>5 DEF SameSource
  <1> QED
    BY <1>5, <1>6 DEF f, Ended

LEMMA EndedWithNothing ==
    ASSUME NEW e \in Db
    PROVE  Ended(e, {}, {}) = e
  <1>1. Ended(e, {}, {}) = RecomputeRoleEvaluations(e, {})
    BY ComputeNothing DEF Ended
  <1> DEFINE ev == {x \in e.evals : x[1] \notin {} \cap e.roles}
                   \cup UNION {{r} \X ExpectedEvaluations(e, r) : r \in {} \cap e.roles}
  <1>2. ev = e.evals
    OBVIOUS
  <1>3. RecomputeRoleEvaluations(e, {}) = [e EXCEPT !.evals = ev]
    BY DEF RecomputeRoleEvaluations
  <1> HIDE DEF ev
  <1> QED
    BY <1>1, <1>2, <1>3 DEF Db

\* A new object without a parent that is no team needs no handler.
LEMMA AddedTop ==
    ASSUME NEW d, NEW e, NEW C, Added(d, e, C), C \cap Team = {}, \A c \in C : ParentChain(e, c) = {}
    PROVE  Coherent(e)
  <1>1. ObjectRolesForParents(e, {}) \subseteq {}
    BY DEF ObjectRolesForParents
  <1>2. Coherent(Ended(e, {}, {}))
    BY <1>1, AddedFull
  <1> QED
    BY <1>2, EndedWithNothing DEF Added, Sound

LEMMA LookAheadFields ==
    ASSUME NEW d \in Db, NEW U, NEW look
    PROVE  LET g == RecomputeLookAhead(d, U, look)
               want(r) == ExpectedLook(d, r, look) \cup UNION {ExpectedLook(d, q, look) : q \in TeamRoles(d, r)}
           IN  /\ g \in Db /\ SameSource(d, g) /\ g.provides = d.provides
               /\ \A r \in Role, x \in Evaluation :
                    <<r, x>> \in g.evals <=>
                       \/ <<r, x>> \in d.evals /\ (r \in U \cap d.roles /\ x[2] = look => x \in want(r))
                       \/ r \in U \cap d.roles /\ x \in want(r)
  <1> DEFINE live == U \cap d.roles
             want(r) == ExpectedLook(d, r, look) \cup UNION {ExpectedLook(d, q, look) : q \in TeamRoles(d, r)}
             ev == {x \in d.evals : x[1] \in live /\ x[2][2] = look => x[2] \in want(x[1])}
                   \cup UNION {{r} \X want(r) : r \in live}
             g  == [d EXCEPT !.evals = ev]
  <1>1. \A r \in Role, x \in Evaluation :
           <<r, x>> \in ev <=> \/ <<r, x>> \in d.evals /\ (r \in live /\ x[2] = look => x \in want(r))
                               \/ r \in live /\ x \in want(r)
    <2> HIDE DEF want, live
    <2> QED OBVIOUS
  <1>2. g.evals = ev /\ g.provides = d.provides /\ SameSource(d, g)
    <2> HIDE DEF ev
    <2> QED BY DEF Db, SameSource
  <1>3. RecomputeLookAhead(d, U, look) = g
    BY DEF RecomputeLookAhead
  <1> HIDE DEF g, ev, want
  <1>4. g \in Db
    BY <1>3, LookAheadType
  <1> QED
    BY <1>1, <1>2, <1>3, <1>4 DEF want

\* Looking ahead for one new object is enough.
LEMMA AddedLook ==
    ASSUME NEW d, NEW e, NEW o, Added(d, e, {o}), NEW T, {o} \cap Team \subseteq T, T \cap d.objs = {}
    PROVE  LET f == ComputeTeamMemberRoles(e, T)
               g == RecomputeLookAhead(f, ObjectRolesForParents(e, ParentChain(e, o)), o)
           IN  Sound(g) /\ Coherent(g)
  <1> DEFINE f == ComputeTeamMemberRoles(e, T)
             U == ObjectRolesForParents(e, ParentChain(e, o))
             g == RecomputeLookAhead(f, U, o)
             want(r) == ExpectedLook(f, r, o) \cup UNION {ExpectedLook(f, q, o) : q \in TeamRoles(f, r)}
  <1>1. /\ f \in Db /\ Sound(f) /\ RightProvides(f) /\ SameSource(e, f) /\ f.evals = d.evals
    BY AddedProvides DEF Sound
  <1>2. f.roles = d.roles /\ o \notin d.objs
    BY <1>1 DEF SameSource, Added
  <1>3. \A r \in d.roles :
           /\ ExpectedEvaluations(d, r) \subseteq ExpectedEvaluations(f, r)
           /\ \A x \in ExpectedEvaluations(d, r) : x[2] # o
           /\ \A x \in ExpectedEvaluations(f, r) : x \in ExpectedEvaluations(d, r) \/ x[2] = o
    BY <1>2, KeptByAdded
  <1>4. \A r \in d.roles \ U : \A x \in ExpectedEvaluations(f, r) : x \in ExpectedEvaluations(d, r)
    <2>1. \A r \in d.roles \ U : \A x \in ExpectedEvaluations(f, r) :
             x \in ExpectedEvaluations(d, r)
             \/ (x[2] \in {o} /\ ~(ParentChain(e, x[2]) \subseteq ParentChain(e, o)))
      BY UntouchedByAdded
    <2> QED BY <2>1
  <1> HIDE DEF f, U
  <1>5. \A r : /\ want(r) \subseteq ExpectedEvaluations(f, r)
               /\ \A x \in ExpectedEvaluations(f, r) : x[2] = o => x \in want(r)
    <2>1. \A q : /\ ExpectedLook(f, q, o) \subseteq ExpectedDirect(f, q)
                 /\ \A x \in ExpectedDirect(f, q) : x[2] = o => x \in ExpectedLook(f, q, o)
      BY DEF ExpectedLook
    <2> QED BY <2>1 DEF ExpectedEvaluations
  <1>6. /\ g \in Db /\ SameSource(f, g) /\ g.provides = f.provides
        /\ \A r \in Role, x \in Evaluation :
              <<r, x>> \in g.evals <=>
                 \/ <<r, x>> \in f.evals /\ (r \in U \cap f.roles /\ x[2] = o => x \in want(r))
                 \/ r \in U \cap f.roles /\ x \in want(r)
    BY <1>1, LookAheadFields
  <1> HIDE DEF g, want
  <1>7. ASSUME NEW r \in Role, NEW x \in Evaluation
        PROVE  <<r, x>> \in g.evals <=> r \in f.roles /\ x \in ExpectedEvaluations(f, r)
    <2>1. <<r, x>> \in d.evals <=> r \in d.roles /\ x \in ExpectedEvaluations(d, r)
      BY DEF Added, Coherent, RightEvals
    <2> QED BY <1>1, <1>2, <1>3, <1>4, <1>5, <1>6, <2>1
  <1>8. RightProvides(g)
    BY <1>1, <1>6, SourceGivesProvided DEF RightProvides
  <1>9. RightEvals(g)
    <2>1. \A r : ExpectedEvaluations(g, r) = ExpectedEvaluations(f, r)
      BY <1>6, SourceGivesEvaluations
    <2>2. g.roles = f.roles
      BY <1>6 DEF SameSource
    <2> QED BY <1>7, <2>1, <2>2 DEF RightEvals
  <1> QED
    BY <1>1, <1>6, <1>8, <1>9, SameSourceSound DEF Coherent, g, f, U

LEMMA CreatedNowCoherent ==
    ASSUME NEW d, NEW e, NEW o, Added(d, e, {o})
    PROVE  Sound(CreatedNow(e, o)) /\ Coherent(CreatedNow(e, o))
  <1> DEFINE T == IF TypeOf[o] = "team" THEN {o} ELSE {}
             f == IF TypeOf[o] = "team" THEN ComputeTeamMemberRoles(e, {o}) ELSE e
  <1>1. f = ComputeTeamMemberRoles(e, T)
    BY ComputeNothing DEF Added, Sound
  <1>2. {o} \cap Team \subseteq T /\ T \cap d.objs = {}
    BY DEF Added, Team
  <1>3. CreatedNow(e, o) = RecomputeLookAhead(f, ObjectRolesForParents(e, ParentChain(e, o)), o)
    BY DEF CreatedNow
  <1> HIDE DEF f, T
  <1> QED
    BY <1>1, <1>2, <1>3, AddedLook

-----------------------------------------------------------------------------
(***************************************************************************)
(* Moving objects                                                          *)
(***************************************************************************)
\* Where the parents have no parents of their own, the direct parents, old and
\* new, lead to every role that gains or loses rows.
LEMMA MoveCoherent ==
    ASSUME NEW d, Sound(d), Coherent(d), NEW o \in d.objs, NEW p,
           p = NoObj \/ (p \in d.objs /\ TypeOf[p] = ParentType[TypeOf[o]]), p # d.parent[o],
           Top(TypeOf[o]) \/ Top(ParentType[TypeOf[o]])
    PROVE  Sound(Moved(d, o, p)) /\ Coherent(Moved(d, o, p))
  <1> DEFINE e      == [d EXCEPT !.parent[o] = p]
             old    == d.parent[o]
             P      == ParentChain(e, o) \cup ({old} \ {NoObj})
             update == ObjectRolesForParents(e, P)
             f      == IF TypeOf[o] = "team" THEN ComputeTeamMemberRoles(e, {o}) ELSE e
             T      == IF TypeOf[o] = "team" THEN {o} ELSE {}
  <1>0. /\ d \in Db /\ Linked(d) /\ ParentsExist(d) /\ d.roles \subseteq Role
        /\ d.objs \subseteq Obj /\ d.parent \in [Obj -> Obj \cup {NoObj}]
    BY DEF Sound, Db
  <1>1. /\ NoObj \notin Obj /\ TypeOf \in [Obj -> Type] /\ "none" \notin Type
        /\ ParentType \in [Type -> Type \cup {"none"}]
    BY CachingAssumption
  <1>2. /\ e \in Db /\ e.objs = d.objs /\ e.roles = d.roles /\ e.perms = d.perms
        /\ e.uasg = d.uasg /\ e.tasg = d.tasg /\ e.provides = d.provides /\ e.evals = d.evals
        /\ e.parent[o] = p /\ \A c \in Obj : c # o => e.parent[c] = d.parent[c]
    BY <1>0, <1>1 DEF Db
  <1> HIDE DEF e
  <1>3. old = NoObj \/ (old \in d.objs /\ TypeOf[old] = ParentType[TypeOf[o]])
    BY <1>0 DEF ParentsExist
  <1>4. Top(ParentType[TypeOf[o]]) /\ ~Top(TypeOf[o])
    BY <1>0, <1>1, <1>3 DEF Top
  <1>5. ASSUME NEW x \in {p, old}, x # NoObj
        PROVE  x \in Obj /\ x # o /\ d.parent[x] = NoObj /\ e.parent[x] = NoObj
    <2>1. x \in d.objs /\ x \in Obj /\ x # o /\ TypeOf[x] = ParentType[TypeOf[o]]
      BY <1>0, <1>3, <1>4, <1>5 DEF Top
    <2>2. d.parent[x] = NoObj
      BY <1>0, <1>1, <1>4, <2>1 DEF Top, ParentsExist
    <2> QED BY <1>2, <2>1, <2>2
  <1>6. P = {p, old} \ {NoObj}
    <2>1. ParentChain(e, o) = {p} \ {NoObj}
      BY <1>2, <1>5 DEF ParentChain
    <2> QED BY <2>1
  <1> HIDE DEF P, old
  <1>7. ASSUME NEW x \in Obj, x \notin P
        PROVE  Below(e, x) = Below(d, x)
    <2>0. x # p /\ x # old
      BY <1>1, <1>6, <1>7
    <2>1. ASSUME NEW c \in d.objs, c # o
          PROVE  c \in Below(e, x) <=> c \in Below(d, x)
      <3>1. e.parent[c] = d.parent[c] /\ c \in Obj
        BY <1>0, <1>2, <2>1
      <3>2. CASE d.parent[c] = o
        <4>1. e.parent[d.parent[c]] = p /\ d.parent[d.parent[c]] = old
          BY <1>2, <3>2 DEF old
        <4> QED BY <1>2, <2>0, <3>1, <4>1 DEF Below
      <3>3. CASE d.parent[c] # o
        BY <1>2, <3>1, <3>3 DEF Below
      <3> QED BY <3>2, <3>3
    <2>2. o \notin Below(d, x) /\ o \notin Below(e, x)
      <3>1. d.parent[o] = old /\ e.parent[o] = p
        BY <1>2 DEF old
      <3> QED BY <1>1, <1>5, <2>0, <3>1 DEF Below
    <2>3. \A c : c \in Below(e, x) <=> c \in Below(d, x)
      BY <1>2, <2>1, <2>2 DEF Below
    <2> QED BY <2>3
  <1>8. \A q \in Role : q[2] \notin P => ExpectedDirect(e, q) = ExpectedDirect(d, q)
    BY <1>2, <1>7, RoleFields DEF ExpectedDirect
  <1>9. \A y, q : y # o \/ (q \in Role /\ q[2] \notin P) =>
           (q \in DirectMemberRoles(e, y) <=> q \in DirectMemberRoles(d, y))
    <2> SUFFICES ASSUME NEW y, NEW q \in d.roles, y # o \/ q[2] \notin P
                 PROVE  q \in DirectMemberRoles(e, y) <=> q \in DirectMemberRoles(d, y)
      BY <1>2 DEF DirectMemberRoles
    <2>1. q[2] \in Obj
      BY <1>0, RoleFields
    <2>2. y \in d.objs => (e.parent[y] = q[2] <=> d.parent[y] = q[2])
      <3>1. CASE y # o
        BY <1>0, <1>2, <3>1
      <3>2. CASE y = o /\ q[2] \notin P
        BY <1>1, <1>2, <1>6, <2>1, <3>2 DEF old
      <3> QED BY <3>1, <3>2
    <2> QED BY <1>2, <2>2 DEF DirectMemberRoles, HasPerm
  <1>10. Sound(e)
    <2>1. ParentsExist(e)
      BY <1>0, <1>2 DEF ParentsExist
    <2> QED BY <1>2, <2>1 DEF Sound, Linked
  <1>11. \A y \in Team \ T : y # o
    BY DEF Team
  <1> HIDE DEF T
  <1>12. ASSUME NEW y \in Team \ T
         PROVE  DirectMemberRoles(e, y) = DirectMemberRoles(d, y)
    <2>1. \A q : q \in DirectMemberRoles(e, y) <=> q \in DirectMemberRoles(d, y)
      BY <1>9, <1>11
    <2> QED BY <2>1
  <1>13. ASSUME NEW x \in Team, NEW y \in Team, y \notin T
         PROVE  <<x, y>> \in TeamGraph(e) <=> <<x, y>> \in TeamGraph(d)
    <2>1. DirectMemberRoles(e, y) = DirectMemberRoles(d, y) /\ e.tasg = d.tasg
      BY <1>2, <1>12, <1>13
    <2> QED BY ONLY <2>1, GraphPoints
  <1>14. ASSUME NEW r \in e.roles \ update
         PROVE  RowsCarryOver(d, e, r)
    <2>1. TeamRoles(e, r) = TeamRoles(d, r)
      BY <1>2 DEF TeamRoles
    <2>2. r \in d.roles /\ r \in Role /\ r[2] \notin P
      BY <1>0, <1>2 DEF ObjectRolesForParents
    <2>3. \A q \in TeamRoles(d, r) : q \in Role /\ q[2] \notin P
      <3>1. TeamRoles(d, r) \subseteq d.roles
        BY <1>0 DEF TeamRoles, Linked
      <3> QED BY <1>0, <1>2, <2>1, <3>1 DEF ObjectRolesForParents
    <2>4. Targets(e, r) = Targets(d, r)
      BY <1>9, <2>2 DEF Targets
    <2>5. \A x \in Provided(d, r) : \A q : <<x, q>> \in d.tasg => q \in TeamRoles(d, r)
      <3>1. \A x \in Provided(d, r) : x \in Team /\ <<r, x>> \in d.provides
        BY <2>2, ProvidedClosed DEF Coherent, RightProvides
      <3> QED BY <1>0, <3>1, TeamRolesPoints
    <2>6. \A x \in Provided(d, r) : \A y \in Team : <<x, y>> \in TeamGraph(e) <=> <<x, y>> \in TeamGraph(d)
      BY <1>2, <1>9, <2>3, <2>5, GraphPoints
    <2>7. Provided(e, r) = Provided(d, r)
      BY <2>4, <2>6, SameProvided
    <2> QED BY <1>2, <1>8, <2>2, <2>3, <2>7 DEF RowsCarryOver
  <1> HIDE DEF update
  <1>15. Sound(Ended(e, T, update)) /\ Coherent(Ended(e, T, update))
    <2>1. d.objs \cap Team \subseteq e.objs /\ d.roles \subseteq e.roles
      BY <1>2
    <2> QED BY <1>2, <1>10, <1>12, <1>13, <1>14, <2>1, HandlerEnds
  <1>16. f = ComputeTeamMemberRoles(e, T)
    BY <1>2, ComputeNothing DEF T
  <1>17. Moved(d, o, p) = RecomputeRoleEvaluations(f, update)
    BY DEF Moved, e, f, update, P, old, T
  <1> QED
    BY <1>15, <1>16, <1>17 DEF Ended

-----------------------------------------------------------------------------
(***************************************************************************)
(* Deleting objects that are neither teams nor roots                       *)
(***************************************************************************)
\* d once the objects X are deleted with all that refers to them, and without
\* the objects C, on which there is nothing.
Without(d, X, C) ==
    [d EXCEPT !.objs     = @ \ (X \cup C),
              !.roles    = {r \in @ : r[2] \notin X},
              !.uasg     = {a \in @ : a[2][2] \notin X},
              !.tasg     = {a \in @ : a[2][2] \notin X},
              !.provides = {x \in @ : x[1][2] \notin X},
              !.evals    = {x \in @ : x[1][2] \notin X /\ x[2][2] \notin X}]

LEMMA DbUpdate ==
    ASSUME NEW d \in Db, NEW O \in SUBSET Obj, NEW R \in SUBSET Role, NEW ua \in SUBSET (User \X Role),
           NEW ta \in SUBSET (Team \X Role), NEW pr \in SUBSET (Role \X Team), NEW ev \in SUBSET (Role \X Evaluation)
    PROVE  [d EXCEPT !.objs = O, !.roles = R, !.uasg = ua, !.tasg = ta, !.provides = pr, !.evals = ev] \in Db
  BY DEF Db

LEMMA WithoutFields ==
    ASSUME NEW d \in Db, NEW X, NEW C
    PROVE  LET e == Without(d, X, C)
           IN  /\ e \in Db
               /\ e.objs = d.objs \ (X \cup C) /\ e.parent = d.parent /\ e.perms = d.perms
               /\ e.roles = {r \in d.roles : r[2] \notin X}
               /\ e.uasg = {a \in d.uasg : a[2][2] \notin X}
               /\ e.tasg = {a \in d.tasg : a[2][2] \notin X}
               /\ e.provides = {x \in d.provides : x[1][2] \notin X}
               /\ e.evals = {x \in d.evals : x[1][2] \notin X /\ x[2][2] \notin X}
  <1> DEFINE O  == d.objs \ (X \cup C)
             R  == {r \in d.roles : r[2] \notin X}
             ua == {a \in d.uasg : a[2][2] \notin X}
             ta == {a \in d.tasg : a[2][2] \notin X}
             pr == {x \in d.provides : x[1][2] \notin X}
             ev == {x \in d.evals : x[1][2] \notin X /\ x[2][2] \notin X}
             e  == [d EXCEPT !.objs = O, !.roles = R, !.uasg = ua, !.tasg = ta, !.provides = pr, !.evals = ev]
  <1>1. Without(d, X, C) = e
    BY DEF Without
  <1>2. /\ O \in SUBSET Obj /\ R \in SUBSET Role /\ ua \in SUBSET (User \X Role)
        /\ ta \in SUBSET (Team \X Role) /\ pr \in SUBSET (Role \X Team)
        /\ ev \in SUBSET (Role \X Evaluation)
    <2>1. /\ d.objs \in SUBSET Obj /\ d.roles \in SUBSET Role /\ d.uasg \in SUBSET (User \X Role)
          /\ d.tasg \in SUBSET (Team \X Role) /\ d.provides \in SUBSET (Role \X Team)
          /\ d.evals \in SUBSET (Role \X Evaluation)
      BY DEF Db
    <2> QED BY <2>1
  <1>3. /\ e.objs = O /\ e.parent = d.parent /\ e.perms = d.perms /\ e.roles = R
        /\ e.uasg = ua /\ e.tasg = ta /\ e.provides = pr /\ e.evals = ev
    <2> HIDE DEF O, R, ua, ta, pr, ev
    <2> QED BY DEF Db
  <1>4. e \in Db
    <2> HIDE DEF O, R, ua, ta, pr, ev
    <2> QED BY <1>2, DbUpdate
  <1> HIDE DEF e
  <1> QED
    BY <1>1, <1>3, <1>4

\* Everything below the objects X is in X.
DownClosed(d, X) == \A c \in d.objs : d.parent[c] \in X => c \in X

LEMMA BelowSeparate ==
    ASSUME NEW d, Sound(d), NEW X, DownClosed(d, X), NEW q \in d.roles
    PROVE  /\ q[2] \in X => \A x \in ExpectedDirect(d, q) : x[2] \in X
           /\ \A e : e.objs = d.objs \ X /\ e.parent = d.parent /\ e.perms = d.perms =>
                 \A x : /\ q[2] \notin X => (x \in ExpectedDirect(e, q) <=> x \in ExpectedDirect(d, q) /\ x[2] \notin X)
                        /\ q[2] \in X => (x \in ExpectedDirect(e, q) => x[2] \in X)
  <1> DEFINE onSelf(p) == p.type = TypeOf[q[2]] \/ IsAdd(p) \/ CacheParentPermissions
             perms == d.perms[q[1]]
             kids(B, p) == IF p.type = TypeOf[q[2]] THEN {} ELSE {c \in B : TypeOf[c] = EvalType(p)}
             direct(B) == {p \in perms : onSelf(p)} \X {q[2]} \cup UNION {{p} \X kids(B, p) : p \in perms}
  <1>1. ExpectedDirect(d, q) = direct(Below(d, q[2]))
    BY DEF ExpectedDirect
  <1>2. \A e : e.perms = d.perms => ExpectedDirect(e, q) = direct(Below(e, q[2]))
    BY DEF ExpectedDirect
  <1>3. \A B : \A x \in direct(B) : x[2] = q[2] \/ x[2] \in B
    OBVIOUS
  <1>4. q[2] \notin X => \A B : \A x : x \in direct(B \ X) <=> x \in direct(B) /\ x[2] \notin X
    OBVIOUS
  <1> HIDE DEF direct
  <1>5. q[2] \in X => Below(d, q[2]) \subseteq X
    <2>1. NoObj \notin Obj /\ \A c \in d.objs : d.parent[c] = NoObj \/ d.parent[c] \in d.objs
      BY CachingAssumption DEF Sound, ParentsExist
    <2> QED BY <2>1 DEF DownClosed, Below
  <1>6. ASSUME NEW e, e.objs = d.objs \ X, e.parent = d.parent
        PROVE  Below(e, q[2]) = Below(d, q[2]) \ X
    BY <1>6 DEF Below
  <1>7. q[2] \in X => \A x \in ExpectedDirect(d, q) : x[2] \in X
    BY <1>1, <1>3, <1>5
  <1>8. ASSUME NEW e, e.objs = d.objs \ X, e.parent = d.parent, e.perms = d.perms
        PROVE  \A x : /\ q[2] \notin X => (x \in ExpectedDirect(e, q) <=> x \in ExpectedDirect(d, q) /\ x[2] \notin X)
                      /\ q[2] \in X => (x \in ExpectedDirect(e, q) => x[2] \in X)
    <2>1. ExpectedDirect(e, q) = direct(Below(d, q[2]) \ X)
      BY <1>2, <1>6, <1>8
    <2> QED BY <1>1, <1>3, <1>4, <1>5, <2>1
  <1> QED
    BY <1>7, <1>8

\* The objects X are no source of membership.
SeparateIn(d, X) ==
    /\ X \cap Team = {} /\ \A x \in X : x \in Obj /\ TypeOf[x] # "org"
    /\ DownClosed(d, X)

LEMMA SubtreeGone ==
    ASSUME NEW d, Sound(d), Coherent(d), NEW X, SeparateIn(d, X)
    PROVE  Sound(Without(d, X, {})) /\ Coherent(Without(d, X, {}))
  <1> DEFINE e == Without(d, X, {})
  <1>0. d \in Db /\ Linked(d) /\ ParentsExist(d) /\ d.roles \subseteq Role /\ d.tasg \subseteq Team \X Role
    BY DEF Sound, Db
  <1>1. /\ e \in Db
        /\ e.objs = d.objs \ X /\ e.parent = d.parent /\ e.perms = d.perms
        /\ e.roles = {r \in d.roles : r[2] \notin X}
        /\ e.uasg = {a \in d.uasg : a[2][2] \notin X}
        /\ e.tasg = {a \in d.tasg : a[2][2] \notin X}
        /\ e.provides = {x \in d.provides : x[1][2] \notin X}
        /\ e.evals = {x \in d.evals : x[1][2] \notin X /\ x[2][2] \notin X}
    BY <1>0, WithoutFields
  <1> HIDE DEF e
  <1>2. Sound(e)
    <2>1. Linked(e)
      BY <1>0, <1>1 DEF Linked
    <2>2. ParentsExist(e)
      BY <1>0, <1>1 DEF ParentsExist, SeparateIn, DownClosed
    <2>3. \A r \in e.roles : r[2] \in e.objs
      BY <1>1 DEF Sound
    <2>4. \A a \in e.tasg : a[1] \in e.objs
      <3>1. \A a \in d.tasg : a[1] \in Team /\ a[1] \in d.objs
        BY <1>0 DEF Sound
      <3> QED BY <1>1, <3>1 DEF SeparateIn
    <2> QED BY <1>1, <2>1, <2>2, <2>3, <2>4 DEF Sound
  <1>3. ASSUME NEW y \in Team
        PROVE  \A q : /\ q \in DirectMemberRoles(e, y) <=> q \in DirectMemberRoles(d, y)
                      /\ q \in DirectMemberRoles(d, y) => q[2] \notin X
    <2>1. y \notin X
      BY DEF SeparateIn
    <2>2. \A q : q \in DirectMemberRoles(d, y) => q[2] \notin X
      BY <2>1 DEF DirectMemberRoles, SeparateIn
    <2> QED BY <1>1, <2>1, <2>2 DEF DirectMemberRoles, HasPerm
  <1>4. /\ \A h, q : <<h, q>> \in e.tasg <=> <<h, q>> \in d.tasg /\ q[2] \notin X
        /\ \A r, t : <<r, t>> \in e.provides <=> <<r, t>> \in d.provides /\ r[2] \notin X
        /\ \A r, x : <<r, x>> \in e.evals <=> <<r, x>> \in d.evals /\ r[2] \notin X /\ x[2] \notin X
    BY <1>1
  <1>5. \A x, y : <<x, y>> \in TeamGraph(e) <=> <<x, y>> \in TeamGraph(d)
    BY <1>3, <1>4, GraphPoints
  <1>6. ASSUME NEW r
        PROVE  Provided(e, r) = Provided(d, r)
    <2>1. Targets(e, r) = Targets(d, r)
      BY <1>3 DEF Targets
    <2> QED BY <1>5, <2>1, SameProvided
  <1>7. RightProvides(e)
    <2> SUFFICES ASSUME NEW r \in Role, NEW t \in Team
                 PROVE  <<r, t>> \in e.provides <=> t \in Provided(e, r)
      BY DEF RightProvides
    <2>1. <<r, t>> \in d.provides <=> t \in Provided(d, r)
      BY DEF Coherent, RightProvides
    <2>2. t \in Provided(e, r) => r[2] \notin X
      BY <1>1, <1>2, ProvidedExist
    <2> QED BY <1>4, <1>6, <2>1, <2>2
  <1>8. ASSUME NEW r \in e.roles, NEW x
        PROVE  x \in ExpectedEvaluations(e, r) <=> x \in ExpectedEvaluations(d, r) /\ x[2] \notin X
    <2>1. r \in d.roles /\ r[2] \notin X
      BY <1>1
    <2>2. \A q : q \in TeamRoles(e, r) <=> q \in TeamRoles(d, r) /\ q[2] \notin X
      BY <1>0, <1>1, <1>4, <2>1, TeamRolesPoints
    <2>3. \A q \in {r} \cup TeamRoles(d, r) : q \in d.roles
      BY <1>0, <2>1 DEF TeamRoles, Linked
    <2>4. \A q \in {r} \cup TeamRoles(d, r) :
             /\ q[2] \in X => (x \in ExpectedDirect(d, q) => x[2] \in X)
             /\ q[2] \notin X => (x \in ExpectedDirect(e, q) <=> x \in ExpectedDirect(d, q) /\ x[2] \notin X)
      BY <1>1, <2>3, BelowSeparate DEF SeparateIn
    <2>5. /\ x \in ExpectedEvaluations(d, r) <=> \E q \in {r} \cup TeamRoles(d, r) : x \in ExpectedDirect(d, q)
          /\ x \in ExpectedEvaluations(e, r) <=> \E q \in {r} \cup TeamRoles(e, r) : x \in ExpectedDirect(e, q)
      BY DEF ExpectedEvaluations
    <2> QED BY <2>1, <2>2, <2>4, <2>5
  <1>9. RightEvals(e)
    <2> SUFFICES ASSUME NEW r \in Role, NEW x \in Evaluation
                 PROVE  <<r, x>> \in e.evals <=> r \in e.roles /\ x \in ExpectedEvaluations(e, r)
      BY DEF RightEvals
    <2>1. <<r, x>> \in d.evals <=> r \in d.roles /\ x \in ExpectedEvaluations(d, r)
      BY DEF Coherent, RightEvals
    <2> QED BY <1>1, <1>4, <1>8, <2>1
  <1> QED
    BY <1>2, <1>7, <1>9 DEF Coherent, e

-----------------------------------------------------------------------------
(***************************************************************************)
(* Deleting a team                                                         *)
(***************************************************************************)
\* d is what the deletion of team t has left of b when the post_delete handler
\* runs: the rows of the many-to-many tables that name t are gone, and its row.
TeamRowsGone(b, d, t) ==
    /\ Sound(b) /\ Coherent(b) /\ d \in Db /\ t \in Team /\ t \in b.objs /\ DownClosed(b, {t})
    /\ d.objs = b.objs \ {t} /\ d.parent = b.parent /\ d.perms = b.perms /\ d.roles = b.roles
    /\ d.uasg = b.uasg /\ d.tasg = {a \in b.tasg : a[1] # t}
    /\ d.provides = {x \in b.provides : x[2] # t} /\ d.evals = b.evals

\* The teams stashed by team_pre_delete: those of which the members of t were
\* made members by a role that t held.
Stash(b, t) == {c \in Team : c # t /\ \E r \in b.roles : /\ <<t, r>> \in b.tasg /\ HasPerm(b, r, MemberTeam)
                                                         /\ <<r, c>> \in b.provides}

\* Every team below t other than t is reached from the stashed ones.
LEMMA StashReaches ==
    ASSUME NEW b, NEW d, NEW t, TeamRowsGone(b, d, t)
    PROVE  Reach(TeamGraph(b), {t}) \subseteq Reach(TeamGraph(d), Stash(b, t) \cap Team) \cup {t}
  <1> DEFINE S == Stash(b, t) \cap Team
             C == Reach(TeamGraph(d), S) \cup {t}
  <1>0. b \in Db /\ Linked(b) /\ t \in Team
    BY DEF TeamRowsGone, Sound
  <1>1. C \in SUBSET Team /\ {t} \subseteq C /\ S \subseteq C /\ Closed(TeamGraph(d), Reach(TeamGraph(d), S))
    BY <1>0, ReachType, ReachContains, ReachClosed, TeamGraphType
  <1>2. ASSUME NEW x \in C, NEW y \in Team, <<x, y>> \in TeamGraph(b), y # t
        PROVE  y \in C
    <2>1. PICK q : q \in DirectMemberRoles(b, y) /\ <<x, q>> \in b.tasg
      BY <1>2, GraphPoints
    <2>2. CASE x = t
      <3>1. q \in b.roles /\ HasPerm(b, q, MemberTeam) /\ q \in Role
        BY <1>0, <2>1 DEF DirectMemberRoles, Db
      <3>2. y \in Provided(b, q)
        BY <2>1, ProvidedClosed DEF Targets
      <3>3. <<q, y>> \in b.provides
        BY <3>1, <3>2 DEF TeamRowsGone, Coherent, RightProvides
      <3>4. y \in S
        BY <1>2, <2>1, <2>2, <3>1, <3>3 DEF Stash
      <3> QED BY <1>1, <3>4
    <2>3. CASE x # t
      <3>1. x \in Reach(TeamGraph(d), S) /\ x \in Team
        BY <1>1, <2>3
      <3>2. q \in DirectMemberRoles(d, y) /\ <<x, q>> \in d.tasg
        <4>1. y \in b.objs => y \in d.objs
          BY <1>2 DEF TeamRowsGone
        <4>2. q \in DirectMemberRoles(d, y)
          BY <2>1, <4>1 DEF DirectMemberRoles, HasPerm, TeamRowsGone
        <4> QED BY <2>1, <2>3, <4>2 DEF TeamRowsGone
      <3>3. <<x, y>> \in TeamGraph(d)
        BY <3>1, <3>2, GraphPoints
      <3> QED BY <1>1, <3>1, <3>3 DEF Closed
    <2> QED BY <2>2, <2>3
  <1>3. Closed(TeamGraph(b), C)
    <2> HIDE DEF C
    <2> SUFFICES ASSUME NEW e \in TeamGraph(b), e[1] \in C PROVE e[2] \in C
      BY DEF Closed
    <2>1. e = <<e[1], e[2]>> /\ e[2] \in Team
      BY TeamGraphType
    <2> QED BY <1>1, <1>2, <2>1
  <1> QED
    BY <1>1, <1>3, ReachLeast

LEMMA TeamGone ==
    ASSUME NEW b, NEW d, NEW t, TeamRowsGone(b, d, t), NEW U, AncestorRoles(d, {t}) \subseteq U
    PROVE  LET g == Ended(d, Stash(b, t), U)
           IN  Sound(Without(g, {t}, {})) /\ Coherent(Without(g, {t}, {}))
  <1> DEFINE S == Stash(b, t)
             f == ComputeTeamMemberRoles(d, S)
             g == RecomputeRoleEvaluations(f, U)
             h == Without(g, {t}, {})
  <1>0. /\ b \in Db /\ d \in Db /\ Linked(b) /\ ParentsExist(b) /\ t \in Team /\ t \in b.objs /\ TypeOf[t] = "team"
        /\ b.roles \subseteq Role /\ \A a \in b.tasg : a = <<a[1], a[2]>> /\ a[1] \in Team /\ a[2] \in b.roles
    BY DEF TeamRowsGone, Sound, Linked, Db, Team
  <1>1. /\ d.objs = b.objs \ {t} /\ d.parent = b.parent /\ d.perms = b.perms /\ d.roles = b.roles
        /\ d.uasg = b.uasg /\ d.evals = b.evals
        /\ \A c, q : <<c, q>> \in d.tasg <=> <<c, q>> \in b.tasg /\ c # t
        /\ \A r, c : <<r, c>> \in d.provides <=> <<r, c>> \in b.provides /\ c # t
    BY DEF TeamRowsGone
  <1>2. /\ f \in Db /\ SameSource(d, f) /\ f.evals = d.evals
        /\ \A r \in Role, c \in Team :
              <<r, c>> \in f.provides <=>
                 \/ c \in d.objs \cap Reach(TeamGraph(d), S \cap Team) /\ r \in MemberRoles(d, c)
                 \/ c \notin d.objs \cap Reach(TeamGraph(d), S \cap Team) /\ <<r, c>> \in d.provides
    BY <1>0, ComputeFields
  <1> HIDE DEF f
  <1>3. /\ g \in Db /\ SameSource(f, g) /\ g.provides = f.provides
        /\ \A r \in Role, x \in Evaluation :
              <<r, x>> \in g.evals <=> \/ r \in U \cap f.roles /\ x \in ExpectedEvaluations(f, r)
                                       \/ r \notin U \cap f.roles /\ <<r, x>> \in f.evals
    BY <1>2, RecomputeFields
  <1> HIDE DEF g
  <1>4. /\ h \in Db /\ h.objs = b.objs \ {t} /\ h.parent = b.parent /\ h.perms = b.perms
        /\ h.roles = {r \in b.roles : r[2] # t}
        /\ h.uasg = {a \in b.uasg : a[2][2] # t}
        /\ h.tasg = {a \in d.tasg : a[2][2] # t}
        /\ \A c, q : <<c, q>> \in h.tasg <=> <<c, q>> \in b.tasg /\ c # t /\ q[2] # t
        /\ \A r, c : <<r, c>> \in h.provides <=> <<r, c>> \in f.provides /\ r[2] # t
        /\ \A r, x : <<r, x>> \in h.evals <=> <<r, x>> \in g.evals /\ r[2] # t /\ x[2] # t
    <2>1. /\ h \in Db
          /\ h.objs = g.objs \ ({t} \cup {}) /\ h.parent = g.parent /\ h.perms = g.perms
          /\ h.roles = {r \in g.roles : r[2] \notin {t}}
          /\ h.uasg = {a \in g.uasg : a[2][2] \notin {t}}
          /\ h.tasg = {a \in g.tasg : a[2][2] \notin {t}}
          /\ h.provides = {x \in g.provides : x[1][2] \notin {t}}
          /\ h.evals = {x \in g.evals : x[1][2] \notin {t} /\ x[2][2] \notin {t}}
      BY <1>3, WithoutFields
    <2> HIDE DEF h
    <2>2. g.objs = d.objs /\ g.parent = d.parent /\ g.perms = d.perms /\ g.roles = d.roles
          /\ g.uasg = d.uasg /\ g.tasg = d.tasg
      BY <1>2, <1>3 DEF SameSource
    <2>3. /\ h \in Db /\ h.objs = b.objs \ {t} /\ h.parent = b.parent /\ h.perms = b.perms
          /\ h.roles = {r \in b.roles : r[2] # t}
          /\ h.uasg = {a \in b.uasg : a[2][2] # t}
          /\ h.tasg = {a \in d.tasg : a[2][2] # t}
      BY <1>1, <2>1, <2>2
    <2>4. \A c, q : <<c, q>> \in h.tasg <=> <<c, q>> \in b.tasg /\ c # t /\ q[2] # t
      BY <1>1, <2>3
    <2>5. \A r, c : <<r, c>> \in h.provides <=> <<r, c>> \in f.provides /\ r[2] # t
      BY <1>3, <2>1
    <2>6. \A r, x : <<r, x>> \in h.evals <=> <<r, x>> \in g.evals /\ r[2] # t /\ x[2] # t
      BY <2>1
    <2> QED BY <2>3, <2>4, <2>5, <2>6
  <1> HIDE DEF h
  <1>5. Sound(h)
    <2>1. Linked(h)
      BY <1>0, <1>1, <1>4 DEF Linked, TeamRowsGone
    <2>2. ParentsExist(h)
      <3>1. \A c \in b.objs : c # t => b.parent[c] # t
        BY DEF TeamRowsGone, DownClosed
      <3> QED BY <1>0, <1>4, <3>1 DEF ParentsExist
    <2>3. \A r \in h.roles : r[2] \in h.objs
      BY <1>4 DEF TeamRowsGone, Sound
    <2>4. \A a \in h.tasg : a[1] \in h.objs
      <3>1. \A a \in h.tasg : a \in b.tasg /\ a[1] # t
        BY <1>4 DEF TeamRowsGone
      <3> QED BY <1>4, <3>1 DEF TeamRowsGone, Sound
    <2> QED BY <1>4, <2>1, <2>2, <2>3, <2>4 DEF Sound
  \* Team-of-team edges
  <1>6. ASSUME NEW y, y # t
        PROVE  \A q : /\ q \in DirectMemberRoles(h, y) <=> q \in DirectMemberRoles(b, y)
                      /\ q \in DirectMemberRoles(d, y) <=> q \in DirectMemberRoles(b, y)
                      /\ q \in DirectMemberRoles(b, y) => q[2] # t
    <2>1. "team" # "org"
      OBVIOUS
    <2>2. \A q : q \in DirectMemberRoles(b, y) => q[2] # t
      BY <1>0, <1>6, <2>1 DEF DirectMemberRoles
    <2>3. y \in b.objs <=> y \in h.objs
      BY <1>4, <1>6
    <2>4. \A q : q \in DirectMemberRoles(h, y) <=> q \in DirectMemberRoles(b, y)
      BY <1>4, <2>2, <2>3 DEF DirectMemberRoles, HasPerm
    <2>5. \A q : q \in DirectMemberRoles(d, y) <=> q \in DirectMemberRoles(b, y)
      BY <1>1, <1>4, <2>3 DEF DirectMemberRoles, HasPerm
    <2> QED BY <2>2, <2>4, <2>5
  <1>7. \A q : q \notin DirectMemberRoles(h, t)
    BY <1>4 DEF DirectMemberRoles
  <1>8. \A x, y : <<x, y>> \in TeamGraph(h) <=> <<x, y>> \in TeamGraph(b) /\ x # t /\ y # t
    <2> TAKE x, y
    <2>1. CASE y = t
      BY <1>7, <2>1, GraphPoints
    <2>2. CASE y # t
      BY <1>4, <1>6, <2>2, GraphPoints
    <2> QED BY <2>1, <2>2
  <1>9. \A x, y : y # t => (<<x, y>> \in TeamGraph(d) <=> <<x, y>> \in TeamGraph(b) /\ x # t)
    BY <1>1, <1>6, GraphPoints
  \* Membership of the teams that are left
  <1>10. ASSUME NEW c \in Team, c # t
         PROVE  MemberRoles(h, c) = MemberRoles(d, c)
    <2> DEFINE up == Reach(Reversed(TeamGraph(h)), {c})
    <2>1. up \subseteq Team \ {t}
      <3>1. Closed(Reversed(TeamGraph(h)), Team \ {t})
        <4> SUFFICES ASSUME NEW e \in Reversed(TeamGraph(h)) PROVE e[2] \in Team \ {t}
          BY DEF Closed
        <4>1. <<e[2], e[1]>> \in TeamGraph(h)
          <5>1. e = <<e[1], e[2]>>
            BY TeamGraphType, ReversedEdges
          <5> QED BY <5>1, TeamGraphType, ReversedEdges
        <4> QED BY <1>8, <4>1, GraphPoints
      <3> QED BY <1>10, <3>1, ReachLeast
    <2>2. \A x \in up : \A y \in Team : <<x, y>> \in Reversed(TeamGraph(h)) <=> <<x, y>> \in Reversed(TeamGraph(d))
      <3> SUFFICES ASSUME NEW x \in up, NEW y \in Team
                   PROVE  <<y, x>> \in TeamGraph(h) <=> <<y, x>> \in TeamGraph(d)
        BY TeamGraphType, ReversedEdges
      <3> QED BY <1>8, <1>9, <2>1
    <2>3. up = Reach(Reversed(TeamGraph(d)), {c})
      BY <2>2, TeamGraphType, ReversedEdges, SameReach
    <2>4. \A a \in up : DirectMemberRoles(h, a) = DirectMemberRoles(d, a)
      <3> SUFFICES ASSUME NEW a \in up PROVE DirectMemberRoles(h, a) = DirectMemberRoles(d, a)
        OBVIOUS
      <3>1. a # t
        BY <2>1
      <3>2. \A q : q \in DirectMemberRoles(h, a) <=> q \in DirectMemberRoles(d, a)
        BY <1>6, <3>1
      <3> QED BY <3>2
    <2> HIDE DEF up
    <2>5. MemberRoles(h, c) = UNION {DirectMemberRoles(h, a) : a \in up}
      BY DEF MemberRoles, MemberRolesIn, up
    <2>6. MemberRoles(d, c) = UNION {DirectMemberRoles(d, a) : a \in up}
      BY <2>3 DEF MemberRoles, MemberRolesIn
    <2> QED BY <2>4, <2>5, <2>6
  <1>11. ASSUME NEW c \in Team, c # t, c \notin Reach(TeamGraph(d), S \cap Team)
         PROVE  MemberRoles(h, c) = MemberRoles(b, c)
    <2> DEFINE up == Reach(Reversed(TeamGraph(b)), {c})
    <2>1. c \notin Reach(TeamGraph(b), {t})
      BY <1>11, StashReaches
    <2>2. t \notin up
      <3>1. up \cap {t} = {}
        BY <1>0, <2>1, ReachDuality, TeamGraphType
      <3> QED BY <3>1
    <2>3. Closed(Reversed(TeamGraph(b)), up) /\ up \subseteq Team
      BY ReachClosed, ReachType, TeamGraphType, ReversedEdges
    <2>4. \A x \in up : \A y \in Team : <<x, y>> \in Reversed(TeamGraph(b)) <=> <<x, y>> \in Reversed(TeamGraph(h))
      <3> SUFFICES ASSUME NEW x \in up, NEW y \in Team
                   PROVE  <<y, x>> \in TeamGraph(b) <=> <<y, x>> \in TeamGraph(h)
        BY TeamGraphType, ReversedEdges
      <3>1. <<y, x>> \in TeamGraph(b) => y \in up
        <4>1. <<y, x>> \in TeamGraph(b) => <<x, y>> \in Reversed(TeamGraph(b))
          BY TeamGraphType, ReversedEdges
        <4> HIDE DEF up
        <4> QED BY <2>3, <4>1 DEF Closed
      <3> HIDE DEF up
      <3> QED BY <1>8, <2>2, <3>1
    <2>5. up = Reach(Reversed(TeamGraph(h)), {c})
      <3>1. /\ Reversed(TeamGraph(b)) \in SUBSET (Team \X Team)
            /\ Reversed(TeamGraph(h)) \in SUBSET (Team \X Team)
            /\ {c} \in SUBSET Team
        BY TeamGraphType, ReversedEdges
      <3> QED BY ONLY <2>4, <3>1, SameReach
    <2>6. \A a \in up : DirectMemberRoles(h, a) = DirectMemberRoles(b, a)
      <3> SUFFICES ASSUME NEW a \in up PROVE DirectMemberRoles(h, a) = DirectMemberRoles(b, a)
        OBVIOUS
      <3>1. a # t
        BY <2>2
      <3>2. \A q : q \in DirectMemberRoles(h, a) <=> q \in DirectMemberRoles(b, a)
        BY <1>6, <3>1
      <3> QED BY <3>2
    <2> HIDE DEF up
    <2>7. MemberRoles(h, c) = UNION {DirectMemberRoles(h, a) : a \in up}
      BY <2>5 DEF MemberRoles, MemberRolesIn
    <2>8. MemberRoles(b, c) = UNION {DirectMemberRoles(b, a) : a \in up}
      BY DEF MemberRoles, MemberRolesIn, up
    <2> QED BY <2>6, <2>7, <2>8
  <1>12. RightProvides(h)
    <2> SUFFICES ASSUME NEW r \in Role, NEW c \in Team
                 PROVE  <<r, c>> \in h.provides <=> c \in Provided(h, r)
      BY DEF RightProvides
    <2>1. <<r, c>> \in b.provides <=> c \in Provided(b, r)
      BY DEF TeamRowsGone, Coherent, RightProvides
    <2>2. CASE c \notin d.objs
      <3>1. c \notin Provided(h, r)
        BY <1>1, <1>4, <1>5, <2>2, ProvidedExist
      <3>2. <<r, c>> \notin d.provides
        BY <1>1, <2>1, <2>2, ProvidedExist DEF TeamRowsGone
      <3> QED BY <1>2, <1>4, <2>2, <3>1, <3>2
    <2>3. CASE c \in d.objs
      <3>0. c # t
        BY <1>1, <2>3
      <3>1. c \in Provided(h, r) <=> r \in MemberRoles(h, c)
        BY ProvidedAreMembers
      <3>2. c \in Provided(h, r) => r[2] # t
        BY <1>4, <1>5, ProvidedExist
      <3>3. CASE c \in Reach(TeamGraph(d), S \cap Team)
        BY <1>2, <1>4, <1>10, <2>3, <3>0, <3>1, <3>2, <3>3
      <3>4. CASE c \notin Reach(TeamGraph(d), S \cap Team)
        <4>1. MemberRoles(h, c) = MemberRoles(b, c)
          BY <1>11, <3>0, <3>4
        <4>2. r \in MemberRoles(b, c) <=> c \in Provided(b, r)
          BY ProvidedAreMembers
        <4> QED BY <1>1, <1>2, <1>4, <2>1, <3>0, <3>1, <3>2, <3>4, <4>1, <4>2
      <3> QED BY <3>3, <3>4
    <2> QED BY <2>2, <2>3
  \* Evaluations of the roles that are left
  <1>13. ASSUME NEW q \in b.roles, NEW x, x[2] # t
         PROVE  /\ q[2] # t => /\ x \in ExpectedDirect(h, q) <=> x \in ExpectedDirect(b, q)
                               /\ x \in ExpectedDirect(f, q) <=> x \in ExpectedDirect(b, q)
                /\ q[2] = t => x \notin ExpectedDirect(b, q) /\ x \notin ExpectedDirect(f, q)
    <2>1. f.objs = b.objs \ {t} /\ f.parent = b.parent /\ f.perms = b.perms
      BY <1>1, <1>2 DEF SameSource
    <2>2. Sound(b) /\ DownClosed(b, {t})
      BY DEF TeamRowsGone
    <2>3. /\ q[2] \in {t} => \A z \in ExpectedDirect(b, q) : z[2] \in {t}
          /\ \A e : e.objs = b.objs \ {t} /\ e.parent = b.parent /\ e.perms = b.perms =>
                \A z : /\ q[2] \notin {t} => (z \in ExpectedDirect(e, q) <=> z \in ExpectedDirect(b, q) /\ z[2] \notin {t})
                       /\ q[2] \in {t} => (z \in ExpectedDirect(e, q) => z[2] \in {t})
      BY <2>2, BelowSeparate
    <2> QED BY <1>4, <1>13, <2>1, <2>3
  <1>14. ASSUME NEW r \in h.roles, r \in U, NEW x, x[2] # t
         PROVE  x \in ExpectedEvaluations(h, r) <=> x \in ExpectedEvaluations(f, r)
    <2>1. r \in b.roles /\ r \in Role /\ r[2] # t
      BY <1>0, <1>4
    <2>2. f.tasg = d.tasg
      BY <1>2 DEF SameSource
    <2>3. \A q : q \in TeamRoles(h, r) <=> q \in TeamRoles(f, r) /\ q[2] # t
      <3>1. \A q : q \in TeamRoles(h, r) <=> \E c \in Team : <<r, c>> \in h.provides /\ <<c, q>> \in h.tasg
        BY <1>4, TeamRolesPoints
      <3>2. \A q : q \in TeamRoles(f, r) <=> \E c \in Team : <<r, c>> \in f.provides /\ <<c, q>> \in f.tasg
        BY <1>2, TeamRolesPoints
      <3> QED BY <1>1, <1>4, <2>1, <2>2, <3>1, <3>2
    <2>4. \A q \in {r} \cup TeamRoles(f, r) : q \in b.roles
      <3>1. \A q \in TeamRoles(f, r) : \E c : <<c, q>> \in d.tasg
        BY <1>2, <2>2, TeamRolesPoints
      <3> QED BY <1>0, <1>1, <2>1, <3>1
    <2>5. \A q \in {r} \cup TeamRoles(f, r) :
             /\ q[2] # t => (x \in ExpectedDirect(h, q) <=> x \in ExpectedDirect(f, q))
             /\ q[2] = t => x \notin ExpectedDirect(f, q)
      BY <1>13, <1>14, <2>4
    <2>6. /\ x \in ExpectedEvaluations(f, r) <=> \E q \in {r} \cup TeamRoles(f, r) : x \in ExpectedDirect(f, q)
          /\ x \in ExpectedEvaluations(h, r) <=> \E q \in {r} \cup TeamRoles(h, r) : x \in ExpectedDirect(h, q)
      BY DEF ExpectedEvaluations
    <2> QED BY <2>1, <2>3, <2>5, <2>6
  <1>15. ASSUME NEW r \in h.roles, r \notin U, NEW x, x[2] # t
         PROVE  x \in ExpectedEvaluations(h, r) <=> x \in ExpectedEvaluations(b, r)
    <2>1. r \in b.roles /\ r \in Role /\ r[2] # t
      BY <1>0, <1>4
    <2>2. t \notin Provided(b, r)
      <3> SUFFICES ASSUME t \in Provided(b, r) PROVE FALSE
        OBVIOUS
      <3>1. <<r, t>> \in b.provides
        BY <1>0, <2>1 DEF TeamRowsGone, Coherent, RightProvides
      <3>2. <<r, <<MemberTeam, t>>>> \in d.evals
        BY <1>1, <3>1, ProvidedIsEvaluated DEF TeamRowsGone
      <3>3. r \in AncestorRoles(d, {t})
        BY <1>1, <2>1, <3>2 DEF AncestorRoles
      <3> QED BY <1>15, <3>3
    <2>3. Targets(h, r) = Targets(b, r)
      <3>1. t \notin Targets(b, r) /\ t \notin Targets(h, r)
        BY <1>7, <2>2, ProvidedClosed DEF Targets
      <3>2. \A y \in Team : y # t => (r \in DirectMemberRoles(h, y) <=> r \in DirectMemberRoles(b, y))
        BY <1>6
      <3> QED BY <3>1, <3>2 DEF Targets
    <2>4. \A y \in Provided(b, r) : \A z \in Team : <<y, z>> \in TeamGraph(h) <=> <<y, z>> \in TeamGraph(b)
      <3>1. \A y \in Provided(b, r) : \A z \in Team : <<y, z>> \in TeamGraph(b) => z \in Provided(b, r)
        BY ProvidedClosed DEF Closed
      <3> QED BY <1>8, <2>2, <3>1
    <2>5. Provided(h, r) = Provided(b, r)
      BY <2>3, <2>4, SameProvided
    <2>6. \A q : q \in TeamRoles(h, r) <=> q \in TeamRoles(b, r) /\ q[2] # t
      <3>1. \A q : q \in TeamRoles(h, r) <=> \E c \in Team : c \in Provided(h, r) /\ <<c, q>> \in h.tasg
        BY <1>4, <1>12, <2>1, TeamRolesPoints DEF RightProvides
      <3>2. \A q : q \in TeamRoles(b, r) <=> \E c \in Team : c \in Provided(b, r) /\ <<c, q>> \in b.tasg
        BY <1>0, <2>1, TeamRolesPoints DEF RightProvides, TeamRowsGone, Coherent
      <3>3. \A c, q : c \in Provided(h, r) /\ <<c, q>> \in h.tasg
                       <=> c \in Provided(b, r) /\ <<c, q>> \in b.tasg /\ q[2] # t
        BY <1>4, <2>2, <2>5
      <3> QED BY ONLY <3>1, <3>2, <3>3
    <2>7. \A q \in {r} \cup TeamRoles(b, r) : q \in b.roles
      BY <1>0, <2>1 DEF TeamRoles
    <2>8. \A q \in {r} \cup TeamRoles(b, r) :
             /\ q[2] # t => (x \in ExpectedDirect(h, q) <=> x \in ExpectedDirect(b, q))
             /\ q[2] = t => x \notin ExpectedDirect(b, q)
      BY <1>13, <1>15, <2>7
    <2>9. /\ x \in ExpectedEvaluations(b, r) <=> \E q \in {r} \cup TeamRoles(b, r) : x \in ExpectedDirect(b, q)
          /\ x \in ExpectedEvaluations(h, r) <=> \E q \in {r} \cup TeamRoles(h, r) : x \in ExpectedDirect(h, q)
      BY DEF ExpectedEvaluations
    <2> QED BY <2>1, <2>6, <2>8, <2>9
  <1>16. RightEvals(h)
    <2> SUFFICES ASSUME NEW r \in Role, NEW x \in Evaluation
                 PROVE  <<r, x>> \in h.evals <=> r \in h.roles /\ x \in ExpectedEvaluations(h, r)
      BY DEF RightEvals
    <2>0. /\ f.roles = b.roles /\ f.evals = b.evals
          /\ <<r, x>> \in b.evals <=> r \in b.roles /\ x \in ExpectedEvaluations(b, r)
      BY <1>1, <1>2 DEF SameSource, TeamRowsGone, Coherent, RightEvals
    <2>1. CASE r \notin h.roles
      <3>1. r \notin b.roles \/ r[2] = t
        BY <1>4, <2>1
      <3>2. r \notin b.roles => <<r, x>> \notin g.evals
        BY <1>3, <2>0
      <3> QED BY <1>4, <2>1, <3>1, <3>2
    <2>2. CASE r \in h.roles /\ x[2] = t
      <3>1. Linked(h) /\ \A q \in h.roles : q[2] \in h.objs
        BY <1>5 DEF Sound
      <3>2. x \in ExpectedEvaluations(h, r) => x[2] \in h.objs
        BY <1>4, <2>2, <3>1, ExpectedOnObjects
      <3> QED BY <1>4, <2>2, <3>2
    <2>3. CASE r \in h.roles /\ x[2] # t
      <3>1. r \in b.roles /\ r[2] # t
        BY <1>4, <2>3
      <3>2. <<r, x>> \in h.evals <=> <<r, x>> \in g.evals
        BY <1>4, <2>3, <3>1
      <3>3. CASE r \in U
        BY <1>3, <1>14, <2>0, <2>3, <3>1, <3>2, <3>3
      <3>4. CASE r \notin U
        BY <1>3, <1>15, <2>0, <2>3, <3>1, <3>2, <3>4
      <3> QED BY <3>3, <3>4
    <2> QED BY <2>1, <2>2, <2>3
  <1> QED
    BY <1>5, <1>12, <1>16 DEF Coherent, Ended, f, g, h
-----------------------------------------------------------------------------
(***************************************************************************)
(* Between the steps of a deletion and of a deferral                       *)
(***************************************************************************)
\* d and e differ in the accounts, the role definitions and the used keys only.
SameTables(d, e) == SameSource(d, e) /\ e.provides = d.provides /\ e.evals = d.evals

LEMMA TablesAside ==
    ASSUME NEW d, NEW e \in Db, SameTables(d, e), Sound(d), Coherent(d)
    PROVE  Sound(e) /\ Coherent(e)
  <1>1. SameButUsers(d, e)
    BY DEF SameTables, SameSource, SameButUsers
  <1>2. Linked(e)
    BY DEF SameTables, SameSource, Sound, Linked
  <1> QED
    BY <1>1, <1>2, UsersAside

LEMMA WithoutNothing ==
    ASSUME NEW d \in Db
    PROVE  SameTables(d, Without(d, {}, {})) /\ SameTables(Without(d, {}, {}), d)
  <1>1. ASSUME NEW O, O = {}
        PROVE  SameTables(d, Without(d, O, O)) /\ SameTables(Without(d, O, O), d)
    <2> DEFINE v == Without(d, O, O)
    <2>1. /\ v.objs = d.objs \ (O \cup O) /\ v.parent = d.parent /\ v.perms = d.perms
          /\ v.roles = {r \in d.roles : r[2] \notin O}
          /\ v.uasg = {a \in d.uasg : a[2][2] \notin O}
          /\ v.tasg = {a \in d.tasg : a[2][2] \notin O}
          /\ v.provides = {x \in d.provides : x[1][2] \notin O}
          /\ v.evals = {x \in d.evals : x[1][2] \notin O /\ x[2][2] \notin O}
      BY WithoutFields
    <2> HIDE DEF v
    <2>2. /\ v.objs = d.objs /\ v.roles = d.roles /\ v.uasg = d.uasg /\ v.tasg = d.tasg
          /\ v.provides = d.provides /\ v.evals = d.evals
      BY <1>1, <2>1
    <2> QED BY <2>1, <2>2 DEF SameTables, SameSource, v
  <1> QED
    BY <1>1

LEMMA WithoutTwice ==
    ASSUME NEW d \in Db, NEW X, NEW Y, NEW C
    PROVE  SameTables(Without(Without(d, X, C), Y, {}), Without(d, X \cup Y, C))
  <1> DEFINE w == Without(d, X, C)
             v == Without(w, Y, {})
             e == Without(d, X \cup Y, C)
  <1>1. /\ w \in Db
        /\ w.objs = d.objs \ (X \cup C) /\ w.parent = d.parent /\ w.perms = d.perms
        /\ w.roles = {r \in d.roles : r[2] \notin X}
        /\ w.uasg = {a \in d.uasg : a[2][2] \notin X}
        /\ w.tasg = {a \in d.tasg : a[2][2] \notin X}
        /\ w.provides = {x \in d.provides : x[1][2] \notin X}
        /\ w.evals = {x \in d.evals : x[1][2] \notin X /\ x[2][2] \notin X}
    BY WithoutFields
  <1> HIDE DEF w
  <1>2. /\ v.objs = w.objs \ (Y \cup {}) /\ v.parent = w.parent /\ v.perms = w.perms
        /\ v.roles = {r \in w.roles : r[2] \notin Y}
        /\ v.uasg = {a \in w.uasg : a[2][2] \notin Y}
        /\ v.tasg = {a \in w.tasg : a[2][2] \notin Y}
        /\ v.provides = {x \in w.provides : x[1][2] \notin Y}
        /\ v.evals = {x \in w.evals : x[1][2] \notin Y /\ x[2][2] \notin Y}
    BY <1>1, WithoutFields
  <1>3. /\ e.objs = d.objs \ (X \cup Y \cup C) /\ e.parent = d.parent /\ e.perms = d.perms
        /\ e.roles = {r \in d.roles : r[2] \notin X \cup Y}
        /\ e.uasg = {a \in d.uasg : a[2][2] \notin X \cup Y}
        /\ e.tasg = {a \in d.tasg : a[2][2] \notin X \cup Y}
        /\ e.provides = {x \in d.provides : x[1][2] \notin X \cup Y}
        /\ e.evals = {x \in d.evals : x[1][2] \notin X \cup Y /\ x[2][2] \notin X \cup Y}
    BY WithoutFields
  <1> HIDE DEF v, e
  <1>4. e.objs = v.objs /\ e.roles = v.roles /\ e.uasg = v.uasg /\ e.tasg = v.tasg
    BY <1>1, <1>2, <1>3
  <1>5. e.provides = v.provides /\ e.evals = v.evals
    BY <1>1, <1>2, <1>3
  <1> QED
    BY <1>1, <1>2, <1>3, <1>4, <1>5 DEF SameTables, SameSource, v, w, e

\* The rows of the objects X themselves do not matter.
LEMMA WithoutRowsOf ==
    ASSUME NEW d \in Db, NEW e \in Db, NEW X, NEW C,
           e.objs \ (X \cup C) = d.objs \ (X \cup C), e.parent = d.parent, e.perms = d.perms,
           e.roles = d.roles, e.uasg = d.uasg, e.tasg = d.tasg,
           e.provides = d.provides, e.evals = d.evals
    PROVE  SameTables(Without(d, X, C), Without(e, X, C))
  <1> DEFINE v == Without(d, X, C)
             w == Without(e, X, C)
  <1>1. /\ v.objs = d.objs \ (X \cup C) /\ v.parent = d.parent /\ v.perms = d.perms
        /\ v.roles = {r \in d.roles : r[2] \notin X}
        /\ v.uasg = {a \in d.uasg : a[2][2] \notin X}
        /\ v.tasg = {a \in d.tasg : a[2][2] \notin X}
        /\ v.provides = {x \in d.provides : x[1][2] \notin X}
        /\ v.evals = {x \in d.evals : x[1][2] \notin X /\ x[2][2] \notin X}
    BY WithoutFields
  <1>2. /\ w.objs = e.objs \ (X \cup C) /\ w.parent = e.parent /\ w.perms = e.perms
        /\ w.roles = {r \in e.roles : r[2] \notin X}
        /\ w.uasg = {a \in e.uasg : a[2][2] \notin X}
        /\ w.tasg = {a \in e.tasg : a[2][2] \notin X}
        /\ w.provides = {x \in e.provides : x[1][2] \notin X}
        /\ w.evals = {x \in e.evals : x[1][2] \notin X /\ x[2][2] \notin X}
    BY WithoutFields
  <1> HIDE DEF v, w
  <1> QED
    BY <1>1, <1>2 DEF SameTables, SameSource, v, w

\* Roles that nobody holds may go whatever else is under way.
LEMMA WithoutCleanup ==
    ASSUME NEW d \in Db, NEW X, NEW C, Sound(Without(d, X, C)), Coherent(Without(d, X, C))
    PROVE  LET e == CleanupOrphanedObjectRoles(d)
           IN  Sound(Without(e, X, C)) /\ Coherent(Without(e, X, C))
  <1> DEFINE R == Orphans(d)
             e == DeleteObjectRoles(d, R)
             v == Without(d, X, C)
             w == Without(e, X, C)
             z == DeleteObjectRoles(v, R)
  <1>1. /\ e \in Db /\ e.objs = d.objs /\ e.parent = d.parent /\ e.perms = d.perms /\ e.roles = d.roles \ R
        /\ e.uasg = {a \in d.uasg : a[2] \notin R}
        /\ e.tasg = {a \in d.tasg : a[2] \notin R}
        /\ e.provides = {x \in d.provides : x[1] \notin R}
        /\ e.evals = {x \in d.evals : x[1] \notin R}
    <2>1. e \in Db
      BY DeleteRolesType
    <2> HIDE DEF R
    <2> QED BY <2>1 DEF DeleteObjectRoles, Db
  <1>2. /\ v \in Db
        /\ v.objs = d.objs \ (X \cup C) /\ v.parent = d.parent /\ v.perms = d.perms
        /\ v.roles = {r \in d.roles : r[2] \notin X}
        /\ v.uasg = {a \in d.uasg : a[2][2] \notin X}
        /\ v.tasg = {a \in d.tasg : a[2][2] \notin X}
        /\ v.provides = {x \in d.provides : x[1][2] \notin X}
        /\ v.evals = {x \in d.evals : x[1][2] \notin X /\ x[2][2] \notin X}
    BY WithoutFields
  <1> HIDE DEF e
  <1>3. /\ w \in Db
        /\ w.objs = e.objs \ (X \cup C) /\ w.parent = e.parent /\ w.perms = e.perms
        /\ w.roles = {r \in e.roles : r[2] \notin X}
        /\ w.uasg = {a \in e.uasg : a[2][2] \notin X}
        /\ w.tasg = {a \in e.tasg : a[2][2] \notin X}
        /\ w.provides = {x \in e.provides : x[1][2] \notin X}
        /\ w.evals = {x \in e.evals : x[1][2] \notin X /\ x[2][2] \notin X}
    BY <1>1, WithoutFields
  <1>4. R \cap v.roles \subseteq Orphans(v)
    BY <1>2 DEF Orphans
  <1>5. Sound(v) /\ Coherent(v)
    OBVIOUS
  <1> HIDE DEF v, R
  <1>6. Sound(z) /\ Coherent(z)
    BY <1>4, <1>5, UnusedRolesGo
  <1>7. /\ z.objs = v.objs /\ z.parent = v.parent /\ z.perms = v.perms /\ z.roles = v.roles \ R
        /\ z.uasg = {a \in v.uasg : a[2] \notin R}
        /\ z.tasg = {a \in v.tasg : a[2] \notin R}
        /\ z.provides = {x \in v.provides : x[1] \notin R}
        /\ z.evals = {x \in v.evals : x[1] \notin R}
    BY <1>2 DEF DeleteObjectRoles, Db
  <1> HIDE DEF w, z
  <1>8. w.objs = z.objs /\ w.parent = z.parent /\ w.perms = z.perms /\ w.roles = z.roles
    BY <1>1, <1>2, <1>3, <1>7
  <1>9. w.uasg = z.uasg /\ w.tasg = z.tasg
    BY <1>1, <1>2, <1>3, <1>7
  <1>10. w.provides = z.provides /\ w.evals = z.evals
    BY <1>1, <1>2, <1>3, <1>7
  <1>11. SameTables(z, w)
    BY <1>8, <1>9, <1>10 DEF SameTables, SameSource
  <1>12. Sound(w) /\ Coherent(w)
    BY <1>3, <1>6, <1>11, TablesAside
  <1> QED
    BY <1>12 DEF CleanupOrphanedObjectRoles, w, e, R

\* Every object outside X has a place among the objects outside X.
Placed(d, X) ==
    \A o \in d.objs \ X : \/ d.parent[o] = NoObj
                          \/ d.parent[o] \in d.objs \ X /\ TypeOf[d.parent[o]] = ParentType[TypeOf[o]]

\* The collector finds everything below an object, as nothing is nested more
\* than two levels deep, and below anything but a root there is no team.
LEMMA CollectedSeparate ==
    ASSUME NEW d \in Db, Placed(d, {}), NEW o \in d.objs, o \notin Team, ~Top(TypeOf[o])
    PROVE  LET all == {o} \cup Below(d, o)
           IN  /\ all \subseteq d.objs /\ all \cap Team = {}
               /\ \A x \in all : x \in Obj /\ ~Top(TypeOf[x]) /\ TypeOf[x] # "org"
               /\ \A e : e.objs \subseteq d.objs /\ e.parent = d.parent => DownClosed(e, all)
  <1> DEFINE all == {o} \cup Below(d, o)
             ty(x) == TypeOf[x]
             up(x) == d.parent[x]
  <1>0. d.objs \subseteq Obj /\ NoObj \notin Obj /\ "none" \notin Type
        /\ (\A x \in d.objs : ty(x) \in Type)
        /\ (\A x \in d.objs : up(x) = NoObj \/ (up(x) \in d.objs /\ ty(up(x)) = ParentType[ty(x)]))
    BY CachingAssumption DEF Db, Placed
  <1>1. \A x \in d.objs : up(x) \in Obj => up(x) \in d.objs /\ ty(up(x)) = ParentType[ty(x)] /\ ~Top(ty(x))
    BY <1>0 DEF Top
  <1>2. Below(d, o) = {c \in d.objs : up(c) = o \/ (up(c) \in Obj /\ up(up(c)) = o)}
    BY DEF Below
  <1>3. \A x \in d.objs : up(x) \in Obj /\ up(up(x)) \in Obj => Top(ty(up(up(x))))
    <2> SUFFICES ASSUME NEW x \in d.objs, up(x) \in Obj, up(up(x)) \in Obj PROVE Top(ty(up(up(x))))
      OBVIOUS
    <2>1. up(x) \in d.objs /\ ty(up(x)) = ParentType[ty(x)] /\ ~Top(ty(x))
      BY <1>1
    <2>2. ty(up(up(x))) = ParentType[ty(up(x))] /\ ~Top(ty(up(x)))
      BY <1>1, <2>1
    <2>3. Top(ty(x)) \/ Top(ParentType[ty(x)]) \/ Top(ParentType[ParentType[ty(x)]])
      BY <1>0, CachingAssumption
    <2> QED BY <2>1, <2>2, <2>3
  <1>4. all \subseteq d.objs /\ o \in Obj
    BY <1>0, <1>2
  <1>5. \A x \in all : x \in Obj /\ ~Top(ty(x))
    BY <1>0, <1>1, <1>2
  <1>6. \A x \in all : ty(x) # "org"
    BY <1>5, CachingAssumption DEF Top
  <1>7. ASSUME NEW x \in all PROVE x \notin Team
    <2> SUFFICES ASSUME x \in Team, x # o PROVE FALSE
      OBVIOUS
    <2>1. ty(x) = "team" /\ x \in d.objs /\ (up(x) = o \/ (up(x) \in Obj /\ up(up(x)) = o))
      BY <1>2 DEF Team
    <2>2. up(x) \in Obj
      BY <1>4, <2>1
    <2>3. up(x) \in d.objs /\ Top(ty(up(x)))
      BY <1>1, <2>1, <2>2, CachingAssumption DEF Top
    <2>4. up(x) # o
      BY <2>3
    <2>5. up(up(x)) \in Obj
      BY <1>4, <2>1, <2>4
    <2> QED BY <1>1, <2>3, <2>5
  <1>8. ASSUME NEW e, e.objs \subseteq d.objs, e.parent = d.parent PROVE DownClosed(e, all)
    <2> SUFFICES ASSUME NEW c \in e.objs, up(c) \in all PROVE c \in all
      BY <1>8 DEF DownClosed
    <2>1. c \in d.objs /\ up(c) \in d.objs /\ up(c) \in Obj
      BY <1>0, <1>4, <1>8
    <2>2. CASE up(c) = o
      BY <1>2, <2>1, <2>2
    <2>3. CASE up(up(c)) = o
      BY <1>2, <2>1, <2>3
    <2>4. CASE up(up(c)) \in Obj /\ up(up(up(c))) = o
      BY <1>3, <1>4, <2>1, <2>4
    <2> QED BY <1>2, <2>2, <2>3, <2>4
  <1> HIDE DEF all
  <1> QED
    BY <1>4, <1>5, <1>6, <1>7, <1>8 DEF all

\* An object that is created while its handler is deferred, or that is a root.
LEMMA CreatedAside ==
    ASSUME NEW d \in Db, NEW X, NEW C, Sound(Without(d, X, C)), Coherent(Without(d, X, C)),
           NEW o \in Obj, o \notin d.objs, NEW p \in Obj \cup {NoObj}, NEW B,
           B = C \cup {o} \/ (B = C /\ p = NoObj /\ o \notin Team /\ o \notin X \cup C)
    PROVE  LET e == [d EXCEPT !.objs = @ \cup {o}, !.parent[o] = p]
           IN  e \in Db /\ Sound(Without(e, X, B)) /\ Coherent(Without(e, X, B))
  <1> DEFINE e == [d EXCEPT !.objs = @ \cup {o}, !.parent[o] = p]
             v == Without(d, X, C)
             w == Without(e, X, B)
             N == w.objs \ v.objs
  <1>1. /\ e.objs = d.objs \cup {o} /\ e.parent = [d.parent EXCEPT ![o] = p]
        /\ e.perms = d.perms /\ e.roles = d.roles /\ e.uasg = d.uasg /\ e.tasg = d.tasg
        /\ e.provides = d.provides /\ e.evals = d.evals
    BY DEF Db
  <1>2. e \in Db
    BY DEF Db
  <1>3. e.parent[o] = p /\ \A c \in Obj : c # o => e.parent[c] = d.parent[c]
    BY <1>1 DEF Db
  <1> HIDE DEF e
  <1>4. /\ v.objs = d.objs \ (X \cup C) /\ v.parent = d.parent /\ v.perms = d.perms
        /\ v.roles = {r \in d.roles : r[2] \notin X}
        /\ v.uasg = {a \in d.uasg : a[2][2] \notin X}
        /\ v.tasg = {a \in d.tasg : a[2][2] \notin X}
        /\ v.provides = {x \in d.provides : x[1][2] \notin X}
        /\ v.evals = {x \in d.evals : x[1][2] \notin X /\ x[2][2] \notin X}
    BY WithoutFields
  <1>5. /\ w \in Db /\ w.objs = e.objs \ (X \cup B) /\ w.parent = e.parent /\ w.perms = e.perms
        /\ w.roles = {r \in e.roles : r[2] \notin X}
        /\ w.uasg = {a \in e.uasg : a[2][2] \notin X}
        /\ w.tasg = {a \in e.tasg : a[2][2] \notin X}
        /\ w.provides = {x \in e.provides : x[1][2] \notin X}
        /\ w.evals = {x \in e.evals : x[1][2] \notin X /\ x[2][2] \notin X}
    BY <1>2, WithoutFields
  <1>6. Sound(v) /\ Coherent(v)
    OBVIOUS
  <1>s. d.objs \subseteq Obj
    BY DEF Db
  <1> HIDE DEF v, w
  <1>7. /\ w.perms = v.perms /\ w.roles = v.roles /\ w.uasg = v.uasg /\ w.tasg = v.tasg
        /\ w.provides = v.provides /\ w.evals = v.evals
    BY <1>1, <1>4, <1>5
  <1>8. \A c \in v.objs : c \in Obj /\ w.parent[c] = v.parent[c] /\ c # o
    BY <1>s, <1>3, <1>4, <1>5
  <1>9. \/ N = {} /\ w.objs = v.objs
        \/ N = {o} /\ w.objs = v.objs \cup {o} /\ p = NoObj /\ o \notin Team
    BY <1>1, <1>4, <1>5
  <1>10. Sound(w)
    <2>1. ParentsExist(v) /\ Linked(v) /\ (\A r \in v.roles : r[2] \in v.objs) /\ (\A a \in v.tasg : a[1] \in v.objs)
      BY <1>6 DEF Sound
    <2>2. Linked(w) /\ (\A r \in w.roles : r[2] \in w.objs) /\ (\A a \in w.tasg : a[1] \in w.objs)
      BY <1>7, <1>9, <2>1 DEF Linked
    <2>3. ASSUME NEW c \in w.objs PROVE w.parent[c] = NoObj \/ (w.parent[c] \in w.objs /\ TypeOf[w.parent[c]] = ParentType[TypeOf[c]])
      <3>1. CASE c \in v.objs
        BY <1>8, <1>9, <2>1, <3>1 DEF ParentsExist
      <3>2. CASE c \notin v.objs
        BY <1>3, <1>5, <1>9, <3>2
      <3> QED BY <3>1, <3>2
    <2> QED BY <1>5, <2>2, <2>3 DEF Sound, ParentsExist
  <1>11. Added(v, w, N)
    BY <1>6, <1>7, <1>8, <1>9, <1>10 DEF Added
  <1>12. N \cap Team = {} /\ \A c \in N : ParentChain(w, c) = {}
    BY <1>3, <1>5, <1>9 DEF ParentChain
  <1> HIDE DEF N
  <1>13. Coherent(w)
    BY <1>11, <1>12, AddedTop
  <1> QED
    BY <1>2, <1>10, <1>13 DEF w, e

\* cleanup_deleted_object_roles removes what Without removes, of existing
\* objects nothing else.
LEMMA CleanupDeletedFields ==
    ASSUME NEW d \in Db, Linked(d), NEW S, Keyed(d, S), NEW O
    PROVE  LET e == CleanupDeletedRoles(d, O)
           IN  /\ e \in Db /\ Linked(e) /\ Keyed(e, S)
               /\ e.objs = d.objs /\ e.parent = d.parent /\ e.perms = d.perms
               /\ e.roles = {r \in d.roles : r[2] \notin O}
               /\ e.uasg = {a \in d.uasg : a[2][2] \notin O}
               /\ e.tasg = {a \in d.tasg : a[2][2] \notin O}
               /\ e.provides = {x \in d.provides : x[1][2] \notin O}
               /\ e.evals = {x \in d.evals : x[1][2] \notin O /\ x[2][2] \notin O}
  <1> DEFINE R == RolesOn(d, O)
             f == DeleteObjectRoles(d, R)
             e == DeleteEvaluationsOn(f, O)
  <1>0. e = CleanupDeletedRoles(d, O)
    BY DEF CleanupDeletedRoles
  <1>1. /\ f \in Db /\ f.objs = d.objs /\ f.parent = d.parent /\ f.perms = d.perms /\ f.roles = d.roles \ R
        /\ f.uasg = {a \in d.uasg : a[2] \notin R}
        /\ f.tasg = {a \in d.tasg : a[2] \notin R}
        /\ f.provides = {x \in d.provides : x[1] \notin R}
        /\ f.evals = {x \in d.evals : x[1] \notin R}
    <2>1. f \in Db
      BY DeleteRolesType
    <2> HIDE DEF R
    <2> QED BY <2>1 DEF DeleteObjectRoles, Db
  <1>2. \A r \in d.roles : r \in R <=> r[2] \in O
    BY DEF RolesOn
  <1> HIDE DEF R, f
  <1>3. /\ e \in Db /\ e.objs = f.objs /\ e.parent = f.parent /\ e.perms = f.perms /\ e.roles = f.roles
        /\ e.uasg = f.uasg /\ e.tasg = f.tasg /\ e.provides = f.provides
        /\ e.evals = {x \in f.evals : x[2][2] \notin O}
    <2>1. e \in Db
      BY <1>1, DeleteEvaluationsType
    <2> QED BY <1>1, <2>1 DEF DeleteEvaluationsOn, Db
  <1>4. Keyed(e, S) /\ Linked(e)
    <2>1. Keyed(e, S)
      BY <1>0, CleanupKeyed
    <2>2. Linked(e)
      <3> HIDE DEF e
      <3> QED BY <1>1, <1>2, <1>3 DEF Linked
    <2> QED BY <2>1, <2>2
  <1> HIDE DEF e
  <1>5. /\ e.roles = {r \in d.roles : r[2] \notin O}
        /\ e.uasg = {a \in d.uasg : a[2][2] \notin O}
        /\ e.tasg = {a \in d.tasg : a[2][2] \notin O}
    BY <1>1, <1>2, <1>3 DEF Linked
  <1>6. /\ e.provides = {x \in d.provides : x[1][2] \notin O}
        /\ e.evals = {x \in d.evals : x[1][2] \notin O /\ x[2][2] \notin O}
    BY <1>1, <1>2, <1>3 DEF Keyed
  <1> QED
    BY <1>0, <1>1, <1>3, <1>4, <1>5, <1>6

\* A definition without roles changes nothing.
LEMMA UnusedDefinitionEdited ==
    ASSUME NEW d, Sound(d), Coherent(d), NEW rd \in RoleDef, NEW N \in SUBSET Perm,
           RolesOfDefinition(d, rd) = {}
    PROVE  Sound([d EXCEPT !.perms[rd] = N]) /\ Coherent([d EXCEPT !.perms[rd] = N])
  <1> DEFINE e == [d EXCEPT !.perms[rd] = N]
  <1>1. e \in Db
    BY DEF Sound, Db
  <1>2. Sound(Ended(e, {}, {})) /\ Coherent(Ended(e, {}, {}))
    BY DefinitionEdited
  <1>3. Ended(e, {}, {}) = e
    BY <1>1, EndedWithNothing
  <1> QED
    BY <1>2, <1>3

-----------------------------------------------------------------------------
(***************************************************************************)
(* Access follows the assignments                                          *)
(***************************************************************************)
LEMMA ReachGrows ==
    ASSUME NEW E, NEW F, NEW S, NEW T, E \subseteq F, S \subseteq T
    PROVE  Reach(E, S) \subseteq Reach(F, T)
  BY DEF Reach, Closed

\* More assignments of users and teams, in chains and loops of teams as well,
\* entitle nobody to less.
LEMMA EntitledGrows ==
    ASSUME NEW c \in Db, NEW d \in Db, Linked(d),
           d.objs = c.objs, d.parent = c.parent, d.perms = c.perms,
           c.uasg \subseteq d.uasg, c.tasg \subseteq d.tasg, NEW u
    PROVE  EntitledIn(c, u) \subseteq EntitledIn(d, u)
  <1>1. \A x, r : <<x, r>> \in d.uasg \/ <<x, r>> \in d.tasg => r \in d.roles
    BY DEF Linked
  <1>2. \A t, r : r \in DirectMemberRoles(c, t) /\ r \in d.roles => r \in DirectMemberRoles(d, t)
    BY DEF DirectMemberRoles, HasPerm
  <1>3. TeamGraph(c) \subseteq TeamGraph(d)
    BY <1>1, <1>2 DEF TeamGraph
  <1>4. {t \in Team : \E r \in DirectMemberRoles(c, t) : <<u, r>> \in c.uasg}
          \subseteq {t \in Team : \E r \in DirectMemberRoles(d, t) : <<u, r>> \in d.uasg}
    BY <1>1, <1>2
  <1>5. MemberIn(c, u) \subseteq MemberIn(d, u)
    BY <1>3, <1>4, ReachGrows DEF MemberIn
  <1>6. HeldIn(c, u) \subseteq HeldIn(d, u)
    BY <1>1, <1>5 DEF HeldIn
  <1>7. \A r : ExpectedDirect(c, r) = ExpectedDirect(d, r)
    BY DEF ExpectedDirect, Below
  <1> QED
    BY <1>6, <1>7 DEF EntitledIn
=============================================================================

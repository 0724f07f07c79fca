------------------------------ MODULE RbacCaching ------------------------------
(***************************************************************************)
(* The tables of ansible_base.rbac and the functions that fill the two     *)
(* computed ones: ObjectRole.provides_teams (which teams a role makes its  *)
(* holders members of) and RoleEvaluation (which permission on which       *)
(* object a role confers).  The functions are those of rbac/caching.py and *)
(* of the ObjectRole model; each takes the database `db` before the call   *)
(* and, when it writes, returns the database after it.                     *)
(*                                                                         *)
(* An ObjectRole is the pair <<role definition, object>> its unique        *)
(* constraint makes it; a RoleEvaluation row is <<role, <<permission,      *)
(* object>>>>.  The integer and the UUID evaluation tables differ only in  *)
(* the key type and are one set here.                                      *)
(***************************************************************************)
EXTENDS FiniteSets

CONSTANTS
    User,           \* accounts
    Obj,            \* primary keys of every registered model, teams included
    NoObj,          \* a null parent foreign key
    TypeOf,         \* Obj -> content type
    ParentType,     \* content type -> content type of its parent field
    RoleDef,        \* role definitions
    Perm,           \* DABPermission rows: [act, type]
    CacheParentPermissions   \* setting ANSIBLE_BASE_CACHE_PARENT_PERMISSIONS

Type == DOMAIN ParentType
Top(ty) == ParentType[ty] = "none"
Team == {o \in Obj : TypeOf[o] = "team"}
MemberTeam == [act |-> "member", type |-> "team"]

ASSUME CachingAssumption ==
    /\ NoObj \notin Obj
    /\ {"org", "team"} \subseteq Type
    /\ ParentType \in [Type -> Type \cup {"none"}] /\ "none" \notin Type
    /\ \A ty \in Type : Top(ty) \/ Top(ParentType[ty]) \/ Top(ParentType[ParentType[ty]])
    /\ ParentType["org"] = "none" /\ ParentType["team"] = "org"
    /\ TypeOf \in [Obj -> Type]
    /\ Perm \subseteq [act : {"member", "view", "change", "add", "delete"}, type : Type]
    /\ CacheParentPermissions \in BOOLEAN

Role == RoleDef \X Obj
Evaluation == Perm \X Obj

Db == [objs     : SUBSET Obj,                   \* rows of registered models
       gone     : SUBSET Obj,                   \* keys used and deleted
       parent   : [Obj -> Obj \cup {NoObj}],
       users    : SUBSET User,
       rds      : SUBSET RoleDef,
       perms    : [RoleDef -> SUBSET Perm],     \* RoleDefinition.permissions
       roles    : SUBSET Role,                  \* ObjectRole
       uasg     : SUBSET (User \X Role),        \* RoleUserAssignment
       tasg     : SUBSET (Team \X Role),        \* RoleTeamAssignment
       provides : SUBSET (Role \X Team),        \* ObjectRole.provides_teams
       evals    : SUBSET (Role \X Evaluation)]  \* RoleEvaluation

-----------------------------------------------------------------------------
(***************************************************************************)
(* Reading the tables                                                      *)
(***************************************************************************)
IsAdd(p) == p.act = "add"
HasPerm(db, r, p) == p \in db.perms[r[1]]

TeamsOf(db, org) == {t \in db.objs \cap Team : db.parent[t] = org}

\* The rows reached by the filter path of get_child_models: children of o,
\* and the children of those (of at most two levels).
Below(db, o) ==
    {c \in db.objs : \/ db.parent[c] = o
                     \/ db.parent[c] \in Obj /\ db.parent[db.parent[c]] = o}

\* The content type whose objects a permission is evaluated on; an add
\* permission is evaluated on the parents of the objects it would create.
EvalType(p) == IF IsAdd(p) THEN ParentType[p.type] ELSE p.type

\* ObjectRole.expected_direct_permissions without a look-ahead object.
ExpectedDirect(db, r) ==
    LET o     == r[2]
        perms == db.perms[r[1]]
        below == Below(db, o)
        onSelf(p) == p.type = TypeOf[o] \/ IsAdd(p) \/ CacheParentPermissions
        children(p) == IF p.type = TypeOf[o] THEN {}
                       ELSE {c \in below : TypeOf[c] = EvalType(p)}
    IN  {p \in perms : onSelf(p)} \X {o} \cup UNION {{p} \X children(p) : p \in perms}

\* The same, narrowed to the look-ahead object `look`: other content types are
\* skipped, child lists are cut to `look`, but a role on an object of the same
\* content type still lists its own object.
ExpectedLook(db, r, look) ==
    {e \in ExpectedDirect(db, r) :
       TypeOf[e[2]] = TypeOf[look] /\ (e[2] = look \/ e[2] = r[2])}

TeamRoles(db, r) ==
    {a[2] : a \in {x \in db.tasg : <<r, x[1]>> \in db.provides}}

\* ObjectRole.descendent_roles
DescendentRoles(db, R) == UNION {TeamRoles(db, r) : r \in R}

\* bulk_ancestor_roles
AncestorRoles(db, T) ==
    {r \in db.roles : \E t \in T : <<r, <<MemberTeam, t>>>> \in db.evals}

\* team_ids_from_role_target
TeamIdsFromRoleTarget(db, r) ==
    IF TypeOf[r[2]] = "team" THEN {r[2]}
    ELSE IF TypeOf[r[2]] = "org" THEN TeamsOf(db, r[2]) ELSE {}

\* object_roles_for_parents
ObjectRolesForParents(db, parents) ==
    LET own == {r \in db.roles : r[2] \in parents}
    IN  own \cup {r \in db.roles : TeamRoles(db, r) \cap own # {}}

-----------------------------------------------------------------------------
(***************************************************************************)
(* compute_team_member_roles                                               *)
(***************************************************************************)
\* get_direct_team_member_roles: the roles that list member_team for team t.
DirectMemberRoles(db, t) ==
    {r \in db.roles : HasPerm(db, r, MemberTeam)
                      /\ (r[2] = t \/ (TypeOf[r[2]] = "org" /\ t \in db.objs /\ db.parent[t] = r[2]))}

\* get_parent_teams_of_teams, as edges <<parent team, child team>>.
TeamGraph(db) ==
    {e \in Team \X Team : \E r \in DirectMemberRoles(db, e[2]) : <<e[1], r>> \in db.tasg}

\* The teams reached from S along the edges of E, those of S included: the
\* least superset of S closed under E.  (all_team_parents and
\* all_team_children compute it by depth-first search.)
Closed(E, C) == \A e \in E : e[1] \in C => e[2] \in C
Reach(E, S) ==
    LET closed == {C \in SUBSET Team : S \subseteq C /\ Closed(E, C)}
    IN  {t \in Team : \A C \in closed : t \in C}
Reversed(E) == {<<e[2], e[1]>> : e \in E}

\* all_member_roles[t]: the roles that give membership of t or of one of its
\* direct and indirect parent teams.
MemberRolesIn(db, graph, t) == UNION {DirectMemberRoles(db, a) : a \in Reach(Reversed(graph), {t})}
MemberRoles(db, t) == MemberRolesIn(db, TeamGraph(db), t)

\* Fault: the scope narrows what is read, not only what is written.
ComputeReadingScope(db, T) ==
    LET scope == db.objs \cap Reach(TeamGraph(db), T \cap Team)
        graph == {e \in TeamGraph(db) : e[2] \in scope}
    IN  [db EXCEPT !.provides =
           {x \in @ : x[2] \notin scope} \cup UNION {MemberRolesIn(db, graph, t) \X {t} : t \in scope}]

\* compute_team_member_roles(team_ids=T): T and its descendants in the
\* team-of-team graph are brought up to date, every other team is left alone.
ComputeTeamMemberRoles(db, T) ==
    LET graph == TeamGraph(db)
        scope == db.objs \cap Reach(graph, T \cap Team)
    IN  [db EXCEPT !.provides =
           {x \in @ : x[2] \notin scope} \cup UNION {MemberRolesIn(db, graph, t) \X {t} : t \in scope}]

ComputeAllTeamMemberRoles(db) == ComputeTeamMemberRoles(db, Team)

-----------------------------------------------------------------------------
(***************************************************************************)
(* recompute_role_evaluations                                              *)
(***************************************************************************)
ExpectedEvaluations(db, r) ==
    ExpectedDirect(db, r) \cup UNION {ExpectedDirect(db, q) : q \in TeamRoles(db, r)}

\* Rows of roles that no longer exist are dropped: their insertion violates
\* the foreign key and _safe_bulk_create_evaluations retries without them.
RecomputeRoleEvaluations(db, R) ==
    LET live == R \cap db.roles
    IN  [db EXCEPT !.evals =
           {x \in @ : x[1] \notin live}
           \cup UNION {{r} \X ExpectedEvaluations(db, r) : r \in live}]

\* Fault: missing rows are added, but no row is removed.
RecomputeAllAdding(db) ==
    [db EXCEPT !.evals = @ \cup UNION {{r} \X ExpectedEvaluations(db, r) : r \in db.roles}]

RecomputeAllRoleEvaluations(db) == RecomputeRoleEvaluations(db, db.roles)

\* recompute_role_evaluations with object_pk/object_ct_id = look: only the rows
\* of that object are loaded and deleted.
RecomputeLookAhead(db, R, look) ==
    LET live == R \cap db.roles
        want(r) == ExpectedLook(db, r, look)
                   \cup UNION {ExpectedLook(db, q, look) : q \in TeamRoles(db, r)}
    IN  [db EXCEPT !.evals =
           {x \in @ : x[1] \in live /\ x[2][2] = look => x[2] \in want(x[1])}
           \cup UNION {{r} \X want(r) : r \in live}]

-----------------------------------------------------------------------------
(***************************************************************************)
(* Deleting ObjectRole rows                                                *)
(***************************************************************************)
\* The assignments, provides_teams and RoleEvaluation rows cascade.
DeleteObjectRoles(db, R) ==
    [db EXCEPT !.roles    = @ \ R,
               !.uasg     = {a \in @ : a[2] \notin R},
               !.tasg     = {a \in @ : a[2] \notin R},
               !.provides = {x \in @ : x[1] \notin R},
               !.evals    = {x \in @ : x[1] \notin R}]

Orphans(db) ==
    {r \in db.roles : (\A u \in User : <<u, r>> \notin db.uasg)
                      /\ (\A t \in Team : <<t, r>> \notin db.tasg)}

\* cleanup_orphaned_object_roles
CleanupOrphanedObjectRoles(db) == DeleteObjectRoles(db, Orphans(db))

\* The RoleEvaluation rows whose object is in O, whatever their role.
DeleteEvaluationsOn(db, O) == [db EXCEPT !.evals = {x \in @ : x[2][2] \notin O}]

RolesOn(db, O) == {r \in db.roles : r[2] \in O}

\* cleanup_deleted_team_roles and cleanup_deleted_object_roles; the ancestor
\* roles the first one returns are read by the caller, before.
CleanupDeletedRoles(db, O) == DeleteEvaluationsOn(DeleteObjectRoles(db, RolesOn(db, O)), O)

-----------------------------------------------------------------------------
(***************************************************************************)
(* What the computed tables must say                                       *)
(***************************************************************************)
ProvidesCoherentIn(d) == d.provides = UNION {MemberRoles(d, t) \X {t} : t \in d.objs \cap Team}
EvalsCoherentIn(d) ==
    {x \in d.evals : x[2][2] \in d.objs} = UNION {{r} \X ExpectedEvaluations(d, r) : r \in d.roles}
=============================================================================

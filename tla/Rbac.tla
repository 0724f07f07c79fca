---------------------------------- MODULE Rbac ----------------------------------
(***************************************************************************)
(* One process of a service that embeds ansible_base.rbac: the operations  *)
(* that change who has which role on which object, and the signal handlers *)
(* of rbac/triggers.py that must leave provides_teams and RoleEvaluation   *)
(* equal to what the other tables imply.  One action is one public call    *)
(* with every handler it runs, except that delete() of an object is a      *)
(* sequence of steps, one per table and per post_delete signal, in the     *)
(* order in which Django's collector takes them.                           *)
(***************************************************************************)
EXTENDS RbacTriggers, Integers

CONSTANTS
    RdType,            \* RoleDefinition.content_type
    InitObjs, InitParent, InitPerms,  \* the rows that exist at the start
    MaxAssignments,    \* bound: role assignments in existence at a time
    Batches,           \* argument lists of bulk_give/remove_permissions
    PermEdits,         \* sets of permissions added to or removed from a role
    Editable,          \* role definitions whose permissions are edited
    Creatable,         \* objects the environment may create
    Movable,           \* objects whose parent the environment changes
    Deletable,         \* objects the environment may delete
    DeferDeletable,    \* those it may delete inside defer_rbac_computations
    Removable,         \* role definitions the environment may delete
    DeferEnabled       \* does the environment use defer_rbac_computations

VARIABLES
    db,       \* the tables
    cascade,  \* the delete() in progress
    defer     \* defer_rbac_state of this thread

vars == <<db, cascade, defer>>

NoCascade == [todo |-> {}, batch |-> {}, memberRoles |-> {}, teams |-> {}]
NoDefer   == [active |-> FALSE, teams |-> {}, objs |-> {}, created |-> {}]

\* An ObjectRole is on an object of the type its definition is for.
Fitting == {r \in Role : RdType[r[1]] = TypeOf[r[2]]}

ASSUME RbacAssumption ==
    /\ RdType \in [RoleDef -> Type \cup {"none"}]   \* "none": global
    /\ InitObjs \subseteq Obj
    /\ InitParent \in [Obj -> Obj \cup {NoObj}]
    /\ \A o \in InitObjs : InitParent[o] # NoObj =>
          InitParent[o] \in InitObjs /\ TypeOf[InitParent[o]] = ParentType[TypeOf[o]]
    /\ InitPerms \in [RoleDef -> SUBSET Perm]
    /\ Batches \subseteq [users : SUBSET (User \X Fitting), teams : SUBSET (Team \X Fitting)]
    /\ PermEdits \subseteq SUBSET Perm
    /\ Creatable \cup Movable \cup Deletable \cup DeferDeletable \subseteq Obj
    /\ Nullable \subseteq Type
    /\ Editable \cup Removable \subseteq RoleDef
    /\ DeferEnabled \in BOOLEAN

\* Every column of the tables holds rows of the kind it references, the stash of
\* pre_delete names teams and their roles, and the deferred sets hold teams where
\* _flush_rbac takes teams.
TypeOK ==
    /\ db \in Db /\ db.roles \subseteq Fitting
    /\ cascade \in [todo : SUBSET Obj, batch : SUBSET Obj,
                    memberRoles : SUBSET (Team \X Role), teams : SUBSET (Team \X Team)]
    /\ defer \in [active : BOOLEAN, teams : SUBSET Team, objs : SUBSET Obj, created : SUBSET Obj]

Init ==
    /\ db = [objs |-> InitObjs, gone |-> {}, parent |-> InitParent,
             users |-> User, rds |-> RoleDef, perms |-> InitPerms,
             roles |-> {}, uasg |-> {}, tasg |-> {}, provides |-> {}, evals |-> {}]
    /\ cascade = NoCascade
    /\ defer = NoDefer

Idle == cascade.todo = {}
HasDeferredData == defer.teams # {} \/ defer.objs # {} \/ defer.created # {}
\* has_obj_perm, give_permission and remove_permission raise RuntimeError.
Guarded == defer.active /\ HasDeferredData

-----------------------------------------------------------------------------
(***************************************************************************)
(* Assigning and removing roles (rbac/pipeline.py)                         *)
(***************************************************************************)
Assignable(b) ==
    /\ Holders(b.users) \subseteq db.users
    /\ Holders(b.teams) \subseteq db.objs
    /\ \A r \in RolesIn(b.users) \cup RolesIn(b.teams) : r[1] \in db.rds /\ r[2] \in db.objs

\* bulk_give_permissions; give_permission is the batch of one.
Give(b) ==
    /\ Idle /\ ~Guarded
    /\ Assignable(b)
    /\ Cardinality(db.uasg \cup b.users) + Cardinality(db.tasg \cup b.teams) <= MaxAssignments
    /\ db' = GiveAssignments(db, b.users, b.teams)
    /\ UNCHANGED <<cascade, defer>>

\* bulk_remove_permissions: only what is assigned is removed.
Remove(b) ==
    /\ Idle /\ ~Guarded
    /\ Assignable(b)
    /\ LET ua == b.users \cap db.uasg
           ta == b.teams \cap db.tasg
       IN  /\ ua # {} \/ ta # {}
           /\ db' = RemoveAssignments(db, ua, ta)
    /\ UNCHANGED <<cascade, defer>>

\* post_delete of a user, whose assignments have cascaded away
DeleteUser(u) ==
    /\ Idle
    /\ u \in db.users
    /\ db' = CleanupOrphanedObjectRoles([db EXCEPT !.users = @ \ {u},
                                                   !.uasg = {a \in @ : a[1] # u}])
    /\ UNCHANGED <<cascade, defer>>

-----------------------------------------------------------------------------
(***************************************************************************)
(* Editing the permissions of a role definition                            *)
(***************************************************************************)
\* Codenames a definition of this content type may list
Allowed(rd) ==
    {p \in Perm : \/ p.type = RdType[rd] /\ ~IsAdd(p)
                  \/ ParentType[p.type] = RdType[rd]
                  \/ /\ ParentType[p.type] # "none"
                     /\ ParentType[ParentType[p.type]] = RdType[rd]}

AddPermissions(rd, P) ==
    /\ Idle /\ ~defer.active
    /\ rd \in db.rds /\ P \subseteq Allowed(rd) /\ P \cap db.perms[rd] = {}
    /\ db' = PermissionsChanged([db EXCEPT !.perms[rd] = @ \cup P], rd, P, TRUE)
    /\ UNCHANGED <<cascade, defer>>

RemovePermissions(rd, P) ==
    /\ Idle /\ ~defer.active
    /\ rd \in db.rds /\ P \subseteq db.perms[rd]
    /\ db' = PermissionsChanged([db EXCEPT !.perms[rd] = @ \ P], rd, P, FALSE)
    /\ UNCHANGED <<cascade, defer>>

\* _handle_permission_clear, then the global recomputation of evaluations
ClearPermissions(rd) ==
    /\ Idle /\ ~defer.active
    /\ rd \in db.rds /\ db.perms[rd] # {}
    /\ LET d   == [db EXCEPT !.perms[rd] = {}]
           own == RolesOfDefinition(d, rd)
           ids == TeamsProvided(d, own) \cup UNION {TeamIdsFromRoleTarget(d, r) : r \in own}
       IN  db' = IF own = {} THEN d
                 ELSE RecomputeAllRoleEvaluations(ComputeTeamMemberRoles(d, ids))
    /\ UNCHANGED <<cascade, defer>>

\* delete() of a role definition: the ObjectRole rows cascade and no signal of
\* the RBAC app is connected to the deletion.
DeleteRoleDefinition(rd) ==
    /\ Idle
    /\ rd \in db.rds
    /\ db' = [DeleteObjectRoles(db, RolesOfDefinition(db, rd)) EXCEPT !.rds = @ \ {rd}]
    /\ UNCHANGED <<cascade, defer>>

-----------------------------------------------------------------------------
(***************************************************************************)
(* Creating and moving objects (rbac/triggers.py, pre_save and post_save)  *)
(***************************************************************************)
Create(o, p) ==
    /\ Idle
    /\ o \notin db.objs \cup db.gone
    /\ ValidParent(db, o, p)
    /\ LET d == [db EXCEPT !.objs = @ \cup {o}, !.parent[o] = p]
           tracked == ParentType[TypeOf[o]] # "none"
       IN  IF tracked /\ defer.active
           THEN /\ db' = d
                /\ defer' = [defer EXCEPT !.created = @ \cup {o}]
           ELSE /\ db' = IF tracked THEN CreatedNow(d, o) ELSE d
                /\ UNCHANGED defer
    /\ UNCHANGED cascade

\* post_save_update_obj_permissions after a change of parent
Move(o, p) ==
    /\ Idle /\ ~defer.active
    /\ o \in db.objs
    /\ ValidParent(db, o, p) /\ p # db.parent[o]
    /\ db' = Moved(db, o, p)
    /\ UNCHANGED <<cascade, defer>>

-----------------------------------------------------------------------------
(***************************************************************************)
(* Deleting objects: pre_delete, the collector's batches, post_delete      *)
(***************************************************************************)
\* The collected instances are the object and everything below it.  The stash of
\* team_pre_delete is taken for every collected team before any row goes; the
\* rows of the many-to-many tables that point at those teams go first.
BeginDelete(o) ==
    /\ Idle
    /\ o \in db.objs
    /\ LET all   == {o} \cup Below(db, o)
           teams == all \cap Team
           ownMember(t) == {r \in db.roles : <<t, r>> \in db.tasg /\ HasPerm(db, r, MemberTeam)}
       IN  /\ cascade' =
                 [todo  |-> all,
                  batch |-> {},
                  memberRoles |-> IF defer.active THEN {}
                                  ELSE {x \in teams \X db.roles : <<x[2], x[1]>> \in db.provides},
                  teams |-> IF defer.active THEN {}
                            ELSE {x \in teams \X Team : x[1] # x[2]
                                    /\ \E r \in ownMember(x[1]) : <<r, x[2]>> \in db.provides}]
           /\ db' = [db EXCEPT !.provides = {x \in @ : x[2] \notin teams},
                               !.tasg     = {a \in @ : a[1] \notin teams}]
    /\ UNCHANGED defer

\* One DELETE per table; a table whose foreign key cannot be null goes before
\* the table it points to.
DeleteBatch(ty) ==
    /\ cascade.todo # {} /\ cascade.batch = {}
    /\ LET batch == {o \in cascade.todo \cap db.objs : TypeOf[o] = ty}
       IN  /\ batch # {}
           /\ \A c \in cascade.todo \cap db.objs :
                 TypeOf[c] \notin Nullable => db.parent[c] \notin batch
           /\ db' = [db EXCEPT !.objs = @ \ batch, !.gone = @ \cup batch]
           /\ cascade' = [cascade EXCEPT !.batch = batch]
    /\ UNCHANGED defer

StashedRoles(t) == {r \in Role : <<t, r>> \in cascade.memberRoles}
StashedTeams(t) == {c \in Team : <<t, c>> \in cascade.teams}
IndirectlyAffected(d, t) == AncestorRoles(d, {t}) \cup DescendentRoles(d, StashedRoles(t))

\* Fault: roles that only the deleted team held are left.
TeamDeletedNoCleanup(d, t) ==
    RecomputeRoleEvaluations(ComputeTeamMemberRoles(d, StashedTeams(t)), IndirectlyAffected(d, t))

\* The team part of rbac_post_delete_remove_object_roles
TeamDeleted(d, t) ==
    LET d1 == ComputeTeamMemberRoles(d, StashedTeams(t))
    IN  CleanupOrphanedObjectRoles(RecomputeRoleEvaluations(d1, IndirectlyAffected(d, t)))

\* The part common to all objects; the rows that other roles have on the object
\* are removed only if its content type has a parent field.
ObjectDeleted(d, o) ==
    LET d1 == DeleteObjectRoles(d, RolesOn(d, {o}))
    IN  IF ParentType[TypeOf[o]] = "none" THEN d1 ELSE DeleteEvaluationsOn(d1, {o})

Stepped(o) ==
    LET todo == cascade.todo \ {o}
    IN  IF todo = {} THEN NoCascade
        ELSE [cascade EXCEPT !.todo = todo, !.batch = @ \ {o}]

\* rbac_post_delete_remove_object_roles
PostDelete(o) ==
    /\ o \in cascade.batch
    /\ cascade' = Stepped(o)
    /\ IF defer.active
       THEN /\ defer' = IF TypeOf[o] = "team" THEN [defer EXCEPT !.teams = @ \cup {o}]
                        ELSE [defer EXCEPT !.objs = @ \cup {o}]
            /\ UNCHANGED db
       ELSE /\ db' = ObjectDeleted(IF TypeOf[o] = "team" THEN TeamDeleted(db, o) ELSE db, o)
            /\ UNCHANGED defer

-----------------------------------------------------------------------------
(***************************************************************************)
(* defer_rbac_computations                                                 *)
(***************************************************************************)
BeginDefer ==
    /\ Idle
    /\ DeferEnabled /\ ~defer.active
    /\ defer' = [defer EXCEPT !.active = TRUE]
    /\ UNCHANGED <<db, cascade>>

\* _flush_rbac
Flush(d) ==
    LET ancestors == AncestorRoles(d, defer.teams)
        d1     == CleanupDeletedRoles(CleanupDeletedRoles(d, defer.teams), defer.objs)
        chains == UNION {ParentChain(d1, o) : o \in defer.created}
        roles  == (ancestors \cap d1.roles) \cup ObjectRolesForParents(d1, chains)
        d2     == ComputeTeamMemberRoles(d1, (defer.created \cap Team) \cup defer.teams)
    IN  CleanupOrphanedObjectRoles(RecomputeRoleEvaluations(d2, roles))

\* Leaving the context manager, by its end or by an exception
EndDefer ==
    /\ Idle
    /\ defer.active
    /\ db' = IF HasDeferredData THEN Flush(db) ELSE db
    /\ defer' = NoDefer
    /\ UNCHANGED cascade

-----------------------------------------------------------------------------
(***************************************************************************)
(* Maintenance                                                             *)
(***************************************************************************)
RecomputedAll(d) ==
    RecomputeAllRoleEvaluations(ComputeAllTeamMemberRoles(CleanupOrphanedObjectRoles(d)))

\* post_migration_rbac_setup when migrations were applied
RecomputeAll ==
    /\ Idle /\ ~defer.active
    /\ db' = RecomputedAll(db)
    /\ UNCHANGED <<cascade, defer>>

Next ==
    \/ \E b \in Batches : Give(b) \/ Remove(b)
    \/ \E u \in User : DeleteUser(u)
    \/ \E rd \in Editable, P \in PermEdits : AddPermissions(rd, P) \/ RemovePermissions(rd, P)
    \/ \E rd \in Editable : ClearPermissions(rd)
    \/ \E rd \in Removable : DeleteRoleDefinition(rd)
    \/ \E o \in Creatable, p \in Obj \cup {NoObj} : Create(o, p)
    \/ \E o \in Movable, p \in Obj \cup {NoObj} : Move(o, p)
    \/ \E o \in Obj : /\ o \in IF defer.active THEN DeferDeletable ELSE Deletable
                      /\ BeginDelete(o)
    \/ \E ty \in Type : DeleteBatch(ty)
    \/ \E o \in Obj : PostDelete(o)
    \/ BeginDefer \/ EndDefer
    \/ RecomputeAll

Spec == Init /\ [][Next]_vars

-----------------------------------------------------------------------------
(***************************************************************************)
(* What the cached tables must say                                         *)
(***************************************************************************)
Settled == Idle /\ ~Guarded

\* No handler leaves a team out of a role's provides_teams that the role's
\* permissions and the team-of-team graph put in it, nor one in that they do not.
ProvidesCoherent == Settled => ProvidesCoherentIn(db)

\* The rows of RoleEvaluation on existing objects are those a recomputation of
\* every role would produce: each handler recomputes every role it affects.
EvalsCoherent == Settled => EvalsCoherentIn(db)

\* No row of RoleEvaluation names a deleted object once its deletion is over.
NoDanglingEvaluations == Settled => \A x \in db.evals : x[2][2] \in db.objs

\* Between operations both computed tables are what the assignments, the objects
\* and the definitions make them (caching.py), and nothing more.
TablesCoherent == ProvidesCoherent /\ EvalsCoherent /\ NoDanglingEvaluations

\* An ObjectRole lives while somebody holds it and its object exists.
NoOrphanedRoles == Settled => /\ Orphans(db) = {}
                              /\ \A r \in db.roles : r[2] \in db.objs

\* has_obj_perm reads the evaluations of the roles a user holds directly.
HasObjPerm(u, e) == \E r \in db.roles : <<u, r>> \in db.uasg /\ <<r, e>> \in db.evals

\* What the answer should be, from the assignments alone: the user is a member
\* of the teams whose member_team permission a held role lists, of the teams
\* those teams are members of, and so on, and has the permissions of every role
\* held directly or by such a team.
MemberOf(u) ==
    Reach(TeamGraph(db), {t \in Team : \E r \in DirectMemberRoles(db, t) : <<u, r>> \in db.uasg})
RolesHeldBy(u) ==
    LET teams == MemberOf(u)
    IN  {r \in db.roles : <<u, r>> \in db.uasg \/ \E t \in teams : <<t, r>> \in db.tasg}
Entitled(u) == UNION {ExpectedDirect(db, r) : r \in RolesHeldBy(u)}

\* A permission check answers what the assignments mean whenever it answers.
AccessMatchesAssignments ==
    Settled => \A u \in db.users :
                  {e \in Evaluation : e[2] \in db.objs /\ HasObjPerm(u, e)} = Entitled(u)

\* post_migration_rbac_setup, whenever it may run, repairs whatever it finds.
RecomputeAllRepairs ==
    LET d == RecomputedAll(db)
    IN  Idle /\ ~defer.active =>
        /\ ProvidesCoherentIn(d) /\ EvalsCoherentIn(d)
        /\ Orphans(d) = {} /\ \A x \in d.evals : x[2][2] \in d.objs

\* Assignments only added take access from nobody, assignments only removed
\* give access to nobody, as long as objects and role definitions stay put and
\* no deletion is under way.
SameResources == Settled /\ Settled' /\ UNCHANGED <<db.objs, db.parent, db.users, db.perms>>
MoreAssignments == db.uasg \subseteq db'.uasg /\ db.tasg \subseteq db'.tasg
LessAssignments == db'.uasg \subseteq db.uasg /\ db'.tasg \subseteq db.tasg
Access(d) == {x \in User \X Evaluation :
                x[2][2] \in d.objs /\ \E r \in d.roles : <<x[1], r>> \in d.uasg /\ <<r, x[2]>> \in d.evals}
AccessIsMonotone ==
    [][SameResources => /\ MoreAssignments => Access(db) \subseteq Access(db')
                        /\ LessAssignments => Access(db') \subseteq Access(db)]_vars
=============================================================================

--------------------------------- MODULE RbacApi ---------------------------------
(***************************************************************************)
(* Requests against the API of ansible_base.rbac: who may create, change   *)
(* and delete role definitions, give and take roles, create and move       *)
(* objects, and what the lists of assignments and of people with access    *)
(* show.  One action is one request that succeeds, with every permission   *)
(* class, validation and signal handler on its way; a refused request      *)
(* changes nothing.  The tables are those of RbacCaching and the work that *)
(* keeps them in step is that of RbacTriggers; added are the global roles, *)
(* the content types of role definitions as data, and the policies.        *)
(***************************************************************************)
EXTENDS RbacTriggers, Integers

CONSTANTS
    Superuser,      \* users with is_superuser
    Auditor,        \* users with the flag of the action "view"
    Remote,         \* content types of other services
    Shared,         \* content types of resources shared between services
    JwtManaged,     \* ANSIBLE_BASE_JWT_MANAGED_ROLES
    CreatorRd,      \* content type -> definition of the creator's name
    CreatorActs,    \* ANSIBLE_BASE_CREATOR_DEFAULTS
    InitObjs, InitParent, InitRds, InitPerms, InitType, InitManaged,
    Confs,          \* settings: sets of names of enabled ones
    PermSets,       \* bound: permissions a request may list
    Patchable,      \* bound: definitions the environment makes, edits or removes
    Grants,         \* bound: <<actor, definition>> given
    Creatable, Movable,   \* bound: objects it makes or moves
    MaxAssignments, MaxEdits

\* Every registered content type has a permission on its objects, and what is
\* below an object of another service is of that service.
ASSUME ApiAssumption ==
    /\ Superuser \subseteq User /\ User \cap Obj = {}
    /\ InitObjs \cup Creatable \cup Movable \subseteq Obj
    /\ InitParent \in [Obj -> Obj \cup {NoObj}]
    /\ \A o \in InitObjs : InitParent[o] # NoObj =>
          InitParent[o] \in InitObjs /\ TypeOf[InitParent[o]] = ParentType[TypeOf[o]]
    /\ InitRds \cup Patchable \subseteq RoleDef /\ CreatorRd \in [Type -> RoleDef]
    /\ InitPerms \in [RoleDef -> SUBSET Perm] /\ PermSets \subseteq SUBSET Perm
    /\ InitType \in [RoleDef -> Type \cup {"none"}] /\ InitManaged \subseteq RoleDef
    /\ Grants \subseteq (User \cup Team) \X RoleDef
    /\ MaxEdits \in Nat
    /\ \A ty \in Type : ParentType[ty] \in Remote => ty \in Remote
    /\ \A ty \in Type : \E p \in Perm : p.type = ty /\ ~IsAdd(p)

VARIABLES
    db,     \* the tables of RbacCaching
    rdt,    \* RoleDefinition.content_type, "none" for global
    managed,\* definitions with RoleDefinition.managed
    gasg,   \* global assignments: <<actor, definition>>
    owner,  \* created_by of objects
    conf,   \* the settings of this deployment and the habits of its clients
    seeds,  \* history: objects a superuser gave roles on, or above
    done    \* kinds of requests made that changed definitions or objects

vars == <<db, rdt, managed, gasg, owner, conf, seeds, done>>

Nobody == NoObj
Org == {o \in Obj : TypeOf[o] = "org"}
On(name) == name \in conf
P(act, ty) == [act |-> act, type |-> ty]
Actor == User \cup Team

TypeOK ==
    /\ DOMAIN db = {"objs", "gone", "parent", "users", "rds", "perms", "roles",
                    "uasg", "tasg", "provides", "evals"}
    /\ db.objs \subseteq Obj /\ db.rds \subseteq RoleDef
    /\ db.roles \subseteq RoleDef \X db.objs
    /\ db.uasg \subseteq User \X db.roles /\ db.tasg \subseteq Team \X db.roles
    /\ db.provides \subseteq db.roles \X Team
    /\ \A x \in db.evals : x[1] \in db.roles /\ x[2] \in Evaluation
    /\ rdt \in [RoleDef -> Type \cup {"none"}]
    /\ managed \subseteq RoleDef
    /\ gasg \subseteq Actor \X RoleDef
    /\ owner \in [Obj -> User \cup {Nobody}]
    /\ conf \in Confs
    /\ seeds \subseteq Obj
    /\ Cardinality(done) <= MaxEdits

Init ==
    /\ db = [objs |-> InitObjs, gone |-> {}, parent |-> InitParent,
             users |-> User, rds |-> InitRds, perms |-> InitPerms,
             roles |-> {}, uasg |-> {}, tasg |-> {}, provides |-> {}, evals |-> {}]
    /\ rdt = InitType
    /\ managed = InitManaged
    /\ gasg = {}
    /\ owner = [o \in Obj |-> Nobody]
    /\ conf \in Confs
    /\ seeds = {}
    /\ done = {}

\* Bound: each kind of change once, MaxEdits of them
Once(kind) ==
    /\ kind \notin done /\ Cardinality(done) < MaxEdits
    /\ done' = done \cup {kind}

-----------------------------------------------------------------------------
(***************************************************************************)
(* Permission checks (rbac/evaluations.py, models/role.py)                 *)
(***************************************************************************)
HeldRoles(u) == {r \in db.roles : <<u, r>> \in db.uasg}
TeamsByRoles(u) == {t \in Team : \E r \in HeldRoles(u) : <<r, t>> \in db.provides}

\* Fault: global roles of teams do not count.
GlobalOfUserOnly(u) ==
    UNION {db.perms[rd] : rd \in {x \in db.rds : rdt[x] = "none" /\ <<u, x>> \in gasg}}

\* user_global_permissions, as bound_singleton_permissions returns it for a
\* user instance that has not asked before
Global(u) ==
    LET byUser == IF On("user_roles") THEN {u} ELSE {}
        byTeam == IF On("team_roles") THEN TeamsByRoles(u) ELSE {}
    IN  UNION {db.perms[rd] : rd \in {x \in db.rds :
                 rdt[x] = "none" /\ \E a \in byUser \cup byTeam : <<a, x>> \in gasg}}

\* has_super_permission with a codename, and with the action "view"
SuperPerm(u, p) == u \in Superuser \/ p \in Global(u)
SuperView(u) == u \in Superuser \cup Auditor

\* RoleEvaluationFields.has_obj_perm and accessible_ids
Evaluated(u, p, o) == \E r \in HeldRoles(u) : <<r, <<p, o>>>> \in db.evals

\* bound_has_obj_perm of a codename validate_codename_for_model accepts
HasObjPerm(u, p, o) == SuperPerm(u, p) \/ Evaluated(u, p, o)

\* AccessibleObjectsDescriptor: a type without view permission is open to all
Tracked(p) == p \in Perm
Viewable(u, o) ==
    LET p == P("view", TypeOf[o])
    IN  ~Tracked(p) \/ HasObjPerm(u, p, o)

-----------------------------------------------------------------------------
(***************************************************************************)
(* Policies (rbac/policies.py)                                             *)
(***************************************************************************)
CanViewAllUsers(u) ==
    \/ SuperView(u)
    \/ On("see_all") /\ \E o \in db.objs \cap Org : HasObjPerm(u, P("change", "org"), o)

VisibleTeams(u) ==
    {t \in db.objs \cap Team : CanViewAllUsers(u) \/ Viewable(u, t)}

VisibleUsers(u) ==
    LET orgs == {o \in db.objs \cap Org : HasObjPerm(u, P("view", "org"), o)}
        members == {v \in db.users : \E r \in HeldRoles(v) :
                        HasPerm(db, r, P("member", "org")) /\ r[2] \in orgs}
    IN  IF CanViewAllUsers(u) THEN db.users
        ELSE members \cup (Superuser \cap db.users) \cup {u}

CanChangeUser(u, v) ==
    LET orgsOf == {o \in db.objs \cap Org : HasObjPerm(v, P("member", "org"), o)}
    IN  \/ u \in Superuser
        \/ /\ v \notin Superuser
           /\ On("manage_auth")
           /\ \/ u = v
              \/ orgsOf # {} /\ \A o \in orgsOf : HasObjPerm(u, P("change", "org"), o)

\* check_content_obj_permission
MayManage(u, o) ==
    \/ TypeOf[o] \in Remote /\ ~On("enforce_remote")
    \/ IF Tracked(P("change", TypeOf[o]))
       THEN HasObjPerm(u, P("change", TypeOf[o]), o)
       ELSE \A p \in Perm : p.type = TypeOf[o] /\ ~IsAdd(p) => HasObjPerm(u, p, o)

MayManageActor(u, a) ==
    IF a \in User THEN CanChangeUser(u, a) ELSE HasObjPerm(u, P("change", "team"), a)

\* check_can_remove_assignment; o = NoObj for a global assignment
CanRemove(u, a, o) ==
    u \in Superuser \/ MayManageActor(u, a) \/ (o # NoObj /\ MayManage(u, o))

LocallyManaged(rd) == rd \notin JwtManaged \/ On("jwt_local")

-----------------------------------------------------------------------------
(***************************************************************************)
(* Role definitions (rbac/validators.py, api/views.py)                     *)
(***************************************************************************)
Descendants(ty) ==
    {c \in Type : ParentType[c] = ty \/ (ParentType[c] # "none" /\ ParentType[ParentType[c]] = ty)}

\* permissions_allowed_for_role, and for a global role
AllowedFor(ty) ==
    IF ty = "none" THEN {p \in Perm : p.type = "team" => p.act = "view"}
    ELSE {p \in Perm : (p.type = ty /\ ~IsAdd(p)) \/ p.type \in Descendants(ty)}

\* validate_permissions_for_model, with validate_role_definition_enabled
ValidDefinition(S, ty, asManaged) ==
    LET of(c) == {p.act : p \in {x \in S : x.type = c /\ ~IsAdd(x)}}
        has(act, c) == P(act, c) \in AllowedFor(ty)
    IN  /\ S \subseteq AllowedFor(ty)
        /\ ty = "none" => MemberTeam \notin S
        /\ \/ asManaged
           \/ /\ On("custom_roles")
              /\ ty = "none" => (On("user_roles") \/ On("team_roles"))
              /\ \/ On("team_custom") \/ ty = "none"
                 \/ ty # "team" /\ \A p \in S : p.type # "team"
              /\ \/ On("shared_custom")
                 \/ \A p \in S : p.type \in Shared => ty # "none" /\ p.act = "view"
        /\ \A c \in Type : has("view", c) /\ of(c) # {} => "view" \in of(c)
        /\ ty # "none" => \A c \in Type :
              has("delete", c) /\ has("change", c) /\ "delete" \in of(c) => "change" \in of(c)

\* RoleDefinitionViewSet.perform_create: only superusers write role definitions.
CreateRoleDefinition(u, rd, S, ty) ==
    /\ u \in Superuser
    /\ rd \in Patchable \ db.rds
    /\ Once("defined")
    /\ ValidDefinition(S, ty, FALSE)
    /\ db' = [db EXCEPT !.rds = @ \cup {rd}, !.perms[rd] = S]
    /\ rdt' = [rdt EXCEPT ![rd] = ty]
    /\ managed' = managed \ {rd}
    /\ UNCHANGED <<gasg, owner, conf, seeds>>

\* permissions.set(): what goes is removed before what comes is added.
PermissionsSet(d, rd, S) ==
    LET less == d.perms[rd] \ S
        more == S \ d.perms[rd]
        d1 == IF less = {} THEN d
              ELSE PermissionsChanged([d EXCEPT !.perms[rd] = @ \ less], rd, less, FALSE)
    IN  IF more = {} THEN d1
        ELSE PermissionsChanged([d1 EXCEPT !.perms[rd] = @ \cup more], rd, more, TRUE)

\* perform_update.  Only PUT has a serializer whose content type is read-only.
UpdateRoleDefinition(u, rd, S, ty, method) ==
    /\ u \in Superuser
    /\ rd \in Patchable \cap db.rds
    /\ rd \notin managed
    /\ method = "PUT" => ty = rdt[rd]
    /\ LocallyManaged(rd)
    /\ Once("edited")
    /\ ValidDefinition(S, ty, FALSE)
    /\ db' = PermissionsSet(db, rd, S)
    /\ rdt' = [rdt EXCEPT ![rd] = ty]
    /\ UNCHANGED <<managed, gasg, owner, conf, seeds>>

DestroyRoleDefinition(u, rd) ==
    /\ u \in Superuser
    /\ rd \in Patchable \cap db.rds
    /\ rd \notin managed
    /\ Once("dropped")
    /\ db' = [DeleteObjectRoles(db, {r \in db.roles : r[1] = rd}) EXCEPT !.rds = @ \ {rd}]
    /\ gasg' = {a \in gasg : a[2] # rd}
    /\ UNCHANGED <<rdt, managed, owner, conf, seeds>>

-----------------------------------------------------------------------------
(***************************************************************************)
(* Giving and taking roles (api/serializers.py, api/views.py, service_api) *)
(***************************************************************************)
\* validate_team_assignment_enabled
TeamMayHold(rd, o) ==
    /\ TypeOf[o] = "team" => On("team_parents")
    /\ TypeOf[o] = "org" => On("team_org_perms")
    /\ P("member", "org") \in db.perms[rd] => On("team_org_member")
    /\ TypeOf[o] = "org" /\ MemberTeam \in db.perms[rd] => On("team_org_admin")

\* give_permission, give_global_permission
MayHold(a, rd, o) ==
    IF o = NoObj
    THEN rdt[rd] = "none" /\ On(IF a \in User THEN "user_roles" ELSE "team_roles")
    ELSE rdt[rd] = TypeOf[o] /\ (a \in Team => TeamMayHold(rd, o))

\* The actor by primary key from the visible ones, or by ansible_id; which of
\* the two the clients use is a part of conf.
ActorFound(u, a) ==
    On("ansible_ids") \/ a \in IF a \in User THEN VisibleUsers(u) ELSE VisibleTeams(u)

\* get_object_from_data: an object of another service is taken as named.
ObjectFound(u, o) == TypeOf[o] \in Remote \/ Viewable(u, o)

\* Fault: the object's managers are not asked.
MayGiveUnmanaged(u, rd, o) ==
    IF o = NoObj THEN u \in Superuser ELSE ObjectFound(u, o)

\* BaseAssignmentSerializer.create
MayGive(u, rd, o) ==
    IF o = NoObj THEN u \in Superuser ELSE ObjectFound(u, o) /\ MayManage(u, o)

Held(a, rd, o) ==
    IF o = NoObj THEN <<a, rd>> \in gasg ELSE <<a, <<rd, o>>>> \in db.uasg \cup db.tasg
Batch(a, S) == IF a \in User THEN {a} \X S ELSE {}
TeamBatch(a, S) == IF a \in Team THEN {a} \X S ELSE {}

\* The tables, and the global assignments, after the role is given, taken
Given(a, rd, o) ==
    IF o = NoObj THEN db
    ELSE GiveAssignments(db, Batch(a, {<<rd, o>>}), TeamBatch(a, {<<rd, o>>}))
GivenGlobal(a, rd, o) == IF o = NoObj THEN gasg \cup {<<a, rd>>} ELSE gasg
Taken(a, rd, o) ==
    IF o = NoObj THEN db
    ELSE RemoveAssignments(db, Batch(a, {<<rd, o>>}), TeamBatch(a, {<<rd, o>>}))
TakenGlobal(a, rd, o) == IF o = NoObj THEN gasg \ {<<a, rd>>} ELSE gasg

UnderOrAt(o) == {o} \cup Below(db, o)
Sown(u, o) ==
    IF u \notin Superuser THEN seeds
    ELSE seeds \cup (IF o = NoObj THEN Obj ELSE UnderOrAt(o))

\* POST of an assignment
Assign(u, a, rd, o) ==
    /\ rd \in db.rds /\ a \in db.users \cup (db.objs \cap Team)
    /\ o = NoObj \/ o \in db.objs
    /\ ~Held(a, rd, o)
    /\ Cardinality(db.uasg) + Cardinality(db.tasg) + Cardinality(gasg) < MaxAssignments
    /\ ActorFound(u, a) /\ MayHold(a, rd, o)
    /\ LocallyManaged(rd) /\ MayGive(u, rd, o)
    /\ db' = Given(a, rd, o) /\ gasg' = GivenGlobal(a, rd, o)
    /\ seeds' = Sown(u, o)
    /\ UNCHANGED <<rdt, managed, owner, conf, done>>

\* visible_items of an assignment, for get_object of a DELETE as for the list
ListsAssignment(u, a, rd, o) ==
    LET objs == {p.type : p \in Global(u)}
    IN  \/ SuperView(u)
        \/ o # NoObj /\ \E p \in Perm : Evaluated(u, p, o)
        \/ objs # {} /\ (o # NoObj => TypeOf[o] \in objs)

MayTake(u, a, rd, o) ==
    ListsAssignment(u, a, rd, o) /\ CanRemove(u, a, o) /\ LocallyManaged(rd)

\* DELETE of an assignment
Unassign(u, a, rd, o) ==
    /\ Held(a, rd, o)
    /\ MayTake(u, a, rd, o)
    /\ db' = Taken(a, rd, o) /\ gasg' = TakenGlobal(a, rd, o)
    /\ UNCHANGED <<rdt, managed, owner, conf, seeds, done>>

\* _unassign of the service API looks the assignment up in all of them.
ServiceUnassign(u, a, rd, o) ==
    /\ Held(a, rd, o)
    /\ CanRemove(u, a, o)
    /\ db' = Taken(a, rd, o) /\ gasg' = TakenGlobal(a, rd, o)
    /\ UNCHANGED <<rdt, managed, owner, conf, seeds, done>>

\* ServiceObjectDeleteViewSet.create, for an object of any type, known here or
\* not: the assignments go; their roles and what was computed from them stay.
ServiceObjectDelete(o) ==
    /\ Once("purged")
    /\ db' = [db EXCEPT !.uasg = {a \in @ : a[2][2] # o}, !.tasg = {a \in @ : a[2][2] # o}]
    /\ UNCHANGED <<rdt, managed, gasg, owner, conf, seeds>>

-----------------------------------------------------------------------------
(***************************************************************************)
(* Creating and moving objects (api/related.py, api/permissions.py)        *)
(***************************************************************************)
\* needed_perms of give_creator_permissions
CreatorPerms(ty) ==
    {p \in Perm : p.act \in CreatorActs /\ ((p.type = ty /\ ~IsAdd(p)) \/ p.type \in Descendants(ty))}

\* RoleDefinitionManager.get_or_create: a definition of the type with exactly
\* these permissions, else the one of the creator's name, else a new one.
Exact(d, ty) == {rd \in d.rds : rdt[rd] = ty /\ d.perms[rd] = CreatorPerms(ty)}
CreatorDefinition(d, ty) == IF Exact(d, ty) # {} THEN Exact(d, ty) ELSE {CreatorRd[ty]}

\* It is made as a managed one when settings forbid it as a custom one; one of
\* the name but of another type, or then not managed, is an IntegrityError.
AsCustom(ty) == ValidDefinition(CreatorPerms(ty), ty, FALSE)
Usable(d, rd, ty) ==
    \/ rd \in Exact(d, ty)
    \/ /\ ValidDefinition(CreatorPerms(ty), ty, TRUE)
       /\ rd \in d.rds => rdt[rd] = ty /\ (AsCustom(ty) \/ rd \in managed)

WithDefinition(d, rd, ty) ==
    IF rd \in d.rds THEN d
    ELSE [d EXCEPT !.rds = @ \cup {rd}, !.perms[rd] = CreatorPerms(ty)]

\* Fault: some permission is enough.
NeedsCreatorRoleIfNone(d, u, o) ==
    u \notin Superuser /\ ~\E p \in CreatorPerms(TypeOf[o]), r \in d.roles :
                                <<u, r>> \in d.uasg /\ <<r, <<p, o>>>> \in d.evals

\* give_creator_permissions for object o just made by u
NeedsCreatorRole(d, u, o) ==
    LET has == {p \in Perm : \E r \in d.roles : <<u, r>> \in d.uasg /\ <<r, <<p, o>>>> \in d.evals}
    IN  u \notin Superuser /\ ~(CreatorPerms(TypeOf[o]) \subseteq has \cup Global(u))

GiveCreatorPermissions(d, u, o, rd) ==
    IF ~NeedsCreatorRole(d, u, o) THEN d
    ELSE GiveAssignments(WithDefinition(d, rd, TypeOf[o]), {<<u, <<rd, o>>>>}, {})

\* check_related_permissions of the parent field, in the tables after the save;
\* the permission to add below no parent is one everywhere.
MayPutUnder(d, u, o, p) ==
    LET add == P("add", TypeOf[o])
    IN  \/ SuperPerm(u, add)
        \/ p # NoObj /\ \E r \in d.roles : <<u, r>> \in d.uasg /\ <<r, <<add, p>>>> \in d.evals

\* RelatedAccessMixin.create, has_create_permission for a type without parent
CreateObject(u, o, p) ==
    LET ty == TypeOf[o]
        d  == CreatedNow([db EXCEPT !.objs = @ \cup {o}, !.parent[o] = p], o)
    IN  /\ o \in Creatable \ (db.objs \cup db.gone)
        /\ ValidParent(db, o, p)
        /\ IF ParentType[ty] = "none" THEN SuperPerm(u, P("add", ty)) ELSE MayPutUnder(d, u, o, p)
        /\ Once("made")
        /\ owner' = [owner EXCEPT ![o] = u]
        /\ \E rd \in CreatorDefinition(d, ty) :
              /\ NeedsCreatorRole(d, u, o) => Usable(d, rd, ty)
              /\ db' = GiveCreatorPermissions(d, u, o, rd)
              /\ IF rd \in db'.rds \ db.rds
                 THEN /\ rdt' = [rdt EXCEPT ![rd] = ty]
                      /\ managed' = IF AsCustom(ty) THEN managed \ {rd} ELSE managed \cup {rd}
                 ELSE UNCHANGED <<rdt, managed>>
        /\ seeds' = IF p \in seeds THEN seeds \cup {o} ELSE seeds
        /\ UNCHANGED <<gasg, conf>>

\* RelatedAccessMixin.update of the parent, after has_object_permission
MoveObject(u, o, p) ==
    /\ o \in Movable
    /\ HasObjPerm(u, P("change", TypeOf[o]), o)
    /\ Once("moved")
    /\ o \in db.objs /\ ValidParent(db, o, p) /\ p # db.parent[o]
    /\ db' = Moved(db, o, p)
    /\ MayPutUnder(db', u, o, p)
    /\ seeds' = IF p \in seeds THEN seeds \cup UnderOrAt(o) ELSE seeds
    /\ UNCHANGED <<rdt, managed, gasg, owner, conf>>

Next ==
    \/ \E u \in User, rd \in Patchable, S \in PermSets, ty \in Type \cup {"none"} :
          \/ CreateRoleDefinition(u, rd, S, ty)
          \/ \E method \in {"PUT", "PATCH"} : UpdateRoleDefinition(u, rd, S, ty, method)
    \/ \E u \in User, rd \in Patchable : DestroyRoleDefinition(u, rd)
    \/ \E u \in User, g \in Grants, o \in Obj \cup {NoObj} :
          \/ Assign(u, g[1], g[2], o)
          \/ Unassign(u, g[1], g[2], o)
          \/ ServiceUnassign(u, g[1], g[2], o)
    \/ \E o \in Obj : ServiceObjectDelete(o)
    \/ \E u \in User, o \in Creatable, p \in Obj \cup {NoObj} : CreateObject(u, o, p)
    \/ \E u \in User, o \in Movable, p \in Obj \cup {NoObj} : MoveObject(u, o, p)

Spec == Init /\ [][Next]_vars

-----------------------------------------------------------------------------
(***************************************************************************)
(* Access lists (api/views.py, api/serializers.py, api/queries.py)         *)
(***************************************************************************)
\* UserAccessViewSet.get_queryset and TeamAccessViewSet: the roles that
\* confer p on o, then their holders
AccessList(p, o) ==
    LET roles == {x[1] : x \in {e \in db.evals : e[2] = <<p, o>>}}
    IN  {a \in Actor : \/ \E r \in roles : <<a, r>> \in db.uasg \cup db.tasg
                       \/ \E rd \in db.rds : <<a, rd>> \in gasg /\ p \in db.perms[rd]
                       \/ a \in Superuser}

\* Fault: the drill-down looks at roles on the object only.
ExplainDirect(a, p, o) ==
    {x \in gasg : x[1] = a /\ p \in db.perms[x[2]]}
    \cup {x \in db.uasg \cup db.tasg : x[1] = a /\ x[2][2] = o}

\* assignment_qs_user_to_obj_perm of the drill-down, which the bulk query of
\* the list repeats for a page of actors
Explain(a, p, o) ==
    {x \in gasg : x[1] = a /\ p \in db.perms[x[2]]}
    \cup {x \in db.uasg \cup db.tasg : x[1] = a /\ <<x[2], <<p, o>>>> \in db.evals}

\* _bulk_fetch_assignments: the same for a page A of actors in two queries
Listed(A, p, o) ==
    LET roles == {x[1] : x \in {e \in db.evals : e[2] = <<p, o>>}}
        byRole == {x \in db.uasg \cup db.tasg : x[2] \in roles /\ x[1] \in A}
        global == {x \in gasg : x[1] \in A /\ p \in db.perms[x[2]]}
    IN  [a \in A |-> {x \in byRole \cup global : x[1] = a}]

\* The label of an assignment, and get_intermediary_roles of the drill-down
Kind(x, o) ==
    IF x \in gasg THEN "global"
    ELSE IF TypeOf[x[2][2]] = "team" THEN "team"
    ELSE IF TypeOf[x[2][2]] = TypeOf[o] THEN "direct" ELSE "indirect"
Intermediary(x, p, o) ==
    IF Kind(x, o) = "team" THEN Explain(x[2][2], p, o) ELSE {}

-----------------------------------------------------------------------------
(***************************************************************************)
(* Properties                                                              *)
(***************************************************************************)
RolesOfTeams(u) ==
    Reach(TeamGraph(db), {t \in Team : \E r \in DirectMemberRoles(db, t) : <<u, r>> \in db.uasg})
Entitled(u) ==
    LET as == {u} \cup RolesOfTeams(u)
        enabled(a) == On(IF a \in User THEN "user_roles" ELSE "team_roles")
        held == {x[2] : x \in {y \in db.uasg \cup db.tasg : y[1] \in as}}
        glob == {x[2] : x \in {y \in gasg : y[1] \in as /\ enabled(y[1]) /\ rdt[y[2]] = "none"}}
    IN  IF u \in Superuser THEN Perm \X db.objs
        ELSE (UNION {ExpectedDirect(db, r) : r \in held})
             \cup ((UNION {db.perms[rd] : rd \in glob}) \X db.objs)

\* A permission check answers what the assignments of the user and of the teams
\* the user is in, on objects and global, say: after any sequence of requests
\* without the two that recompute nothing, the deletion of a definition and the
\* deletion of an object by another service.
ChecksMean ==
    done \cap {"dropped", "purged"} = {} =>
        \A u \in db.users :
            {x \in Perm \X db.objs : HasObjPerm(u, x[1], x[2])}
              = {x \in Entitled(u) : x[2] \in db.objs}

\* A superuser who never gave anybody a role on an object, on one above it or
\* everywhere has kept it: whatever roles ordinary users hold elsewhere, no
\* chain of requests gives anybody a role on it.
Sealed ==
    \A x \in db.uasg \cup db.tasg :
        \/ x[2][2] \in seeds
        \/ TypeOf[x[2][2]] \in Remote /\ ~On("enforce_remote")

\* Whoever may give a role that is held may also take it away, and sees it in
\* the list the deletion looks it up in.  (Objects of other services may be
\* given away blindly when the check on them is switched off.)
GiversCanTakeBack ==
    \A u \in db.users, o \in db.objs :
        \A x \in {y \in db.uasg \cup db.tasg : y[2][2] = o} :
            /\ MayGive(u, x[2][1], o) /\ LocallyManaged(x[2][1])
            /\ ~(TypeOf[o] \in Remote /\ ~On("enforce_remote"))
            => MayTake(u, x[1], x[2][1], o)

\* Roles are given by those who could take them back, and by nobody else
\* (policies.py).
SharingIsSound == TypeOK /\ Sealed /\ GiversCanTakeBack

\* The list of those with access, its summaries and the drill-down tell the same
\* story: who is listed is a superuser or has an assignment that explains it; an
\* explanation is global, a role on the object itself or on something above it,
\* or makes its holder a member of a team with an explanation of its own, which
\* the drill-down shows for a role labelled "team"; the summary of a page lists
\* the same; and nobody is listed without having the permission.  (Requests
\* that recompute nothing leave permissions behind that nothing explains.)
AccessListsAgree ==
    done \cap {"dropped", "purged"} = {} =>
    \A p \in {x \in Perm : ~IsAdd(x)} : \A o \in {x \in db.objs : TypeOf[x] = p.type} :
        LET list == AccessList(p, o)
            why == Listed(list, p, o)
        IN  /\ list = {a \in Actor : Explain(a, p, o) # {}} \cup Superuser
            /\ \A a \in list : \A x \in why[a] :
                  /\ x \in Explain(a, p, o)
                  /\ \/ Kind(x, o) = "global"
                     \/ o \in UnderOrAt(x[2][2])
                     \/ \E t \in list \cap Team : <<x[2], t>> \in db.provides /\ why[t] # {}
                  /\ Kind(x, o) = "team" /\ p.type # "team" => Intermediary(x, p, o) # {}
            /\ \A a \in list : Explain(a, p, o) \subseteq why[a]
            /\ \A u \in list \cap User : (\A x \in gasg : rdt[x[2]] = "none") /\ On("team_roles") /\ On("user_roles")
                                => HasObjPerm(u, p, o)

\* Who makes an object has the creator's permissions on it from then on, unless
\* somebody has edited the definition that carries the creator's name.  (Those
\* for what will be below it are looked up on the object itself only when they
\* are to add there, or cached on the parent.)
NamedAsNeeded(ty) == CreatorRd[ty] \in db.rds =>
                        db.perms[CreatorRd[ty]] = CreatorPerms(ty)
CreatorHas(o) ==
    \A p \in CreatorPerms(TypeOf[o]) :
        p.type = TypeOf[o] \/ IsAdd(p) \/ CacheParentPermissions => HasObjPerm(owner[o], p, o)
CreatorOwns ==
    [][\A o \in Creatable :
          o \in db'.objs \ db.objs /\ NamedAsNeeded(TypeOf[o]) => CreatorHas(o)']_vars
=============================================================================

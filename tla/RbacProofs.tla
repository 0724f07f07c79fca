------------------------------- MODULE RbacProofs -------------------------------
(***************************************************************************)
(* Theorems of the specification of module Rbac, for every value of its    *)
(* constants: type correctness; no ObjectRole outlives its last assignment *)
(* or its object; coherent tables answer a permission check as the         *)
(* assignments mean; the computed tables refer to existing rows; a         *)
(* recomputation of everything repairs them; and the handlers leave the    *)
(* tables coherent, so that access grows with the assignments.             *)
(***************************************************************************)
EXTENDS Rbac, RbacTablesProofs

-----------------------------------------------------------------------------
(***************************************************************************)
(* Type correctness                                                        *)
(***************************************************************************)
LEMMA BatchFields ==
    ASSUME NEW b \in Batches
    PROVE  b.users \subseteq User \X Role /\ b.teams \subseteq Team \X Role
  BY RbacAssumption DEF Fitting

LEMMA TeamDeletedType ==
    ASSUME NEW d \in Db, NEW t
    PROVE  TeamDeleted(d, t) \in Db
  BY ComputeType, RecomputeType, CleanupType DEF TeamDeleted

LEMMA ObjectDeletedType ==
    ASSUME NEW d \in Db, NEW o
    PROVE  ObjectDeleted(d, o) \in Db
  BY DeleteRolesType, DeleteEvaluationsType DEF ObjectDeleted

LEMMA FlushType ==
    ASSUME NEW d \in Db
    PROVE  Flush(d) \in Db
  BY CleanupDeletedType, ComputeType, RecomputeType, CleanupType DEF Flush

\* Every table holds rows of the kind it references.
RowsTyped == db \in Db /\ cascade \in CascadeType /\ defer \in DeferType

\* No operation stores a row outside its table.
LEMMA RowsAreTyped == Spec => []RowsTyped
  <1>1. Init => RowsTyped
    BY RbacAssumption, CachingAssumption DEF Init, RowsTyped, CascadeType, DeferType, Db, NoCascade, NoDefer
  <1>2. RowsTyped /\ [Next]_vars => RowsTyped'
    <2> SUFFICES ASSUME RowsTyped, [Next]_vars
                 PROVE  RowsTyped'
      OBVIOUS
    <2>0. db \in Db /\ cascade \in CascadeType /\ defer \in DeferType
      BY DEF RowsTyped
    <2>q. ASSUME db' \in Db, cascade' \in CascadeType, defer' \in DeferType
          PROVE  RowsTyped'
      BY <2>q DEF RowsTyped
    <2>1. ASSUME NEW b \in Batches, Give(b)
          PROVE  RowsTyped'
      BY <2>1, <2>0, <2>q, BatchFields, GiveType DEF Give
    <2>2. ASSUME NEW b \in Batches, Remove(b)
          PROVE  RowsTyped'
      BY <2>2, <2>0, <2>q, RemoveType DEF Remove
    <2>3. ASSUME NEW u \in User, DeleteUser(u)
          PROVE  RowsTyped'
      <3>1. [db EXCEPT !.users = @ \ {u}, !.uasg = {a \in @ : a[1] # u}] \in Db
        BY <2>0 DEF Db
      <3> QED
        BY <3>1, <2>3, <2>0, <2>q, CleanupType DEF DeleteUser
    <2>4. ASSUME NEW rd \in Editable, NEW P \in PermEdits, AddPermissions(rd, P)
          PROVE  RowsTyped'
      <3>1. P \subseteq Perm
        BY <2>4 DEF AddPermissions, Allowed
      <3>2. [db EXCEPT !.perms[rd] = @ \cup P] \in Db
        BY <3>1, <2>0, <2>4 DEF Db, AddPermissions
      <3> QED
        BY <3>2, <2>4, <2>0, <2>q, PermissionsChangedType DEF AddPermissions
    <2>5. ASSUME NEW rd \in Editable, NEW P \in PermEdits, RemovePermissions(rd, P)
          PROVE  RowsTyped'
      <3>1. [db EXCEPT !.perms[rd] = @ \ P] \in Db
        BY <2>0, <2>5 DEF Db, RemovePermissions
      <3> QED
        BY <3>1, <2>5, <2>0, <2>q, PermissionsChangedType DEF RemovePermissions
    <2>6. ASSUME NEW rd \in Editable, ClearPermissions(rd)
          PROVE  RowsTyped'
      <3>1. [db EXCEPT !.perms[rd] = {}] \in Db
        BY <2>0 DEF Db
      <3> QED
        BY <3>1, <2>6, <2>0, <2>q, ComputeType, RecomputeAllType DEF ClearPermissions
    <2>7. ASSUME NEW rd \in Removable, DeleteRoleDefinition(rd)
          PROVE  RowsTyped'
      <3>1. DeleteObjectRoles(db, RolesOfDefinition(db, rd)) \in Db
        BY <2>0, DeleteRolesType
      <3>2. \A d \in Db : [d EXCEPT !.rds = @ \ {rd}] \in Db
        BY DEF Db
      <3> QED
        BY <3>1, <3>2, <2>7, <2>0, <2>q DEF DeleteRoleDefinition
    <2>8. ASSUME NEW o \in Creatable, NEW p \in Obj \cup {NoObj}, Create(o, p)
          PROVE  RowsTyped'
      <3>1. o \in Obj
        BY RbacAssumption
      <3>2. [db EXCEPT !.objs = @ \cup {o}, !.parent[o] = p] \in Db
        BY <3>1, <2>0 DEF Db
      <3>3. [defer EXCEPT !.created = @ \cup {o}] \in DeferType
        BY <3>1, <2>0 DEF DeferType
      <3> QED
        BY <3>2, <3>3, <2>8, <2>0, <2>q, CreatedNowType DEF Create
    <2>9. ASSUME NEW o \in Movable, NEW p \in Obj \cup {NoObj}, Move(o, p)
          PROVE  RowsTyped'
      <3>1. [db EXCEPT !.parent[o] = p] \in Db
        BY <2>0 DEF Db
      <3> QED
        BY <3>1, <2>9, <2>0, <2>q, ComputeType, RecomputeType DEF Move, Moved
    <2>10. ASSUME NEW o \in Obj, BeginDelete(o)
           PROVE  RowsTyped'
      <3>1. {o} \cup Below(db, o) \subseteq Obj
        BY <2>0 DEF Below, Db
      <3>2. cascade' \in CascadeType
        BY <3>1, <2>0, <2>10 DEF BeginDelete, CascadeType, Db
      <3>3. db' \in Db
        BY <2>0, <2>10 DEF BeginDelete, Db
      <3> QED
        BY <3>2, <3>3, <2>10, <2>0, <2>q DEF BeginDelete
    <2>11. ASSUME NEW ty \in Type, DeleteBatch(ty)
           PROVE  RowsTyped'
      <3>1. db' \in Db
        BY <2>0, <2>11 DEF DeleteBatch, Db
      <3>2. cascade' \in CascadeType
        BY <2>0, <2>11 DEF DeleteBatch, CascadeType
      <3> QED
        BY <3>1, <3>2, <2>11, <2>0, <2>q DEF DeleteBatch
    <2>12. ASSUME NEW o \in Obj, PostDelete(o)
           PROVE  RowsTyped'
      <3>1. cascade' \in CascadeType
        BY <2>0, <2>12 DEF PostDelete, Stepped, CascadeType, NoCascade
      <3>2. db' \in Db
        BY <2>0, <2>12, TeamDeletedType, ObjectDeletedType DEF PostDelete
      <3>3. defer' \in DeferType
        BY <2>0, <2>12 DEF PostDelete, DeferType, Team
      <3> QED
        BY <3>1, <3>2, <3>3, <2>q
    <2>13. ASSUME BeginDefer
           PROVE  RowsTyped'
      <3>1. defer' \in DeferType
        BY <2>0, <2>13 DEF BeginDefer, DeferType
      <3> QED
        BY <3>1, <2>13, <2>0, <2>q DEF BeginDefer
    <2>14. ASSUME EndDefer
           PROVE  RowsTyped'
      <3>1. NoDefer \in DeferType
        BY DEF NoDefer, DeferType
      <3> QED
        BY <3>1, <2>14, <2>0, <2>q, FlushType DEF EndDefer
    <2>15. ASSUME RecomputeAll
           PROVE  RowsTyped'
      BY <2>15, <2>0, <2>q, CleanupType, ComputeAllType, RecomputeAllType DEF RecomputeAll, RecomputedAll
    <2>16. CASE UNCHANGED vars
      BY <2>16, <2>0, <2>q DEF vars
    <2> QED
      BY <2>1, <2>2, <2>3, <2>4, <2>5, <2>6, <2>7, <2>8, <2>9, <2>10, <2>11,
         <2>12, <2>13, <2>14, <2>15, <2>16 DEF Next
  <1> QED
    BY <1>1, <1>2, PTL DEF Spec

-----------------------------------------------------------------------------
(***************************************************************************)
(* No ObjectRole outlives its last assignment or its object                *)
(***************************************************************************)
RolesAccounted ==
    /\ Linked(db) /\ db.roles \subseteq Fitting
    /\ defer.active \/ ~HasDeferredData
    /\ cascade.batch \subseteq cascade.todo
    /\ \A r \in db.roles : r[2] \in db.objs \cup cascade.todo \cup defer.teams \cup defer.objs
    /\ Orphans(db) # {} => cascade.todo \cap Team # {} \/ defer.teams # {}

\* What the post_delete handler of a team leaves
LEMMA TeamDeletedRoles ==
    ASSUME NEW d \in Db, NEW t
    PROVE  /\ TeamDeleted(d, t).roles \subseteq d.roles
           /\ TeamDeleted(d, t).objs = d.objs
           /\ Orphans(TeamDeleted(d, t)) = {}
           /\ Linked(d) => Linked(TeamDeleted(d, t))
  <1> DEFINE d1 == ComputeTeamMemberRoles(d, StashedTeams(t))
             d2 == RecomputeRoleEvaluations(d1, IndirectlyAffected(d, t))
  <1>1. d1 \in Db /\ SameAssignments(d, d1)
    BY ComputeType, ComputeKeeps
  <1>2. d2 \in Db /\ SameAssignments(d1, d2)
    BY <1>1, RecomputeType, RecomputeKeeps
  <1>3. d2.roles = d.roles /\ d2.objs = d.objs /\ (Linked(d) => Linked(d2))
    BY <1>1, <1>2 DEF SameAssignments, Linked
  <1>4. TeamDeleted(d, t) = CleanupOrphanedObjectRoles(d2)
    BY DEF TeamDeleted
  <1> HIDE DEF d2
  <1> QED
    BY <1>2, <1>3, <1>4, CleanupOrphans

LEMMA ObjectDeletedRoles ==
    ASSUME NEW d \in Db, NEW o
    PROVE  /\ ObjectDeleted(d, o).roles = {r \in d.roles : r[2] # o}
           /\ ObjectDeleted(d, o).objs = d.objs
           /\ Orphans(ObjectDeleted(d, o)) \subseteq Orphans(d)
           /\ Linked(d) => Linked(ObjectDeleted(d, o))
  <1> DEFINE d1 == DeleteObjectRoles(d, RolesOn(d, {o}))
  <1>1. d1 \in Db /\ d1.roles = {r \in d.roles : r[2] # o} /\ d1.objs = d.objs
        /\ Orphans(d1) \subseteq Orphans(d) /\ (Linked(d) => Linked(d1))
    BY DeleteRolesType, DeleteRolesOrphans DEF RolesOn
  <1>2. SameAssignments(d1, DeleteEvaluationsOn(d1, {o}))
    BY <1>1, DeleteEvaluationsKeeps
  <1> QED
    BY <1>1, <1>2, SameOrphans DEF ObjectDeleted, SameAssignments

LEMMA FlushRoles ==
    ASSUME NEW d \in Db
    PROVE  /\ Flush(d).roles \subseteq {r \in d.roles : r[2] \notin defer.teams \cup defer.objs}
           /\ Flush(d).objs = d.objs
           /\ Orphans(Flush(d)) = {}
           /\ Linked(d) => Linked(Flush(d))
  <1> DEFINE e  == CleanupDeletedRoles(d, defer.teams)
             d1 == CleanupDeletedRoles(e, defer.objs)
  <1>1. e \in Db /\ d1 \in Db
    BY CleanupDeletedType
  <1>2. d1.roles = {r \in d.roles : r[2] \notin defer.teams \cup defer.objs} /\ d1.objs = d.objs
        /\ (Linked(d) => Linked(d1))
    <2>1. e.roles = {r \in d.roles : r[2] \notin defer.teams} /\ e.objs = d.objs
          /\ (Linked(d) => Linked(e))
      BY CleanupDeletedRolesRoles
    <2>2. d1.roles = {r \in e.roles : r[2] \notin defer.objs} /\ d1.objs = e.objs
          /\ (Linked(e) => Linked(d1))
      BY <1>1, CleanupDeletedRolesRoles
    <2> QED BY <2>1, <2>2
  <1>3. PICK d3 \in Db : /\ SameAssignments(d1, d3)
                         /\ Flush(d) = CleanupOrphanedObjectRoles(d3)
    <2> HIDE DEF e, d1
    <2>1. \A x \in Db : \A R : /\ RecomputeRoleEvaluations(x, R) \in Db
                           /\ SameAssignments(x, RecomputeRoleEvaluations(x, R))
      BY RecomputeType, RecomputeKeeps
    <2>2. \A T : /\ ComputeTeamMemberRoles(d1, T) \in Db
                 /\ SameAssignments(d1, ComputeTeamMemberRoles(d1, T))
      BY <1>1, ComputeType, ComputeKeeps
    <2>3. \A T, R : SameAssignments(d1, RecomputeRoleEvaluations(ComputeTeamMemberRoles(d1, T), R))
      BY <2>1, <2>2, SameTransitive
    <2> QED
      BY <2>1, <2>2, <2>3 DEF Flush, e, d1
  <1> HIDE DEF d1
  <1> QED
    BY <1>2, <1>3, CleanupOrphans, SameOrphans DEF SameAssignments

\* RolesAccounted is preserved by a step that keeps the objects and the two
\* bookkeeping variables, adds no role on a missing object and orphans none.
LEMMA AccountedStep ==
    ASSUME RolesAccounted, UNCHANGED <<cascade, defer>>,
           db.objs \subseteq db'.objs,
           \A r \in db'.roles : r \in db.roles \/ (r[2] \in db.objs /\ r \in Fitting),
           Orphans(db') \subseteq Orphans(db),
           Linked(db) => Linked(db')
    PROVE  RolesAccounted'
  <1>1. \A r \in db'.roles :
          r[2] \in db'.objs \cup cascade.todo \cup defer.teams \cup defer.objs
    BY DEF RolesAccounted
  <1>2. Orphans(db') # {} => Orphans(db) # {}
    OBVIOUS
  <1> QED
    BY <1>1, <1>2 DEF RolesAccounted, HasDeferredData

\* Every handler keeps the account of RolesAccounted.
THEOREM RolesAreAccounted == Spec => []RolesAccounted
  <1>1. Init => RolesAccounted
    BY DEF Init, RolesAccounted, Linked, Orphans, HasDeferredData, NoCascade, NoDefer
  <1>2. RowsTyped /\ RolesAccounted /\ [Next]_vars => RolesAccounted'
    <2> SUFFICES ASSUME RowsTyped, RolesAccounted, [Next]_vars
                 PROVE  RolesAccounted'
      OBVIOUS
    <2>0. db \in Db /\ cascade \in CascadeType /\ defer \in DeferType
      BY DEF RowsTyped
    <2>1. ASSUME NEW b \in Batches, Give(b)
          PROVE  RolesAccounted'
      <3>1. b.users \in SUBSET (User \X Role) /\ b.teams \in SUBSET (Team \X Role)
        BY BatchFields
      <3>2. /\ db'.roles = db.roles \cup RolesIn(b.users) \cup RolesIn(b.teams)
            /\ db'.objs = db.objs /\ Orphans(db') \subseteq Orphans(db)
            /\ Linked(db) => Linked(db')
        <4>1. PICK ua \in SUBSET (User \X Role), ta \in SUBSET (Team \X Role) :
                ua = b.users /\ ta = b.teams /\ db' = GiveAssignments(db, ua, ta)
          BY <2>1, <3>1 DEF Give
        <4>2. /\ GiveAssignments(db, ua, ta).roles = db.roles \cup RolesIn(ua) \cup RolesIn(ta)
              /\ GiveAssignments(db, ua, ta).objs = db.objs
              /\ Orphans(GiveAssignments(db, ua, ta)) \subseteq Orphans(db)
              /\ Linked(db) => Linked(GiveAssignments(db, ua, ta))
          BY <2>0, GiveRoles
        <4> QED BY <4>1, <4>2
      <3>3. \A r \in RolesIn(b.users) \cup RolesIn(b.teams) : r[2] \in db.objs /\ r \in Fitting
        BY <2>1, RbacAssumption DEF Give, Assignable, RolesIn
      <3> QED
        BY <2>1, <3>2, <3>3, AccountedStep DEF Give
    <2>2. ASSUME NEW b \in Batches, Remove(b)
          PROVE  RolesAccounted'
      BY <2>0, <2>2, RemoveRoles, AccountedStep DEF Remove
    <2>3. ASSUME NEW u \in User, DeleteUser(u)
          PROVE  RolesAccounted'
      <3> DEFINE d == [db EXCEPT !.users = @ \ {u}, !.uasg = {a \in @ : a[1] # u}]
      <3>1. d \in Db /\ d.roles = db.roles /\ d.objs = db.objs /\ (Linked(db) => Linked(d))
        BY <2>0 DEF Db, Linked
      <3>2. db' = CleanupOrphanedObjectRoles(d) /\ UNCHANGED <<cascade, defer>>
        BY <2>3 DEF DeleteUser
      <3> HIDE DEF d
      <3>3. db'.roles \subseteq db.roles /\ db'.objs = db.objs /\ Orphans(db') = {}
            /\ (Linked(db) => Linked(db'))
        BY <3>1, <3>2, CleanupOrphans
      <3> QED
        BY <3>2, <3>3, AccountedStep
    <2>4. ASSUME NEW rd \in Editable, NEW P \in PermEdits,
                 AddPermissions(rd, P) \/ RemovePermissions(rd, P)
          PROVE  RolesAccounted'
      <3>1. PICK Q \in SUBSET Perm, adding \in BOOLEAN :
              /\ db' = PermissionsChanged([db EXCEPT !.perms[rd] = Q], rd, P, adding)
              /\ UNCHANGED <<cascade, defer>>
        <4>1. db.perms[rd] \cup P \in SUBSET Perm \/ ~AddPermissions(rd, P)
          BY <2>0, RbacAssumption DEF AddPermissions, Allowed, Db
        <4>2. db.perms[rd] \ P \in SUBSET Perm
          BY <2>0, RbacAssumption DEF Db
        <4> QED BY <4>1, <4>2, <2>4 DEF AddPermissions, RemovePermissions
      <3> DEFINE d == [db EXCEPT !.perms[rd] = Q]
      <3>2. d \in Db /\ SameAssignments(db, d)
        BY <2>0 DEF Db, SameAssignments
      <3> HIDE DEF d
      <3>3. SameAssignments(db, PermissionsChanged(d, rd, P, adding))
        BY <3>2, PermissionsChangedKeeps, SameTransitive
      <3>4. SameAssignments(db, db')
        BY <3>1, <3>3 DEF d
      <3> QED
        BY <3>1, <3>4, SameOrphans, AccountedStep DEF SameAssignments
    <2>5. ASSUME NEW rd \in Editable, ClearPermissions(rd)
          PROVE  RolesAccounted'
      <3> DEFINE d == [db EXCEPT !.perms[rd] = {}]
      <3>1. d \in Db /\ SameAssignments(db, d)
        BY <2>0 DEF Db, SameAssignments
      <3> HIDE DEF d
      <3>2. \A T : SameAssignments(d, RecomputeAllRoleEvaluations(ComputeTeamMemberRoles(d, T)))
        BY <3>1, ComputeType, ComputeKeeps, RecomputeKeeps, SameTransitive
           DEF RecomputeAllRoleEvaluations
      <3>3. SameAssignments(db, db')
        BY <2>5, <3>1, <3>2, SameTransitive DEF ClearPermissions, d
      <3> QED
        BY <2>5, <3>3, SameOrphans, AccountedStep DEF ClearPermissions, SameAssignments
    <2>6. ASSUME NEW rd \in Removable, DeleteRoleDefinition(rd)
          PROVE  RolesAccounted'
      <3> DEFINE d == DeleteObjectRoles(db, RolesOfDefinition(db, rd))
      <3>1. d \in Db /\ d.roles \subseteq db.roles /\ d.objs = db.objs
            /\ Orphans(d) \subseteq Orphans(db) /\ (Linked(db) => Linked(d))
        BY <2>0, DeleteRolesType, DeleteRolesOrphans
      <3> HIDE DEF d
      <3>2. SameAssignments(d, [d EXCEPT !.rds = @ \ {rd}])
        BY <3>1 DEF Db, SameAssignments
      <3>3. SameAssignments(d, db')
        BY <2>6, <3>2 DEF DeleteRoleDefinition, d
      <3> QED
        BY <2>6, <3>1, <3>3, SameOrphans, AccountedStep DEF DeleteRoleDefinition, SameAssignments
    <2>7. ASSUME NEW o \in Creatable, NEW p \in Obj \cup {NoObj}, Create(o, p)
          PROVE  RolesAccounted'
      <3> DEFINE d == [db EXCEPT !.objs = @ \cup {o}, !.parent[o] = p]
      <3>0. o \in Obj
        BY RbacAssumption
      <3>1. d \in Db
        BY <2>0, <3>0 DEF Db
      <3>2. /\ d.objs = db.objs \cup {o} /\ d.roles = db.roles
            /\ d.uasg = db.uasg /\ d.tasg = db.tasg
        BY <2>0 DEF Db
      <3>3. Orphans(d) = Orphans(db) /\ (Linked(db) <=> Linked(d))
        <4> HIDE DEF d
        <4> QED BY <3>2 DEF Orphans, Linked
      <3>4. db' = d \/ db' = CreatedNow(d, o)
        BY <2>7 DEF Create
      <3> HIDE DEF d
      <3>5. db'.objs = d.objs /\ db'.roles = db.roles /\ Orphans(db') = Orphans(db)
            /\ (Linked(db) <=> Linked(db'))
        BY <3>1, <3>2, <3>3, <3>4, CreatedNowKeeps, SameOrphans DEF SameAssignments
      <3>6. /\ cascade' = cascade /\ defer'.teams = defer.teams /\ defer'.objs = defer.objs
            /\ defer'.active = defer.active /\ (defer.active \/ defer' = defer)
        BY <2>0, <2>7 DEF Create, DeferType
      <3> QED
        BY <3>2, <3>5, <3>6 DEF RolesAccounted, HasDeferredData
    <2>8. ASSUME NEW o \in Movable, NEW p \in Obj \cup {NoObj}, Move(o, p)
          PROVE  RolesAccounted'
      <3> DEFINE d == [db EXCEPT !.parent[o] = p]
      <3>1. d \in Db /\ SameAssignments(db, d)
        BY <2>0 DEF Db, SameAssignments
      <3> HIDE DEF d
      <3>2. \A T, R : /\ SameAssignments(d, RecomputeRoleEvaluations(d, R))
                      /\ SameAssignments(d, RecomputeRoleEvaluations(ComputeTeamMemberRoles(d, T), R))
        BY <3>1, ComputeType, ComputeKeeps, RecomputeKeeps, SameTransitive
      <3>3. SameAssignments(db, db')
        BY <2>8, <3>1, <3>2, SameTransitive DEF Move, Moved, d
      <3> QED
        BY <2>8, <3>3, SameOrphans, AccountedStep DEF Move, SameAssignments
    <2>9. ASSUME NEW o \in Obj, BeginDelete(o)
           PROVE  RolesAccounted'
      <3> DEFINE all   == {o} \cup Below(db, o)
                 teams == all \cap Team
      <3>1. /\ cascade.todo = {} /\ cascade'.todo = all /\ cascade'.batch = {} /\ defer' = defer
            /\ db' = [db EXCEPT !.provides = {x \in @ : x[2] \notin teams},
                                !.tasg = {a \in @ : a[1] \notin teams}]
        BY <2>9 DEF BeginDelete, Idle
      <3>2. /\ db'.roles = db.roles /\ db'.objs = db.objs /\ db'.uasg = db.uasg
            /\ db'.tasg = {a \in db.tasg : a[1] \notin teams}
        BY <2>0, <3>1 DEF Db
      <3> HIDE DEF all
      <3>4. Linked(db) => Linked(db')
        BY <3>2 DEF Linked
      <3>3. teams = {} => Orphans(db') = Orphans(db)
        <4> SUFFICES ASSUME teams = {} PROVE Orphans(db') = Orphans(db)
          OBVIOUS
        <4>1. db'.tasg = db.tasg
          BY <3>2
        <4> QED BY <3>2, <4>1 DEF Orphans
      <3> QED
        BY <3>1, <3>2, <3>3, <3>4 DEF RolesAccounted, HasDeferredData
    <2>10. ASSUME NEW ty \in Type, DeleteBatch(ty)
           PROVE  RolesAccounted'
      <3>1. PICK batch : /\ batch \subseteq cascade.todo
                         /\ db' = [db EXCEPT !.objs = @ \ batch, !.gone = @ \cup batch]
                         /\ cascade' = [cascade EXCEPT !.batch = batch]
                         /\ defer' = defer
        BY <2>10 DEF DeleteBatch
      <3>2. /\ db'.roles = db.roles /\ db'.objs = db.objs \ batch
            /\ db'.uasg = db.uasg /\ db'.tasg = db.tasg
        BY <2>0, <3>1 DEF Db
      <3>3. Orphans(db') = Orphans(db) /\ (Linked(db) <=> Linked(db'))
        BY <3>2 DEF Orphans, Linked
      <3>4. cascade'.todo = cascade.todo /\ cascade'.batch = batch
        BY <2>0, <3>1 DEF CascadeType
      <3> QED
        BY <3>1, <3>2, <3>3, <3>4 DEF RolesAccounted, HasDeferredData
    <2>11. ASSUME NEW o \in Obj, PostDelete(o)
           PROVE  RolesAccounted'
      <3>0. /\ cascade'.todo = cascade.todo \ {o}
            /\ cascade'.batch \subseteq cascade'.todo
            /\ o \in cascade.todo
        <4>1. o \in cascade.batch /\ cascade.batch \subseteq cascade.todo /\ cascade' = Stepped(o)
          BY <2>11 DEF PostDelete, RolesAccounted
        <4> QED
          BY <4>1, <2>0 DEF Stepped, NoCascade, CascadeType
      <3>1. CASE defer.active
        <4>1. db' = db /\ defer'.active
              /\ defer.teams \subseteq defer'.teams /\ defer.objs \subseteq defer'.objs
              /\ o \in defer'.teams \cup defer'.objs
              /\ (o \in Team => o \in defer'.teams)
          BY <2>0, <2>11, <3>1 DEF PostDelete, DeferType, Team
        <4>2. cascade.todo \cap Team # {} => cascade'.todo \cap Team # {} \/ defer'.teams # {}
          BY <3>0, <4>1
        <4> QED
          BY <3>0, <4>1, <4>2 DEF RolesAccounted, HasDeferredData
      <3>2. CASE ~defer.active /\ TypeOf[o] = "team"
        <4>1. /\ db' = ObjectDeleted(TeamDeleted(db, o), o) /\ defer' = defer
          BY <2>11, <3>2 DEF PostDelete
        <4>2. /\ TeamDeleted(db, o) \in Db /\ TeamDeleted(db, o).roles \subseteq db.roles
              /\ TeamDeleted(db, o).objs = db.objs /\ Orphans(TeamDeleted(db, o)) = {}
              /\ Linked(db) => Linked(TeamDeleted(db, o))
          BY <2>0, TeamDeletedType, TeamDeletedRoles
        <4>3. /\ db'.roles \subseteq {r \in db.roles : r[2] # o} /\ db'.objs = db.objs
              /\ Orphans(db') = {} /\ (Linked(db) => Linked(db'))
          BY <4>1, <4>2, ObjectDeletedRoles
        <4> QED
          BY <3>0, <3>2, <4>1, <4>3 DEF RolesAccounted, HasDeferredData
      <3>3. CASE ~defer.active /\ TypeOf[o] # "team"
        <4>1. /\ db' = ObjectDeleted(db, o) /\ defer' = defer
          BY <2>11, <3>3 DEF PostDelete
        <4>2. /\ db'.roles = {r \in db.roles : r[2] # o} /\ db'.objs = db.objs
              /\ Orphans(db') \subseteq Orphans(db) /\ (Linked(db) => Linked(db'))
          BY <2>0, <4>1, ObjectDeletedRoles
        <4>3. o \notin Team
          BY <3>3 DEF Team
        <4> QED
          BY <3>0, <3>3, <4>1, <4>2, <4>3 DEF RolesAccounted, HasDeferredData
      <3> QED BY <3>1, <3>2, <3>3
    <2>12. ASSUME BeginDefer
           PROVE  RolesAccounted'
      BY <2>0, <2>12 DEF BeginDefer, RolesAccounted, HasDeferredData, DeferType
    <2>13. ASSUME EndDefer
           PROVE  RolesAccounted'
      <3>1. CASE HasDeferredData
        <4>1. /\ db'.roles \subseteq {r \in db.roles : r[2] \notin defer.teams \cup defer.objs}
              /\ db'.objs = db.objs /\ Orphans(db') = {} /\ (Linked(db) => Linked(db'))
          BY <2>0, <2>13, <3>1, FlushRoles DEF EndDefer
        <4>2. defer' = NoDefer /\ cascade' = cascade /\ cascade.todo = {}
          BY <2>13 DEF EndDefer, Idle
        <4> QED
          BY <4>1, <4>2 DEF RolesAccounted, HasDeferredData, NoDefer
      <3>2. CASE ~HasDeferredData
        BY <2>13, <3>2 DEF EndDefer, RolesAccounted, HasDeferredData, NoDefer, Idle
      <3> QED BY <3>1, <3>2
    <2>14. ASSUME RecomputeAll
           PROVE  RolesAccounted'
      <3> DEFINE d == CleanupOrphanedObjectRoles(db)
      <3>1. d \in Db /\ d.roles \subseteq db.roles /\ d.objs = db.objs /\ Orphans(d) = {}
            /\ (Linked(db) => Linked(d))
        BY <2>0, CleanupType, CleanupOrphans
      <3> HIDE DEF d
      <3>2. SameAssignments(d, RecomputeAllRoleEvaluations(ComputeAllTeamMemberRoles(d)))
        BY <3>1, ComputeType, ComputeKeeps, RecomputeKeeps, SameTransitive
           DEF RecomputeAllRoleEvaluations, ComputeAllTeamMemberRoles
      <3>3. SameAssignments(d, db')
        BY <2>14, <3>2 DEF RecomputeAll, RecomputedAll, d
      <3> QED
        BY <2>14, <3>1, <3>3, SameOrphans, AccountedStep DEF RecomputeAll, SameAssignments
    <2>15. CASE UNCHANGED vars
      BY <2>15 DEF vars, RolesAccounted, HasDeferredData
    <2> QED
      BY <2>1, <2>2, <2>3, <2>4, <2>5, <2>6, <2>7, <2>8, <2>9, <2>10,
         <2>11, <2>12, <2>13, <2>14, <2>15 DEF Next
  <1> QED
    BY <1>1, <1>2, RowsAreTyped, PTL DEF Spec

\* Type correctness: no operation stores a row outside its table, nor an
\* ObjectRole on an object of another type than its definition is for.
THEOREM TypeCorrect == Spec => []TypeOK
  <1>1. RowsTyped /\ RolesAccounted => TypeOK
    BY DEF RowsTyped, RolesAccounted, TypeOK, CascadeType, DeferType
  <1> QED
    BY <1>1, RowsAreTyped, RolesAreAccounted, PTL

\* Whenever no delete() is in progress and no deferred work is pending, every
\* ObjectRole is held by some user or team and its object exists.
THEOREM RolesHaveHoldersAndObjects == Spec => []NoOrphanedRoles
  <1>1. RolesAccounted => NoOrphanedRoles
    BY DEF RolesAccounted, NoOrphanedRoles, Settled, Guarded, Idle, HasDeferredData
  <1> QED
    BY <1>1, RolesAreAccounted, PTL

-----------------------------------------------------------------------------
(***************************************************************************)
(* Coherent tables give the right answers                                  *)
(***************************************************************************)
\* What has_obj_perm answers for anybody, when both computed tables are what a
\* recomputation of everything would make them.
RightAnswers ==
    Settled => \A u : {e \in Evaluation : e[2] \in db.objs /\ HasObjPerm(u, e)} = Entitled(u)

LEMMA CoherentAnswers ==
    ASSUME TypeOK, RolesAccounted, ProvidesCoherent, EvalsCoherent
    PROVE  RightAnswers
  <1> SUFFICES ASSUME Settled, NEW u
               PROVE  {e \in Evaluation : e[2] \in db.objs /\ HasObjPerm(u, e)} = Entitled(u)
    BY DEF RightAnswers
  <1>1. db \in Db /\ Linked(db) /\ \A r \in db.roles : r[2] \in db.objs
    BY DEF TypeOK, RolesAccounted, Settled, Guarded, Idle, HasDeferredData
  <1>2. \A q : q \in RolesHeldBy(u) <=>
            \E r \in db.roles : <<u, r>> \in db.uasg /\ (q = r \/ q \in TeamRoles(db, r))
    <2>1. RolesHeldBy(u) = HeldIn(db, u)
      BY DEF RolesHeldBy, HeldIn, MemberOf, MemberIn
    <2>2. ProvidesCoherentIn(db)
      BY DEF ProvidesCoherent
    <2> QED
      BY <1>1, <2>1, <2>2, HeldThroughTeams
  <1>3. \A r, e : r \in db.roles /\ e \in Evaluation /\ e[2] \in db.objs =>
            (<<r, e>> \in db.evals <=> e \in ExpectedEvaluations(db, r))
    <2>1. \A x : x \in db.evals /\ x[2][2] \in db.objs
               <=> x \in UNION {{r} \X ExpectedEvaluations(db, r) : r \in db.roles}
      BY DEF EvalsCoherent, EvalsCoherentIn
    <2> QED
      BY <2>1, ExpectedOnObjects, <1>1
  <1>4. \A e : e \in Entitled(u) <=>
            \E r \in db.roles : <<u, r>> \in db.uasg /\ e \in ExpectedEvaluations(db, r)
    <2>1. \A e : e \in Entitled(u) <=> \E q \in RolesHeldBy(u) : e \in ExpectedDirect(db, q)
      BY DEF Entitled
    <2>2. \A r, e : e \in ExpectedEvaluations(db, r) <=>
              \E q : (q = r \/ q \in TeamRoles(db, r)) /\ e \in ExpectedDirect(db, q)
      BY DEF ExpectedEvaluations
    <2> QED
      BY <1>2, <2>1, <2>2
  <1>5. \A r \in db.roles : \A e \in ExpectedEvaluations(db, r) : e \in Evaluation /\ e[2] \in db.objs
    BY <1>1, ExpectedOnObjects
  <1>6. \A e : HasObjPerm(u, e) <=> \E r \in db.roles : <<u, r>> \in db.uasg /\ <<r, e>> \in db.evals
    BY DEF HasObjPerm
  <1> QED
    BY <1>3, <1>4, <1>5, <1>6

\* The answer of has_obj_perm is right for every user and every permission on
\* every object whenever the two computed tables are what a recomputation of
\* everything would make them: a handler that keeps them so needs no further
\* argument about chains and loops of teams.
THEOREM CoherentTablesAnswerRight ==
    Spec => [](ProvidesCoherent /\ EvalsCoherent => AccessMatchesAssignments)
  <1>1. TypeOK /\ RolesAccounted => (ProvidesCoherent /\ EvalsCoherent => AccessMatchesAssignments)
    BY CoherentAnswers DEF RightAnswers, AccessMatchesAssignments
  <1> QED
    BY <1>1, TypeCorrect, RolesAreAccounted, PTL

-----------------------------------------------------------------------------
(***************************************************************************)
(* The computed tables refer to existing rows                              *)
(***************************************************************************)
\* Outside a deletion provides_teams names existing teams; during one, teams
\* that are not being deleted.
KeysExist ==
    /\ Keyed(db, db.objs \ cascade.todo)
    /\ cascade.batch \cap Team # {} => cascade.todo \cap db.objs \cap Team = {}

LEMMA GiveKeepsObjects ==
    ASSUME NEW d \in Db, NEW b \in Batches
    PROVE  GiveAssignments(d, b.users, b.teams).objs = d.objs
  <1>1. \A ua \in SUBSET (User \X Role), ta \in SUBSET (Team \X Role) :
          GiveAssignments(d, ua, ta).objs = d.objs
    <2> SUFFICES ASSUME NEW ua \in SUBSET (User \X Role), NEW ta \in SUBSET (Team \X Role)
                 PROVE  GiveAssignments(d, ua, ta).objs = d.objs
      OBVIOUS
    <2> QED BY GiveRoles
  <1>2. b.users \in SUBSET (User \X Role) /\ b.teams \in SUBSET (Team \X Role)
    BY BatchFields
  <1> QED
    BY <1>1, <1>2

LEMMA KeysStep ==
    ASSUME Idle, UNCHANGED cascade, Keyed(db', db'.objs)
    PROVE  KeysExist'
  <1>1. db'.objs = db'.objs \ cascade'.todo /\ cascade'.todo = {}
    BY DEF Idle
  <1> QED
    BY <1>1 DEF KeysExist

\* No row of provides_teams or RoleEvaluation names a deleted role, and no row
\* of provides_teams a team whose deletion has begun: the handlers that run
\* between the steps of a deletion do not insert one again.
THEOREM ComputedTablesRefer == Spec => []KeysExist
  <1>1. Init => KeysExist
    BY DEF Init, KeysExist, Keyed, NoCascade
  <1>2. TypeOK /\ RolesAccounted /\ KeysExist /\ [Next]_vars => KeysExist'
    <2> SUFFICES ASSUME TypeOK, RolesAccounted, KeysExist, [Next]_vars
                 PROVE  KeysExist'
      OBVIOUS
    <2>0. db \in Db /\ cascade \in CascadeType /\ defer \in DeferType
      BY DEF TypeOK, CascadeType, DeferType
    <2>i. ASSUME Idle PROVE Keyed(db, db.objs)
      BY <2>i DEF KeysExist, Keyed, Idle
    <2>1. ASSUME NEW b \in Batches, Give(b)
          PROVE  KeysExist'
      <3> DEFINE d == CreateAssignments(db, b.users, b.teams)
      <3>1. d \in Db /\ d.objs = db.objs /\ Keyed(d, db.objs)
        <4>1. d \in Db
          BY <2>0, BatchFields, CreateAssignmentsType
        <4>2. d.objs = db.objs /\ db.roles \subseteq d.roles
              /\ d.provides = db.provides /\ d.evals = db.evals
          BY <2>0 DEF CreateAssignments, Db
        <4> QED
          BY <4>1, <4>2, <2>i, <2>1 DEF Keyed, Give
      <3> HIDE DEF d
      <3>2. Keyed(GiveAssignments(db, b.users, b.teams), db.objs)
        BY <3>1, BothKeyed DEF GiveAssignments, d
      <3>3. db' = GiveAssignments(db, b.users, b.teams) /\ db'.objs = db.objs
        BY <2>0, <2>1, GiveKeepsObjects DEF Give
      <3> QED
        BY <2>1, <3>2, <3>3, KeysStep DEF Give
    <2>2. ASSUME NEW b \in Batches, Remove(b)
          PROVE  KeysExist'
      <3>1. PICK ua, ta : db' = RemoveAssignments(db, ua, ta)
        BY <2>2 DEF Remove
      <3> DEFINE d == [db EXCEPT !.uasg = @ \ ua, !.tasg = @ \ ta]
      <3>2. d \in Db /\ d.objs = db.objs /\ Keyed(d, db.objs)
        BY <2>0, <2>i, <2>2 DEF Db, Keyed, Remove
      <3> HIDE DEF d
      <3>3. PICK d3 \in Db : Keyed(d3, db.objs) /\ \E R : db' = DeleteObjectRoles(d3, R)
        BY <3>1, <3>2, BothKeyed, RecomputeType, ComputeType DEF RemoveAssignments, d
      <3>4. db'.objs = db.objs
        BY <2>0, <3>1, RemoveRoles
      <3> QED
        BY <2>2, <3>3, <3>4, DeleteRolesKeyed, KeysStep DEF Remove
    <2>3. ASSUME NEW u \in User, DeleteUser(u)
          PROVE  KeysExist'
      <3> DEFINE d == [db EXCEPT !.users = @ \ {u}, !.uasg = {a \in @ : a[1] # u}]
      <3>1. d \in Db /\ d.objs = db.objs /\ Keyed(d, db.objs)
        BY <2>0, <2>i, <2>3 DEF Db, Keyed, DeleteUser
      <3>2. db' = CleanupOrphanedObjectRoles(d)
        BY <2>3 DEF DeleteUser
      <3> HIDE DEF d
      <3> QED
        BY <2>3, <3>1, <3>2, DeleteRolesKeyed, CleanupOrphans, KeysStep
           DEF DeleteUser, CleanupOrphanedObjectRoles
    <2>4. ASSUME NEW rd \in Editable, NEW P \in PermEdits,
                 AddPermissions(rd, P) \/ RemovePermissions(rd, P)
          PROVE  KeysExist'
      <3>1. PICK Q \in SUBSET Perm, adding \in BOOLEAN :
              db' = PermissionsChanged([db EXCEPT !.perms[rd] = Q], rd, P, adding)
        <4>1. db.perms[rd] \cup P \in SUBSET Perm \/ ~AddPermissions(rd, P)
          BY <2>0, RbacAssumption DEF AddPermissions, Allowed, Db
        <4>2. db.perms[rd] \ P \in SUBSET Perm
          BY <2>0, RbacAssumption DEF Db
        <4> QED BY <4>1, <4>2, <2>4 DEF AddPermissions, RemovePermissions
      <3>2. Idle /\ cascade' = cascade
        BY <2>4 DEF AddPermissions, RemovePermissions
      <3> DEFINE d == [db EXCEPT !.perms[rd] = Q]
      <3>3. d \in Db /\ d.objs = db.objs /\ Keyed(d, db.objs)
        BY <2>0, <2>i, <3>2 DEF Db, Keyed
      <3>4. db' = PermissionsChanged(d, rd, P, adding)
        BY <3>1
      <3> HIDE DEF d
      <3>5. Keyed(db', db.objs)
        BY <3>3, <3>4, BothKeyed DEF PermissionsChanged
      <3>6. db'.objs = db.objs
        BY <3>3, <3>4, PermissionsChangedKeeps DEF SameAssignments
      <3> QED
        BY <3>2, <3>5, <3>6, KeysStep
    <2>5. ASSUME NEW rd \in Editable, ClearPermissions(rd)
          PROVE  KeysExist'
      <3> DEFINE d == [db EXCEPT !.perms[rd] = {}]
      <3>1. d \in Db /\ d.objs = db.objs /\ Keyed(d, db.objs)
        BY <2>0, <2>i, <2>5 DEF Db, Keyed, ClearPermissions
      <3>2. PICK ids : \/ db' = d
                       \/ db' = RecomputeAllRoleEvaluations(ComputeTeamMemberRoles(d, ids))
        BY <2>5 DEF ClearPermissions
      <3> HIDE DEF d
      <3>3. Keyed(db', db.objs)
        BY <3>1, <3>2, BothKeyed DEF RecomputeAllRoleEvaluations
      <3>4. db'.objs = db.objs
        BY <3>1, <3>2, ComputeType, ComputeKeeps, RecomputeKeeps
           DEF RecomputeAllRoleEvaluations, SameAssignments
      <3> QED
        BY <2>5, <3>3, <3>4, KeysStep DEF ClearPermissions
    <2>6. ASSUME NEW rd \in Removable, DeleteRoleDefinition(rd)
          PROVE  KeysExist'
      <3> DEFINE d == DeleteObjectRoles(db, RolesOfDefinition(db, rd))
      <3>1. d \in Db /\ d.objs = db.objs /\ Keyed(d, db.objs)
        BY <2>0, <2>i, <2>6, DeleteRolesType, DeleteRolesOrphans, DeleteRolesKeyed
           DEF DeleteRoleDefinition
      <3>2. db' = [d EXCEPT !.rds = @ \ {rd}]
        BY <2>6 DEF DeleteRoleDefinition
      <3> HIDE DEF d
      <3>3. db'.objs = db.objs /\ Keyed(db', db.objs)
        BY <3>1, <3>2 DEF Db, Keyed
      <3> QED
        BY <2>6, <3>3, KeysStep DEF DeleteRoleDefinition
    <2>7. ASSUME NEW o \in Creatable, NEW p \in Obj \cup {NoObj}, Create(o, p)
          PROVE  KeysExist'
      <3> DEFINE d == [db EXCEPT !.objs = @ \cup {o}, !.parent[o] = p]
      <3>1. d \in Db /\ Keyed(d, d.objs)
        <4>0. o \in Obj
          BY RbacAssumption
        <4>1. d \in Db
          BY <2>0, <4>0 DEF Db
        <4>2. /\ d.objs = db.objs \cup {o} /\ d.roles = db.roles
              /\ d.provides = db.provides /\ d.evals = db.evals
          BY <2>0 DEF Db
        <4>3. Keyed(db, db.objs)
          BY <2>i, <2>7 DEF Create
        <4> QED BY <4>1, <4>2, <4>3 DEF Keyed
      <3>2. db' = d \/ db' = CreatedNow(d, o)
        BY <2>7 DEF Create
      <3> HIDE DEF d
      <3>3. Keyed(CreatedNow(d, o), d.objs)
        BY <3>1, ComputeType, ComputeKeyed, LookAheadKeyed DEF CreatedNow
      <3>4. CreatedNow(d, o).objs = d.objs
        BY <3>1, CreatedNowKeeps DEF SameAssignments
      <3> QED
        BY <2>7, <3>1, <3>2, <3>3, <3>4, KeysStep DEF Create
    <2>8. ASSUME NEW o \in Movable, NEW p \in Obj \cup {NoObj}, Move(o, p)
          PROVE  KeysExist'
      <3> DEFINE d == [db EXCEPT !.parent[o] = p]
      <3>1. d \in Db /\ d.objs = db.objs /\ Keyed(d, db.objs)
        BY <2>0, <2>i, <2>8 DEF Db, Keyed, Move
      <3>2. PICK S, R : \/ db' = RecomputeRoleEvaluations(d, R)
                        \/ db' = RecomputeRoleEvaluations(ComputeTeamMemberRoles(d, S), R)
        BY <2>8 DEF Move, Moved
      <3> HIDE DEF d
      <3>3. Keyed(db', db.objs)
        BY <3>1, <3>2, BothKeyed
      <3>4. db'.objs = db.objs
        BY <3>1, <3>2, ComputeType, ComputeKeeps, RecomputeKeeps DEF SameAssignments
      <3> QED
        BY <2>8, <3>3, <3>4, KeysStep DEF Move
    <2>9. ASSUME NEW o \in Obj, BeginDelete(o)
          PROVE  KeysExist'
      <3> DEFINE all   == {o} \cup Below(db, o)
                 teams == all \cap Team
      <3>1. /\ cascade'.todo = all /\ cascade'.batch = {}
            /\ db' = [db EXCEPT !.provides = {x \in @ : x[2] \notin teams},
                                !.tasg = {a \in @ : a[1] \notin teams}]
        BY <2>9 DEF BeginDelete
      <3> HIDE DEF all
      <3>2. /\ db'.roles = db.roles /\ db'.objs = db.objs /\ db'.evals = db.evals
            /\ db'.provides = {x \in db.provides : x[2] \notin teams}
        BY <2>0, <3>1 DEF Db
      <3>3. \A x \in db.provides : x[2] \in Team
        BY <2>0 DEF Db
      <3>4. Keyed(db, db.objs)
        BY <2>i, <2>9 DEF BeginDelete
      <3> QED
        BY <3>1, <3>2, <3>3, <3>4 DEF KeysExist, Keyed
    <2>10. ASSUME NEW ty \in Type, DeleteBatch(ty)
           PROVE  KeysExist'
      <3> DEFINE batch == {o \in cascade.todo \cap db.objs : TypeOf[o] = ty}
      <3>1. /\ db' = [db EXCEPT !.objs = @ \ batch, !.gone = @ \cup batch]
            /\ cascade' = [cascade EXCEPT !.batch = batch]
        BY <2>10 DEF DeleteBatch
      <3> HIDE DEF batch
      <3>2. /\ db'.roles = db.roles /\ db'.objs = db.objs \ batch
            /\ db'.provides = db.provides /\ db'.evals = db.evals
            /\ cascade'.todo = cascade.todo /\ cascade'.batch = batch
        BY <2>0, <3>1 DEF Db, CascadeType
      <3>3. batch \subseteq cascade.todo
            /\ (batch \cap Team # {} => cascade.todo \cap db.objs \cap Team \subseteq batch)
        BY DEF batch, Team
      <3> QED
        BY <3>2, <3>3 DEF KeysExist, Keyed
    <2>11. ASSUME NEW o \in Obj, PostDelete(o)
           PROVE  KeysExist'
      <3> DEFINE T == db.objs \ cascade.todo
      <3>0. /\ cascade'.todo = cascade.todo \ {o}
            /\ cascade'.batch \subseteq cascade.batch
            /\ o \in cascade.batch
        BY <2>0, <2>11 DEF PostDelete, Stepped, NoCascade, CascadeType
      <3>1. db'.objs = db.objs /\ Keyed(db', T)
        <4>1. CASE db' = db
          BY <4>1 DEF KeysExist
        <4>2. CASE TypeOf[o] = "team" /\ db' = ObjectDeleted(TeamDeleted(db, o), o)
          <5>1. db.objs \cap Team \subseteq T
            BY <3>0, <4>2 DEF KeysExist, Team
          <5>2. Keyed(db, T)
            BY DEF KeysExist
          <5>3. Keyed(TeamDeleted(db, o), T) /\ TeamDeleted(db, o) \in Db
            BY <2>0, <5>1, <5>2, BothKeyed, DeleteRolesKeyed, ComputeType, RecomputeType,
               TeamDeletedType DEF TeamDeleted, CleanupOrphanedObjectRoles
          <5>4. Keyed(db', T)
            BY <4>2, <5>3, DeleteRolesKeyed, DeleteRolesType, DeleteEvaluationsKeyed
               DEF ObjectDeleted
          <5> QED
            BY <2>0, <4>2, <5>3, <5>4, ObjectDeletedRoles, TeamDeletedRoles
        <4>3. CASE db' = ObjectDeleted(db, o)
          <5>1. Keyed(db', T)
            BY <2>0, <4>3, DeleteRolesKeyed, DeleteRolesType, DeleteEvaluationsKeyed
               DEF ObjectDeleted, KeysExist
          <5> QED
            BY <2>0, <4>3, <5>1, ObjectDeletedRoles
        <4> QED
          BY <2>11, <4>1, <4>2, <4>3 DEF PostDelete
      <3> QED
        BY <3>0, <3>1 DEF KeysExist, Keyed
    <2>12. ASSUME BeginDefer
           PROVE  KeysExist'
      BY <2>12 DEF BeginDefer, KeysExist
    <2>13. ASSUME EndDefer
           PROVE  KeysExist'
      <3> DEFINE d == CleanupDeletedRoles(CleanupDeletedRoles(db, defer.teams), defer.objs)
      <3>1. d \in Db /\ d.objs = db.objs /\ Keyed(d, db.objs)
        <4>1. Keyed(db, db.objs)
          BY <2>i, <2>13 DEF EndDefer
        <4> DEFINE e == CleanupDeletedRoles(db, defer.teams)
        <4>2. e \in Db /\ e.objs = db.objs /\ Keyed(e, db.objs)
          BY <2>0, <4>1, CleanupKeyed
        <4> HIDE DEF e
        <4>3. /\ CleanupDeletedRoles(e, defer.objs) \in Db
              /\ CleanupDeletedRoles(e, defer.objs).objs = db.objs
              /\ Keyed(CleanupDeletedRoles(e, defer.objs), db.objs)
          BY <4>2, CleanupKeyed
        <4> QED BY <4>3 DEF e
      <3> HIDE DEF d
      <3>2. \A S, R : RecomputeRoleEvaluations(ComputeTeamMemberRoles(d, S), R) \in Db
        BY <3>1, ComputeType, RecomputeType
      <3>3. Keyed(Flush(db), db.objs)
        BY <3>1, <3>2, BothKeyed, DeleteRolesKeyed DEF Flush, CleanupOrphanedObjectRoles, d
      <3> QED
        BY <2>0, <2>13, <2>i, <3>3, FlushRoles, KeysStep DEF EndDefer
    <2>14. ASSUME RecomputeAll
           PROVE  KeysExist'
      <3> DEFINE d == CleanupOrphanedObjectRoles(db)
      <3>1. d \in Db /\ d.objs = db.objs /\ Keyed(d, db.objs)
        BY <2>0, <2>i, <2>14, CleanupType, CleanupOrphans, DeleteRolesKeyed
           DEF RecomputeAll, CleanupOrphanedObjectRoles
      <3>2. db' = RecomputeAllRoleEvaluations(ComputeAllTeamMemberRoles(d))
        BY <2>14 DEF RecomputeAll, RecomputedAll
      <3> HIDE DEF d
      <3>3. Keyed(db', db.objs)
        BY <3>1, <3>2, BothKeyed DEF RecomputeAllRoleEvaluations, ComputeAllTeamMemberRoles
      <3>4. db'.objs = db.objs
        BY <3>1, <3>2, ComputeType, ComputeKeeps, RecomputeKeeps
           DEF RecomputeAllRoleEvaluations, ComputeAllTeamMemberRoles, SameAssignments
      <3> QED
        BY <2>14, <3>3, <3>4, KeysStep DEF RecomputeAll
    <2>15. CASE UNCHANGED vars
      BY <2>15 DEF vars, KeysExist, Keyed
    <2> QED
      BY <2>1, <2>2, <2>3, <2>4, <2>5, <2>6, <2>7, <2>8, <2>9, <2>10,
         <2>11, <2>12, <2>13, <2>14, <2>15 DEF Next
  <1> QED
    BY <1>1, <1>2, TypeCorrect, RolesAreAccounted, PTL DEF Spec

-----------------------------------------------------------------------------
(***************************************************************************)
(* The recomputation of everything                                         *)
(***************************************************************************)
\* Whatever the handlers left behind, post_migration_rbac_setup makes
\* provides_teams and RoleEvaluation what the assignments imply, without rows
\* on deleted objects and without unused roles.
THEOREM RecomputationRepairs == Spec => []RecomputeAllRepairs
  <1>1. ASSUME TypeOK, RolesAccounted, KeysExist, Idle, ~defer.active
        PROVE  LET d == RecomputedAll(db)
               IN  /\ ProvidesCoherentIn(d) /\ EvalsCoherentIn(d)
                   /\ Orphans(d) = {} /\ \A x \in d.evals : x[2][2] \in d.objs
    <2> DEFINE d1 == CleanupOrphanedObjectRoles(db)
               d2 == ComputeAllTeamMemberRoles(d1)
               e  == RecomputedAll(db)
    <2>0. db \in Db /\ e = RecomputeAllRoleEvaluations(d2)
          /\ cascade.todo = {} /\ ~HasDeferredData
      BY <1>1 DEF TypeOK, RecomputedAll, Idle, RolesAccounted
    <2>1. /\ d1 \in Db /\ Keyed(d1, d1.objs) /\ Linked(d1) /\ Orphans(d1) = {}
          /\ \A r \in d1.roles : r[2] \in d1.objs
      <3>1. Keyed(db, db.objs)
        BY <1>1, <2>0 DEF KeysExist, Keyed
      <3>2. \A r \in db.roles : r[2] \in db.objs
        BY <1>1, <2>0 DEF RolesAccounted, HasDeferredData
      <3> QED
        BY <1>1, <2>0, <3>1, <3>2, CleanupType, CleanupOrphans, DeleteRolesKeyed
           DEF CleanupOrphanedObjectRoles, RolesAccounted
    <2> HIDE DEF d1, e
    <2>2. /\ d2 \in Db /\ SameSource(d1, d2)
          /\ d2.provides = UNION {MemberRoles(d1, t) \X {t} : t \in d1.objs \cap Team}
          /\ Keyed(d2, d2.objs)
      <3>1. d2 \in Db /\ SameSource(d1, d2)
            /\ d2.provides = UNION {MemberRoles(d1, t) \X {t} : t \in d1.objs \cap Team}
        BY <2>1, ComputeAllType, ComputeAllProvides
      <3>2. Keyed(d2, d1.objs)
        BY <2>1, ComputeKeyed DEF ComputeAllTeamMemberRoles
      <3> QED
        BY <3>1, <3>2 DEF SameSource
    <2> HIDE DEF d2
    <2>3. /\ SameSource(d2, e) /\ e.provides = d2.provides
          /\ e.evals = UNION {{r} \X ExpectedEvaluations(d2, r) : r \in d2.roles}
      BY <2>0, <2>2, RecomputeAllEvals
    <2>4. e.provides = UNION {MemberRoles(e, t) \X {t} : t \in e.objs \cap Team}
      <3>1. SameSource(d1, e)
        BY <2>2, <2>3 DEF SameSource
      <3>2. \A t : MemberRoles(e, t) = MemberRoles(d1, t)
        BY <3>1, SourceGivesMembers
      <3>3. e.objs = d1.objs /\ e.provides = d2.provides
        BY <2>3, <3>1 DEF SameSource
      <3> QED
        BY <2>2, <3>2, <3>3
    <2>5. e.evals = UNION {{r} \X ExpectedEvaluations(e, r) : r \in e.roles}
      <3>1. \A r : ExpectedEvaluations(e, r) = ExpectedEvaluations(d2, r)
        BY <2>3, SourceGivesEvaluations
      <3> QED
        BY <2>3, <3>1 DEF SameSource
    <2>6. \A x \in e.evals : x[2][2] \in e.objs
      <3>1. Linked(d2) /\ \A q \in d2.roles : q[2] \in d2.objs
        BY <2>1, <2>2 DEF SameSource, Linked
      <3>2. \A r \in d2.roles : \A x \in ExpectedEvaluations(d2, r) : x[2] \in d2.objs
        BY <2>2, <3>1, ExpectedOnObjects
      <3> QED
        BY <2>3, <3>2 DEF SameSource
    <2>7. Orphans(e) = {} /\ \A r \in e.roles : r[2] \in e.objs
      <3>1. SameAssignments(d1, e)
        BY <2>2, <2>3 DEF SameSource, SameAssignments
      <3> QED
        BY <2>1, <3>1, SameOrphans DEF SameAssignments
    <2>8. EvalsCoherentIn(e)
      BY <2>5, <2>6 DEF EvalsCoherentIn
    <2>9. ProvidesCoherentIn(e)
      BY <2>4 DEF ProvidesCoherentIn
    <2> QED
      BY <2>6, <2>7, <2>8, <2>9 DEF e
  <1>2. TypeOK /\ RolesAccounted /\ KeysExist => RecomputeAllRepairs
    BY <1>1 DEF RecomputeAllRepairs
  <1> QED
    BY <1>2, TypeCorrect, RolesAreAccounted, ComputedTablesRefer, PTL

-----------------------------------------------------------------------------
(***************************************************************************)
(* Deleting a team                                                         *)
(***************************************************************************)
\* The handler of a deleted object that is neither a team nor a root does the
\* part of Without that is about this object.
LEMMA ObjectGone ==
    ASSUME NEW d \in Db, Linked(d), NEW S, Keyed(d, S), NEW o \in Obj, o \notin d.objs, ~Top(TypeOf[o]),
           NEW X, o \in X, NEW C
    PROVE  /\ ObjectDeleted(d, o) \in Db
           /\ SameTables(Without(d, X, C), Without(ObjectDeleted(d, o), X \ {o}, C))
  <1> DEFINE R == RolesOn(d, {o})
             f == DeleteObjectRoles(d, R)
             g == DeleteEvaluationsOn(f, {o})
             v == Without(d, X, C)
             w == Without(g, X \ {o}, C)
  <1>0. g = ObjectDeleted(d, o)
    BY DEF ObjectDeleted, Top
  <1>1. /\ f \in Db /\ f.objs = d.objs /\ f.parent = d.parent /\ f.perms = d.perms /\ f.roles = d.roles \ R
        /\ f.uasg = {a \in d.uasg : a[2] \notin R}
        /\ f.tasg = {a \in d.tasg : a[2] \notin R}
        /\ f.provides = {x \in d.provides : x[1] \notin R}
        /\ f.evals = {x \in d.evals : x[1] \notin R}
    <2>1. f \in Db
      BY DeleteRolesType
    <2> HIDE DEF R
    <2> QED BY <2>1 DEF DeleteObjectRoles, Db
  <1>2. \A r \in d.roles : r \in R <=> r[2] = o
    BY DEF RolesOn
  <1> HIDE DEF R, f
  <1>3. /\ g \in Db /\ g.objs = f.objs /\ g.parent = f.parent /\ g.perms = f.perms /\ g.roles = f.roles
        /\ g.uasg = f.uasg /\ g.tasg = f.tasg /\ g.provides = f.provides
        /\ g.evals = {x \in f.evals : x[2][2] \notin {o}}
    <2>1. g \in Db
      BY <1>1, DeleteEvaluationsType
    <2> QED BY <1>1, <2>1 DEF DeleteEvaluationsOn, Db
  <1> HIDE DEF g
  <1>4. /\ v.objs = d.objs \ (X \cup C) /\ v.parent = d.parent /\ v.perms = d.perms
        /\ v.roles = {r \in d.roles : r[2] \notin X}
        /\ v.uasg = {a \in d.uasg : a[2][2] \notin X}
        /\ v.tasg = {a \in d.tasg : a[2][2] \notin X}
        /\ v.provides = {x \in d.provides : x[1][2] \notin X}
        /\ v.evals = {x \in d.evals : x[1][2] \notin X /\ x[2][2] \notin X}
    BY WithoutFields
  <1>5. /\ w.objs = g.objs \ ((X \ {o}) \cup C) /\ w.parent = g.parent /\ w.perms = g.perms
        /\ w.roles = {r \in g.roles : r[2] \notin X \ {o}}
        /\ w.uasg = {a \in g.uasg : a[2][2] \notin X \ {o}}
        /\ w.tasg = {a \in g.tasg : a[2][2] \notin X \ {o}}
        /\ w.provides = {x \in g.provides : x[1][2] \notin X \ {o}}
        /\ w.evals = {x \in g.evals : x[1][2] \notin X \ {o} /\ x[2][2] \notin X \ {o}}
    BY <1>3, WithoutFields
  <1> HIDE DEF v, w
  <1>6. w.objs = v.objs /\ w.roles = v.roles
    BY <1>1, <1>2, <1>3, <1>4, <1>5
  <1>7. w.uasg = v.uasg
    BY <1>1, <1>2, <1>3, <1>4, <1>5 DEF Linked
  <1>8. w.tasg = v.tasg
    BY <1>1, <1>2, <1>3, <1>4, <1>5 DEF Linked
  <1>9. w.provides = v.provides
    BY <1>1, <1>2, <1>3, <1>4, <1>5 DEF Keyed
  <1>10. w.evals = v.evals
    BY <1>1, <1>2, <1>3, <1>4, <1>5 DEF Keyed
  <1>11. w.parent = v.parent /\ w.perms = v.perms
    BY <1>1, <1>3, <1>4, <1>5
  <1> QED
    BY <1>0, <1>3, <1>6, <1>7, <1>8, <1>9, <1>10, <1>11 DEF SameTables, SameSource, v, w

\* The last step of the deletion of a team.
LEMMA TeamDeletedCoherent ==
    ASSUME NEW b, NEW d, NEW t, TeamRowsGone(b, d, t), NEW S, Keyed(d, S), d.objs \cap Team \subseteq S,
           NEW U, AncestorRoles(d, {t}) \subseteq U
    PROVE  LET e == ObjectDeleted(CleanupOrphanedObjectRoles(Ended(d, Stash(b, t), U)), t)
           IN  Sound(e) /\ Coherent(e)
  <1> DEFINE g == Ended(d, Stash(b, t), U)
             c == CleanupOrphanedObjectRoles(g)
             e == ObjectDeleted(c, t)
  <1>0. /\ d \in Db /\ t \in Team /\ t \in Obj /\ t \notin d.objs /\ Linked(b) /\ ~Top(TypeOf[t])
        /\ d.roles = b.roles /\ d.uasg = b.uasg /\ d.tasg \subseteq b.tasg
    <2>1. TypeOf[t] = "team" /\ t \in Obj
      BY DEF TeamRowsGone, Team
    <2>2. "org" \in Type /\ "none" \notin Type /\ ParentType["team"] = "org"
      BY CachingAssumption
    <2>3. ~Top(TypeOf[t])
      BY <2>1, <2>2 DEF Top
    <2> QED BY <2>1, <2>3 DEF TeamRowsGone, Sound
  <1>1. Sound(Without(g, {t}, {})) /\ Coherent(Without(g, {t}, {}))
    BY TeamGone
  <1>2. Linked(d)
    BY <1>0 DEF Linked
  <1>3. g \in Db /\ Keyed(g, S) /\ SameAssignments(d, g) /\ Linked(g)
    <2> DEFINE f == ComputeTeamMemberRoles(d, Stash(b, t))
    <2>1. f \in Db /\ SameAssignments(d, f)
      BY <1>0, ComputeType, ComputeKeeps
    <2>2. g = RecomputeRoleEvaluations(f, U)
      BY DEF Ended
    <2>3. Keyed(g, S)
      BY <1>0, <2>2, BothKeyed
    <2> HIDE DEF f, g
    <2>4. g \in Db /\ SameAssignments(f, g)
      BY <2>1, <2>2, RecomputeType, RecomputeKeeps
    <2>5. SameAssignments(d, g)
      BY <2>1, <2>4, SameTransitive
    <2> QED BY <1>2, <2>3, <2>4, <2>5, SameOrphans
  <1> HIDE DEF g
  <1>4. Sound(Without(c, {t}, {})) /\ Coherent(Without(c, {t}, {}))
    BY <1>1, <1>3, WithoutCleanup
  <1>5. c \in Db /\ c.objs = g.objs /\ Linked(c) /\ Keyed(c, S)
    BY <1>3, CleanupType, CleanupOrphans, DeleteRolesKeyed DEF CleanupOrphanedObjectRoles
  <1>6. t \notin c.objs
    BY <1>0, <1>3, <1>5 DEF SameAssignments
  <1> HIDE DEF c
  <1>7. e \in Db /\ SameTables(Without(c, {t}, {}), Without(e, {t} \ {t}, {}))
    BY <1>0, <1>5, <1>6, ObjectGone
  <1>8. {t} \ {t} = {}
    OBVIOUS
  <1> HIDE DEF e
  <1>9. Without(e, {}, {}) \in Db /\ SameTables(Without(e, {}, {}), e)
    BY <1>7, WithoutNothing, WithoutFields
  <1>10. Sound(Without(e, {}, {})) /\ Coherent(Without(e, {}, {}))
    BY <1>4, <1>7, <1>8, <1>9, TablesAside
  <1>11. Sound(e) /\ Coherent(e)
    BY <1>7, <1>9, <1>10, TablesAside
  <1> QED
    BY <1>11 DEF e, c, g

\* _flush_rbac, when no team was deleted since the deferral began
LEMMA FlushCoherent ==
    ASSUME NEW d \in Db, Linked(d), NEW S, Keyed(d, S), Placed(d, {}),
           defer.teams = {}, defer.objs \cap d.objs = {},
           \A r \in d.roles : r[2] \in d.objs \cup defer.objs,
           Sound(Without(d, defer.objs, defer.created)), Coherent(Without(d, defer.objs, defer.created))
    PROVE  Sound(Flush(d)) /\ Coherent(Flush(d))
  <1> DEFINE X  == defer.objs
             C  == defer.created
             v  == Without(d, X, C)
             c0 == CleanupDeletedRoles(d, defer.teams)
             e  == CleanupDeletedRoles(c0, X)
             P  == UNION {ParentChain(e, o) : o \in C}
             U  == (AncestorRoles(d, defer.teams) \cap e.roles) \cup ObjectRolesForParents(e, P)
             T  == (C \cap Team) \cup defer.teams
             N  == C \cap d.objs
  <1>1. Sound(v) /\ Coherent(v)
    OBVIOUS
  <1>2. /\ v.objs = d.objs \ (X \cup C) /\ v.parent = d.parent /\ v.perms = d.perms
        /\ v.roles = {r \in d.roles : r[2] \notin X}
        /\ v.uasg = {a \in d.uasg : a[2][2] \notin X}
        /\ v.tasg = {a \in d.tasg : a[2][2] \notin X}
        /\ v.provides = {x \in d.provides : x[1][2] \notin X}
        /\ v.evals = {x \in d.evals : x[1][2] \notin X /\ x[2][2] \notin X}
    BY WithoutFields
  <1>3. /\ c0 \in Db /\ Linked(c0) /\ Keyed(c0, S)
        /\ c0.objs = d.objs /\ c0.parent = d.parent /\ c0.perms = d.perms
        /\ c0.roles = d.roles /\ c0.uasg = d.uasg /\ c0.tasg = d.tasg
        /\ c0.provides = d.provides /\ c0.evals = d.evals
    <2> DEFINE O == defer.teams
    <2>1. O = {}
      OBVIOUS
    <2>2. /\ c0 \in Db /\ Linked(c0) /\ Keyed(c0, S)
          /\ c0.objs = d.objs /\ c0.parent = d.parent /\ c0.perms = d.perms
          /\ c0.roles = {r \in d.roles : r[2] \notin O}
          /\ c0.uasg = {a \in d.uasg : a[2][2] \notin O}
          /\ c0.tasg = {a \in d.tasg : a[2][2] \notin O}
          /\ c0.provides = {x \in d.provides : x[1][2] \notin O}
          /\ c0.evals = {x \in d.evals : x[1][2] \notin O /\ x[2][2] \notin O}
      BY CleanupDeletedFields
    <2> HIDE DEF c0, O
    <2> QED BY <2>1, <2>2
  <1> HIDE DEF c0, v
  <1>4. /\ e \in Db /\ Linked(e)
        /\ e.objs = c0.objs /\ e.parent = c0.parent /\ e.perms = c0.perms
        /\ e.roles = {r \in c0.roles : r[2] \notin X}
        /\ e.uasg = {a \in c0.uasg : a[2][2] \notin X}
        /\ e.tasg = {a \in c0.tasg : a[2][2] \notin X}
        /\ e.provides = {x \in c0.provides : x[1][2] \notin X}
        /\ e.evals = {x \in c0.evals : x[1][2] \notin X /\ x[2][2] \notin X}
    BY <1>3, CleanupDeletedFields
  <1> HIDE DEF e
  <1>5. /\ e.objs = d.objs /\ e.parent = d.parent
        /\ e.perms = v.perms /\ e.roles = v.roles /\ e.uasg = v.uasg /\ e.tasg = v.tasg
        /\ e.provides = v.provides /\ e.evals = v.evals
    BY <1>2, <1>3, <1>4
  <1>6. Sound(e)
    <2>1. ParentsExist(e)
      BY <1>5 DEF Placed, ParentsExist
    <2>2. \A r \in e.roles : r[2] \in e.objs
      BY <1>3, <1>4
    <2>3. \A a \in e.tasg : a[1] \in e.objs
      BY <1>1, <1>2, <1>5 DEF Sound
    <2> QED BY <1>4, <2>1, <2>2, <2>3 DEF Sound
  <1>7. Added(v, e, N)
    <2>1. N \cap v.objs = {} /\ e.objs = v.objs \cup N
      BY <1>2, <1>5
    <2>2. \A o \in v.objs : e.parent[o] = v.parent[o]
      BY <1>2, <1>5
    <2> HIDE DEF N
    <2> QED BY <1>1, <1>5, <1>6, <2>1, <2>2 DEF Added
  <1>8. N \cap Team \subseteq T /\ T \cap v.objs = {}
    BY <1>2
  <1>9. (\A c \in N : ParentChain(e, c) \subseteq P) /\ ObjectRolesForParents(e, P) \subseteq U
    OBVIOUS
  <1> HIDE DEF N, T, P, U
  <1>10. Sound(Ended(e, T, U)) /\ Coherent(Ended(e, T, U))
    BY <1>7, <1>8, <1>9, AddedFull
  <1>11. Flush(d) = CleanupOrphanedObjectRoles(Ended(e, T, U))
    BY DEF Flush, Ended, e, c0, P, U, T, X, C
  <1> QED
    BY <1>10, <1>11, CleanupCoherent

\* post_migration_rbac_setup
LEMMA RecomputedAllCoherent ==
    ASSUME NEW d, Sound(d), Coherent(d)
    PROVE  Sound(RecomputedAll(d)) /\ Coherent(RecomputedAll(d))
  <1> DEFINE c == CleanupOrphanedObjectRoles(d)
             f == ComputeTeamMemberRoles(c, Team)
  <1>1. Sound(c) /\ Coherent(c)
    BY CleanupCoherent
  <1> HIDE DEF c
  <1>2. c \in Db
    BY <1>1 DEF Sound
  <1>3. f.roles = c.roles
    BY <1>2, ComputeFields DEF SameSource
  <1>4. Sound(Ended(c, Team, c.roles)) /\ Coherent(Ended(c, Team, c.roles))
    BY <1>1, HandlerEnds
  <1>5. RecomputedAll(d) = Ended(c, Team, c.roles)
    BY <1>3 DEF RecomputedAll, RecomputeAllRoleEvaluations, ComputeAllTeamMemberRoles, Ended, c
  <1> QED
    BY <1>4, <1>5

-----------------------------------------------------------------------------
(***************************************************************************)
(* The tables stay coherent                                                *)
(***************************************************************************)
\* Left out are the operations whose handlers do not find every row: the deletion of a role
\* definition (no signal is connected), of a root object (the rows of the roles
\* that reached teams through its own roles, and evaluations on it), of a team
\* inside defer_rbac_computations, and a move below an object that has a parent.
\* No object is nested below a team that is deleted.
HandlersSuffice ==
    /\ Removable = {}
    /\ \A o \in Deletable : /\ ~Top(TypeOf[o])
                            /\ o \in Team => \A ty \in Type : ParentType[ty] # "team"
    /\ \A o \in DeferDeletable : ~Top(TypeOf[o]) /\ o \notin Team
    /\ \A o \in Movable : Top(TypeOf[o]) \/ Top(ParentType[TypeOf[o]])

\* Objects whose row is gone or going and whose handler has not run.
Going == cascade.todo \cup defer.objs

Bookkeeping ==
    /\ defer.teams = {}
    /\ cascade.batch \subseteq cascade.todo \ db.objs
    /\ cascade.todo \cup defer.created \subseteq db.objs \cup db.gone
    /\ defer.objs \subseteq db.gone \ db.objs
    /\ Placed(db, cascade.todo)

\* The deletion of team t has begun with the tables b.
TeamGoing(b, t) ==
    /\ Sound(b) /\ Coherent(b) /\ t \in Team /\ t \in b.objs /\ DownClosed(b, {t})
    /\ ~defer.active /\ cascade.todo = {t}
    /\ db.objs = b.objs \/ db.objs = b.objs \ {t}
    /\ db.parent = b.parent /\ db.perms = b.perms /\ db.roles = b.roles
    /\ db.uasg = b.uasg /\ db.tasg = {a \in b.tasg : a[1] # t}
    /\ db.provides = {x \in b.provides : x[2] # t} /\ db.evals = b.evals
    /\ StashedTeams(t) = Stash(b, t)

\* What is left when the objects that are going and the rows that refer to them
\* are put aside is coherent.
RestCoherent ==
    /\ \A o \in cascade.todo : o \notin Team /\ ~Top(TypeOf[o])
    /\ Sound(Without(db, Going, defer.created)) /\ Coherent(Without(db, Going, defer.created))

TablesInv == Bookkeeping /\ (RestCoherent \/ \E b, t : TeamGoing(b, t))

\* What the other theorems say of a state.
Known == TypeOK /\ RolesAccounted /\ KeysExist

LEMMA KnownFacts ==
    ASSUME Known
    PROVE  /\ db \in Db /\ cascade \in CascadeType /\ defer \in DeferType
           /\ Linked(db) /\ Keyed(db, db.objs \ cascade.todo)
           /\ (defer.active \/ ~HasDeferredData)
           /\ cascade.batch \subseteq cascade.todo
           /\ \A r \in db.roles : r[2] \in db.objs \cup cascade.todo \cup defer.teams \cup defer.objs
  BY DEF Known, TypeOK, RolesAccounted, KeysExist, CascadeType, DeferType

\* Between operations, outside a deferral with data, nothing is put aside.
LEMMA QuietTables ==
    ASSUME Known, TablesInv, Idle, ~HasDeferredData
    PROVE  Sound(db) /\ Coherent(db) /\ Going = {} /\ defer.created = {}
  <1>1. Going = {} /\ defer.created = {} /\ db \in Db
    BY KnownFacts DEF Going, Idle, HasDeferredData
  <1>2. RestCoherent
    BY DEF TablesInv, TeamGoing, Idle
  <1>3. Sound(Without(db, {}, {})) /\ Coherent(Without(db, {}, {}))
    BY <1>1, <1>2 DEF RestCoherent
  <1>4. SameTables(Without(db, {}, {}), db)
    BY <1>1, WithoutNothing
  <1> QED
    BY <1>1, <1>3, <1>4, TablesAside

LEMMA QuietStep ==
    ASSUME Sound(db'), Coherent(db'), cascade'.todo = {}, cascade'.batch = {},
           defer'.teams = {}, defer'.objs = {}, defer'.created = {}
    PROVE  TablesInv'
  <1>1. db' \in Db /\ Placed(db', {})
    BY DEF Sound, ParentsExist, Placed
  <1>2. Bookkeeping'
    BY <1>1 DEF Bookkeeping
  <1>3. Going' = {}
    BY DEF Going
  <1>4. SameTables(db', Without(db', {}, {})) /\ Without(db', {}, {}) \in Db
    BY <1>1, WithoutNothing, WithoutFields
  <1>5. Sound(Without(db', {}, {})) /\ Coherent(Without(db', {}, {}))
    BY <1>4, TablesAside
  <1>6. RestCoherent'
    BY <1>3, <1>5 DEF RestCoherent
  <1> QED
    BY <1>2, <1>6 DEF TablesInv

LEMMA CreateStep ==
    ASSUME Known, TablesInv, NEW o \in Creatable, NEW p \in Obj \cup {NoObj}, Create(o, p)
    PROVE  TablesInv'
  <1> DEFINE d == [db EXCEPT !.objs = @ \cup {o}, !.parent[o] = p]
             tracked == ParentType[TypeOf[o]] # "none"
             B == IF tracked /\ defer.active THEN defer.created \cup {o} ELSE defer.created
  <1>0. /\ db \in Db /\ defer \in DeferType /\ cascade.todo = {} /\ cascade.batch = {}
        /\ Bookkeeping /\ RestCoherent /\ o \in Obj /\ TypeOf[o] \in Type /\ (defer.active \/ ~HasDeferredData)
    BY KnownFacts, RbacAssumption, CachingAssumption DEF Create, Idle, TablesInv, TeamGoing
  <1>1. /\ o \notin db.objs \cup db.gone
        /\ p = NoObj \/ (p \in db.objs /\ TypeOf[p] = ParentType[TypeOf[o]])
    BY DEF Create, ValidParent
  <1>2. ~tracked => p = NoObj /\ o \notin Team
    BY <1>0, <1>1, CachingAssumption DEF Db, Team
  <1>3. Placed(db, {})
    BY <1>0 DEF Bookkeeping
  <1>4. /\ d \in Db /\ d.objs = db.objs \cup {o} /\ d.gone = db.gone
        /\ d.perms = db.perms /\ d.roles = db.roles /\ d.uasg = db.uasg /\ d.tasg = db.tasg
        /\ d.provides = db.provides /\ d.evals = db.evals
        /\ d.parent[o] = p /\ \A c \in Obj : c # o => d.parent[c] = db.parent[c]
    BY <1>0 DEF Db
  <1>5. cascade' = cascade
    BY DEF Create
  <1>6. CASE tracked /\ ~defer.active
    <2>1. Sound(db) /\ Coherent(db) /\ defer.teams = {} /\ defer.objs = {} /\ defer.created = {}
      BY <1>0, <1>6, QuietTables DEF HasDeferredData, Idle
    <2>2. \A c \in db.objs : c \in Obj /\ c # o /\ d.parent[c] = db.parent[c]
      BY <1>0, <1>1, <1>4 DEF Db
    <2>3. db' = CreatedNow(d, o) /\ defer' = defer
      BY <1>6 DEF Create
    <2> HIDE DEF d
    <2>4. Sound(d)
      <3>1. ParentsExist(d)
        BY <1>1, <1>4, <2>1, <2>2 DEF Sound, ParentsExist
      <3>2. Linked(d) /\ (\A r \in d.roles : r[2] \in d.objs) /\ (\A a \in d.tasg : a[1] \in d.objs)
        BY <1>4, <2>1 DEF Sound, Linked
      <3> QED BY <1>4, <3>1, <3>2 DEF Sound
    <2>5. Added(db, d, {o})
      BY <1>1, <1>4, <2>1, <2>2, <2>4 DEF Added
    <2>6. Sound(CreatedNow(d, o)) /\ Coherent(CreatedNow(d, o))
      BY <2>5, CreatedNowCoherent
    <2>7. Sound(db') /\ Coherent(db')
      BY <2>3, <2>6
    <2> QED BY <1>0, <1>5, <2>1, <2>3, <2>7, QuietStep
  <1>7. CASE ~tracked \/ defer.active
    <2>1. /\ db' = d /\ defer'.created = B /\ defer'.objs = defer.objs /\ defer'.teams = defer.teams
      BY <1>0, <1>7 DEF Create, DeferType
    <2>2. Sound(Without(db, Going, defer.created)) /\ Coherent(Without(db, Going, defer.created))
      BY <1>0 DEF RestCoherent
    <2>3. o \notin Going \cup defer.created /\ o \notin db.objs
      BY <1>0, <1>1 DEF Going, Bookkeeping
    <2>4. \/ B = defer.created \cup {o}
          \/ B = defer.created /\ p = NoObj /\ o \notin Team /\ o \notin Going \cup defer.created
      BY <1>2, <1>7, <2>3
    <2> HIDE DEF B
    <2>5. Sound(Without(d, Going, B)) /\ Coherent(Without(d, Going, B))
      BY <1>0, <2>2, <2>3, <2>4, CreatedAside
    <2>6. Going' = Going
      BY <1>5, <2>1 DEF Going
    <2>7. RestCoherent'
      BY <1>0, <1>5, <2>1, <2>5, <2>6 DEF RestCoherent
    <2>8. Placed(d, {})
      <3>1. \A c \in db.objs : c \in Obj /\ c # o
        BY <1>0, <1>1 DEF Db
      <3> QED BY <1>1, <1>3, <1>4, <3>1 DEF Placed
    <2>9. B \subseteq defer.created \cup {o}
      BY <2>4
    <2>10. Bookkeeping'
      <3>1. cascade'.todo = {} /\ cascade'.batch = {} /\ defer'.teams = {}
        BY <1>0, <1>5, <2>1 DEF Bookkeeping
      <3>2. defer'.created \subseteq db'.objs \cup db'.gone
        BY <1>0, <1>4, <2>1, <2>9 DEF Bookkeeping
      <3>3. defer'.objs \subseteq db'.gone \ db'.objs
        BY <1>0, <1>1, <1>4, <2>1 DEF Bookkeeping
      <3> QED BY <2>1, <2>8, <3>1, <3>2, <3>3 DEF Bookkeeping
    <2> QED BY <2>7, <2>10 DEF TablesInv
  <1> QED
    BY <1>6, <1>7

LEMMA BeginDeleteStep ==
    ASSUME HandlersSuffice, Known, TablesInv,
           NEW o \in (IF defer.active THEN DeferDeletable ELSE Deletable), BeginDelete(o)
    PROVE  TablesInv'
  <1> DEFINE all == {o} \cup Below(db, o)
  <1>0. /\ db \in Db /\ cascade.todo = {} /\ cascade.batch = {} /\ o \in db.objs /\ defer' = defer
        /\ Bookkeeping /\ RestCoherent /\ Placed(db, {}) /\ (defer.active \/ ~HasDeferredData)
    BY KnownFacts DEF BeginDelete, Idle, TablesInv, TeamGoing, Bookkeeping
  <1>1. /\ cascade'.todo = all /\ cascade'.batch = {}
        /\ db' = [db EXCEPT !.provides = {x \in @ : x[2] \notin all \cap Team},
                            !.tasg     = {a \in @ : a[1] \notin all \cap Team}]
    BY DEF BeginDelete
  <1>2. /\ db' \in Db /\ db'.objs = db.objs /\ db'.gone = db.gone /\ db'.parent = db.parent
        /\ db'.perms = db.perms /\ db'.roles = db.roles /\ db'.uasg = db.uasg /\ db'.evals = db.evals
        /\ db'.tasg = {a \in db.tasg : a[1] \notin all \cap Team}
        /\ db'.provides = {x \in db.provides : x[2] \notin all \cap Team}
    <2> HIDE DEF all
    <2> QED BY <1>0, <1>1 DEF Db
  <1>3. ~Top(TypeOf[o]) /\ (o \in Team => ~defer.active /\ \A ty \in Type : ParentType[ty] # "team")
    BY DEF HandlersSuffice
  <1>4. CASE o \notin Team
    <2> DEFINE w == Without(db, Going, defer.created)
    <2>1. /\ all \subseteq db.objs /\ all \cap Team = {}
          /\ \A x \in all : x \in Obj /\ ~Top(TypeOf[x]) /\ TypeOf[x] # "org"
          /\ \A e : e.objs \subseteq db.objs /\ e.parent = db.parent => DownClosed(e, all)
      BY <1>0, <1>3, <1>4, CollectedSeparate
    <2> HIDE DEF all
    <2>2. Sound(w) /\ Coherent(w) /\ w.objs \subseteq db.objs /\ w.parent = db.parent /\ w \in Db
      BY <1>0, WithoutFields DEF RestCoherent
    <2>3. SeparateIn(w, all)
      BY <2>1, <2>2 DEF SeparateIn
    <2> HIDE DEF w
    <2>4. Sound(Without(w, all, {})) /\ Coherent(Without(w, all, {}))
      BY <2>2, <2>3, SubtreeGone
    <2>5. Going' = Going \cup all
      BY <1>0, <1>1 DEF Going
    <2>6. SameTables(Without(w, all, {}), Without(db, Going \cup all, defer.created))
      BY <1>0, WithoutTwice DEF w
    <2>7. db'.tasg = db.tasg /\ db'.provides = db.provides
      BY <1>2, <2>1
    <2>8. SameTables(Without(db, Going \cup all, defer.created), Without(db', Going \cup all, defer.created))
      BY <1>0, <1>2, <2>7, WithoutRowsOf
    <2>9. /\ Without(db, Going \cup all, defer.created) \in Db
          /\ Without(db', Going \cup all, defer.created) \in Db
      BY <1>0, <1>2, WithoutFields
    <2>10. /\ Sound(Without(db', Going \cup all, defer.created))
           /\ Coherent(Without(db', Going \cup all, defer.created))
      BY <2>4, <2>6, <2>8, <2>9, TablesAside
    <2>11. RestCoherent'
      BY <1>0, <1>1, <2>1, <2>5, <2>10 DEF RestCoherent
    <2>12. Placed(db', all)
      <3>1. \A c \in db.objs : db.parent[c] \in all => c \in all
        BY <2>1 DEF DownClosed
      <3> QED BY <1>0, <1>2, <3>1 DEF Placed
    <2>13. Bookkeeping'
      BY <1>0, <1>1, <1>2, <2>1, <2>12 DEF Bookkeeping
    <2> QED BY <2>11, <2>13 DEF TablesInv
  <1>5. CASE o \in Team
    <2>1. ~HasDeferredData /\ ~defer.active /\ Sound(db) /\ Coherent(db)
      BY <1>0, <1>3, <1>5, QuietTables DEF Idle
    <2>2. \A c \in db.objs : db.parent[c] # o
      BY <1>0, <1>3, <1>5, CachingAssumption DEF Placed, Db, Team
    <2>3. all = {o} /\ all \cap Team = {o} /\ DownClosed(db, {o})
      <3>1. \A c \in db.objs : db.parent[c] \in Obj => db.parent[c] \in db.objs
        BY <1>0, CachingAssumption DEF Placed
      <3>2. Below(db, o) = {}
        BY <2>2, <3>1 DEF Below
      <3> QED BY <1>5, <2>2, <3>2 DEF DownClosed
    <2>4. cascade'.teams = {x \in {o} \X Team : x[1] # x[2] /\ \E r \in {r \in db.roles :
             <<x[1], r>> \in db.tasg /\ HasPerm(db, r, MemberTeam)} : <<r, x[2]>> \in db.provides}
      BY <2>1, <2>3 DEF BeginDelete
    <2>5. StashedTeams(o)' = Stash(db, o)
      <3>1. \A c \in Team : <<o, c>> \in cascade'.teams <=> c \in Stash(db, o)
        BY <2>4 DEF Stash
      <3>2. Stash(db, o) \subseteq Team
        BY DEF Stash
      <3> QED BY <3>1, <3>2 DEF StashedTeams
    <2>6. PICK b : b = db
      OBVIOUS
    <2> HIDE DEF all
    <2>7. TeamGoing(b, o)'
      BY <1>0, <1>1, <1>2, <1>5, <2>1, <2>3, <2>5, <2>6 DEF TeamGoing
    <2>8. Placed(db', {o})
      BY <1>0, <1>2, <2>2 DEF Placed
    <2>9. Bookkeeping'
      BY <1>0, <1>1, <1>2, <2>3, <2>8 DEF Bookkeeping
    <2> QED BY <2>7, <2>9 DEF TablesInv
  <1> QED
    BY <1>4, <1>5

LEMMA DeleteBatchStep ==
    ASSUME Known, TablesInv, NEW ty \in Type, DeleteBatch(ty)
    PROVE  TablesInv'
  <1>0. PICK batch : /\ batch \subseteq cascade.todo \cap db.objs
                     /\ db' = [db EXCEPT !.objs = @ \ batch, !.gone = @ \cup batch]
                     /\ cascade' = [cascade EXCEPT !.batch = batch]
    BY DEF DeleteBatch
  <1>1. defer' = defer /\ db \in Db /\ cascade \in CascadeType
    BY KnownFacts DEF DeleteBatch
  <1>2. cascade'.todo = cascade.todo /\ cascade'.batch = batch /\ cascade'.teams = cascade.teams
    BY <1>0, <1>1 DEF CascadeType
  <1>3. /\ db' \in Db /\ db'.objs = db.objs \ batch /\ db'.gone = db.gone \cup batch /\ db'.parent = db.parent
        /\ db'.perms = db.perms /\ db'.roles = db.roles /\ db'.uasg = db.uasg /\ db'.tasg = db.tasg
        /\ db'.provides = db.provides /\ db'.evals = db.evals
    BY <1>0, <1>1 DEF Db
  <1>4. Bookkeeping'
    <2>1. Bookkeeping
      BY DEF TablesInv
    <2>2. Placed(db', cascade.todo)
      BY <1>0, <1>3, <2>1 DEF Bookkeeping, Placed
    <2> QED BY <1>0, <1>1, <1>2, <1>3, <2>1, <2>2 DEF Bookkeeping
  <1>5. CASE RestCoherent
    <2>1. Going' = Going /\ batch \subseteq Going
      BY <1>0, <1>1, <1>2 DEF Going
    <2>2. SameTables(Without(db, Going, defer.created), Without(db', Going, defer.created))
      <3>1. db'.objs \ (Going \cup defer.created) = db.objs \ (Going \cup defer.created)
        BY <1>3, <2>1
      <3> QED BY <1>1, <1>3, <3>1, WithoutRowsOf
    <2>3. Without(db', Going, defer.created) \in Db
      BY <1>3, WithoutFields
    <2>4. Sound(Without(db', Going, defer.created)) /\ Coherent(Without(db', Going, defer.created))
      BY <1>5, <2>2, <2>3, TablesAside DEF RestCoherent
    <2>5. RestCoherent'
      BY <1>1, <1>2, <1>5, <2>1, <2>4 DEF RestCoherent
    <2> QED BY <1>4, <2>5 DEF TablesInv
  <1>6. CASE \E b, t : TeamGoing(b, t)
    <2>1. PICK b, t : TeamGoing(b, t)
      BY <1>6
    <2>2. StashedTeams(t)' = StashedTeams(t)
      BY <1>2 DEF StashedTeams
    <2>3. TeamGoing(b, t)'
      BY <1>0, <1>1, <1>2, <1>3, <2>1, <2>2 DEF TeamGoing
    <2> QED BY <1>4, <2>3 DEF TablesInv
  <1> QED
    BY <1>5, <1>6 DEF TablesInv

LEMMA PostDeleteStep ==
    ASSUME Known, TablesInv, NEW o \in Obj, PostDelete(o)
    PROVE  TablesInv'
  <1>0. /\ db \in Db /\ cascade \in CascadeType /\ defer \in DeferType /\ Linked(db)
        /\ Keyed(db, db.objs \ cascade.todo) /\ Bookkeeping
        /\ o \in cascade.batch /\ o \in cascade.todo /\ o \notin db.objs
        /\ (defer.active \/ ~HasDeferredData) /\ (TypeOf[o] = "team" <=> o \in Team)
    BY KnownFacts DEF PostDelete, TablesInv, Bookkeeping, Team
  <1>1. cascade'.todo = cascade.todo \ {o} /\ cascade'.batch \subseteq cascade.batch \ {o}
    BY <1>0 DEF PostDelete, Stepped, NoCascade, CascadeType
  <1>2. ASSUME db'.objs = db.objs, db'.gone = db.gone, db'.parent = db.parent,
               defer'.teams = {}, defer'.created = defer.created,
               defer'.objs = defer.objs \/ defer'.objs = defer.objs \cup {o}
        PROVE  Bookkeeping'
    <2>1. Placed(db', cascade'.todo)
      BY <1>0, <1>1, <1>2 DEF Bookkeeping, Placed
    <2> QED BY <1>0, <1>1, <1>2, <2>1 DEF Bookkeeping
  <1>3. CASE RestCoherent /\ defer.active
    <2>1. o \notin Team
      BY <1>0, <1>3 DEF RestCoherent
    <2>2. /\ db' = db /\ defer'.teams = defer.teams /\ defer'.created = defer.created
          /\ defer'.objs = defer.objs \cup {o}
      BY <1>0, <1>3, <2>1 DEF PostDelete, DeferType, Team
    <2>3. Going' = Going
      BY <1>0, <1>1, <2>2 DEF Going
    <2>4. RestCoherent'
      BY <1>1, <1>3, <2>2, <2>3 DEF RestCoherent
    <2>5. Bookkeeping'
      BY <1>0, <1>2, <2>2 DEF Bookkeeping
    <2> QED BY <2>4, <2>5 DEF TablesInv
  <1>4. CASE RestCoherent /\ ~defer.active
    <2>1. o \notin Team /\ ~Top(TypeOf[o]) /\ defer.teams = {} /\ defer.objs = {}
      BY <1>0, <1>4 DEF RestCoherent, HasDeferredData
    <2>2. db' = ObjectDeleted(db, o) /\ defer' = defer
      BY <1>4, <2>1 DEF PostDelete, Team
    <2>3. /\ db' \in Db
          /\ SameTables(Without(db, Going, defer.created), Without(db', Going \ {o}, defer.created))
      BY <1>0, <2>1, <2>2, ObjectGone DEF Going
    <2>4. db'.objs = db.objs /\ db'.gone = db.gone /\ db'.parent = db.parent
      BY <1>0, <2>2 DEF ObjectDeleted, DeleteObjectRoles, DeleteEvaluationsOn, Db
    <2>5. Going' = Going \ {o}
      BY <1>1, <2>1, <2>2 DEF Going
    <2>6. Without(db', Going \ {o}, defer.created) \in Db
      BY <2>3, WithoutFields
    <2>7. Sound(Without(db', Going \ {o}, defer.created)) /\ Coherent(Without(db', Going \ {o}, defer.created))
      BY <1>4, <2>3, <2>6, TablesAside DEF RestCoherent
    <2>8. RestCoherent'
      BY <1>1, <1>4, <2>2, <2>5, <2>7 DEF RestCoherent
    <2>9. Bookkeeping'
      BY <1>2, <2>1, <2>2, <2>4
    <2> QED BY <2>8, <2>9 DEF TablesInv
  <1>5. CASE \E b, t : TeamGoing(b, t)
    <2>1. PICK b, t : TeamGoing(b, t)
      BY <1>5
    <2>2. o = t /\ o \in Team /\ cascade.todo = {o} /\ ~defer.active /\ db.objs = b.objs \ {o}
      BY <1>0, <2>1 DEF TeamGoing
    <2>3. TeamRowsGone(b, db, o)
      BY <1>0, <2>1, <2>2 DEF TeamGoing, TeamRowsGone
    <2>4. /\ db' = ObjectDeleted(TeamDeleted(db, o), o) /\ defer' = defer
          /\ defer.teams = {} /\ defer.objs = {} /\ defer.created = {}
      BY <1>0, <2>2 DEF PostDelete, HasDeferredData, Team
    <2> DEFINE U == IndirectlyAffected(db, o)
               S == db.objs \ cascade.todo
    <2>5. StashedTeams(o) = Stash(b, o) /\ AncestorRoles(db, {o}) \subseteq U
      BY <2>1, <2>2 DEF TeamGoing, IndirectlyAffected
    <2>6. TeamDeleted(db, o) = CleanupOrphanedObjectRoles(Ended(db, Stash(b, o), U))
      BY <2>5 DEF TeamDeleted, Ended
    <2>7. Keyed(db, S) /\ db.objs \cap Team \subseteq S
      BY <1>0, <2>2
    <2> HIDE DEF U, S
    <2>8. /\ Sound(ObjectDeleted(CleanupOrphanedObjectRoles(Ended(db, Stash(b, o), U)), o))
          /\ Coherent(ObjectDeleted(CleanupOrphanedObjectRoles(Ended(db, Stash(b, o), U)), o))
      BY <2>3, <2>5, <2>7, TeamDeletedCoherent
    <2>9. Sound(db') /\ Coherent(db')
      BY <2>4, <2>6, <2>8
    <2>10. cascade'.todo = {} /\ cascade'.batch = {}
      BY <1>1, <1>0, <2>2 DEF PostDelete, Stepped, NoCascade
    <2> QED BY <2>4, <2>9, <2>10, QuietStep
  <1> QED
    BY <1>3, <1>4, <1>5 DEF TablesInv

LEMMA GiveStep ==
    ASSUME Known, TablesInv, NEW b \in Batches, Give(b)
    PROVE  TablesInv'
  <1>1. Idle /\ ~HasDeferredData /\ db' = GiveAssignments(db, b.users, b.teams) /\ cascade' = cascade /\ defer' = defer
    BY KnownFacts DEF Give, Guarded
  <1>2. Sound(db) /\ Coherent(db)
    BY <1>1, QuietTables
  <1>3. /\ b.users \in SUBSET (User \X Role) /\ b.teams \in SUBSET (Team \X Role)
        /\ Holders(b.teams) \subseteq db.objs /\ \A r \in RolesIn(b.users) \cup RolesIn(b.teams) : r[2] \in db.objs
    BY BatchFields DEF Give, Assignable
  <1>4. Sound(db') /\ Coherent(db')
    BY <1>1, <1>2, <1>3, GiveCoherent
  <1> QED
    BY <1>1, <1>4, QuietStep, KnownFacts DEF HasDeferredData, Idle

LEMMA RemoveStep ==
    ASSUME Known, TablesInv, NEW b \in Batches, Remove(b)
    PROVE  TablesInv'
  <1>1. /\ Idle /\ ~HasDeferredData /\ cascade' = cascade /\ defer' = defer
        /\ db' = RemoveAssignments(db, b.users \cap db.uasg, b.teams \cap db.tasg)
    BY KnownFacts DEF Remove, Guarded
  <1>2. Sound(db) /\ Coherent(db)
    BY <1>1, QuietTables
  <1>3. b.teams \cap db.tasg \in SUBSET (Team \X Role)
    BY BatchFields
  <1>4. Sound(db') /\ Coherent(db')
    BY <1>1, <1>2, <1>3, RemoveCoherent
  <1> QED
    BY <1>1, <1>4, QuietStep, KnownFacts DEF HasDeferredData, Idle

\* A user may be deleted while computations are deferred.
LEMMA DeleteUserStep ==
    ASSUME Known, TablesInv, NEW u \in User, DeleteUser(u)
    PROVE  TablesInv'
  <1> DEFINE e == [db EXCEPT !.users = @ \ {u}, !.uasg = {a \in @ : a[1] # u}]
             v == Without(db, Going, defer.created)
             w == Without(e, Going, defer.created)
  <1>0. /\ db \in Db /\ Linked(db) /\ cascade.todo = {} /\ Bookkeeping /\ RestCoherent
        /\ cascade' = cascade /\ defer' = defer /\ db' = CleanupOrphanedObjectRoles(e)
    BY KnownFacts DEF DeleteUser, Idle, TablesInv, TeamGoing
  <1>1. /\ e \in Db /\ e.objs = db.objs /\ e.gone = db.gone /\ e.parent = db.parent /\ e.perms = db.perms
        /\ e.roles = db.roles /\ e.uasg \subseteq db.uasg /\ e.tasg = db.tasg
        /\ e.provides = db.provides /\ e.evals = db.evals
    BY <1>0 DEF Db
  <1> HIDE DEF e
  <1>2. Sound(v) /\ Coherent(v)
    BY <1>0 DEF RestCoherent
  <1>3. /\ v.objs = db.objs \ (Going \cup defer.created) /\ v.parent = db.parent /\ v.perms = db.perms
        /\ v.roles = {r \in db.roles : r[2] \notin Going}
        /\ v.uasg = {a \in db.uasg : a[2][2] \notin Going}
        /\ v.tasg = {a \in db.tasg : a[2][2] \notin Going}
        /\ v.provides = {x \in db.provides : x[1][2] \notin Going}
        /\ v.evals = {x \in db.evals : x[1][2] \notin Going /\ x[2][2] \notin Going}
    BY <1>0, WithoutFields
  <1>4. /\ w \in Db
        /\ w.objs = e.objs \ (Going \cup defer.created) /\ w.parent = e.parent /\ w.perms = e.perms
        /\ w.roles = {r \in e.roles : r[2] \notin Going}
        /\ w.uasg = {a \in e.uasg : a[2][2] \notin Going}
        /\ w.tasg = {a \in e.tasg : a[2][2] \notin Going}
        /\ w.provides = {x \in e.provides : x[1][2] \notin Going}
        /\ w.evals = {x \in e.evals : x[1][2] \notin Going /\ x[2][2] \notin Going}
    BY <1>1, WithoutFields
  <1> HIDE DEF v, w
  <1>5. SameButUsers(v, w)
    BY <1>1, <1>3, <1>4 DEF SameButUsers
  <1>6. Linked(w)
    BY <1>0, <1>1, <1>4 DEF Linked
  <1>7. Sound(w) /\ Coherent(w)
    BY <1>2, <1>4, <1>5, <1>6, UsersAside
  <1>8. /\ Sound(Without(CleanupOrphanedObjectRoles(e), Going, defer.created))
        /\ Coherent(Without(CleanupOrphanedObjectRoles(e), Going, defer.created))
    BY <1>1, <1>7, WithoutCleanup DEF w
  <1>9. Going' = Going
    BY <1>0 DEF Going
  <1>10. RestCoherent'
    BY <1>0, <1>8, <1>9 DEF RestCoherent
  <1>11. db'.objs = db.objs /\ db'.gone = db.gone /\ db'.parent = db.parent
    BY <1>0, <1>1 DEF CleanupOrphanedObjectRoles, DeleteObjectRoles, Db
  <1>12. Bookkeeping'
    BY <1>0, <1>11 DEF Bookkeeping, Placed
  <1> QED
    BY <1>10, <1>12 DEF TablesInv

LEMMA AddPermissionsStep ==
    ASSUME Known, TablesInv, NEW rd \in Editable, NEW P \in PermEdits, AddPermissions(rd, P)
    PROVE  TablesInv'
  <1> DEFINE N == db.perms[rd] \cup P
  <1>1. /\ Idle /\ ~HasDeferredData /\ cascade' = cascade /\ defer' = defer /\ rd \in RoleDef
        /\ db' = PermissionsChanged([db EXCEPT !.perms[rd] = N], rd, P, TRUE)
    BY KnownFacts, RbacAssumption DEF AddPermissions
  <1>2. Sound(db) /\ Coherent(db)
    BY <1>1, QuietTables
  <1>3. N \in SUBSET Perm
    <2>1. P \in SUBSET Perm
      BY RbacAssumption
    <2>2. db \in Db
      BY KnownFacts
    <2>3. db.perms[rd] \in SUBSET Perm
      BY <1>1, <2>2 DEF Db
    <2> QED BY <2>1, <2>3
  <1>4. MemberTeam \notin P => (MemberTeam \in N <=> MemberTeam \in db.perms[rd])
    OBVIOUS
  <1> HIDE DEF N
  <1>5. Sound(db') /\ Coherent(db')
    BY <1>1, <1>2, <1>3, <1>4, PermissionsChangedCoherent
  <1> QED
    BY <1>1, <1>5, QuietStep, KnownFacts DEF HasDeferredData, Idle

LEMMA RemovePermissionsStep ==
    ASSUME Known, TablesInv, NEW rd \in Editable, NEW P \in PermEdits, RemovePermissions(rd, P)
    PROVE  TablesInv'
  <1> DEFINE N == db.perms[rd] \ P
  <1>1. /\ Idle /\ ~HasDeferredData /\ cascade' = cascade /\ defer' = defer /\ rd \in RoleDef
        /\ db' = PermissionsChanged([db EXCEPT !.perms[rd] = N], rd, P, FALSE)
    BY KnownFacts, RbacAssumption DEF RemovePermissions
  <1>2. Sound(db) /\ Coherent(db)
    BY <1>1, QuietTables
  <1>3. N \in SUBSET Perm
    <2>1. db \in Db
      BY KnownFacts
    <2>2. db.perms[rd] \in SUBSET Perm
      BY <1>1, <2>1 DEF Db
    <2> QED BY <2>2
  <1>4. /\ MemberTeam \notin P => (MemberTeam \in N <=> MemberTeam \in db.perms[rd])
        /\ MemberTeam \in N => MemberTeam \in db.perms[rd]
    OBVIOUS
  <1> HIDE DEF N
  <1>5. Sound(db') /\ Coherent(db')
    BY <1>1, <1>2, <1>3, <1>4, PermissionsChangedCoherent
  <1> QED
    BY <1>1, <1>5, QuietStep, KnownFacts DEF HasDeferredData, Idle

LEMMA ClearPermissionsStep ==
    ASSUME Known, TablesInv, NEW rd \in Editable, ClearPermissions(rd)
    PROVE  TablesInv'
  <1> DEFINE e   == [db EXCEPT !.perms[rd] = {}]
             own == RolesOfDefinition(e, rd)
             ids == TeamsProvided(e, own) \cup UNION {TeamIdsFromRoleTarget(e, r) : r \in own}
             g   == RecomputeAllRoleEvaluations(ComputeTeamMemberRoles(e, ids))
  <1>1. /\ Idle /\ ~HasDeferredData /\ cascade' = cascade /\ defer' = defer /\ rd \in RoleDef
        /\ db' = IF own = {} THEN e ELSE g
    BY KnownFacts, RbacAssumption DEF ClearPermissions
  <1>2. Sound(db) /\ Coherent(db)
    BY <1>1, QuietTables
  <1>3. Sound(g) /\ Coherent(g)
    BY <1>1, <1>2, ClearCoherent
  <1>4. own = RolesOfDefinition(db, rd)
    BY KnownFacts DEF RolesOfDefinition, Db
  <1>5. own = {} => Sound(e) /\ Coherent(e)
    <2>1. {} \in SUBSET Perm
      OBVIOUS
    <2> HIDE DEF own
    <2> QED BY <1>1, <1>2, <1>4, <2>1, UnusedDefinitionEdited
  <1> HIDE DEF own, g, e
  <1>6. Sound(db') /\ Coherent(db')
    BY <1>1, <1>3, <1>5
  <1> QED
    BY <1>1, <1>6, QuietStep, KnownFacts DEF HasDeferredData, Idle

LEMMA MoveStep ==
    ASSUME HandlersSuffice, Known, TablesInv, NEW o \in Movable, NEW p \in Obj \cup {NoObj}, Move(o, p)
    PROVE  TablesInv'
  <1>1. /\ Idle /\ ~HasDeferredData /\ cascade' = cascade /\ defer' = defer /\ o \in db.objs /\ p # db.parent[o]
        /\ Top(TypeOf[o]) \/ Top(ParentType[TypeOf[o]])
    BY KnownFacts DEF Move, HandlersSuffice
  <1>2. Sound(db) /\ Coherent(db)
    BY <1>1, QuietTables
  <1>3. p = NoObj \/ (p \in db.objs /\ TypeOf[p] = ParentType[TypeOf[o]])
    BY DEF Move, ValidParent
  <1>4. db \in Db /\ Sound(Moved(db, o, p)) /\ Coherent(Moved(db, o, p))
    BY <1>1, <1>2, <1>3, MoveCoherent DEF Sound
  <1>5. db' = Moved(db, o, p)
    BY DEF Move
  <1>6. Sound(db') /\ Coherent(db')
    BY <1>4, <1>5
  <1> QED
    BY <1>1, <1>6, QuietStep, KnownFacts DEF HasDeferredData, Idle

LEMMA EndDeferStep ==
    ASSUME Known, TablesInv, EndDefer
    PROVE  TablesInv'
  <1>1. Idle /\ cascade' = cascade /\ defer' = NoDefer /\ db' = IF HasDeferredData THEN Flush(db) ELSE db
    BY DEF EndDefer
  <1>2. RestCoherent /\ Bookkeeping /\ Going = defer.objs
    BY <1>1 DEF Idle, TablesInv, TeamGoing, Going
  <1>3. Sound(db') /\ Coherent(db')
    <2>1. CASE HasDeferredData
      <3>1. /\ db \in Db /\ Linked(db) /\ Keyed(db, db.objs \ cascade.todo)
            /\ defer.teams = {} /\ defer.objs \cap db.objs = {} /\ Placed(db, {})
            /\ \A r \in db.roles : r[2] \in db.objs \cup defer.objs
        BY <1>1, <1>2, KnownFacts DEF Bookkeeping, Idle
      <3>2. Sound(Without(db, defer.objs, defer.created)) /\ Coherent(Without(db, defer.objs, defer.created))
        BY <1>2 DEF RestCoherent
      <3>3. Sound(Flush(db)) /\ Coherent(Flush(db))
        BY <3>1, <3>2, FlushCoherent
      <3> QED BY <1>1, <2>1, <3>3
    <2>2. CASE ~HasDeferredData
      <3>1. Sound(db) /\ Coherent(db)
        BY <1>1, <2>2, QuietTables
      <3> QED BY <1>1, <2>2, <3>1
    <2> QED BY <2>1, <2>2
  <1> QED
    BY <1>1, <1>3, QuietStep, KnownFacts DEF NoDefer, Idle

LEMMA RecomputeAllStep ==
    ASSUME Known, TablesInv, RecomputeAll
    PROVE  TablesInv'
  <1>1. Idle /\ ~HasDeferredData /\ cascade' = cascade /\ defer' = defer /\ db' = RecomputedAll(db)
    BY KnownFacts DEF RecomputeAll
  <1>2. Sound(RecomputedAll(db)) /\ Coherent(RecomputedAll(db))
    BY <1>1, QuietTables, RecomputedAllCoherent
  <1>3. Sound(db') /\ Coherent(db')
    BY <1>1, <1>2
  <1> QED
    BY <1>1, <1>3, QuietStep, KnownFacts DEF HasDeferredData, Idle

LEMMA InitTables ==
    ASSUME Init
    PROVE  TablesInv
  <1>1. /\ db.objs = InitObjs /\ db.parent = InitParent /\ db.roles = {} /\ db.uasg = {} /\ db.tasg = {}
        /\ db.provides = {} /\ db.evals = {} /\ cascade = NoCascade /\ defer = NoDefer
    BY DEF Init
  <1>2. db \in Db
    BY RbacAssumption DEF Init, Db
  <1>3. Sound(db)
    BY <1>1, <1>2, RbacAssumption DEF Sound, Linked, ParentsExist
  <1>4. Coherent(db)
    <2>1. \A r \in Role, t \in Team : t \notin Provided(db, r)
      BY <1>1, <1>3, ProvidedExist
    <2> QED BY <1>1, <2>1 DEF Coherent, RightProvides, RightEvals
  <1>5. Going = {} /\ defer.created = {} /\ Bookkeeping
    BY <1>1, <1>3 DEF Going, Bookkeeping, Sound, ParentsExist, Placed, NoCascade, NoDefer
  <1>6. Without(db, {}, {}) \in Db /\ SameTables(db, Without(db, {}, {}))
    BY <1>2, WithoutFields, WithoutNothing
  <1>7. Sound(Without(db, {}, {})) /\ Coherent(Without(db, {}, {}))
    BY <1>3, <1>4, <1>6, TablesAside
  <1>8. RestCoherent
    BY <1>1, <1>5, <1>7 DEF RestCoherent, NoCascade
  <1> QED
    BY <1>5, <1>8 DEF TablesInv

\* Every handler that there is, run to its end, leaves both computed tables what
\* the source tables make them: caching.py narrows what it computes again to
\* team_ids, object_roles and a look-ahead object, and these are never too few.
THEOREM TablesStayCoherent ==
    ASSUME HandlersSuffice
    PROVE  Spec => []TablesCoherent
  <1>1. Init => TablesInv
    BY InitTables
  <1>2. TypeOK /\ RolesAccounted /\ KeysExist /\ TablesInv /\ [Next]_vars => TablesInv'
    <2> SUFFICES ASSUME Known, TablesInv, [Next]_vars
                 PROVE  TablesInv'
      BY DEF Known
    <2>1. ASSUME NEW b \in Batches, Give(b) \/ Remove(b) PROVE TablesInv'
      BY <2>1, GiveStep, RemoveStep
    <2>2. ASSUME NEW u \in User, DeleteUser(u) PROVE TablesInv'
      BY <2>2, DeleteUserStep
    <2>3. ASSUME NEW rd \in Editable, NEW P \in PermEdits, AddPermissions(rd, P) \/ RemovePermissions(rd, P)
          PROVE  TablesInv'
      BY <2>3, AddPermissionsStep, RemovePermissionsStep
    <2>4. ASSUME NEW rd \in Editable, ClearPermissions(rd) PROVE TablesInv'
      BY <2>4, ClearPermissionsStep
    <2>5. ASSUME NEW rd \in Removable, DeleteRoleDefinition(rd) PROVE TablesInv'
      BY <2>5 DEF HandlersSuffice
    <2>6. ASSUME NEW o \in Creatable, NEW p \in Obj \cup {NoObj}, Create(o, p) PROVE TablesInv'
      BY <2>6, CreateStep
    <2>7. ASSUME NEW o \in Movable, NEW p \in Obj \cup {NoObj}, Move(o, p) PROVE TablesInv'
      BY <2>7, MoveStep
    <2>8. ASSUME NEW o \in (IF defer.active THEN DeferDeletable ELSE Deletable), BeginDelete(o)
          PROVE  TablesInv'
      BY <2>8, BeginDeleteStep
    <2>9. ASSUME NEW ty \in Type, DeleteBatch(ty) PROVE TablesInv'
      BY <2>9, DeleteBatchStep
    <2>10. ASSUME NEW o \in Obj, PostDelete(o) PROVE TablesInv'
      BY <2>10, PostDeleteStep
    <2>11. ASSUME BeginDefer \/ UNCHANGED vars PROVE TablesInv'
      <3>1. /\ db' = db /\ cascade' = cascade
            /\ defer'.teams = defer.teams /\ defer'.objs = defer.objs /\ defer'.created = defer.created
            /\ defer'.active = defer.active \/ cascade.todo = {}
        BY <2>11, KnownFacts DEF BeginDefer, vars, DeferType, Idle
      <3>2. Going' = Going
        BY <3>1 DEF Going
      <3>3. Bookkeeping' <=> Bookkeeping
        BY <3>1 DEF Bookkeeping
      <3>4. RestCoherent => RestCoherent'
        BY <3>1, <3>2 DEF RestCoherent
      <3>5. ASSUME NEW b, NEW t, TeamGoing(b, t) PROVE TeamGoing(b, t)'
        BY <3>1, <3>5 DEF TeamGoing, StashedTeams
      <3> QED BY <3>3, <3>4, <3>5 DEF TablesInv
    <2>12. ASSUME EndDefer PROVE TablesInv'
      BY <2>12, EndDeferStep
    <2>13. ASSUME RecomputeAll PROVE TablesInv'
      BY <2>13, RecomputeAllStep
    <2> QED
      BY <2>1, <2>2, <2>3, <2>4, <2>5, <2>6, <2>7, <2>8, <2>9, <2>10, <2>11, <2>12, <2>13 DEF Next
  <1>3. TypeOK /\ RolesAccounted /\ KeysExist /\ TablesInv => TablesCoherent
    <2> SUFFICES ASSUME Known, TablesInv, Settled
                 PROVE  ProvidesCoherentIn(db) /\ EvalsCoherentIn(db) /\ \A x \in db.evals : x[2][2] \in db.objs
      BY DEF Known, TablesCoherent, ProvidesCoherent, EvalsCoherent, NoDanglingEvaluations
    <2>1. Idle /\ ~HasDeferredData
      BY KnownFacts DEF Settled, Guarded
    <2> QED BY <2>1, QuietTables, CoherentMeans
  <1> QED
    BY <1>1, <1>2, <1>3, TypeCorrect, RolesAreAccounted, ComputedTablesRefer, PTL DEF Spec

\* Then a permission check answers what the assignments mean, whatever was
\* given, removed, edited, created, moved and deleted before.
THEOREM ChecksAnswerRight ==
    ASSUME HandlersSuffice
    PROVE  Spec => []AccessMatchesAssignments
  <1>1. TablesCoherent => ProvidesCoherent /\ EvalsCoherent
    BY DEF TablesCoherent
  <1> QED
    BY <1>1, TablesStayCoherent, CoherentTablesAnswerRight, PTL

-----------------------------------------------------------------------------
(***************************************************************************)
(* Access follows the assignments                                          *)
(***************************************************************************)
\* As long as objects and role definitions stay put, giving roles takes access
\* from nobody and removing them gives access to nobody, whatever the handlers
\* compute again on the way.
THEOREM AccessGrowsWithAssignments ==
    ASSUME HandlersSuffice
    PROVE  Spec => AccessIsMonotone
  <1> DEFINE Good == TypeOK /\ RolesAccounted /\ RightAnswers
             Answers(d) == \A u, e : <<u, e>> \in Access(d) <=> u \in User /\ e \in EntitledIn(d, u)
             Means == Settled => db \in Db /\ Linked(db) /\ Answers(db)
             More == MoreAssignments => Access(db) \subseteq Access(db')
             Less == LessAssignments => Access(db') \subseteq Access(db)
  <1>1. Good => Means
    <2> SUFFICES ASSUME Good, Settled PROVE db \in Db /\ Linked(db) /\ Answers(db)
      OBVIOUS
    <2>1. db \in Db /\ Linked(db)
      BY DEF TypeOK, RolesAccounted
    <2>2. ASSUME NEW u PROVE Entitled(u) = EntitledIn(db, u)
      BY DEF Entitled, EntitledIn, RolesHeldBy, HeldIn, MemberOf, MemberIn
    <2>3. \A u, e : e \in EntitledIn(db, u) <=> e \in Evaluation /\ e[2] \in db.objs /\ HasObjPerm(u, e)
      BY <2>2 DEF RightAnswers
    <2>4. \A u, e : <<u, e>> \in Access(db) <=>
             u \in User /\ e \in Evaluation /\ e[2] \in db.objs /\ HasObjPerm(u, e)
      BY DEF Access, HasObjPerm
    <2> QED BY <2>1, <2>3, <2>4
  <1>2. Means /\ Means' /\ SameResources => More /\ Less
    <2> SUFFICES ASSUME Means, Means', SameResources PROVE More /\ Less
      OBVIOUS
    <2>1. db \in Db /\ Linked(db) /\ Answers(db)
      BY DEF SameResources
    <2>2. db' \in Db /\ Linked(db') /\ Answers(db')
      BY DEF SameResources
    <2>3. \A d : \A x \in Access(d) : x = <<x[1], x[2]>>
      BY DEF Access
    <2>4. ASSUME MoreAssignments PROVE Access(db) \subseteq Access(db')
      <3>1. \A u : EntitledIn(db, u) \subseteq EntitledIn(db', u)
        BY <2>1, <2>2, <2>4, EntitledGrows DEF SameResources, MoreAssignments
      <3> QED BY <2>1, <2>2, <2>3, <3>1
    <2>5. ASSUME LessAssignments PROVE Access(db') \subseteq Access(db)
      <3>1. \A u : EntitledIn(db', u) \subseteq EntitledIn(db, u)
        BY <2>1, <2>2, <2>5, EntitledGrows DEF SameResources, LessAssignments
      <3> QED BY <2>1, <2>2, <2>3, <3>1
    <2> QED BY <2>4, <2>5
  <1>3. TypeOK /\ RolesAccounted /\ TablesCoherent => Good
    BY CoherentAnswers DEF TablesCoherent
  <1>4. Means /\ Means' => (SameResources => /\ (MoreAssignments => Access(db) \subseteq Access(db'))
                                            /\ (LessAssignments => Access(db') \subseteq Access(db)))
    BY <1>2
  <1>5. Spec => []Means
    <2> HIDE DEF Good, Means
    <2>1. TypeOK /\ RolesAccounted /\ TablesCoherent => Means
      BY <1>1, <1>3
    <2> QED BY <2>1, TypeCorrect, RolesAreAccounted, TablesStayCoherent, PTL
  <1> HIDE DEF Means
  <1> QED
    BY <1>4, <1>5, PTL DEF AccessIsMonotone
=============================================================================

------------------------------ MODULE RbacTriggers ------------------------------
(***************************************************************************)
(* Giving and removing roles (rbac/pipeline.py) and the signal handlers of *)
(* rbac/triggers.py for role definitions that are edited and objects that  *)
(* are created and moved: what each does to the tables, as a function from *)
(* the database before to the database after.                              *)
(***************************************************************************)
EXTENDS RbacCaching

CONSTANT Nullable    \* content types whose parent foreign key may be null

-----------------------------------------------------------------------------
(***************************************************************************)
(* Assigning and removing roles (rbac/pipeline.py)                         *)
(***************************************************************************)
RolesIn(asg) == {a[2] : a \in asg}
Holders(asg) == {a[1] : a \in asg}

\* _collect_recompute_team_ids
CollectRecomputeTeamIds(d, R) ==
    UNION {TeamIdsFromRoleTarget(d, r) : r \in {x \in R : HasPerm(d, x, MemberTeam)}}

\* _ensure_object_roles and _create_assignments
CreateAssignments(d, ua, ta) ==
    [d EXCEPT !.roles = @ \cup RolesIn(ua) \cup RolesIn(ta),
              !.uasg  = @ \cup ua,
              !.tasg  = @ \cup ta]

\* give_assignments, with _recompute_after_give
GiveAssignments(d, ua, ta) ==
    LET d1     == CreateAssignments(d, ua, ta)
        given  == RolesIn(ua) \cup RolesIn(ta)
        ids    == CollectRecomputeTeamIds(d1, given)
        update == given \cup
                  IF ta = {} THEN {}
                  ELSE DescendentRoles(d1, given) \cup AncestorRoles(d1, Holders(ta))
        d2     == IF ids = {} THEN d1 ELSE ComputeTeamMemberRoles(d1, ids)
    IN  RecomputeRoleEvaluations(d2, update)

\* remove_assignments, with _recompute_after_remove
RemoveAssignments(d, ua, ta) ==
    LET d1     == [d EXCEPT !.uasg = @ \ ua, !.tasg = @ \ ta]
        taken  == RolesIn(ua) \cup RolesIn(ta)
        ids    == CollectRecomputeTeamIds(d1, taken)
        update == taken \cup
                  IF ta = {} THEN {}
                  ELSE DescendentRoles(d1, taken) \cup AncestorRoles(d1, Holders(ta))
        d2     == IF ids = {} THEN d1 ELSE ComputeTeamMemberRoles(d1, ids)
        d3     == RecomputeRoleEvaluations(d2, update)
    IN  DeleteObjectRoles(d3, taken \cap Orphans(d3))

-----------------------------------------------------------------------------
(***************************************************************************)
(* Editing the permissions of a role definition                            *)
(***************************************************************************)
RolesOfDefinition(d, rd) == {r \in d.roles : r[1] = rd}
TeamsProvided(d, R) == {t \in Team : \E r \in R : <<r, t>> \in d.provides}

\* Fault: the roles that inherit through the holding teams are left out.
PermissionsChangedOwn(d, rd, P, adding) ==
    LET own == RolesOfDefinition(d, rd)
        all == own \cup DescendentRoles(d, own)
        ids == TeamsProvided(d, all) \cup UNION {TeamIdsFromRoleTarget(d, r) : r \in all}
    IN  RecomputeRoleEvaluations(ComputeTeamMemberRoles(d, ids), all)

\* permissions_changed on post_add/post_remove of P; d already has the new
\* permissions.  The teams' member_roles of the definition's own roles were
\* prefetched before the recomputation, those of their descendants are not.
PermissionsChanged(d, rd, P, adding) ==
    LET own   == RolesOfDefinition(d, rd)
        team  == MemberTeam \in P
        all   == IF team THEN own \cup DescendentRoles(d, own) ELSE own
        ids   == TeamsProvided(d, all)
                 \cup IF adding THEN UNION {TeamIdsFromRoleTarget(d, r) : r \in all} ELSE {}
        d1    == IF team THEN ComputeTeamMemberRoles(d, ids) ELSE d
        membersOf(x, R) == {q \in x.roles : \E r \in R, t \in Team :
                               <<t, r>> \in x.tasg /\ <<q, t>> \in x.provides}
    IN  IF own = {} THEN d
        ELSE RecomputeRoleEvaluations(d1, all \cup membersOf(d, own) \cup membersOf(d1, all \ own))

-----------------------------------------------------------------------------
(***************************************************************************)
(* Creating and moving objects (rbac/triggers.py, pre_save and post_save)  *)
(***************************************************************************)
\* get_parent_ids
ParentChain(d, o) ==
    LET p == d.parent[o]
    IN  IF p = NoObj THEN {}
        ELSE {p} \cup (IF d.parent[p] = NoObj THEN {} ELSE {d.parent[p]})

ValidParent(d, o, p) ==
    LET pt == ParentType[TypeOf[o]]
    IN  \/ p = NoObj /\ (pt = "none" \/ TypeOf[o] \in Nullable)
        \/ p \in d.objs /\ TypeOf[p] = pt

\* rbac_post_save_update_evaluations for a new object: the roles on its parents
\* and the roles above those gain the rows of this one object.
CreatedNow(d, o) ==
    LET update == ObjectRolesForParents(d, ParentChain(d, o))
        d1     == IF TypeOf[o] = "team" THEN ComputeTeamMemberRoles(d, {o}) ELSE d
    IN  RecomputeLookAhead(d1, update, o)

\* Fault: only the new parent's roles are updated.
MovedForgettingOldParent(d, o, p) ==
    LET e == [d EXCEPT !.parent[o] = p]
        f == IF TypeOf[o] = "team" THEN ComputeTeamMemberRoles(e, {o}) ELSE e
    IN  RecomputeRoleEvaluations(f, ObjectRolesForParents(e, ParentChain(e, o)))

\* post_save_update_obj_permissions after a change of parent: the new chain of
\* parents is looked up, of the old one only the direct parent is.
Moved(d, o, p) ==
    LET e      == [d EXCEPT !.parent[o] = p]
        update == ObjectRolesForParents(e, ParentChain(e, o) \cup ({d.parent[o]} \ {NoObj}))
        f      == IF TypeOf[o] = "team" THEN ComputeTeamMemberRoles(e, {o}) ELSE e
    IN  RecomputeRoleEvaluations(f, update)
=============================================================================

------------------------------- MODULE MCRbacApi -------------------------------
(***************************************************************************)
(* A small instance of RbacApi: two organizations, a team and an inventory *)
(* in the first and an inventory to be made, a host group of another       *)
(* service; a superuser, an ordinary user and another one.                 *)
(***************************************************************************)
EXTENDS RbacApi, TLC

CONSTANTS su, ed, ann, o1, o2, t1, inv, new, ext, oa, om, tm, ia, ga, gr, oi, cr

MCTypeOf == (o1 :> "org") @@ (o2 :> "org") @@ (t1 :> "team") @@ (inv :> "inventory")
            @@ (new :> "inventory") @@ (ext :> "group")
MCParentType == [org |-> "none", team |-> "org", inventory |-> "org", group |-> "none"]
MCParent == (o1 :> NoObj) @@ (o2 :> NoObj) @@ (t1 :> o1) @@ (inv :> o1) @@ (new :> NoObj) @@ (ext :> NoObj)
MCRdType == (oa :> "org") @@ (om :> "org") @@ (tm :> "team") @@ (ia :> "inventory")
            @@ (ga :> "none") @@ (gr :> "group") @@ (oi :> "org") @@ (cr :> "inventory")

ViewInv == [act |-> "view", type |-> "inventory"]
ChangeInv == [act |-> "change", type |-> "inventory"]
AddInv == [act |-> "add", type |-> "inventory"]
ViewOrg == [act |-> "view", type |-> "org"]
ChangeOrg == [act |-> "change", type |-> "org"]
MemberOrg == [act |-> "member", type |-> "org"]
ViewTeam == [act |-> "view", type |-> "team"]
ChangeTeam == [act |-> "change", type |-> "team"]
MemberT == [act |-> "member", type |-> "team"]
ViewGroup == [act |-> "view", type |-> "group"]
MCPerm == {ViewInv, ChangeInv, AddInv, ViewOrg, ChangeOrg, MemberOrg,
           ViewTeam, ChangeTeam, MemberT, ViewGroup}
Admin == {ViewOrg, ChangeOrg, ViewTeam, ChangeTeam, MemberT, ViewInv, ChangeInv, AddInv}

MCInitPerms == (oa :> Admin) @@ (om :> {ViewOrg, MemberOrg}) @@ (tm :> {ViewTeam, MemberT})
               @@ (ia :> {ViewInv, ChangeInv}) @@ (ga :> {ViewInv, ChangeInv}) @@ (gr :> {ViewGroup}) @@ (oi :> {ViewOrg, ViewInv, AddInv})
               @@ (cr :> {})
MCCreatorRd == [ty \in {"org", "team", "inventory", "group"} |-> cr]

Base == {"custom_roles", "team_org_admin", "team_org_member", "team_parents", "manage_auth"}
MCConfs == {Base \cup {"team_org_perms", "enforce_remote", "see_all", "user_roles", "team_roles", "jwt_local"},
            Base \cup {"team_roles", "shared_custom", "team_custom", "ansible_ids"},
            {"user_roles", "team_org_perms", "jwt_local"}}
MCGrants == ({ed} \X {oa, tm, ga}) \cup ({ann} \X {om, oi, cr}) \cup ({t1} \X {ia, gr, ga, oi})
MCPermSets == {{ViewInv}, {ViewInv, AddInv}}
=============================================================================

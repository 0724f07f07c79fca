------------------------------ MODULE MCRbacNested ------------------------------
(***************************************************************************)
(* Instances of Rbac with a two-level hierarchy below the organization:    *)
(* collections in namespaces, as in test_app.  A role on an organization   *)
(* lists permissions on its namespaces, on their collections, and the      *)
(* permission to add collections, which is evaluated on the namespaces.    *)
(* Objects and teams are created, moved and deleted, one by one or inside  *)
(* defer_rbac_computations.                                                *)
(***************************************************************************)
EXTENDS Rbac, TLC

CONSTANTS u1, o1, o2, t1, t2, ns1, ns2, ci, tm, oa, na, ca

MCTypeOf == (o1 :> "org") @@ (o2 :> "org") @@ (t1 :> "team") @@ (t2 :> "team")
            @@ (ns1 :> "namespace") @@ (ns2 :> "namespace") @@ (ci :> "collection")
MCParentType == [org |-> "none", team |-> "org", namespace |-> "org", collection |-> "namespace"]
MCRdType == (tm :> "team") @@ (oa :> "org") @@ (na :> "namespace") @@ (ca :> "collection")

Member == [act |-> "member", type |-> "team"]
ViewNs == [act |-> "view", type |-> "namespace"]
ViewCi == [act |-> "view", type |-> "collection"]
AddCi  == [act |-> "add", type |-> "collection"]
MCPerm == {Member, ViewNs, ViewCi, AddCi}

\* Team Member, Organization Admin, Namespace Admin, Collection Viewer
MCInitPerms == (tm :> {Member}) @@ (oa :> {Member, ViewNs, ViewCi, AddCi}) @@ (na :> {ViewCi, AddCi})
               @@ (ca :> {ViewCi})
MCInitParent == (o1 :> NoObj) @@ (o2 :> NoObj) @@ (t1 :> o1) @@ (t2 :> NoObj) @@ (ns1 :> o1)
                @@ (ns2 :> o2) @@ (ci :> NoObj)

\* t2, which may be deleted while computations are deferred, holds no role: no
\* surviving team was a target of its member_team.  ca, which may be deleted, is
\* held by users alone.
MCBatches == {[users |-> {<<u1, r>>}, teams |-> {}] : r \in {<<tm, t1>>, <<tm, t2>>, <<oa, o1>>, <<ca, ci>>}}
             \cup {[users |-> {}, teams |-> {<<t1, r>>}] : r \in {<<tm, t2>>, <<oa, o1>>, <<na, ns1>>, <<na, ns2>>}}
=============================================================================

--------------------------------- MODULE MCRbac ---------------------------------
(***************************************************************************)
(* Small instances of Rbac: two organizations, three teams and one         *)
(* inventory; one user and three role definitions.  The chain              *)
(*     user -> team 1 -> team 2 -> team 3 -> inventory                     *)
(* takes four assignments, and team-of-team loops take two.                *)
(***************************************************************************)
EXTENDS Rbac, TLC

CONSTANTS u1, o1, o2, t1, t2, t3, inv, tm, oa, ia

MCTypeOf == (o1 :> "org") @@ (o2 :> "org") @@ (t1 :> "team") @@ (t2 :> "team")
            @@ (t3 :> "team") @@ (inv :> "inventory")
MCParentType == [org |-> "none", team |-> "org", inventory |-> "org"]
MCRdType == (tm :> "team") @@ (oa :> "org") @@ (ia :> "inventory")

Member == [act |-> "member", type |-> "team"]
View   == [act |-> "view", type |-> "inventory"]
AddInv == [act |-> "add", type |-> "inventory"]
MCPerm == {Member, View, AddInv}

\* Team Member, Organization Admin, Inventory Admin
MCInitPerms == (tm :> {Member}) @@ (oa :> {Member, View, AddInv}) @@ (ia :> {View})
MCInitParent == (o1 :> NoObj) @@ (o2 :> NoObj) @@ (t1 :> o1) @@ (t2 :> o1)
                @@ (t3 :> o2) @@ (inv :> o1)

Holdings == {<<tm, t>> : t \in {t1, t2, t3}} \cup {<<oa, o1>>} \cup {<<ia, inv>>}
UserGets(S) == {[users |-> {u1} \X {r}, teams |-> {}] : r \in S}
TeamGets(S, T) == {[users |-> {}, teams |-> {t} \X {r}] : t \in T, r \in S}
Singles == UserGets(Holdings)
           \cup {b \in TeamGets(Holdings, {t1, t2, t3}) : \A x \in b.teams : x[1] # x[2][2]}
\* a loop closed in one call, and two teams that get roles on different content
\* types in one call
Pairs == {[users |-> {}, teams |-> {<<t1, <<tm, t2>>>>, <<t2, <<tm, t1>>>>}],
          [users |-> {}, teams |-> {<<t1, <<tm, t3>>>>, <<t3, <<ia, inv>>>>}]}
MCBatches == Singles \cup Pairs

MCPermEdits == {{Member}, {View, AddInv}}

\* Role definitions are edited before anything is deleted, objects are deleted
\* while the role definitions are as installed, each with three assignments.
Focus ==
    LET edited  == db.perms # MCInitPerms
        deleted == db.gone # {} \/ cascade.todo # {}
    IN  /\ ~(edited /\ deleted)
        /\ edited \/ deleted => Cardinality(db.uasg) + Cardinality(db.tasg) <= 3


TeamSymmetry == Permutations({t1, t2})
=============================================================================

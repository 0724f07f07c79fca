----------------------------- MODULE MCInstallation -----------------------------
(***************************************************************************)
(* Four histories of three releases.  The second release brings migration  *)
(* 0005; what the third changes differs: a registration without migrations,*)
(* a model that becomes shared, a parent dropped and resource types        *)
(* exchanged, a model removed.                                             *)
(***************************************************************************)
EXTENDS Installation

CONSTANTS Org, Inv, Job, Awx

Release(rbac, shared, exists, config, swapped, migrated, converts) ==
  [rbac |-> rbac, shared |-> shared, exists |-> exists, config |-> config,
   migrated |-> migrated, converts |-> converts,
   parent  |-> [m \in Models |-> IF m = Org \/ (swapped /\ m = Team) THEN None ELSE Org],
   actions |-> [m \in Models |-> {"view", "add"} \cup IF m = Org THEN {"member"} ELSE {}],
   rtype   |-> [m \in Models |-> CASE m = Org -> "shared.organization"
                                   [] m = Team -> IF swapped THEN "awx.group" ELSE "shared.team"
                                   [] OTHER -> IF swapped THEN "shared.team" ELSE "awx.group"]]

MCModels == {Org, Team, Inv}
Before(rbac) == Release(rbac, {}, {Org, Team} \cup rbac, <<Org>>, FALSE, TRUE, FALSE)
Convert0005(rbac, shared, config) == Release(rbac, shared, MCModels, config, FALSE, TRUE, TRUE)
MCPaths ==
  << << Before(MCModels), Convert0005({Org, Team}, {Org, Team}, <<Org, Team>>),
       Release(MCModels, {Org, Team}, MCModels, <<Org, Team, Inv>>, FALSE, FALSE, FALSE) >>,
    << Before({Org, Team}), Convert0005({Org, Team}, {}, <<Org, Team>>),
       Release(MCModels, {Org}, MCModels, <<Org, Inv>>, FALSE, TRUE, FALSE) >>,
    << Before({Org, Team}), Convert0005(MCModels, {Org, Team}, <<Org, Team>>),
       Release(MCModels, MCModels, MCModels, <<Team, Org, Inv>>, TRUE, TRUE, FALSE) >>,
    << Before({Org, Team}), Convert0005(MCModels, {Org, Team}, <<Org, Inv>>),
       Release({Org, Team}, {Org}, {Org, Team}, <<Team, Org>>, FALSE, TRUE, FALSE) >> >>

Dense  == Org :> 1 @@ Team :> 2 @@ Inv :> 3
Sparse == Org :> 4 @@ Team :> 2 @@ Inv :> 5
Start(p, ids, fresh0) == [path |-> p, ct |-> ids, fresh |-> fresh0]
MCStarts == { Start(1, Sparse, FALSE), Start(2, Dense, FALSE), Start(2, Sparse, TRUE),
              Start(3, Dense, FALSE), Start(4, Sparse, FALSE) }
MCRemoteTypes == << [key |-> <<Shared, Org>>, parent |-> None], [key |-> <<Awx, Job>>, parent |-> <<Shared, Org>>] >>
MCRemotePerms == { <<Awx, Job, "view">> }
=============================================================================

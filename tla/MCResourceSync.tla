----------------------------- MODULE MCResourceSync -----------------------------
(***************************************************************************)
(* Small instances of ResourceSync: two organizations of the server's, one  *)
(* team, one user, and one organization of the service's own.               *)
(***************************************************************************)
EXTENDS ResourceSync, TLC

CONSTANTS o1, o2, o3, t1, u1, x, y, z

MCTypeOf == (o1 :> "organization") @@ (o2 :> "organization") @@ (o3 :> "organization")
            @@ (t1 :> "team") @@ (u1 :> "user")

R(n, o, s) == [name |-> n, org |-> o, svc |-> s, partial |-> FALSE]
Base == (o1 :> R(x, NoOrg, "server")) @@ (t1 :> R(x, o1, "server")) @@ (u1 :> R(x, NoOrg, "server"))
Both == Base @@ (o2 :> R(y, NoOrg, "server"))
Own(n) == o3 :> R(n, NoOrg, "own")

\* The server's organizations have been renamed: one after the other, so that the
\* first has the old name of the second, or each to the name of the other.
Renamed(m, n) == [Both EXCEPT ![o1].name = m, ![o2].name = n]
Chain == Renamed(y, z)
Swap == Renamed(y, x)

\* The service starts empty but for an organization of its own, in step, with
\* that organization, or with one that is being migrated to a server that does
\* not have it.
MCInitServer == {Base, Both}
MCInitLocal == {Own(y), Base, Both, Base @@ Own(y),
                Base @@ (o3 :> [R(y, NoOrg, "own") EXCEPT !.partial = TRUE])}

\* A behaviour that starts with renamed organizations has one change less.
MCInit == \/ Init
          \/ /\ server \in {Chain, Swap} /\ local = Both /\ sync = Idle
             /\ changes = MaxChanges - 1 /\ failures = 0

\* People use the third name only where the server has it already.
MCRow(row) == row.name = z => \E i \in DOMAIN server : server[i].name = z
MCNext == \/ \E id \in Id, row \in Row :
                MCRow(row) /\ (ServerSave(id, row) \/ LocalSave(id, row) \/ SharedCreate(id, row))
          \/ \E id \in Id : ServerDelete(id) \/ LocalDelete(id)
          \/ SyncStep
MCSpec == MCInit /\ [][MCNext]_vars /\ WF_vars(SyncStep)
=============================================================================

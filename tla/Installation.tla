------------------------------ MODULE Installation ------------------------------
(***************************************************************************)
(* What `migrate` leaves behind in the tables that describe the code:      *)
(* RBAC's content types and permissions, the managed roles, the types of   *)
(* the resource registry and the Resource rows.  Release after release is  *)
(* deployed on one database; a run of migrate is a sequence of separate    *)
(* transactions which may die anywhere and is then started again.  In      *)
(* another process the types of a remote service are loaded.               *)
(***************************************************************************)
EXTENDS Naturals, Sequences, FiniteSets, SequencesExt, Functions

CONSTANTS Models,              \* model classes, the organization among them
          Organization, Team,  \* ANSIBLE_BASE_ORGANIZATION_MODEL, ANSIBLE_BASE_TEAM_MODEL
          Old, Local, Shared,  \* before migration 0005; the service's prefix; "shared"
          None,
          Paths,               \* sequence of the histories of releases that may be deployed
          Starts,              \* what there is at first: the path, the ids in django_content_type, a database or none
          RemoteTypes,         \* sequence of [key, parent]: /service-index/role-types/ of another service
          RemotePerms,         \* its /service-index/role-permissions/
          MaxTrouble           \* bound: runs that die and loads begun, together

VARIABLES path, ct,     \* the history taken (its index), the id of each model's ContentType
          rel, applied, \* the release deployed; the last one the migrations of which are recorded
          types,        \* DABContentType: <<service, model>> -> [id, parent]
          perms,        \* DABPermission: <<service, model, action>>
          roles,        \* RoleDefinition: name -> permissions
          fresh,        \* the evaluations are those of the types and roles there are
          rtypes,       \* ResourceType: name -> the model of its content type
          objs,         \* models an object of which exists
          resources,    \* ... and has a Resource row
          run,          \* the run of migrate, or of initialize_resource_registry
          load,         \* load_remote_objects of the types and then of the permissions
          done,         \* the last migrate of this release came to its end
          error,        \* the exception the last run ended with
          late,         \* history: why a recomputation or a backfill was passed over
          raced,        \* history: types were loaded after the run had read them
          halfmade,     \* history: managed roles between the creation of which and its permissions a run ended
          deaths, loads
vars == <<path, ct, rel, applied, types, perms, roles, fresh, rtypes, objs, resources, run, load,
          done, error, late, raced, halfmade, deaths, loads>>
database == <<types, perms, roles, fresh, rtypes, objs, resources>>
history  == <<late, raced, halfmade, deaths, loads>>

Managed == {"admin", "member"}
InOrder == <<"admin", "member">>   \* of the settings
Idle    == [at |-> "idle", plan |-> FALSE, forced |-> FALSE, batch |-> <<>>, todo |-> <<>>]
NoLoad  == [at |-> "idle", next |-> 0, todo |-> <<>>]

(***************************************************************************)
(* What the deployed code says                                             *)
(***************************************************************************)
Releases == Paths[path]
Code == Releases[rel]
Key(m) == <<IF m \in Code.shared THEN Shared ELSE Local, m>>
Here(k) == k[1] \in {Local, Shared}
Pending == {r \in applied + 1 .. rel : Releases[r].migrated}
Registered(k) == k[2] \in Code.exists /\ k[2] \in Code.rbac

(***************************************************************************)
(* create_DAB_contenttypes                                                 *)
(***************************************************************************)
Ids(T) == {T[k].id : k \in DOMAIN T}
MissingAnyway == Code.rbac
Missing == {m \in Code.rbac : Key(m) \notin DOMAIN types}
Highest(S) == CHOOSE i \in S : \A j \in S : j <= i
BatchUnreserved(order) ==
  [i \in DOMAIN order |->
    [key |-> Key(order[i]),
     id |-> IF ct[order[i]] \notin Ids(types) THEN ct[order[i]] ELSE Highest(Ids(types)) + 1]]
Batch(order) == (* the id of each is reserved before the next is chosen *)
  LET id[i \in DOMAIN order] ==
        LET reserved == Ids(types) \cup {id[j] : j \in 1 .. i - 1}
        IN  IF ct[order[i]] \notin reserved THEN ct[order[i]] ELSE Highest(reserved) + 1
  IN  [i \in DOMAIN order |-> [key |-> Key(order[i]), id |-> id[i]]]

NewType(row) == (row.key :> [id |-> row.id, parent |-> None])
Collides(T, row) == row.key \in DOMAIN T \/ row.id \in Ids(T)

(* The second pass: a parent is set, for every type of a registered model, never taken away. *)
Reparented(T) ==
  [k \in DOMAIN T |-> IF Here(k) /\ Registered(k) /\ Code.parent[k[2]] # None
                      THEN [T[k] EXCEPT !.parent = Key(Code.parent[k[2]])] ELSE T[k]]
Searched == UNION {{Key(m) \o <<a>> : a \in Code.actions[m]} : m \in Code.rbac}

(***************************************************************************)
(* Managed roles: what the constructor of each asks for, or why it raises  *)
(***************************************************************************)
Up(k) == IF k = None THEN None ELSE types[k].parent
Descendants(k) == {c \in DOMAIN types : k \in {Up(c), Up(Up(c)), Up(Up(Up(c)))}}   \* no chain of parents here is longer
Slug(p) == IF Here(<<p[1], p[2]>>) THEN Key(p[2]) \o <<p[3]>> ELSE p
Codename(p) == <<p[3], p[2]>>
Asked(role) == (* api_slugs of the admin role, codenames of the member role *)
  IF role = "admin"
  THEN UNION {{Slug(p) : p \in {q \in perms : <<q[1], q[2]>> = k /\ (k = Key(Organization) => q[3] # "add")}}
               : k \in {Key(Organization)} \cup Descendants(Key(Organization))}
  ELSE {<<a, Organization>> : a \in {"view", "member"}} \cup {<<"view", Team>>}
Answers(role, asked) == {p \in perms : (IF role = "admin" THEN p ELSE Codename(p)) = asked}
Template(role) == UNION {Answers(role, q) : q \in Asked(role)}
Raises(role) ==
  CASE role = "admin" /\ Key(Organization) \notin DOMAIN types -> "RuntimeError"
    [] role = "admin" /\ \E k \in Descendants(Key(Organization)) : Here(k) /\ k[2] \notin Code.exists -> "LookupError"
    [] role = "member" /\ Team \notin Code.exists -> "LookupError"
    [] \E q \in Asked(role) : Answers(role, q) = {} -> "DoesNotExist"
    [] \E q \in Asked(role) : Cardinality(Answers(role, q)) > 1 -> "MultipleObjectsReturned"
    [] OTHER -> None

(***************************************************************************)
(* The run                                                                 *)
(***************************************************************************)
Cause == IF run.plan /\ ~run.forced THEN {"died"} ELSE {}
Ends(why) == (* by an exception, or because the process dies *)
  /\ run' = Idle
  /\ error' = why
  /\ late' = [j \in DOMAIN late |-> late[j] \cup Cause]
  /\ halfmade' = halfmade \cup {r \in Managed \cap DOMAIN roles : run.at = "refresh" /\ run.batch = <<r>>}

Deploy ==
  /\ run.at = "idle"
  /\ load.at = "idle"
  /\ rel < Len(Releases)
  /\ \E r \in rel + 1 .. Len(Releases) :
       /\ rel' = r
       /\ late' = [j \in DOMAIN late |->
                     late[j] \cup {"nothing to apply" : x \in {x \in rel + 1 .. r : ~Releases[x].migrated}}]
  /\ done' = FALSE
  /\ error' = None
  /\ UNCHANGED <<path, ct, applied, database, run, load, raced, halfmade, deaths, loads>>

StartMigrate ==
  /\ run.at = "idle"
  /\ ~done
  /\ run' = [Idle EXCEPT !.at = "migrations"]
  /\ error' = None
  /\ UNCHANGED <<path, ct, rel, applied, database, load, done, history>>

(***************************************************************************)
(* Migrations: each is a transaction.  The one that converts is 0005: RBAC *)
(* gets content types of its own.                                          *)
(***************************************************************************)
Orphans == {p \in perms : p[2] \notin Code.rbac}
Referenced == UNION {roles[r] : r \in DOMAIN roles}
KeptRegistered == perms \ Orphans
KeptPerms == perms \ (Orphans \ Referenced)
NaturalKey(T, m) == (* get_by_natural_key with two arguments *)
  CHOOSE k \in DOMAIN T : Here(k) /\ k[2] = m
Converted(T, P) == {NaturalKey(T, p[2]) \o <<p[3]>> : p \in P}
Unconvertible(T, P) == \E p \in P : ~\E k \in DOMAIN T : Here(k) /\ k[2] = p[2]

Convert(order) ==
  LET rows == Batch(order)
      created == [k \in {rows[i].key : i \in DOMAIN rows} |-> NewType(rows[CHOOSE i \in DOMAIN rows : rows[i].key = k])[k]]
      T == IF perms = {} /\ DOMAIN roles = {} THEN types ELSE Reparented(created @@ types)
  IN  IF Unconvertible(T, KeptPerms)
      THEN /\ Ends("RuntimeError")
           /\ UNCHANGED <<applied, types, perms, roles, fresh, raced>>
      ELSE /\ types' = T
           /\ perms' = Converted(T, KeptPerms)
           /\ roles' = [r \in DOMAIN roles |-> Converted(T, roles[r] \cap KeptPerms)]
           /\ fresh' = (roles = <<>>)
           /\ applied' = CHOOSE r \in Pending : \A q \in Pending : r <= q
           /\ run' = [run EXCEPT !.plan = TRUE]
           /\ UNCHANGED <<error, late, raced, halfmade>>

Migrate ==
  /\ run.at = "migrations"
  /\ Pending # {}
  /\ LET r == CHOOSE x \in Pending : \A q \in Pending : x <= q
     IN  IF Releases[r].converts
         THEN \E order \in SetToSeqs(Missing) : Convert(order)
         ELSE /\ applied' = r
              /\ run' = [run EXCEPT !.plan = TRUE]
              /\ UNCHANGED <<types, perms, roles, fresh, error, late, raced, halfmade>>
  /\ UNCHANGED <<path, ct, rel, rtypes, objs, resources, load, done, deaths, loads>>

PlanMadeAfterwards ==
  /\ run.at = "migrations"
  /\ Pending = {}
  /\ run' = [run EXCEPT !.at = "types", !.plan = FALSE]
  /\ UNCHANGED <<path, ct, rel, applied, database, load, done, error, history>>

(* All are applied, or those of one app were asked for.  Before 0005 permissions *)
(* are still created under Django's content types.                              *)
MigrationsEnd ==
  /\ run.at = "migrations"
  /\ Pending = {} \/ run.plan
  /\ IF \E r \in Pending : Releases[r].converts
     THEN /\ perms' = perms \cup UNION {{<<Old, m, a>> : a \in Code.actions[m]} : m \in Code.rbac}
          /\ run' = Idle
     ELSE /\ run' = [run EXCEPT !.at = "types"]
          /\ UNCHANGED perms
  /\ UNCHANGED <<path, ct, rel, applied, types, roles, fresh, rtypes, objs, resources, load, done, error, history>>

(***************************************************************************)
(* create_dab_permissions                                                  *)
(***************************************************************************)
ReadTypes ==
  /\ run.at = "types"
  /\ \E order \in SetToSeqs(Missing) : run' = [run EXCEPT !.at = "create", !.batch = Batch(order)]
  /\ raced' = FALSE
  /\ UNCHANGED <<path, ct, rel, applied, database, load, done, error, late, halfmade, deaths, loads>>

CreateType ==
  /\ run.at = "create"
  /\ run.batch # <<>>
  /\ IF Collides(types, Head(run.batch))
     THEN /\ Ends("IntegrityError")
          /\ UNCHANGED types
     ELSE /\ types' = types @@ NewType(Head(run.batch))
          /\ run' = [run EXCEPT !.batch = Tail(@)]
          /\ UNCHANGED <<error, late, halfmade>>
  /\ UNCHANGED <<path, ct, rel, applied, perms, roles, fresh, rtypes, objs, resources, load, done, raced, deaths, loads>>

SetParents ==
  /\ run.at = "create"
  /\ run.batch = <<>>
  /\ types' = Reparented(types)
  /\ fresh' = (fresh /\ (Reparented(types) = types \/ DOMAIN roles = {}))
  /\ run' = [run EXCEPT !.at = "perms"]
  /\ UNCHANGED <<path, ct, rel, applied, perms, roles, rtypes, objs, resources, load, done, error, history>>

CreatePerms ==
  /\ run.at = "perms"
  /\ perms' = perms \cup Searched
  /\ run' = IF Pending = {} THEN [run EXCEPT !.at = "roles", !.todo = InOrder] ELSE Idle
  /\ UNCHANGED <<path, ct, rel, applied, types, roles, fresh, rtypes, objs, resources, load, done, error, history>>

(***************************************************************************)
(* post_migration_rbac_setup: dab_post_migrate, on which a service creates *)
(* its managed roles, and the recomputation of everything                  *)
(***************************************************************************)
CreateRole == (* get_or_create *)
  /\ run.at = "roles"
  /\ run.todo # <<>>
  /\ LET r == Head(run.todo)
     IN  /\ roles' = IF r \in DOMAIN roles THEN roles ELSE roles @@ (r :> {})
         /\ run' = IF r \in DOMAIN roles THEN [run EXCEPT !.todo = Tail(@)]
                   ELSE [run EXCEPT !.todo = Tail(@), !.at = "refresh", !.batch = <<r>>]
  /\ UNCHANGED <<path, ct, rel, applied, types, perms, fresh, rtypes, objs, resources, load, done, error, history>>

Refreshed(r) == (r :> Template(r)) @@ roles

RefreshRole ==
  /\ run.at = "refresh"
  /\ LET r == Head(run.batch)
     IN  IF Raises(r) # None
         THEN Ends(Raises(r)) /\ UNCHANGED roles
         ELSE /\ roles' = Refreshed(r)
              /\ run' = [run EXCEPT !.at = "roles", !.batch = <<>>]
              /\ UNCHANGED <<error, late, halfmade>>
  /\ UNCHANGED <<path, ct, rel, applied, types, perms, fresh, rtypes, objs, resources, load, done, raced, deaths, loads>>

Recompute ==
  /\ run.at = "roles"
  /\ run.todo = <<>>
  /\ fresh' = (fresh \/ run.plan)
  /\ late' = IF run.plan THEN [late EXCEPT !.evaluations = {}] ELSE late
  /\ run' = [run EXCEPT !.at = "rtypes", !.todo = Code.config]
  /\ UNCHANGED <<path, ct, rel, applied, types, perms, roles, rtypes, objs, resources, load, done, error,
                 raced, halfmade, deaths, loads>>

(***************************************************************************)
(* initialize_resources                                                    *)
(***************************************************************************)
SyncResourceType ==
  /\ run.at = "rtypes"
  /\ run.todo # <<>>
  /\ LET m == Head(run.todo)
         n == Code.rtype[m]
         stale == {x \in DOMAIN rtypes : rtypes[x] = m}
     IN    /\ run' = [run EXCEPT !.todo = Tail(@)]
           /\ rtypes' = (n :> m) @@ IF n \in DOMAIN rtypes /\ rtypes[n] # m
                                    THEN [x \in DOMAIN rtypes \ stale |-> rtypes[x]] (* IntegrityError: the row of that name moves *)
                                    ELSE [x \in DOMAIN rtypes \ (stale \ {n}) |-> rtypes[x]] (* the row of the model is renamed *)
  /\ UNCHANGED <<path, ct, rel, applied, types, perms, roles, fresh, objs, resources, load, done, error, history>>

Finished == (* of the run the command starts the service has seen nothing *)
  /\ run' = Idle
  /\ done' = (done \/ ~run.forced)
  /\ error' = None

SyncEnds ==
  /\ run.at = "rtypes"
  /\ run.todo = <<>>
  /\ IF run.plan
     THEN /\ \E order \in SetToSeqs(DOMAIN rtypes) : run' = [run EXCEPT !.at = "backfill", !.todo = order]
          /\ UNCHANGED <<done, error>>
     ELSE Finished
  /\ UNCHANGED <<path, ct, rel, applied, database, load, history>>

NoConfig(n) == IF rtypes[n] \notin Code.exists THEN "LookupError"
               ELSE IF rtypes[n] \notin Range(Code.config) THEN "KeyError" ELSE None

Backfill ==
  /\ run.at = "backfill"
  /\ run.todo # <<>>
  /\ LET n == Head(run.todo)
     IN  IF NoConfig(n) # None
         THEN Ends(NoConfig(n)) /\ UNCHANGED resources
         ELSE /\ resources' = resources \cup ({rtypes[n]} \cap objs)
              /\ run' = [run EXCEPT !.todo = Tail(@)]
              /\ UNCHANGED <<error, late, halfmade>>
  /\ UNCHANGED <<path, ct, rel, applied, types, perms, roles, fresh, rtypes, objs, load, done, raced, deaths, loads>>

BackfillEnds ==
  /\ run.at = "backfill"
  /\ run.todo = <<>>
  /\ Finished
  /\ late' = [late EXCEPT !.resources = {}]
  /\ UNCHANGED <<path, ct, rel, applied, database, load, raced, halfmade, deaths, loads>>

(* The two commands that repair a registry. *)
InitializeRegistry ==
  /\ run.at = "idle"
  /\ done
  /\ ~(objs \cap Range(Code.config) \subseteq resources)
  /\ run' = [Idle EXCEPT !.at = "rtypes", !.plan = TRUE, !.forced = TRUE, !.todo = Code.config]
  /\ UNCHANGED <<path, ct, rel, applied, database, load, done, error, history>>

FixStaleAnsibleIds == (* fix_stale_ansible_ids --fix, of one type; a type without a config ends the command *)
  /\ run.at = "idle"
  /\ done
  /\ \E n \in DOMAIN rtypes :
       /\ NoConfig(n) = None
       /\ resources' = resources \cup ({rtypes[n]} \cap objs)
  /\ UNCHANGED <<path, ct, rel, applied, types, perms, roles, fresh, rtypes, objs, run, load, done, error, history>>

(***************************************************************************)
(* The service at work, the loader and what goes wrong                     *)
(***************************************************************************)
CreateObject == (* update_resource runs on post_save *)
  /\ done
  /\ run.at = "idle"
  /\ \E m \in Code.exists \ objs :
       /\ objs' = objs \cup {m}
       /\ resources' = resources \cup ({m} \cap Range(Code.config))
  /\ UNCHANGED <<path, ct, rel, applied, types, perms, roles, fresh, rtypes, run, load, done, error, history>>

LoadTypes ==
  /\ load.at = "idle"
  /\ deaths + loads < MaxTrouble
  /\ types # <<>> /\ perms # {}   \* the service has been installed
  /\ load' = [NoLoad EXCEPT !.at = "types", !.next = Highest(Ids(types)) + 1, !.todo = RemoteTypes]
  /\ loads' = loads + 1
  /\ UNCHANGED <<path, ct, rel, applied, database, run, done, error, late, raced, halfmade, deaths>>

LoadType == (* get_or_create with the id counted from the highest there was *)
  /\ load.at = "types"
  /\ load.todo # <<>>
  /\ LET row == [key |-> Head(load.todo).key, id |-> load.next]
     IN  CASE row.key \in DOMAIN types ->
                /\ load' = [load EXCEPT !.todo = Tail(@), !.next = @ + 1]
                /\ UNCHANGED <<types, raced>>
           [] row.key \notin DOMAIN types /\ row.id \in Ids(types) ->
                /\ load' = NoLoad
                /\ UNCHANGED <<types, raced>>
           [] OTHER ->
                /\ types' = types @@ NewType(row)
                /\ raced' = TRUE
                /\ load' = [load EXCEPT !.todo = Tail(@), !.next = @ + 1]
  /\ UNCHANGED <<path, ct, rel, applied, perms, roles, fresh, rtypes, objs, resources, run, done, error,
                 late, halfmade, deaths, loads>>

RemoteParents(T) ==
  [k \in DOMAIN T |-> LET rows == {i \in DOMAIN RemoteTypes : RemoteTypes[i].key = k /\ RemoteTypes[i].parent # None}
                      IN  IF rows = {} THEN T[k]
                          ELSE [T[k] EXCEPT !.parent = RemoteTypes[CHOOSE i \in rows : TRUE].parent]]

LoadParents == (* and then the permissions, after load_remote_objects of DABPermission; a parent's slug may be unknown here *)
  /\ load.at = "types"
  /\ load.todo = <<>>
  /\ IF \E i \in DOMAIN RemoteTypes : RemoteTypes[i].parent \notin DOMAIN types \cup {None}
     THEN load' = NoLoad /\ UNCHANGED <<types, perms>>
     ELSE /\ types' = RemoteParents(types)
          /\ perms' = perms \cup RemotePerms
          /\ \E update \in BOOLEAN : load' = [NoLoad EXCEPT !.at = IF update THEN "roles" ELSE "idle"]
  /\ UNCHANGED <<path, ct, rel, applied, roles, fresh, rtypes, objs, resources, run, done, error, history>>

UpdateManaged == (* create_managed_roles(update_perms=True): one role after the other until one raises *)
  /\ load.at = "roles"
  /\ \E raising \in {{r \in Managed : Raises(r) # None}} :
       LET reached == {InOrder[i] : i \in {j \in DOMAIN InOrder : \A x \in 1 .. j - 1 : InOrder[x] \notin raising}}
           cutoff  == reached \cap raising
       IN  /\ roles' = [r \in reached \ cutoff |-> Template(r)] @@ roles @@ [r \in cutoff |-> {}]
           /\ halfmade' = (halfmade \ (reached \ cutoff)) \cup (cutoff \ DOMAIN roles)
  /\ load' = NoLoad
  /\ UNCHANGED <<path, ct, rel, applied, types, perms, fresh, rtypes, objs, resources, run, done, error,
                 late, raced, deaths, loads>>

Die ==
  /\ run.at # "idle"
  /\ deaths + loads < MaxTrouble
  /\ deaths' = deaths + 1
  /\ Ends("killed")
  /\ UNCHANGED <<path, ct, rel, applied, database, load, done, raced, loads>>

(* The database of release 1, older than migration 0005, or none at all. *)
OldDatabase ==
  /\ rel = 1 /\ applied = 1
  /\ perms = UNION {{<<Old, m, a>> : a \in Code.actions[m]} : m \in Code.rbac}
  /\ roles \in {[r \in {"custom"} |-> {p}] : p \in {q \in perms : q[3] = "view"}}
  /\ objs = Code.exists
  /\ resources = Range(Code.config)
  /\ rtypes = [n \in {Code.rtype[m] : m \in Range(Code.config)} |-> CHOOSE m \in Range(Code.config) : Code.rtype[m] = n]
  /\ done = TRUE
NoDatabase ==
  /\ rel = 2 /\ applied = 0
  /\ perms = {} /\ roles = <<>> /\ objs = {} /\ resources = {} /\ rtypes = <<>>
  /\ done = FALSE

Init ==
  /\ \E start \in Starts : path = start.path /\ ct = start.ct /\ (IF start.fresh THEN NoDatabase ELSE OldDatabase)
  /\ types = <<>>
  /\ fresh = TRUE
  /\ run = Idle
  /\ load = NoLoad
  /\ error = None
  /\ late = [evaluations |-> {}, resources |-> {}]
  /\ raced = FALSE
  /\ halfmade = {}
  /\ deaths = 0 /\ loads = 0

RunStep == \/ Migrate \/ MigrationsEnd \/ ReadTypes \/ CreateType \/ SetParents \/ CreatePerms
           \/ CreateRole \/ RefreshRole \/ Recompute \/ SyncResourceType \/ SyncEnds \/ Backfill \/ BackfillEnds
LoadStep == LoadType \/ LoadParents \/ UpdateManaged
Next ==
  \/ Deploy \/ StartMigrate \/ RunStep
  \/ InitializeRegistry \/ FixStaleAnsibleIds \/ CreateObject
  \/ LoadTypes \/ LoadStep
  \/ Die

(* Whoever deploys starts migrate until it succeeds; a run goes on while the process lives. *)
Fairness == WF_vars(StartMigrate) /\ WF_vars(RunStep)
Spec == Init /\ [][Next]_vars /\ Fairness

-----------------------------------------------------------------------------
(* Every variable keeps its shape. *)
TypeOK ==
  /\ path \in DOMAIN Paths /\ rel \in DOMAIN Releases /\ applied \in 0 .. rel
  /\ \A k \in DOMAIN types : types[k].id \in Nat /\ types[k].parent \in DOMAIN types \cup {None}
  /\ \A p \in perms : p[1] = Old \/ <<p[1], p[2]>> \in DOMAIN types
  /\ \A r \in DOMAIN roles : roles[r] \subseteq perms
  /\ \A n \in DOMAIN rtypes : rtypes[n] \in Models
  /\ objs \subseteq Models /\ resources \subseteq objs
  /\ fresh \in BOOLEAN /\ done \in BOOLEAN /\ raced \in BOOLEAN
  /\ halfmade \subseteq Managed

(***************************************************************************)
(* After a migrate that came to its end the tables describe the release:   *)
(* every registered model has its type, under the service it now belongs   *)
(* to, with the parent registered for it and all its permissions; every    *)
(* resource's type bears its name and no two share a model.  (A parent no  *)
(* longer registered is not taken away: create_types.py:98-106.)           *)
(***************************************************************************)
TablesDescribeCode ==
  done /\ applied > 1 =>
    /\ \A m \in Code.rbac :
         /\ Key(m) \in DOMAIN types
         /\ Code.parent[m] # None => types[Key(m)].parent = Key(Code.parent[m])
         /\ \A a \in Code.actions[m] : Key(m) \o <<a>> \in perms
    /\ \A m \in Range(Code.config) : {n \in DOMAIN rtypes : rtypes[n] = m} = {Code.rtype[m]}

(***************************************************************************)
(* create_types.py:51-55: the ids given in one batch, the Django ids and   *)
(* those counted from the highest, never collide with each other or with   *)
(* rows there were.  Only rows loaded meanwhile can make the run fail.     *)
(***************************************************************************)
BatchNeverCollides == error = "IntegrityError" => raced

(***************************************************************************)
(* create_types.py:68-71: a type has the id of its ContentType, on which   *)
(* "many filters" rely, unless another type had taken it or the row was    *)
(* loaded from the other service.                                          *)
(***************************************************************************)
IdsFollowDjango ==
  \A k \in DOMAIN types \ {RemoteTypes[i].key : i \in DOMAIN RemoteTypes} :
    Here(k) /\ types[k].id # ct[k[2]] => \E x \in DOMAIN types : types[x].id = ct[k[2]]

(***************************************************************************)
(* The rows of types and permissions say what the code and Django say.     *)
(***************************************************************************)
TypesFollowCode == TypeOK /\ TablesDescribeCode /\ BatchNeverCollides /\ IdsFollowDjango

(***************************************************************************)
(* Whatever has to be recomputed or filled in after an upgrade has been    *)
(* when migrate is done, unless the run that applied the migrations ended  *)
(* early, so that its repetition has nothing to apply, or the release had  *)
(* no migrations at all (triggers.py:523-526, apps.py:121-124).            *)
(***************************************************************************)
NothingPassedOver ==
  done => /\ fresh \/ late.evaluations # {}
          /\ (objs \cap Range(Code.config)) \subseteq resources \/ late.resources # {}

(***************************************************************************)
(* A managed role has permissions, except one whose creation was cut off   *)
(* between the row and the permissions (managed.py:89-92).                 *)
(***************************************************************************)
RolesHavePermissions ==
  \A r \in Managed \cap DOMAIN roles :
    roles[r] = {} => r \in halfmade \/ (run.at = "refresh" /\ run.batch = <<r>>)

(***************************************************************************)
(* permission.py:17-19: after load_remote_objects(update_managed=True) the *)
(* managed roles are what their definitions say, the permissions of remote *)
(* types under the organization included.                                  *)
(***************************************************************************)
RefreshedMeansDefinition ==
  [][load.at = "roles" /\ load' = NoLoad /\ (\A r \in Managed : Raises(r) = None) =>
       \A r \in Managed : r \in DOMAIN roles' /\ roles'[r] = Template(r)]_load

(***************************************************************************)
(* No step of an upgrade takes a permission from a role an administrator   *)
(* made: migration 0005 maps it to its new type or does not go through     *)
(* (_utils.py:88-104, 188-192).                                            *)
(***************************************************************************)
RolesKeepMeaning ==
  [][ "custom" \in DOMAIN roles =>
       /\ "custom" \in DOMAIN roles'
       /\ {Codename(p) : p \in roles["custom"]} = {Codename(p) : p \in roles'["custom"]} ]_roles

(***************************************************************************)
(* Roles mean what they meant, or what their definition says now.          *)
(***************************************************************************)
RolesMeanTheSame == [](RolesHavePermissions) /\ RefreshedMeansDefinition /\ RolesKeepMeaning

(***************************************************************************)
(* Migrate is not stuck: started again it comes to its end, unless the     *)
(* release cannot be installed on this data, an error no repetition cures. *)
(***************************************************************************)
Incurable == {"RuntimeError", "LookupError", "DoesNotExist", "MultipleObjectsReturned"}
Installed == []<>(done \/ error \in Incurable)
=============================================================================

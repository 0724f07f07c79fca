# Verification of django-ansible-base

django-ansible-base is a library of Django apps that the services of one
platform embed: role based access control with precomputed permissions, a
registry that keeps users, organizations and teams the same in every service,
login through external providers, token and JWT authentication, an audit trail,
caches, locks and settings. This directory holds TLA+ models of its core, the
TLC configurations that check them on small instances, and TLAPS proofs of
theorems about them for all instances. `PROJECT.json` maps each definition to
the source lines it stands for, and lists components, runs, mutants, hazards and
theorems. To check a run: `tlc -config <run>.cfg <module>`; to check the proofs
of a module: `tlapm <module>.tla`.

Contents: [inventory](#inventory), [plan](#plan); one section per model:
[RBAC tables](#rbac-tables), [RBAC requests](#rbac-requests),
[assignment sync](#assignmentsync), [resource sync](#resourcesync),
[shared objects](#sharedobjects), [installation](#installation),
[JWT consumer](#jwtconsumer), [authenticator maps](#authenticatormaps-and-claimslogin),
[accounts](#accounts), [services](#services-locks-tokens-configurations-settings),
[caches](#caches); [what is proved](#what-is-proved),
[what is only model-checked](#what-is-only-model-checked),
[what is not modelled](#what-is-not-modelled), [met while modelling](#met-while-modelling).

## Inventory

Paths are relative to `src/ansible_base/`.

| Component | State | Operations | Hard because | Must hold | Modules |
|---|---|---|---|---|---|
| RBAC assignments and computed tables (`rbac/caching.py`, `pipeline.py`, `triggers.py`, `models/role.py`) | role definitions, `ObjectRole`, user and team assignments; computed `provides_teams` and `RoleEvaluation` | give and remove, single and bulk; edit and delete definitions; signal handlers for objects created, moved, deleted; `defer_rbac_computations`; `post_migrate` | teams hold roles that make their members members of other teams, loops included; each handler recomputes only what it thinks is affected; deletions cascade table by table between signals | a permission check answers what the assignments mean; no row outlives what it names | `RbacCaching`, `RbacTriggers`, `Rbac`, `RbacTablesProofs`, `RbacProofs` |
| RBAC checks, global roles, policies (`rbac/evaluations.py`, `policies.py`) | global assignments, process-wide clear flag | permission queries, who may share | settings change what counts; several ways to one answer | checks, access lists and policies tell one story | `RbacApi`, `RbacApiProofs` |
| RBAC API (`rbac/api`, `rbac/service_api`) | none of its own | requests on definitions, assignments, objects, access lists | a long sequence of legal requests | nothing is given by somebody who could not take it back | `RbacApi`, `RbacApiProofs`, `AssignmentSync` |
| RBAC types, managed roles (`rbac/management/`, `managed.py`, `models/content_type.py`, `remote.py`) | content types, permissions, managed definitions | creation and renaming at migration, loading of another service's types | a run of `migrate` dies between transactions; ids are chosen by hand | rows say what the code says; roles keep their meaning | `Installation` |
| Role claims (`rbac/claims.py`) | none of its own | store the claims of a user | three passes, objects that cannot be made, two requests at once | the stored roles are those of one answer | `JwtConsumer` |
| JWT consumer (`jwt_consumer/common/`) | cached key, cached claim hash per user, account | authenticate a request | keys rotate, first logins race, hashes outlive what they describe | valid tokens get in, roles follow the gateway | `JwtConsumer`, `TokensProofs` |
| Periodic resource sync (`resource_registry/tasks/sync.py`, `models/resource.py`) | local resources; manifest, retry list of the run | fetch manifests, delete orphans, create, update, resolve conflicts | people change both ends meanwhile, names clash, requests fail, deletions cascade | nothing is deleted that the server has; ends agree eventually | `ResourceSync`, `ServiceProofs` |
| Periodic assignment sync (`tasks/sync.py`, `rbac/sync.py`) | local assignments; pages fetched so far | paged fetch, difference, apply | pages shift, fetches stop half way, reverse sync in flight | as above | `AssignmentSync`, `AssignmentSyncProofs` |
| Reverse sync (`resource_registry/signals/`, `utils/sync_to_resource_server.py`) | skip flags on instances and threads, deferred cleanup | save and delete hooks that call the server | flags stay, a failing transaction after a successful call | no change of a shared field is silently kept | `SharedObjects`, `SharedObjectsProofs` |
| Resource types, stale ids (`resource_registry/registry.py`, ...) | type table, `Resource` rows | declarations at migration, `fix_stale_ansible_ids` | a model exchanged for another between releases | every registered object has its row | `Installation` |
| Activity stream (`activitystream/signals.py`) | entries; deferred entries of the thread | hooks on save, delete and many-to-many changes | old values read without a lock, exceptions inside a deferral | an entry per change, describing it | `SharedObjects`, `SharedObjectsProofs` |
| Models (`lib/abstract_models`, `lib/utils/models.py`, `encryption.py`) | `modified_by`, encrypted fields | save with and without `update_fields`, mask | partial saves of stale instances | nothing is encrypted twice or lost | `SharedObjects`, `AuthenticatorConfig` |
| Authenticator maps (`authentication/utils/claims.py`, `trigger_definition.py`) | claims of the last login; cache of assignments during a reconciliation | evaluate triggers, collect claims, reconcile roles | order of maps and triggers, revocation, roles a user has from elsewhere | roles after a login are what the maps say | `AuthenticatorMaps`, `ClaimsLogin` |
| Login (`authentication/utils/authentication.py`, `social_auth.py`, `backend.py`, `models/authenticator*.py`) | users, their rows at authenticators, the list of backends of each worker | associate, create, merge and move users; enable, disable, delete authenticators | two logins choose one name; a migration of an account stops half way; a list goes stale | one account, one user; nothing of a person is lost; somebody can sign in | `Accounts`, `AccountsProofs` |
| Authenticator plugins (`authenticator_plugins`, `authenticator_configurators`) | configuration of each authenticator | validate, complete, mask, encrypt, read | a mask is sent back; defaults no validator has seen | what is accepted works, what is shown can be sent back | `AuthenticatorConfig` |
| OAuth2 provider | applications, access and refresh tokens | issue, refresh, update, use, revoke, clean up, hash the tokens of old releases | refresh, update and use overlap revocation | revoked stays revoked | `Tokens`, `TokensProofs` |
| Caches (`lib/cache`, `lib/redis`) | primary and fallback cache, flag file; invalidations in flight | get, set, switch, recover, broadcast | all processes at once, a lock that excludes nobody | no stale value outlives recovery | `FallbackCache`, `CacheInvalidation`, `RedisClient`, `ServiceProofs` |
| Named locks (`lib/utils/db.py`) | sessions, their timeouts and locks | open and leave blocks | timeouts end the session; failed transactions accept no release | mutual exclusion, clean sessions | `NamedLock`, `AdvisoryLock`, `ServiceProofs` |
| Dynamic settings (`lib/dynamic_config`) | the settings of a service | two ways of loading, overrides by the deployment | the order of merging, lists changed in place | apps have what they need, what was given is kept | `DynamicSettings` |
| Feature flags, filters, pagination, service clients, documentation, logging, test fixtures | see [not modelled](#what-is-not-modelled) | | | | |

Interactions. The RBAC core is called by the API (`RbacApi`), by the assignment sync,
by `save_user_claims` (`JwtConsumer`), by the reconciliation of a login
(`ClaimsLogin`) and by Django's deletion collector (`Rbac`). `RbacApi` uses the
functions of `RbacCaching` and `RbacTriggers` on the same record of tables as `Rbac`.
A login first finds its user (`Accounts`) among the authenticators whose
configurations `AuthenticatorConfig` validates, then reconciles roles (`ClaimsLogin`).
The resource sync creates and deletes the organizations and teams that RBAC hangs
roles on. A local change of a shared object goes the other way (`SharedObjects`), from
hooks that the registry and the activity stream put around the same save.
`Installation` says which types, permissions and resource types all of these find. The
gateway is the resource server, the issuer of the tokens and the source of the claims.

## Plan

The order in which the modules were written, most important behaviour first. All
of it exists except the last item.

1. `RbacCaching`, `RbacTriggers` and `Rbac` (each extends the one before): the
   tables are what every answer of the library rests on. Abstract counterpart:
   `Entitled`, what the assignments mean, stated without the computed tables.
   `RbacTablesProofs` proves about the functions of the first two, for any
   database; `RbacProofs` about the specification of the third.
2. `AssignmentSync` and `ResourceSync`, with `AssignmentSyncProofs` and (for the
   second) `ServiceProofs`.
3. `JwtConsumer` (proofs: `TokensProofs`).
4. `AuthenticatorMaps` (triggers and maps as functions, against a declarative
   reading) and `ClaimsLogin` (which extends it).
5. `RbacApi` (which extends `RbacTriggers`): requests, checks, policies, access
   lists; with `RbacApiProofs`, which extends `RbacTablesProofs`.
6. `SharedObjects`: registry, reverse sync, activity stream and the models' own
   save composed, for one call of `save()` or `delete()` runs all of them; with
   `SharedObjectsProofs`.
7. `Accounts`, with `AccountsProofs`, and `Installation`.
8. `NamedLock`, an abstract specification; `AdvisoryLock`, which implements it;
   the refinement and what a session is left with proved
   (`ServiceProofs`).
9. `FallbackCache` (which uses `RedisClient`), `CacheInvalidation`, `Tokens`,
   `AuthenticatorConfig`, `DynamicSettings`. Components without common state
   share a run: a behaviour of `MCServices` is about one of them.
   `ServiceProofs` (of `ResourceSync`, of the locks and of the caches, modules
   with no state in common),
   `TokensProofs` (of `Tokens` and `JwtConsumer`, likewise).
10. Left open: `RbacConcurrent`, two transactions that compute the tables at once
    under READ COMMITTED (hazard at `rbac/caching.py:341`).

## RBAC tables

`RbacCaching` holds the database as one record and the functions of
`rbac/caching.py` and of the `ObjectRole` model, each from database to database:
`ComputeTeamMemberRoles` (scoped to teams and their descendants in the
team-of-team graph), `RecomputeRoleEvaluations`, `RecomputeLookAhead` (for one
new object), the cleanups. An `ObjectRole` is the pair of role definition and
object that its unique constraint makes it; the integer and UUID evaluation
tables are one. `Reach` is the least closed set of teams, which is what the
depth-first searches compute.

`RbacTriggers` holds giving and removing (`rbac/pipeline.py`) and the handlers of
`rbac/triggers.py` for edited definitions and for objects created and moved, as
functions of the same kind; `Rbac` and `RbacApi` both call them.

`Rbac` holds one process: `db`, `cascade` (the `delete()` in progress with the
stash of `team_pre_delete`) and `defer` (`defer_rbac_state`). An action is a
whole public call with every handler it runs. Only `delete()` is split: one
step that takes the stashes and deletes the many-to-many rows, one per table
(`DeleteBatch`, in any order the foreign keys allow, since the collector sorts
models by dependency), one per `post_delete` signal (in any order within a
table). No other call runs in between: the code does all of it in one
transaction.

| Run | Asks | Instance and bounds |
|---|---|---|
| `RbacAccess` | does `has_obj_perm` answer what the assignments mean, after any sequence of assignments, edits of definitions, and deletions | 2 organizations, 3 teams, 1 inventory, 1 user; chains user-team-team-team-inventory take 4 assignments, loops 2. `Focus` keeps definition edits and deletions from one behaviour and caps both at 3 assignments; without either the bound is 4 |
| `RbacTables` | are both tables what a full recomputation gives (`TablesCoherent`); does any row outlive what it names | two levels below the organization (collection in namespace), objects and teams created, moved, deleted, alone or deferred; 3 assignments |

Four assignments are enough for every path shape the code distinguishes (direct,
through a team, through a team of a team, through an organization), for a loop,
and for a team above and below the one that is recomputed. The two teams of
organization 1 are interchangeable (`TeamSymmetry`); `RbacAccess` checks no
liveness, so symmetry is sound, and its action property speaks of all users and
objects at once. Users are one: nothing in the tables relates two users.

What the instances leave out on purpose, always in the MC modules, never in
`Rbac`. The docstring of `defer_rbac_computations` (`rbac/triggers.py:165-169`)
admits a limitation: deleting a team inside a deferral leaves stale rows if the
team was a member of one that survives. So in `RbacTables` a team that may be
deleted alone in a deferral holds no role, and `t1`, which may go with its
organization, goes with every role that makes somebody its member. (The
guide, `docs/apps/rbac/bulk_operations.md:33-34`, says that roles may be given
inside the context manager; the code refuses it once data is deferred, as the
docstring says and `Guarded` models: it raises after the assignment rows were
written, `pipeline.py:270`.) [Three gaps](#met-while-modelling) account for the
rest: a collection moves only with its namespace, the definition that is deleted
is held by users alone, and no team outside an organization that is deleted
holds a role on it.

## RBAC requests

`RbacApi` models requests against the API: one action is one request that
succeeds, with every permission class, validation and handler on its way; a
refused request changes nothing. It adds to the tables the global assignments
(`gasg`), the content type and permissions of definitions as data, the owner of
each object made, the definitions that are `managed`, and three sets of settings
(`Confs`, one without custom roles). What a parent asks of whoever moves an object
to it, or makes one in it, is looked up in the tables after the save, as
`related.py:123-125` does; no parent at all asks for the permission everywhere
(`related.py:80-86`). The definition of a creator is made as a managed one where
custom ones are forbidden, and a request that finds one of its name but of another
type, or not managed then, fails (`Usable`; `models/role.py:113-119, 186`).

Run `RbacApi`, 30 515 states: two organizations, a team, an inventory and one to
be made, a host group of another service; a superuser, a user with roles and one
without. Bounds: what the environment grants (`Grants`, ten pairs, each a
different rule of `policies.py` or of the validators), two assignments at a time
(one to the actor and one it acts on is what any rule compares), one edit of a
definition, one object made or moved.

- `ChecksMean`: checks are what object assignments, global ones and those of
  teams say. Excluded by name are the two requests that recompute nothing: the
  deletion of a definition, and the deletion of an object by another service
  (`service_api/views.py:222`).
- `SharingIsSound`: as long as no superuser gave anybody a role on an object, above
  it or everywhere, no chain of requests by others does; whoever may give a role
  may take it away.
- `AccessListsAgree`: list, summaries and drill-down explain each other.
- `CreatorOwns`: makers have the creator's permissions. Where
  `ANSIBLE_BASE_CACHE_PARENT_PERMISSIONS` is off, a role on an object has no rows
  for what is below it except to add there, so nothing else of that is asked for.

One edit or move per behaviour here; any number in the [proofs](#what-is-proved).

A request loads its user anew, as the views do, so the process-wide flag of
`bound_singleton_permissions` (`evaluations.py:58`) has nothing stale to keep; a
task that holds a user over a change is a hazard without a property.

## AssignmentSync

`server` has the server's lists in id order, users' and teams', `local` the
service's set, `calls` the reverse-sync requests in flight, `sync` the periodic
task, page by page. A local change is committed first and sent afterwards; a
request may overtake another, fail, or arrive after the change was undone. An
action of the task ends where the code gives up control: a request, a
transaction, a read of the local table (which may fail, `CompareFails`, and ends the
task). Three history variables: `always` and
`ever`, what the server had at every, and at some, moment since the task began;
and `jumped`, the rows that a removal moved from a page not yet read to one
already read.

`AssignmentSync`, 170 094 states: four assignments, one of them a team's (teams
are fetched after users), one of a role the service does not know, one whose
actor has no `Resource`; two changes, one failure, any starting state of both
ends, in one order of ids. With page size 1 every removal moves rows across the
border of a page, before, at and after the one the task is at. `ChangesJustified`:
nothing is created that the server never had since the task began, and nothing
deleted that it had all along, except what has jumped, which the code cannot
[tell from a row that is gone](#met-while-modelling).

Fairness: the scheduler starts the task again and again and its requests
answer or time out (`WF_vars(SyncStep)`), and a request in flight is answered or
given up (`WF_vars(Answer)`). People need not do anything.

## ResourceSync

Both databases map the ids they have to rows (name, organization of a team, owning
service, partially migrated); a hash is equality of name and organization. The run
goes through the types in order: manifest (`FetchManifest`), the choice of orphans
(`FindOrphans`, a query made later, so a resource created at both ends in between is
taken for one), their deletion one at a time, items one at a time in the order the
executor takes them, retries. `ProcessItem` is `fetch`, comparison and write of one
item with its conflict handler (`Resolved`): one request and one transaction. Its
outcomes are those of `SyncStatus`: done, a conflict to be retried (what the handler
deleted stays deleted), and the error of a database that fails, after which the item
is skipped and not retried (`sync.py:364-368, 404-408`). People save and delete on
both ends between any two steps; `SharedCreate` is a resource created on the service
and on the server at once.

`ResourceSync`, 53 404 states: 3 organizations, a team, a user, two names that people
give, starting empty, in step, with an organization of the service's own, or half
migrated; 2 changes, 1 failure, 1 retry. A behaviour may also start with two
organizations renamed on the server and not yet here, one after the other so that the
first has the old name of the second and the second a third name (`Chain`), or each to
the name of the other (`Swap`); it has one change left, which can make a ring, or
break one. These are the causes the comment of the conflict handler distinguishes. The
ids in `Permanent` keep one resource of each type on the server, because the last of a
type is [never deleted](#met-while-modelling). Fairness: the task is scheduled again
and again and each step ends.

`EventuallyInSync`: once changes and failures stop, the service has for good what the
server has, a chain of renames included. A ring of names is excluded (`Stuck`, with
what waits for a name in it): neither of two resources that swapped names can be
updated first, and the comment of `_handle_conflict` (`sync.py:316`, "there is really
no recovery") says so. Without `Stuck` TLC finds the swap in conflict for ever.

`DeletesOnlyGone` speaks of what a run chooses: a team that the database deletes
with its organization is not chosen, even when the server has moved it
elsewhere; a later item of the same run creates it anew.

## SharedObjects

One call of `save()` or `delete()` on a shared object runs four parts of the
library, so one module has them: the model's own save (`modified_by`, partial
updates), the `Resource` row, the request to the resource server, and the activity
stream. A process is a request that holds an instance of one object in memory
(`held`), possibly an old one; `doing` is where it is: asked to save, saved with
the server called and the transaction open, deleting, flushing what it deferred.
`told` is the row that a reader of the stream pieces together from its entries.

Run `SharedObjects`, 480 543 states up to symmetry: two processes, two objects, a
group, three saves, deletions or regroupings and one fault (an answer lost, a
transaction rolled back after the server was asked, a process that dies before it
flushes). Saves name the fields of `SaveFields`, all and none included; a full save of
an instance whose row is gone while its `Resource` remains fails (`handlers.py:82`).

- `ServerHasWhatIsSaved`: outside a call in progress the server keeps what this
  service has, under each id. The ids in `apart` are excused, by the actions that
  put them there: the local transaction failed after the server agreed, or the
  answer was lost; `_skip_reverse_resource_sync` was still set on the instance from
  an earlier save (`handlers.py:92`); two calls about one object overlapped.
- `StreamTells`: reading the stream from its start gives the row and the groups.
  Excused (`mistold`): saves from stale instances, entries deferred by a block whose
  changes were rolled back or whose process died.
- `RegistryFollows`: a `Resource` row exists exactly as long as its object, under
  its present name.

The server is changed by this service alone, the rest being the subject of
`ResourceSync`; the signal that enforces e-mail changes is left out.

## Installation

`migrate` is a sequence of transactions, and one action is one of them: the
migrations, types read, types created one by one, parents, permissions, managed roles,
evaluations, resource types, `Resource` rows. Between two the process may die, and
whoever deploys starts it again; in another process the types of a remote service may
be loaded. `Asked` is what the constructors of managed roles ask for (those of
organizations also for the permission to view the team model, and they fail where that
model does not exist). `Paths` are histories of releases: a registration that brings
no migration, a model that becomes shared, a parent that is dropped with two resource
types exchanged, a model removed. Migration 0005 (the types of RBAC made independent
of Django's) is part of each.

Run `Installation`, 80 632 states: four paths of three releases, five starts (an
old database with dense or sparse ids in `django_content_type`, or none), one
trouble, which is a death or a load. One is enough for each property: they compare
a repeated run with one that went through. Chains of parents have at most three
types, `Descendants` says so.

- `TypesFollowCode`: types, parents, permissions and resource types are as
  registered; ids given in one batch collide only with rows loaded meanwhile, and
  are Django's unless taken.
- `NothingPassedOver`: evaluations are recomputed and `Resource` rows filled in,
  unless the run that applied the migrations died: its repetition has nothing to
  apply, and the handlers take that for an upgrade without work
  (`rbac/triggers.py:523-526`).
- `RolesMeanTheSame`: a managed role has its permissions, means its definition
  after a refresh, and migrations keep what administrators gave their own.
- `Installed`: started again and again, `migrate` ends, or meets an error that no
  repetition cures. Fairness: somebody starts it again, and a run goes on while
  its process lives (`WF_vars(StartMigrate)`, `WF_vars(RunStep)`).

Abstracted: parents are saved in one step, the manager's cache of types is left
out, the RBAC app comes before the registry in `INSTALLED_APPS`, migrations are
not reversed.

## JwtConsumer

Several workers authenticate requests of one user. `gateway` has the user, the
claims and the signing key (numbered; the properties compare numbers), `db` the
account with its roles and the names of other accounts, `cache` the key and the
hash that `JWTCache` holds, `req` the request of each worker. A claim is one
role assignment and a hash is the set of claims it is taken of. A step ends
at each query, transaction, cache access or request. The token is signed when
the request starts and everything else may have changed when it is used.

`CreateUser` and `AdoptUser` are the two ways of a first login (create the
resource; on an IntegrityError look the name up); `GiveRoles` merges passes 1
and 2 of `save_user_claims`, `RemoveStale` is pass 3. Expired tokens (code 498),
the redirect views and the role fields of AWX are left out; accounts that the
service has of its own have no roles.

`JwtConsumer`: two workers, two claims of which one may be unknown, two names,
which accounts of the service's own may have from the start, two values of the
other fields, one change, one failure. One change suffices for
each race: every property relates a request to at most one change since its
token was signed.

Fairness: users keep sending requests and workers run; a cached hash is set with
a timeout that a request finding it does not extend, so it expires. Without the
latter `EventuallyInStep` fails: two changes, there and back, are enough
([below](#met-while-modelling)).

## AuthenticatorMaps and ClaimsLogin

`AuthenticatorMaps` holds the pure part of `create_claims`: the triggers, what makes a
trigger invalid and its map passed over, the
expansion of the fields of a map, `check_role_type`, and the fold of the maps of
an authenticator into claims. A role claim is keyed by role and target (system,
organization, or team in organization), which flattens the nested dictionaries;
`Hits` is the comparison that each scalar operator makes, so that regular
expressions stay out. A field expands one attribute, or none. The answer of a map
(`Response`) is one of disabled, invalid (its triggers have unknown keys), skip, allow
and deny; the first three leave the claims as they are.

`ClaimsLogin` is the rest of a login: `StartLogin` (user and `AuthenticatorUser`
loaded), `SaveClaims`, `CreateObjects`, `PlanChanges` (the assignments as
`RoleUserAssignmentsCache` sees them), `Give` and `Withdraw` for each assignment
in any order, `ReconcileFails`. Meanwhile the provider changes what it says of the
person, an administrator changes assignments and flag, and another process runs
a login of the same person. `Answer` tabulates `create_claims`.

`ClaimsLogin` (82 278 states) has two families of initial states. Quiet ones run one
login at a time: all pairs of conditions on two attributes, under both joins, with
every combination of up to two values of each (an early exit in the loop over
attributes or over values needs two of each), and all pairs of 13 maps, one or more of
each type, enabled or not, valid or not, with and without revocation, a database with
and without the objects (maps interact in pairs: a later one overwrites an earlier
one). The others have two processes, and one change or one failure. Fairness: the
person logs in again and again, and a login runs to its end (`WF_vars(LoginStep(w))`);
the quiet states use it for the one process.

- `ClaimsMean`: the loops over triggers, with their three-valued access and early
  exits, decide what a reading without an order says, and of the maps the last
  that applies decides. That is what the code does and what its tests ask for; the
  help text of `order` says the opposite, and the run `ClaimsOrder` shows it:
  `SmallerOrderWins`, the help text as a property, is violated by two maps that
  give and take one role. It is a run that expects a violation, recorded as a finding.
- `ReconciledRoles`: a login that nothing disturbs leaves the roles as claimed;
  without `remove_users` it touches no other, and never one of `Uncached`.
- `EventuallyReconciled`: what overlapping or failing logins leave behind, later
  ones repair, but for `Uncached`.

`Uncached` are the assignments that a reconciliation does not see: those on objects
of another service, and those on objects whose key is no integer, for
`cache_existing` casts the key and only logs what it cannot cast
(`claims.py:1036-1042`). With `remove_users` too, the latter outlive every login; both
properties say so, and an instance has one of each (`Unkeyed`, `Remote`).

What the model shows beside: a refused login (`access_allowed` false) has already
saved the superuser flag (`claims.py:654-662`), and a login that saves anything
writes back the flag it loaded, also over a revocation made meanwhile. A map of
type `role` with an organization role, an organization and a team passes
`check_role_type`, but `validate_assignment` (`rbac/validators.py:277-279`)
refuses the assignment, which drops the rest of the reconciliation at each
login; `Reconcilable` excludes it.

## Accounts

`Accounts` models which user somebody becomes. A login has two phases: it chooses
a user name (`ChooseName`, or `Migrate` when the authenticator hands its users to
another), then writes rows (`WriteRows`, `Associate`), and other requests run in
between; a local or directory login walks the list of backends that this worker
has cached (`cached`, keyed by the latest time of modification), single sign-on
goes to one authenticator. Administrators patch and delete authenticators by
their own two-step requests. What maps grant is left to `ClaimsLogin`.

A migration moves what relates to the user (`Things`) row by row. A user may have
only one thing of a slot (`SlotOf`, a uniqueness constraint); where the main user has
one already, or has been given one by an earlier row, the save of the second raises an
`IntegrityError`, is skipped (`authenticator_plugins/base.py:174-183`), and the thing
goes with its user, who is deleted when no row is left
(`utils/authentication.py:85-86`). `Skips` and `OwnerAfter` say which and in what
order. Relations that protect from deletion, or are emptied by it, are not told from those
that cascade. The name reserved for the system user is refused by single sign-on
only after the migration and for the name that was selected (`SystemUser`). A
save that finds its row deleted in between inserts it again, as Django's `save()` does.

Run `Accounts`, 247 029 states: nine starts (`MCStarts`), each a situation with its
own budget of logins and edits: nobody yet (`Fresh`), two people with one uid whose
authenticators may be joined (`Misled`), a local user who has a directory account
(`Mixed`), an inactive one (`Inactive`), a migration (`Moving`), a migration that
merges two users who have an avatar each (`Merging`; both while an administrator
edits), one that gathers the users of two directories at a third, with avatars again
(`Gathering`), and authenticators edited once or twice (`EditedOnce`, `EditedTwice`).
Budgets run out, so deadlock is not checked. Two people share the uid `ann` at two
authenticators, one has no e-mail, one signs in as `_system`. Three logins are what
the properties relate: two that race and one that comes back.

- `SameUserAgain`: an account signs in as the same user for ever, unless moved.
- `IdentitiesKept`: no two people share a user and one e-mail is one user, unless
  two first logins overlapped, or an administrator sent the users of an
  authenticator to one where their uid is somebody else's (`misled`).
- `ThingsStayWithPerson`: what somebody has stays with a user who can sign in, unless
  a migration died half way, overlapped with another, or the authenticator
  it leads to was deleted before the new row was written (`removed`). Without those
  causes too a thing is lost when two users who are merged have one of a slot each:
  `LostByClashOnly` says that it happens in no other way, and that one of the slot is
  kept. A loop that stops at the first refusal, as the mutant's, violates it.
- `AuthenticatorsServe`: the cached list is the enabled authenticators in their
  order, and one stays enabled, unless two requests disabled the last two together.

## Services: locks, tokens, configurations, settings

Six components without common state share the run `Services` (450 626 states): the
four of this section and the two of the next. A behaviour is about one (`about`), so
that their states add up, and fairness is asked only in those about the cache with
a fallback.

**Named locks.** `NamedLock` is what callers rely on: blocks that exclude each other;
a block may lose its lock, and then never ends as if nothing had happened.
`AdvisoryLock` is `advisory_lock` over PostgreSQL: a session with its timeouts and
locks, transactions that fail, sessions the server ends, connections that code inside
a block closes, and errors it raises, `OperationalError` on a good connection
included, in a transaction or outside; `frame` is what each open block remembers.
`IsNamedLock` is the refinement (`Seen` and `outcome` for `blocks` and `ended`);
`CleanUnlessFailed` says that a session none of whose blocks failed is left without
locks and with the timeouts it had. Two processes, blocks two deep, three ways to ask
(two names with one `crc32`, shared or not, waiting or not, with or without timeouts),
three blocks, one fault.

**Tokens.** `Tokens` has the tables of access and refresh tokens, requests in
flight (refresh, update and use read first and write later), and the jobs that
take row after row: `revoke_oauth2_tokens` and the logout of a relying party. A
chain is what refreshing makes of one token. `TokensKeepTheirWord`: secrets are
kept hashed once, by the migration too; what was revoked for a user stays so,
unless it overlapped with a request about the same chain; and exactly those named
by the docs reach a token. Four secrets, two requests in flight, three pieces of
work, and a table left unhashed by an earlier release that holds one access token
and its refresh token.

**Configurations.** `AuthenticatorConfig` has the fields of all fifteen plugins as
data, what their serializers accept and complete, the mask, the encryption and the
scan for unclean text, and what a plugin makes of it at login. A value is a kind
of text (good, dirty, bad, ...). `ConfigurationKept`: what is shown can be sent back
unchanged and leaves what is stored, and the secret that a plugin reads is the last
given, encrypted once. `AcceptedIsUsable`: LDAP searches convert, group type and
parameters fit, SAML certificate and key match, SSO has an address to return to.
One change after the creation, of any one field.

**Settings.** `DynamicSettings` has both ways of loading, the factory
(`load_dab_settings`) and the deprecated module; groups of settings that are
treated alike are one. `SettingsSettle`: after loading, each installed app has
what it needs, what was given is kept, and loading again changes nothing.
`LostInPlace` names what the factory path loses: additions made in place to a list
inside a section nothing else of which changed (`settings_logic.py:392`). Thirteen
sets of apps, one override by the deployment.

Deadlock is not checked: budgets run out.

## Caches

Two components, checked by the run `Services`.

`FallbackCache`: two threads of two processes use a cache whose primary is a Redis
cluster that fails and comes back; `flag` is the file, `recoverer` and
`inProgress` the keys kept in the fallback, `recovery` the recovery that a thread
submitted. `multiprocessing.Lock()` is made anew at each use, so the model has no
lock. One key is enough, and of its value whether it is the last one written.
`OldValuesNeedARace`: a value that was overwritten is read only after a write that
raced with a switch, a write between the two clearings and the end of a
recovery, or the start of a process while the fallback was in use.
`EventuallyRecovered`: once the status of the primary stays good, the cache
returns to it. Fairness: threads use the cache and finish what they began,
recoveries run, and `RECOVERY_THREAD_ID` and `RECOVERY_IN_PROGRESS` expire, as they
are set with a timeout. `RedisClient` says what client a configuration makes and
what status is reported of it. Two troubles: failures of the server and restarts.

`CacheInvalidation`: two nodes with a Redis of their own, one worker each,
broadcasts that arrive in any order, with and without `CLUSTER_HOST_ID`.
`CoherentWhenQuiet`: when all is heard, no node holds another value than the last
written, unless that write is one the code does not broadcast or a message was
lost (`unheard`).

## What is proved

For every value of the constants that satisfies the named assumptions:
`CachingAssumption` (types; content types form a hierarchy of at most three levels,
with teams below organizations: the models of services, such as organization,
namespace, collection import; the four levels of UUID models in the test app, which
exercise kinds of keys, are left out), `RbacAssumption`
(types; an object there from the start has a parent of the type its own asks for),
`ResourceSyncAssumption`, `JwtAssumption`, `LockAssumption`, `FallbackAssumption`
(types), `AssignmentSyncAssumption` (finitely many assignments, pages of at least one
row), `ApiAssumption` (types; a user is not an object; every content type has a permission
on its objects, and what is below an object of another service is of another service),
`InvalidationAssumption` (types; no two nodes have the same `CLUSTER_HOST_ID`),
`TokensAssumption` (types; an earlier release left at most one access token of a
chain, and one refresh token that can be used, which refreshes it; a chain that
requests disturbed before is left out), `SharedAssumption` (what is logged is some of
the fields; "none" is no row, no entry and no id; there is an id to give).

- `RbacProofs!TypeCorrect` (`TypeOK`): each function on databases maps `Db` to `Db`,
  roles are on objects of the type their definition is for (`Fitting`), and the
  deferred sets keep teams apart from objects, which `_flush_rbac` relies on.
- `RbacProofs!RolesHaveHoldersAndObjects` (`NoOrphanedRoles`). The property
  speaks of settled states and is not inductive. `RolesAccounted`, proved as
  `RolesAreAccounted`, says what holds in between: each role's object exists, or its `post_delete` handler or
  its flush is still to come; and an unused role exists only while a team
  waits for the same. Then every handler discharges its part.
- `RbacProofs!CoherentTablesAnswerRight`: if both tables are coherent, the
  one-join query answers `Entitled`. The argument: a role provides exactly the
  teams reached from its direct ones, for reachability is closed under
  composition in any graph; so the roles a user inherits through chains of teams
  are those that one step from a held role finds. With it, a handler need
  only be shown to keep the tables coherent.
- `RbacProofs!ComputedTablesRefer` (invariant `KeysExist`): rows of the
  computed tables name roles that exist and teams that are not being
  deleted, in every state, half-done deletions included.
- `RbacProofs!RecomputationRepairs` (`RecomputeAllRepairs`): from any
  reachable state, those the gaps of the handlers lead to included, `post_migrate`
  restores both tables. Uses `KeysExist`: recomputation rewrites the rows of live
  teams and roles, so nothing else may be there.
- `RbacProofs!TablesStayCoherent` (`TablesCoherent`) and, with
  `CoherentTablesAnswerRight`, `ChecksAnswerRight` (`AccessMatchesAssignments`):
  every handler recomputes enough. Hypothesis `HandlersSuffice` excludes the
  operations for which it is false (see [below](#met-while-modelling)): no role
  definition and no root object is deleted, a team is not deleted in a deferral
  or while objects are nested below it, and what moves is a root or has a root as
  parent. Everything else is covered: giving and removing in bulk, edits of
  definitions, team-of-team graphs of any shape, creations, moves and deletions
  of teams and objects, alone or deferred, recomputation. The
  tables are wrong in the middle of a cascade, so the inductive invariant
  `TablesInv` has two forms: put aside the objects that are going with all rows
  that refer to them, and what is left is coherent (`RestCoherent`); or a team is
  being deleted, and then the tables are those at the start of the deletion
  without the team's rows, its stash says what it was a member of
  (`TeamGoing`), and `post_delete` computes from that stash what a full
  recomputation would. Two lemmas carry most of it: teams out of reach of
  what changed keep their ancestors (`SameAncestors`: the scope of
  `compute_team_member_roles` is large enough), and a changed edge matters only to
  roles that provide its source (`SameProvided`: so is the set of roles to
  evaluate). TLC checked `TablesInv` on a nested instance (80 240 states) first.
- `RbacProofs!AccessGrowsWithAssignments` (`AccessIsMonotone`), under the same
  hypothesis: what a permission check answers in a settled state is
  `Entitled`, for anybody (`RightAnswers`), and `Entitled` grows with the
  assignments (`EntitledGrows`), for the teams reached in a graph grow with its
  edges. The handlers need no look at for that.
- `RbacApiProofs!RolesStayWhereTheyWereLet` (`SharingIsSound`), by `ApiInv`: call an
  object open when a superuser gave a role on it, above it or everywhere (`seeds`),
  or when checks on it are switched off; then all roles and all rows of
  `RoleEvaluation` are on open objects, and what is put under an open object is
  open. `Confined` says that of one database and one set, and each function of
  `RbacCaching` and `RbacTriggers` keeps it (`GivenStays`, `ChangedStays`, `CreatedStays`
  and so on): rows are computed only at and below the objects of roles. What is
  left is where the set grows: an ordinary user gives, moves and makes only by a
  permission found in those rows (`PermittedIsOpen`). Three levels of objects make
  what `get_child_models` finds closed (`UnderIsClosed`). TLC checked `ApiInv` with
  two edits per behaviour, on an instance with fewer grants, first.
- `RbacApiProofs!ChecksMeanAssignments` (`ChecksMean`), by `ApiInv` and
  `TablesInStep`: unless one of the two requests that recompute nothing was made
  (`Undisturbed`), the tables refer to rows that exist, hold what a recomputation of
  everything would write, and roles are of definitions that exist (`InStep`). The
  last is needed because a request that makes or edits a definition changes the
  permissions of every role of it at once. The lemmas of `RbacTablesProofs` carry
  the steps, one lemma each for giving, taking, editing, moving and making; `Rbac`
  uses the same ones. Hypothesis `MovesSuffice`: what moves has parents that have
  none of their own. Otherwise the handler misses the roles on the old grandparent
  (`rbac/triggers.py:326-332` asks an instance that has only a primary key for its
  parent) and their rows stay. TLC checked `TablesInStep` with two edits per
  behaviour first.
- `RbacApiProofs!AccessListsTellTheSame` (`AccessListsAgree`), by the same invariants.
  A role with a row for a permission on an object is one whose own permissions,
  or those of a role of a team it makes its holder a member of, list it
  (`ExplainedRole`). The list finds the holders; the drill-down follows a team's
  roles one step at a time, and since provided teams are closed under composition it
  ends where the list started (`ThroughTheTeam`). Further hypothesis
  `NothingUnderTeams`: no registered model has a team as parent. With one, a
  role on a team may list a permission on what is below the team itself; the drill-down
  labels it "team" and looks for a way through the team's own roles, where there
  may be none.
- `RbacApiProofs!CreatorsOwn` (`CreatorOwns`), by `ApiInv` alone. Only one request
  makes objects (`OthersMakeNothing`). Either its maker has every permission of a
  creator, by rows or global roles, and the request takes none away; or a role on
  the new object is given, of a definition that lists them all
  (`CreatorDefinitionLists`), and whatever the tables held before, that role gets the
  rows its definition asks for (`GivenEvaluated`).
- `ServiceProofs!SyncDeletesOnlyGone` (`DeletesOnlyGone`), by `DeleteInv`:
  `always` is still listed, and no chosen orphan is in it. The conflict handler
  removes only a resource for which the server answered that it is gone.
- `AssignmentSyncProofs!SyncChangesJustified` (`ChangesJustified`), by `SyncInv`:
  of the assignments that were there all along, those on the pages read so far
  have been fetched, belong to a role the service does not know, or have jumped
  (`PagesRead`); so when every request answered, all have (`AllRead`). Removing
  a row from a list moves each other row up by at most one place.
- `TokensProofs!TypeCorrect`, `StoresWhatItGives`, `RefusedKeysAreOld`, by
  one invariant: `KeyInv` and `CachedKeyInv` bound every key in use, in the
  cache or in a token by the gateway's and say that a key loaded from the
  gateway is no older than the token; `StoreInv` says what the roles are
  in each phase of an undisturbed request.
- `TokensProofs!OnlyRenamedUsersFail` (`NobodyFails`), by `NameInv`: the names
  in requests and of the account are names the user has had. As long as that is one
  name, a worker that cannot create the account finds the one of that name, made
  by another worker or there before, and no other account can have the name.
- `AccountsProofs!DatabaseStaysSound` (`TypeOK`), `ThingsMoveWithTheAccount`
  (`ThingsStayWithPerson`) and `SameUserEveryTime` (`SameUserAgain`), by
  `AccountsInv`: `Sound` is what the database allows; `SignedOK`, an account that
  signed in has its row, of that user; `AloneOK`, only one request is between its
  phases; and `OwnersHaveRows`. A migration deletes the old row in the first phase
  and the new one is written in the second, so in between who owns something need
  have no row; then a request waits that will write it (`WillHave`): the account has
  none, its authenticator is there, and the name that was chosen is that user's. What
  breaks any of this is what the property makes exceptions for. That a thing is lost
  only to another of its slot needs two lemmas about a migration: what it skips is
  skipped for something that stays (`SkippedForAnother`), and everything else has an
  owner after it (`ThingsMoved`). TLC checked `AccountsInv` on the run's instance first.
- `AccountsProofs!OneStaysEnabled` (`OneEnabled`), by `EnabledInv`: while edits follow
  each other, the one that will disable or delete leaves another enabled (`Spares`).
- `SharedObjectsProofs!ServerKeepsWhatIsSaved` (`ServerHasWhatIsSaved`),
  `StreamTellsTheObject` (`StreamTells`) and `RegistryFollowsTheObjects`
  (`RegistryFollows`), by one invariant `IInv` that says of each call in progress what
  it may still rely on of what it has read. `LockInv`: one process at a time has
  written a row and not committed it, and the committed row stays what it was then;
  so the row that a commit writes is the old one with the fields saved (`EntriesFit`).
  The stream and the registry need little more: an entry is the difference between
  the row compared and the instance, and if that row is another than the one written
  over, the object is `mistold`. The server needs `ServerInv`. An `ansible_id` stays one
  object's, in rows and in calls (`AidsApart`). The `Resource` row that a save has read
  is still there or a cleanup has taken it, never exchanged for another
  (`ResourceFits`), and in the second case the id is in `apart` unless the save asks
  the server (`GoneFits`). A save that asked nothing had no synced field to change
  (`SkipFits`). What was sent is there until a deletion asks about the same id
  (`SentFits`). TLC checked `IInv` on the run's bounds first.
- `ServiceProofs!LockIsNamedLock` (`IsNamedLock`): the initial states are
  `NamedLock`'s, and every step of a process, the server or a fault is one of its
  steps or changes nothing in it. Needs `LockInv`: types; `Room`, no lock is entered
  for a level above the open blocks but those left behind; and `Held`, a block that
  counts as held has its lock in `pg_locks`, whence two blocks seen as held do not
  conflict. Exclusion itself is an invariant of `NamedLock`, carried over by the
  refinement: `ServiceProofs!LockExcludes`.
- `ServiceProofs!LockLeavesSessionsClean` (`CleanUnlessFailed`), by
  `Clean`: as long as no block of a process failed, the timeouts each block will
  restore, the transaction it found and the locks it took fit the blocks below it,
  level by level. A block that opens on a session spoiled by a failure remembers
  bad timeouts and restores them even on a new connection; that is why the
  property speaks of processes and not of sessions.
- `ServiceProofs!QuietCachesAgree` (`CoherentWhenQuiet`), by `OldWillGo`: where an
  old value is, the worker that wrote the new one is about to publish it, or a
  message that the node will not skip is on its way, or `unheard` says why not.
- `ServiceProofs!OldValuesAreRaces` (`OldValuesNeedARace`), by `InUseIsCurrent`: as
  long as nothing raced, the cache in use holds no old value, the one not in use
  is empty or about to be cleared, and a recovery that has cleared the primary
  keeps it empty until the flag file goes. The order of the three steps (clear
  the primary, clear the fallback, remove the file) is what makes it inductive.
- `TokensProofs!TokensStayTrue` (`TokensKeepTheirWord`), by `TokensInv`. That what
  was revoked stays revoked is not inductive: a request that began before may
  bring rows back. So the invariant says when nothing of the kind is left. A chain
  that nobody disturbed is `Tidy`: one access token, one refresh token that can be
  used and that refreshes it, one request at a time. While a revocation runs
  (`Job`), no request is after the chains it is about (`Alone`), and what can still
  be used of them is on its list (`ToDo`); for a logout, which lists access tokens
  only, this needs `Tidy`. The argument compares states: one that has fewer rows, or
  more of them revoked, keeps the invariant (`FewerGood`), and so does one into
  which the tokens of one chain come (`ComesGood`). A refresh and an update are the
  first and then the second. TLC checked `TokensInv` on the instance of the run
  (1 745 175 states, with more secrets and requests) first.

## What is only model-checked

Liveness (`EventuallyMirrored`, `EventuallyInSync`, `EventuallyInStep`,
`EventuallyReconciled`, `EventuallyRecovered`, `Installed`): fairness and ENABLED are
beyond the proof system. `TablesCoherent` outside `HandlersSuffice`: true under the
narrower restrictions of the MC modules, which delete organizations and definitions
too. `AccessIsMonotone` is proved under `HandlersSuffice` as well. `ClaimsLogin`,
`DynamicSettings`, `Installation`: their functions are folds over sequences, whose
values the provers cannot compute. `ChecksMean` and `AccessListsAgree` of `RbacApi`
outside `MovesSuffice` and `NothingUnderTeams`, which its instance satisfies.
`ConfigurationKept` and `AcceptedIsUsable` of `AuthenticatorConfig` rest
on merged records (`@@`) and filtered sequences (`SelectSeq`), which the provers do
not expand. Of `Accounts`, `ListCurrent` compares sorted sequences, whose uniqueness
needs induction; `NobodyElse` and `OneUserByEmail` speak of who people are and need
that names and e-mails are theirs, which holds in the starts. No module has a
recursive operator.

Each property of a run has a mutant: a definition replaced by an operator written
next to it, a plausible mistake in that code, makes TLC find the property violated.
A run without deadlock checking is one whose budgets of work run out.

## What is not modelled

- Two transactions that compute the RBAC tables at once, tracked relationships,
  prefetching.
- The layout of serializers, filters, pagination: stateless translations of a
  request to a query and of rows to an answer, whose content is Django's.
- Feature flags: one pass after migrations that deletes rows no longer listed and
  updates the others. It meets no other actor; what it rests on
  (`migrations_are_complete`, `no_reverse_sync`) is in `Installation` and
  `SharedObjects`.
- Clients of other services, which build a request and return its answer; the
  requests are steps of the modules of their callers.
- What the LDAP, SAML, RADIUS, TACACS+ and OAuth libraries do, django-oauth-toolkit
  beyond what the overridden methods decide, Redis commands, the server's order of
  waiting for locks (and sqlite, where `advisory_lock` always succeeds).
- Schema and help-text generation, logging, metadata, sessions, test fixtures.

## Met while modelling

Disagreements between the code and what it or its docs say, and what the code gives
up. One, the order of maps, has a run of its own (`ClaimsOrder`), for there nothing but
the text of the help decides; of the others, properties and instances name those
that would make them fail.

RBAC. Deleting a role definition through the API (`rbac/api/views.py:156-158`)
cascades to its roles with no signal connected, so members of teams keep what it
gave them (`rbac/caching.py:27-28` asks for a hook); the deletion of an object by
another service does the same. Moving an object to a parent in another
organization leaves the old organization's roles their permissions on it: the old
grandparents are looked up from an object whose own parent is empty
(`rbac/triggers.py:326-332`, "new and old"). Deleting an organization leaves the
evaluations on it that a role elsewhere had through a team, because `post_delete`
(`rbac/triggers.py:436`) cleans up only after objects that have a parent. A PATCH can
change the content type of a definition that has assignments
(`api/views.py:126-129`, against `models/role.py:352`). A definition with the creator's name
that was edited is used as it is (`role.py:94`). The access list leaves out users
who have a global role through a team (`views.py:373`), and the drill-down labels
some roles "direct" that are not (`serializers.py:300-308, 413-427`).

Sync. The list of assignments is fetched by page number and `is_complete` only says
that every request answered: an assignment removed between two pages moves the rest
up, a row is missed, and its local copy deleted although the server has it
(`tasks/sync.py:647-649`, "A partial fetch would cause us to delete assignments that
simply weren't fetched"). The `ValidationError` caught at `sync.py:364` is Django's
while the serializer raises REST framework's: one resource that cannot be validated
ends the run ("Instead of failing the whole sync, we'll raise an error and skip this
for now"). The server answers 404 for a type of which it has nothing to list
(`views.py:378-379`), so the last resource of a type is never deleted. The retry
counter is shared by the resource types of a run (`docs/apps/resource_registry.md:448`
speaks of all attempts). The conflict handler deletes a resource of the service's own
that holds a name the server has given to another (same file, lines 318-319: "local
managed resources will not be affected"). Two resources whose names are swapped on the
server stay in conflict at every run, as the comment of the handler admits
(`sync.py:316`).

Shared objects. A comment (`sync_to_resource_server.py:62`, "Or avoid syncing
unnecessarily, when a synced field hasn't changed.") meets a flag that stays on the
instance (`handlers.py:92`), so a later save that changes a synced field is not sent.
Another (`sync_to_resource_server.py:110-120`) speaks of create or update, while
`serializers.py:102` only creates: after a creation that was rolled back here, the
next one conflicts. An object deleted on the server and rolled back here can neither
be saved nor deleted; one with a local `service_id` cannot be deleted while reverse
sync is on. Entries and cleanups that were deferred are flushed for changes that were
rolled back; changes of many-to-many relations are never deferred, and `remove()`
logs the disassociation of objects that were not associated. A change of an encrypted
field is always told as "$encrypted$" to "$encrypted$". A deletion that has asked the
server can be overtaken: another process sends the row to the server again before the
deletion commits, and the copy stays there for an object that is gone. It takes three
processes and four calls, more than the run has; trying the invariant of the proof on
a larger instance showed it, and `ApartDeleted` names the cause.

Installation. A parent no longer registered is never cleared
(`create_types.py:98-106`, against the docstring of `management/__init__.py:80`). A
model that becomes shared gets a new type while roles keep permissions of the old one;
a lookup by codename then finds two. The type of a removed model below the
organization raises `LookupError` where permissions are listed, and a stale
`ResourceType` raises `KeyError`. Evaluations are rebuilt after an upgrade only by the
run that applied the migrations (`docs/apps/rbac/for_app_developers.md`: "This will
still rebuild the role evaluation entries afterwards").

Login. The first local login of a user who has a row elsewhere gets a name with
something random after it and makes another user (`utils/authentication.py:193`,
against the docstring at line 254: "we can't allow local authenticator to have maps
between a uid of timmy and a username of timmy<hash>"). The start of single sign-on
looks whether the authenticator is enabled, its completion does not. A deleted
authenticator stays in the cached list until another is modified. An authenticator
that users are being moved to can be deleted between the two phases of the first such
login, for it has no rows yet: the old row is gone
(`authenticator_plugins/base.py:160`), the new one cannot be written, and the user is
left with no account. Two requests that disable the last two authenticators at once
leave none. A refused login (`access_allowed` false) has already saved the superuser
flag (`claims.py:654-662`), and a login that saves anything writes back the flag it
loaded. The help text of `AuthenticatorMap.order` says that smaller numbers have
precedence (`models/authenticator_map.py:86`), while the map with the largest has the
last word (`claims.py:69`, and `test_claims.py:2724` asserts it). An assignment on an
object whose key is a UUID is never removed by a login (`claims.py:1036-1042`, "Unable
to cache object_id"). What two merged users have one of each is lost with the one who
goes ("all we can do is skip", `authenticator_plugins/base.py:172-183`). An
organization that one map gives a role in and a later one denies another in is not
created, and the role is skipped (`claims.py:704-711, 806-811`). A map of type `role`
with an organization role, an organization and a team passes `check_role_type` and is
refused at each login (`rbac/validators.py:277-279`). `ADDITIONAL_UNVERIFIED_ARGS`
given as null raises an `AttributeError` that is swallowed (`social_auth.py:65-82`);
Keycloak's defaults contain `<my_realm>`, which the scan refuses when it is enforced.

JWT. The hash of the token is cached for roles fetched later
(`jwt_consumer/common/auth.py:301`, and `test_auth.py:518`, "Gateway should return the
matching hash"): a role withdrawn and given back in between leaves the user without
it until the entry expires. A user renamed between two first logins leaves an
account nobody uses, and the request fails (`NobodyFails` excludes that case).

Locks and caches. Two blocks can run at once when a session is ended inside one
(`docs/lib/advisory_lock.md`: "no other process"), but the one that lost its lock ends
with an error. After an `OperationalError` with a usable connection nothing is
dropped and the idle timeouts stay. `multiprocessing.Lock()` made at each use excludes
nobody (comments of `fallback_cache.py`: "Attempt to ensure one thread/process goes
first"); a restart removes the flag without clearing; a `DABRedisCache` as primary that
ignores exceptions never falls back; in a cluster's status `fail` is looked for as a
substring, which `nofailover` contains. `set_many`, `incr` and `clear` are not broadcast,
and nodes that share a `CLUSTER_HOST_ID` do not hear of each other.

Tokens. `/o/revoke_token/` is the stock view of django-oauth-toolkit, which looks for
the value that was sent where its hash is stored (`docs/apps/oauth2_provider.md`: "`200
OK` means a successful delete"). The application of a token can be changed by PATCH
(same file: "*immutable on update*"). A PATCH that overlaps a deletion inserts the row
again. Deleting an access token leaves its refresh token usable. A refresh through
an application's token makes it the creator's. With `ROTATE_REFRESH_TOKEN` off,
tokens would be stored unhashed.

Settings. An app that a file or the environment installs after `load_dab_settings`
lacks its settings until they are loaded again. Additions in place to
`DEFAULT_AUTHENTICATION_CLASSES` or to the context processors of a template are lost in
the factory path and kept by the deprecated module. Forced settings override what a
service gave in the first and not in the second.

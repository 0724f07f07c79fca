------------------------------ MODULE ResourceSync ------------------------------
(***************************************************************************)
(* The periodic task that makes a service's shared resources equal to those *)
(* of the resource server (tasks/sync.py).  For each resource type in turn  *)
(* it fetches the manifest (ids and hashes), finds the orphans among what   *)
(* the service has by then and deletes them, and then compares, fetches and *)
(* writes item by item, each in a transaction of its own, while people      *)
(* change both ends.                                                        *)
(*                                                                          *)
(* A database maps the ansible_id of each resource it has to a row: name,   *)
(* organization (of a team), the service that owns it, and whether it is    *)
(* partially migrated.  A hash is what it is a hash of: name and            *)
(* organization.                                                            *)
(***************************************************************************)
EXTENDS Naturals, Sequences, FiniteSets, Functions

CONSTANTS Id,             \* ansible ids
          TypeOf,         \* of an id: "organization", "team" or "user"
          Name,
          NoOrg,          \* organization of what is not a team
          Retries,        \* SyncExecutor.retries
          InitServer, InitLocal,   \* sets of databases to start from
          Owners,         \* services that own what is created on the server
          Permanent,      \* ids that people do not delete
          MaxChanges,     \* bound on changes made by people
          MaxFailures     \* bound on failing requests

Types == <<"organization", "team", "user">>   \* the order of get_resource_type_names
Service == {"server", "own", "other"}
Row == [name : Name, org : Id \cup {NoOrg}, svc : Service, partial : BOOLEAN]

ASSUME ResourceSyncAssumption ==
    /\ TypeOf \in [Id -> {Types[i] : i \in DOMAIN Types}]
    /\ NoOrg \notin Id
    /\ Permanent \subseteq Id /\ Owners \subseteq Service
    /\ {Retries, MaxChanges, MaxFailures} \subseteq Nat

VARIABLES server,   \* the resource server's database
          local,    \* the service's database
          sync,     \* the run of the task
          changes, failures

vars == <<server, local, sync, changes, failures>>

-----------------------------------------------------------------------------
(* Databases *)

Put(db, id, row) == [i \in DOMAIN db \cup {id} |-> IF i = id THEN row ELSE db[i]]

\* deleting an organization deletes its teams
Cascade(db, id) == {id} \cup {i \in DOMAIN db : db[i].org = id}

Delete(db, id) == Restrict(db, DOMAIN db \ Cascade(db, id))

\* UNIQUE_FIELDS: the name, and the organization of a team
Clashes(db, id, row) ==
    {i \in DOMAIN db \ {id} : TypeOf[i] = TypeOf[id] /\ db[i].name = row.name /\ db[i].org = row.org}

WellFormed(id, row) == (TypeOf[id] = "team") = (row.org # NoOrg)
OrgExists(db, row) ==
    row.org # NoOrg => row.org \in DOMAIN db /\ TypeOf[row.org] = "organization"
Fits(db, id, row) == /\ WellFormed(id, row) /\ OrgExists(db, row) /\ Clashes(db, id, row) = {}

Data(row) == <<row.name, row.org>>
OfType(db, i) == {id \in DOMAIN db : TypeOf[id] = Types[i]}

\* What the server lists for this service: its own resources and the service's.
Listed(db) == {id \in DOMAIN db : db[id].svc \in {"server", "own"}}
Visible(i) == OfType(server, i) \cap Listed(server)

-----------------------------------------------------------------------------
(* Init, and changes by people *)

\* "always" are the ids the server has listed ever x
Idle == [phase |-> "idle", type |-> 1, manifest |-> {}, orphans |-> {}, todo |-> {},
         missing |-> {}, unavailable |-> {}, attempts |-> 0,
         always |-> {}]

Init == /\ server \in InitServer
        /\ local \in InitLocal
        /\ sync = Idle
        /\ changes = 0 /\ failures = 0

Changed == changes < MaxChanges /\ changes' = changes + 1
Failed == failures < MaxFailures /\ failures' = failures + 1

ServerBecomes(db) == server' = db /\ sync' = [sync EXCEPT !.always = @ \cap Listed(db)]

ServerSave(id, row) ==
    /\ id \notin DOMAIN local \/ id \in DOMAIN server   \* an ansible_id is made once
    /\ IF id \in DOMAIN server THEN row.svc = server[id].svc /\ row # server[id]
                               ELSE row.svc \in Owners
    /\ ~row.partial
    /\ Fits(server, id, row)
    /\ Changed
    /\ ServerBecomes(Put(server, id, row))
    /\ UNCHANGED <<local, failures>>
ServerDelete(id) ==
    /\ id \in DOMAIN server /\ Cascade(server, id) \cap Permanent = {}
    /\ Changed
    /\ ServerBecomes(Delete(server, id))
    /\ UNCHANGED <<local, failures>>

\* A resource of the service's own, or a local edit that was not reverse-synced.
LocalSave(id, row) ==
    /\ id \notin DOMAIN server \/ id \in DOMAIN local
    /\ IF id \in DOMAIN local
       THEN row # local[id] /\ row.svc = local[id].svc /\ row.partial = local[id].partial
       ELSE row.svc = "own" /\ ~row.partial
    /\ Fits(local, id, row)
    /\ Changed
    /\ local' = Put(local, id, row)
    /\ UNCHANGED <<server, sync, failures>>
LocalDelete(id) ==
    /\ id \in DOMAIN local
    /\ Changed
    /\ local' = Delete(local, id)
    /\ UNCHANGED <<server, sync, failures>>
\* A creation that reverse sync carries to the server, which becomes its owner.
SharedCreate(id, row) ==
    /\ id \notin DOMAIN server \cup DOMAIN local
    /\ row.svc = "server" /\ ~row.partial /\ Fits(local, id, row) /\ Fits(server, id, row)
    /\ Changed
    /\ ServerBecomes(Put(server, id, row))
    /\ local' = Put(local, id, row)
    /\ UNCHANGED failures

-----------------------------------------------------------------------------
(* The run of the task *)

Item == Id \X (Name \X (Id \cup {NoOrg}))
Manifest(i) == {<<id, Data(server[id])>> : id \in Visible(i)}

StartSync ==
    /\ sync.phase = "idle"
    /\ sync' = [Idle EXCEPT !.phase = "manifest", !.always = Listed(server)]
    /\ UNCHANGED <<server, local, changes, failures>>

\* An exception leaves run(): this type, the later ones and the assignments wait
\* for the next run.
Abort == sync' = Idle /\ UNCHANGED local

NextType(s) == IF s.type < Len(Types)
               THEN [s EXCEPT !.phase = "manifest", !.type = @ + 1]
               ELSE Idle

\* Fault: everything the service owns is kept, what is being migrated included.
OrphansOfOthers(M) == {id \in OfType(local, sync.type) :
                          id \notin {m[1] : m \in M} /\ local[id].svc # "own"}

\* local resources that the manifest does not list; the service's own are kept
\* unless they are being migrated
OrphansOf(M) == {id \in OfType(local, sync.type) :
                    /\ id \notin {m[1] : m \in M}
                    /\ local[id].svc # "own" \/ local[id].partial}

Fetched(M, phase) == [sync EXCEPT !.phase = phase, !.manifest = M,
                                  !.todo = IF phase = "process" THEN M ELSE {}]

\* Fault: orphans are deleted whether or not the manifest is complete.
FetchManifestCleaningAlways ==
    /\ sync.phase = "manifest"
    /\ \/ /\ \/ /\ Manifest(sync.type) # {} /\ UNCHANGED failures
                /\ sync' = Fetched(Manifest(sync.type), "orphans")
             \/ /\ Failed
                /\ \E M \in SUBSET Manifest(sync.type) : sync' = Fetched(M, "orphans")
          /\ UNCHANGED local
       \/ Manifest(sync.type) = {} /\ sync' = NextType(sync) /\ UNCHANGED <<local, failures>>
    /\ UNCHANGED <<server, changes>>

FetchManifest ==
    /\ sync.phase = "manifest"
    /\ \/ /\ Manifest(sync.type) # {}                   \* complete
          /\ sync' = Fetched(Manifest(sync.type), "orphans")
          /\ UNCHANGED <<local, failures>>
       \/ /\ Failed                                     \* cut short: no cleanup
          /\ \E M \in SUBSET Manifest(sync.type) : sync' = Fetched(M, "process")
          /\ UNCHANGED local
       \/ /\ Manifest(sync.type) = {}                   \* 404, ManifestNotFound
          /\ sync' = NextType(sync)
          /\ UNCHANGED <<local, failures>>
       \/ Failed /\ Abort                               \* any other status
    /\ UNCHANGED <<server, changes>>

\* get_orphan_resources asks the service's database as it is by now.
FindOrphans ==
    /\ sync.phase = "orphans"
    /\ sync' = [sync EXCEPT !.phase = "cleanup", !.orphans = OrphansOf(sync.manifest)]
    /\ UNCHANGED <<server, local, changes, failures>>

CleanupOrphan(id) ==
    /\ sync.phase = "cleanup" /\ id \in sync.orphans
    /\ sync' = [sync EXCEPT !.orphans = @ \ {id}]
    /\ \/ id \in DOMAIN local /\ local' = Delete(local, id) /\ UNCHANGED failures
       \/ id \notin DOMAIN local /\ UNCHANGED <<local, failures>>   \* gone by now
       \/ Failed /\ UNCHANGED local             \* logged, the next orphan is tried
    /\ UNCHANGED <<server, changes>>
CleanupDone ==
    /\ sync.phase = "cleanup" /\ sync.orphans = {}
    /\ sync' = [sync EXCEPT !.phase = "process", !.todo = sync.manifest]
    /\ UNCHANGED <<server, local, changes, failures>>

\* What update_resource and create_resource write: the server's data and owner.
Written(db, id, row) ==
    Put(db, id, [row EXCEPT !.partial = IF id \in DOMAIN db THEN db[id].partial ELSE FALSE])

\* _handle_conflict: one with the same unique fields is in the way; it goes if
\* the server does not have it, and is updated first if it has.
Handled(c) == IF c \in DOMAIN server THEN Put(local, c, server[c]) ELSE Delete(local, c)

\* ... and the second attempt.
Resolved(id, c) == Written(Handled(c), id, server[id])

Did(m) == sync' = [sync EXCEPT !.todo = @ \ {m}]

\* resource_sync of one item of the manifest
ProcessItem(m) ==
    LET id  == m[1]
        row == server[id]
        Conflicting == Clashes(local, id, row)
    IN
    /\ sync.phase = "process" /\ m \in sync.todo
    /\ IF id \in DOMAIN local /\ Data(local[id]) = m[2]
       THEN Did(m) /\ UNCHANGED <<local, failures>>                      \* NOOP
       ELSE \/ /\ id \notin DOMAIN server                                \* UNAVAILABLE
               /\ sync' = [sync EXCEPT !.todo = @ \ {m}, !.missing = @ \cup {m}]
               /\ UNCHANGED <<local, failures>>
            \/ /\ Failed                                                 \* 4xx
               /\ sync' = [sync EXCEPT !.todo = @ \ {m}, !.missing = @ \cup {m}]
               /\ UNCHANGED local
            \/ Failed /\ Abort                                           \* 5xx
            \/ id \in DOMAIN server /\ Failed /\ Did(m) /\ UNCHANGED local \* ERROR
            \/ /\ id \in DOMAIN server /\ ~OrgExists(local, row)         \* not caught
               /\ Abort /\ UNCHANGED failures
            \/ /\ id \in DOMAIN server /\ Fits(local, id, row)           \* UPDATED, CREATED
               /\ local' = Written(local, id, row)
               /\ Did(m) /\ UNCHANGED failures
            \/ /\ id \in DOMAIN server /\ OrgExists(local, row)
               /\ \E c \in Conflicting :
                     IF c \in DOMAIN server /\ ~OrgExists(local, server[c])
                     THEN Abort
                     ELSE IF c \in DOMAIN server /\ Clashes(local, c, server[c]) # {}
                     THEN Did(m) /\ UNCHANGED local                      \* CONFLICT
                     ELSE Did(m) /\ local' = Resolved(id, c)
               /\ UNCHANGED failures
            \/ /\ id \in DOMAIN server /\ OrgExists(local, row)          \* CONFLICT, half done
               /\ \E c \in Conflicting :
                     /\ c \in DOMAIN server => Fits(local, c, server[c])
                     /\ Failed /\ Did(m) /\ local' = Handled(c)
    /\ UNCHANGED <<server, changes>>

\* _report_results, then _handle_retries: the attempts of a run are shared by
\* all types.
Unavailable == (sync.unavailable \ sync.manifest) \cup sync.missing
ListDone ==
    /\ sync.phase = "process" /\ sync.todo = {}
    /\ LET s == [sync EXCEPT !.unavailable = Unavailable, !.missing = {}, !.manifest = {}]
       IN  sync' = IF Unavailable # {} /\ sync.attempts < Retries
                   THEN [s EXCEPT !.todo = Unavailable, !.manifest = Unavailable,
                                  !.attempts = @ + 1]
                   ELSE NextType(s)
    /\ UNCHANGED <<server, local, changes, failures>>

SyncStep == \/ StartSync \/ FetchManifest \/ FindOrphans \/ CleanupDone \/ ListDone
            \/ \E id \in Id : CleanupOrphan(id)
            \/ \E m \in sync.todo : ProcessItem(m)

Next == \/ \E id \in Id, row \in Row : \/ ServerSave(id, row) \/ LocalSave(id, row)
                                       \/ SharedCreate(id, row)
        \/ \E id \in Id : ServerDelete(id) \/ LocalDelete(id)
        \/ SyncStep

Spec == Init /\ [][Next]_vars

\* The task is scheduled again and again and each of its steps ends.
FairSpec == Spec /\ WF_vars(SyncStep)

-----------------------------------------------------------------------------
(* Properties *)

\* Types of the variables; both databases keep their unique and foreign keys.
TypeOK ==
    /\ \A db \in {server, local} :
          /\ DOMAIN db \subseteq Id
          /\ \A id \in DOMAIN db : db[id] \in Row /\ Fits(db, id, db[id])
    /\ sync.phase \in {"idle", "manifest", "orphans", "cleanup", "process"}
    /\ sync.type \in DOMAIN Types
    /\ {sync.manifest, sync.todo, sync.missing, sync.unavailable} \subseteq SUBSET Item
    /\ {sync.orphans, sync.always} \subseteq SUBSET Id
    /\ sync.attempts \in 0 .. Retries
    /\ changes \in 0 .. MaxChanges /\ failures \in 0 .. MaxFailures

\* A run chooses for deletion no resource that the server has listed since
\* it began, whatever manifest came incomplete and whatever conflicts it meets.
Removed == DOMAIN local \ DOMAIN local'
DeletesOnlyGone ==
    [][SyncStep => \A id \in Removed : local[id].org \notin Removed => id \notin sync.always]_vars

\* Resources that hold each other's names in a ring, and what waits for one of
\* them: what the server calls each, another of them is called here.  The
\* conflict handler can update neither first: "there is really no recovery"
\* (_handle_conflict, of a swap).
Blocks(j, i) == /\ {i, j} \subseteq DOMAIN server \cap DOMAIN local
                /\ j \in Clashes(local, i, server[i])
Stuck == UNION {S \in SUBSET Id : \A i \in S : \E j \in S : Blocks(j, i)}

\* The service has what the server lists, but for rings, and of the rest only
\* its own.
InSync ==
    \A i \in DOMAIN Types :
       /\ \A id \in Visible(i) \ Stuck : id \in DOMAIN local /\ Data(local[id]) = Data(server[id])
       /\ \A id \in Visible(i) : id \in DOMAIN local
       /\ \A id \in OfType(local, i) \ Visible(i) : local[id].svc = "own" /\ ~local[id].partial

\* Once changes and failures stop, the runs bring the service to the server's
\* state for good: orphans found by an older manifest, conflicts, a chain of
\* renames, moves and cascades included.  A swap, or a longer ring, of names is
\* not: it stays in conflict until somebody renames one of them by hand.
EventuallyInSync == <>[]InSync
=============================================================================

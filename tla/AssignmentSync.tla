----------------------------- MODULE AssignmentSync -----------------------------
(***************************************************************************)
(* A service keeps its role assignments equal to those of the resource     *)
(* server.  A local change is committed, then sent to the server (reverse  *)
(* sync); a periodic task pages through the server's lists, reads the      *)
(* local ones and applies the difference.  Nothing locks either side: all  *)
(* of this interleaves with changes made at both ends.                     *)
(*                                                                         *)
(* An assignment (actor, object, role definition) is a value of Asg.  The  *)
(* server lists assignments by ascending id, users' and teams' apart.      *)
(***************************************************************************)
EXTENDS Naturals, Sequences, FiniteSets, SequencesExt

CONSTANTS Asg,           \* assignments
          TeamAsg,       \* those whose actor is a team
          UnknownRole,   \* those of a role definition the service does not have
          NoResource,    \* those whose actor has no Resource on the service
          PageSize,      \* RESOURCE_SYNC_PAGE_SIZE
          Revocable,     \* assignments that people take away
          MaxChanges,    \* bound on changes made by people
          MaxFailures    \* bound on failing calls

ASSUME AssignmentSyncAssumption ==
    /\ IsFiniteSet(Asg)
    /\ {TeamAsg, UnknownRole, NoResource, Revocable} \subseteq SUBSET Asg
    /\ PageSize \in Nat \ {0}
    /\ {MaxChanges, MaxFailures} \subseteq Nat

VARIABLES server,    \* the server's assignments in id order, users' and teams'
          local,     \* the service's assignments
          calls,     \* reverse-sync requests in flight
          sync,      \* the periodic task
          changes, failures

vars == <<server, local, calls, sync, changes, failures>>

Op == {"assign", "unassign"}
Kind == {"user", "team"}
KindOf(a) == IF a \in TeamAsg THEN "team" ELSE "user"

\* "always" and "ever" record which assignments the server had at every and at
\* some moment since the run of the task began, "jumped" those that a change
\* moved to a page already read; the code has no such variables.
Idle == [phase |-> "idle", kind |-> "user", page |-> 1, fetched |-> {}, complete |-> FALSE,
         toDelete |-> {}, toCreate |-> {}, always |-> {}, ever |-> {}, jumped |-> {}]

Listed(s) == UNION {ToSet(s[k]) : k \in Kind}
OnServer == Listed(server)

\* Pages are asked for by number: the page begins after "Offset" rows.
Offset == (sync.page - 1) * PageSize
Before(s) == {s[sync.kind][i] : i \in {j \in DOMAIN s[sync.kind] : j <= Offset}}

Observe(s) == [sync EXCEPT !.always = @ \cap Listed(s), !.ever = @ \cup Listed(s),
                           !.jumped = @ \cup IF sync.phase = "fetch"
                                             THEN Before(s) \ Before(server) ELSE {}]

Init == /\ server \in [Kind -> UNION {SetToSeqs(S) : S \in SUBSET Asg}]
        /\ \A k \in Kind : \A a \in ToSet(server[k]) : KindOf(a) = k
        /\ local \in SUBSET (Asg \ UnknownRole)
        /\ calls = {}
        /\ sync = Idle
        /\ changes = 0 /\ failures = 0

-----------------------------------------------------------------------------
(* Changes by people, and the requests that carry local ones to the server *)

Changed == changes < MaxChanges /\ changes' = changes + 1
Failed == failures < MaxFailures /\ failures' = failures + 1

Assigned(s, a) == IF a \in Listed(s) THEN s ELSE [s EXCEPT ![KindOf(a)] = Append(@, a)]

Place(s, a) == CHOOSE i \in DOMAIN s[KindOf(a)] : s[KindOf(a)][i] = a
Unassigned(s, a) == IF a \in Listed(s) THEN [s EXCEPT ![KindOf(a)] = RemoveAt(@, Place(s, a))] ELSE s

SetServer(s) == server' = s /\ sync' = Observe(s)

\* _assign and _unassign: an existing (missing) assignment is left alone
ServerAssign(a) ==
    /\ a \notin OnServer
    /\ Changed
    /\ SetServer(Assigned(server, a))
    /\ UNCHANGED <<local, calls, failures>>
ServerUnassign(a) ==
    /\ a \in OnServer \cap Revocable
    /\ Changed
    /\ SetServer(Unassigned(server, a))
    /\ UNCHANGED <<local, calls, failures>>

\* perform_create and perform_destroy commit, then call the server
LocalAssign(a) ==
    /\ a \notin local \cup UnknownRole
    /\ Changed
    /\ local' = local \cup {a}
    /\ calls' = calls \cup {<<"assign", a>>}
    /\ UNCHANGED <<server, sync, failures>>
LocalUnassign(a) ==
    /\ a \in local \cap Revocable
    /\ Changed
    /\ local' = local \ {a}
    /\ calls' = calls \cup {<<"unassign", a>>}
    /\ UNCHANGED <<server, sync, failures>>

Deliver(c) ==
    /\ c \in calls
    /\ calls' = calls \ {c}
    /\ SetServer(IF c[1] = "assign" THEN Assigned(server, c[2]) ELSE Unassigned(server, c[2]))
    /\ UNCHANGED <<local, changes, failures>>
\* The caller sees an error; the local change stays.
CallFails(c) ==
    /\ c \in calls
    /\ Failed
    /\ calls' = calls \ {c}
    /\ UNCHANGED <<server, local, sync, changes>>

-----------------------------------------------------------------------------
(* The periodic task *)

Rows == server[sync.kind]
Page == {Rows[i] : i \in {j \in DOMAIN Rows : Offset < j /\ j <= Offset + PageSize}}
HasNext == Offset + PageSize < Len(Rows)
NoSuchPage == sync.page > 1 /\ Offset >= Len(Rows)

StartSync ==
    /\ sync.phase = "idle"
    /\ sync' = [Idle EXCEPT !.phase = "fetch", !.always = OnServer, !.ever = OnServer]
    /\ UNCHANGED <<server, local, calls, changes, failures>>

\* users first, then teams; assignments of unknown role definitions are skipped
FetchPage ==
    /\ sync.phase = "fetch" /\ ~NoSuchPage
    /\ LET s == [sync EXCEPT !.fetched = @ \cup (Page \ UnknownRole)]
       IN  sync' = CASE HasNext -> [s EXCEPT !.page = @ + 1]
                     [] ~HasNext /\ s.kind = "user" -> [s EXCEPT !.kind = "team", !.page = 1]
                     [] OTHER -> [s EXCEPT !.phase = "compare", !.complete = TRUE]
    /\ UNCHANGED <<server, local, calls, changes, failures>>

\* Any failed request ends the fetch: with users missing, teams are not asked for.
FetchStops == sync' = [sync EXCEPT !.phase = "compare", !.complete = FALSE]
FetchFails ==
    /\ sync.phase = "fetch"
    /\ \/ NoSuchPage /\ UNCHANGED failures
       \/ Failed
    /\ FetchStops
    /\ UNCHANGED <<server, local, calls, changes>>

\* get_local_assignments skips the actors without a Resource
LocalAssignments == local \ NoResource

\* Fault: the result of a failed fetch is used like a complete one.
CompareIgnoringCompleteness ==
    /\ sync.phase = "compare"
    /\ sync' = [sync EXCEPT !.phase = "apply",
                            !.toDelete = LocalAssignments \ sync.fetched,
                            !.toCreate = sync.fetched \ LocalAssignments]
    /\ UNCHANGED <<server, local, calls, changes, failures>>

\* Fault: assignments are only ever created.
CompareWithoutDeletions ==
    /\ sync.phase = "compare"
    /\ sync' = [sync EXCEPT !.phase = "apply", !.toCreate = sync.fetched \ LocalAssignments]
    /\ UNCHANGED <<server, local, calls, changes, failures>>

\* Nothing is deleted on the strength of an incomplete fetch.
Compare ==
    /\ sync.phase = "compare"
    /\ sync' = [sync EXCEPT !.phase = "apply",
                            !.toDelete = IF sync.complete THEN LocalAssignments \ sync.fetched ELSE {},
                            !.toCreate = sync.fetched \ LocalAssignments]
    /\ UNCHANGED <<server, local, calls, changes, failures>>

\* Reading them fails: the task logs it and ends (sync.py:669-671).
CompareFails ==
    /\ sync.phase = "compare"
    /\ Failed
    /\ sync' = Idle
    /\ UNCHANGED <<server, local, calls, changes>>

\* remove_permission of an assignment that is gone is not an error
DeleteLocalAssignment(a) ==
    /\ sync.phase = "apply" /\ a \in sync.toDelete
    /\ \/ local' = local \ {a} /\ UNCHANGED failures
       \/ Failed /\ UNCHANGED local
    /\ sync' = [sync EXCEPT !.toDelete = @ \ {a}]
    /\ UNCHANGED <<server, calls, changes>>

CreateLocalAssignment(a) ==
    /\ sync.phase = "apply" /\ sync.toDelete = {} /\ a \in sync.toCreate
    /\ \/ a \notin NoResource /\ local' = local \cup {a} /\ UNCHANGED failures
       \/ a \in NoResource /\ UNCHANGED <<local, failures>>
       \/ Failed /\ UNCHANGED local
    /\ sync' = [sync EXCEPT !.toCreate = @ \ {a}]
    /\ UNCHANGED <<server, calls, changes>>

FinishSync ==
    /\ sync.phase = "apply" /\ sync.toDelete \cup sync.toCreate = {}
    /\ sync' = Idle
    /\ UNCHANGED <<server, local, calls, changes, failures>>

SyncStep == \/ StartSync \/ FetchPage \/ FetchFails \/ Compare \/ CompareFails \/ FinishSync
            \/ \E a \in Asg : DeleteLocalAssignment(a) \/ CreateLocalAssignment(a)
Answer == \E c \in calls : Deliver(c) \/ CallFails(c)

Next == \/ \E a \in Asg : \/ ServerAssign(a) \/ ServerUnassign(a)
                          \/ LocalAssign(a) \/ LocalUnassign(a)
        \/ Answer
        \/ SyncStep

Spec == Init /\ [][Next]_vars

\* The scheduler runs the task again and again, and a request is answered or
\* times out.
Fairness == WF_vars(SyncStep) /\ WF_vars(Answer)
FairSpec == Spec /\ Fairness

-----------------------------------------------------------------------------
(* Properties *)

TaskStates == [phase : {"idle", "fetch", "compare", "apply"}, kind : Kind,
               page : Nat \ {0}, complete : BOOLEAN, fetched : SUBSET (Asg \ UnknownRole),
               toDelete : SUBSET (Asg \ NoResource), toCreate : SUBSET (Asg \ UnknownRole),
               always : SUBSET Asg, ever : SUBSET Asg, jumped : SUBSET Asg]

\* Types of the variables; the server's lists have no duplicates (unique rows).
TypeOK ==
    /\ server \in [Kind -> Seq(Asg)]
    /\ \A k \in Kind : IsInjective(server[k]) /\ \A a \in ToSet(server[k]) : KindOf(a) = k
    /\ local \subseteq Asg \ UnknownRole
    /\ calls \subseteq Op \X Asg
    /\ sync \in TaskStates
    /\ changes \in 0 .. MaxChanges /\ failures \in 0 .. MaxFailures

\* The task deletes no assignment that the server had from the task's start on
\* (sync.py:647-649 forbids deleting "assignments that simply weren't fetched"),
\* except one that moved from a page not yet read to one already read.
DeletionsJustified == sync.toDelete \cap sync.always \subseteq sync.jumped

\* The task creates only assignments that the server had at some moment since
\* the task's start.
CreationsJustified == sync.toCreate \subseteq sync.ever

\* A task changes nothing here that the server did not have, or lack, meanwhile.
ChangesJustified == TypeOK /\ DeletionsJustified /\ CreationsJustified

\* What the task cannot tell apart from the server's assignments.
Mirrored == local \ NoResource = OnServer \ (UnknownRole \cup NoResource)

\* Once people stop changing assignments and calls stop failing, the service has
\* the server's assignments for good, whatever was lost, reordered or undone
\* before.
EventuallyMirrored == <>[]Mirrored

=============================================================================

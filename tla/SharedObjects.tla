----------------------------- MODULE SharedObjects -----------------------------
(***************************************************************************)
(* What one call of save() or delete() on a shared, audited object does:   *)
(* the row, the Resource row that gives it its ansible_id, the copy on the *)
(* resource server and the activity stream.  The objects are users; a      *)
(* process is a request at work with one instance of one of them in        *)
(* memory.  The request to the server is made inside the transaction of    *)
(* the save, and cannot be taken back when that is rolled back.            *)
(***************************************************************************)
EXTENDS Naturals, FiniteSets

CONSTANTS Processes, Objects, Groups,
          Ids,              \* the ansible_ids uuid4 gives, one after the other
          Usernames, Emails,
          None, Nobody,
          Excluded, Limit,  \* activity_stream_excluded_field_names, activity_stream_limit_field_names
          MaxWork,          \* bound: saves, deletions and changes of groups begun
          MaxFaults         \* bound: answers lost, transactions and processes that fail

Fields == {"username", "email", "last_login", "modified_by"}
Synced == {"username", "email"}
Logged == IF Limit = {} THEN Fields \ Excluded ELSE Limit \ Excluded
Rows   == [username : Usernames, email : Emails, last_login : BOOLEAN, modified_by : Processes \cup {Nobody}]

(* What a full save passes as update_fields: nothing, or the fields it names. *)
SaveFields == {None, {"last_login"}, {"email"}, {"username", "email"}, {}}

Views     == [username : Usernames, email : Emails]
Resources == [aid : Ids, name : Usernames, owner : {"here", "server"}]
Instances == [o : Objects, row : Rows, skip : BOOLEAN, pk : BOOLEAN]

(* What is logged is some of the fields, and None is a value of its own. *)
ASSUME SharedAssumption ==
  /\ Limit \subseteq Fields /\ Ids # {}
  /\ None \notin Rows \cup Views \cup Resources \cup Instances \cup Ids
  /\ \A fields \in SUBSET Fields : fields # None
  /\ \A row \in Rows : [f \in Logged |-> row[f]] # None

VARIABLES rows,       \* the committed row of each object
          groups,     \* its many-to-many relation
          registered, \* its Resource row
          server,     \* what the resource server keeps under each ansible_id
          told,       \* the row a reader of the activity stream pieces together
          toldGroups, \* ... and the groups
          held,       \* the instance each process has in memory
          doing,      \* the call each process is in
          used,       \* primary keys given
          issued,     \* ansible_ids given
          apart,      \* history: ansible_ids the server was left wrong about, for a cause named below
          mistold,    \* history: objects the stream was left wrong about
          astray,     \* history: objects the Resource row of which was left wrong
          work, faults
vars == <<rows, groups, registered, server, told, toldGroups, held, doing, used, issued, apart, mistold, astray, work, faults>>

Idle == [at |-> "idle"]
View(row)  == IF row = None THEN None ELSE [f \in Synced |-> row[f]]
Merge(row, new, S) == [f \in Fields |-> IF f \in S THEN new[f] ELSE row[f]]

(* The rows somebody has written and not committed: nobody else can write them. *)
Locked(o) == \E p \in Processes : doing[p].at = "saved" /\ doing[p].o = o
(* Two rows with one username: the second waits for the first to commit, then fails. *)
Waits(o, row)  == \E p \in Processes : doing[p].at = "saved" /\ doing[p].o # o /\ doing[p].row.username = row.username
Clashes(o, row) == \E x \in Objects \ {o} : rows[x] # None /\ rows[x].username = row.username
NewId == CHOOSE a \in Ids : a \notin issued

(***************************************************************************)
(* The resource server                                                     *)
(***************************************************************************)
ServerTakes(action, a, data) ==
  LET free == \A b \in Ids \ {a} : server[b] # None => server[b].username # data.username
  IN  CASE action = "create" -> server[a] = None /\ free
        [] action = "update" -> server[a] # None /\ free
        [] action = "delete" -> server[a] # None

ServerAfter(action, a, data) ==
  [server EXCEPT ![a] = IF action = "delete" THEN None ELSE data]

(***************************************************************************)
(* Before the write                                                        *)
(***************************************************************************)
(* ModifiableModel.save *)
WithModifiedBy(p, fields) ==
  IF fields = None THEN Fields
  ELSE IF fields = {"last_login"} \/ fields = {} THEN fields
  ELSE fields \cup {"modified_by"}

(* The fields an update is compared on, or None for no entry. *)
GetLimit(fields) ==
  IF fields = None THEN IF Limit = {} THEN Fields ELSE Limit
  ELSE IF Limit = {} THEN IF fields = {} THEN None ELSE fields
  ELSE IF Limit \cap fields = {} THEN None ELSE Limit \cap fields

(* The fields of the entry of an update. *)
Changes(old, new, fields) ==
  LET limit == GetLimit(fields)
  IN  IF old = None \/ limit = None THEN {} ELSE {f \in limit \ Excluded : old[f] # new[f]}

(* A bug: a full save, that names no fields, is taken to change none. *)
SkipsFullSaves(o, old, new, fields) ==
  registered[o] # None /\ old # None /\ (fields = None \/ fields \cap Synced = {})

(* decide_to_sync_update: the flag it leaves on the instance *)
Skips(o, old, new, fields) ==
  LET changed == IF fields = None THEN {f \in Synced : old[f] # new[f]} ELSE fields
  IN  registered[o] # None /\ old # None /\ changed \cap Synced = {}

Charge == work < MaxWork /\ work' = work + 1
Free(p) == doing[p] = Idle

Load(p, o) ==
  /\ Free(p) /\ held[p] = None /\ rows[o] # None
  /\ held' = [held EXCEPT ![p] = [o |-> o, row |-> rows[o], skip |-> FALSE, pk |-> TRUE]]
  /\ UNCHANGED <<rows, groups, registered, server, told, toldGroups, doing, used, issued, apart, mistold, astray, work, faults>>

New(p, o, u, e) ==
  /\ Free(p) /\ held[p] = None /\ o \notin used
  /\ used' = used \cup {o}
  /\ held' = [held EXCEPT ![p] =
       [o |-> o, row |-> [username |-> u, email |-> e, last_login |-> FALSE, modified_by |-> Nobody],
        skip |-> FALSE, pk |-> FALSE]]
  /\ UNCHANGED <<rows, groups, registered, server, told, toldGroups, doing, issued, apart, mistold, astray, work, faults>>

Forget(p) ==
  /\ Free(p) /\ held[p] # None
  /\ held' = [held EXCEPT ![p] = None]
  /\ UNCHANGED <<rows, groups, registered, server, told, toldGroups, doing, used, issued, apart, mistold, astray, work, faults>>

(* What the caller sets on the instance before it calls save(). *)
Edits(row) == {row} \cup {[row EXCEPT !.username = u] : u \in Usernames} \cup {[row EXCEPT !.email = e] : e \in Emails}
                    \cup {[row EXCEPT !.last_login = TRUE]}

(* save(): modified_by, then pre_save, which reads the row without locking it;  *)
(* where a deletion left the Resource, the row it looks for does not exist.    *)
BeginSave(p, row, fields) ==
  /\ Free(p) /\ Charge
  /\ rows[held[p].o] = None => fields = None /\ registered[held[p].o] = None
  /\ LET o       == held[p].o
         written == WithModifiedBy(p, fields)
         new     == IF "modified_by" \in written THEN [row EXCEPT !.modified_by = p] ELSE row
         update  == IF fields = None THEN None ELSE written
     IN  IF written = {}
         THEN /\ held' = [held EXCEPT ![p].row = row]
              /\ UNCHANGED doing
         ELSE /\ held' = [held EXCEPT ![p].row = new,
                                      ![p].skip = held[p].skip \/ Skips(o, rows[o], new, update)]
              /\ doing' = [doing EXCEPT ![p] =
                   [at |-> "save", o |-> o, fields |-> update, seen |-> rows[o], flagged |-> held[p].skip,
                    entry |-> Changes(rows[o], new, update)]]
  /\ UNCHANGED <<rows, groups, registered, server, told, toldGroups, used, issued, apart, mistold, astray, faults>>

(***************************************************************************)
(* The write and what post_save does                                       *)
(***************************************************************************)
RowAfter(d, inst) ==
  IF rows[d.o] = None \/ d.fields = None THEN inst ELSE Merge(rows[d.o], inst, d.fields)

(* The database refuses: a partial save of a row that is gone, a username taken. *)
Impossible(d, inst) == (rows[d.o] = None /\ d.fields # None) \/ Clashes(d.o, RowAfter(d, inst))

init_resource_from_object(row) == [aid |-> NewId, name |-> row.username, owner |-> "here"]

(* A bug: the name is set when the Resource row is made, and never again. *)
KeepName(o, row) == registered[o]
update_from_content_object(o, row) == [registered[o] EXCEPT !.name = row.username]

(* update_resource *)
ResourceAfter(o, row) ==
  IF registered[o] = None THEN init_resource_from_object(row) ELSE update_from_content_object(o, row)

(* sync_to_resource_server_post_save, should_skip_reverse_sync *)
Action(p, o, res) ==
  IF held[p].skip THEN "none"
  ELSE IF rows[o] = None THEN "create"
  ELSE IF res.owner = "here" THEN "none" ELSE "update"

(* The service_id the answer of a create brings. *)
Answered(action, res) == IF action = "create" THEN [res EXCEPT !.owner = "server"] ELSE res

Fault == faults < MaxFaults /\ faults' = faults + 1

(* The causes for which the server is left wrong by a save that ends well: the *)
(* instance was flagged by an earlier save; the row was changed between the    *)
(* comparison and the write; the data sent held a field that was not written.  *)
Unsent(d)        == d.flagged \/ d.seen # d.was
SentUnsaved(d)   == View(d.data) # View(d.row)
ApartAfter(d) ==
  CASE d.action = "none" ->
         IF d.res.owner = "server" /\ Unsent(d) /\ View(d.row) # View(d.was) THEN apart \cup {d.res.aid} ELSE apart
    [] d.action # "none" /\ SentUnsaved(d) /\ d.fields # None -> apart \cup {d.res.aid}
    [] OTHER -> apart

Write(p) ==
  /\ doing[p].at = "save"
  /\ LET d    == doing[p]
         inst == held[p].row
         new  == RowAfter(d, inst)
         res  == ResourceAfter(d.o, new)
         act  == Action(p, d.o, res)
         Raised == doing' = [doing EXCEPT ![p] = Idle]
         Sent   == held' = [held EXCEPT ![p].pk = TRUE]
     IN  /\ ~Locked(d.o) /\ ~Waits(d.o, new)
         /\ \/ /\ Impossible(d, inst)
               /\ Raised
               /\ UNCHANGED <<held, server, issued, apart, faults>>
            \/ /\ ~Impossible(d, inst) /\ (registered[d.o] = None => issued # Ids)
               /\ issued' = issued \cup {res.aid} /\ Sent
               /\ \/ /\ act # "none" => ServerTakes(act, res.aid, View(inst))
                     /\ server' = IF act = "none" THEN server ELSE ServerAfter(act, res.aid, View(inst))
                     /\ doing' = [doing EXCEPT ![p] =
                          [at |-> "saved", o |-> d.o, fields |-> d.fields, row |-> new, res |-> Answered(act, res),
                           action |-> act, data |-> inst, was |-> rows[d.o], seen |-> d.seen, flagged |-> d.flagged,
                           entry |-> d.entry]]
                     /\ apart' = IF act = "none" THEN apart ELSE apart \ {res.aid}
                     /\ UNCHANGED faults
                  \/ /\ act # "none"   \* refused, or never reached the server
                     /\ IF ServerTakes(act, res.aid, View(inst)) THEN Fault ELSE UNCHANGED faults
                     /\ Raised
                     /\ UNCHANGED <<server, apart>>
                  \/ /\ act # "none" /\ ServerTakes(act, res.aid, View(inst)) /\ Fault   \* the answer is lost
                     /\ server' = ServerAfter(act, res.aid, View(inst))
                     /\ Raised
                     /\ apart' = apart \cup {res.aid}
  /\ UNCHANGED <<rows, groups, registered, told, toldGroups, used, mistold, astray, work>>

(* What the entries of the save add to the story. *)
ToldAfter(d) ==
  IF d.was = None THEN [f \in Logged |-> d.row[f]]
  ELSE IF told[d.o] = None THEN None
  ELSE [f \in Logged |-> IF f \in d.entry THEN d.data[f] ELSE told[d.o][f]]

Overtaken(d) ==
  \E f \in IF d.fields = None THEN Fields ELSE d.fields :
     d.was # None /\ (d.seen # None => d.was[f] # d.seen[f])

Commit(p) ==
  /\ doing[p].at = "saved"
  /\ LET d == doing[p]
     IN  /\ rows' = [rows EXCEPT ![d.o] = d.row]
         /\ registered' = [registered EXCEPT ![d.o] = d.res]
         /\ told' = [told EXCEPT ![d.o] = ToldAfter(d)]
         /\ apart' = ApartAfter(d)
         /\ mistold' = IF Overtaken(d) THEN mistold \cup {d.o} ELSE mistold
         /\ astray' = astray \ {d.o}
  /\ doing' = [doing EXCEPT ![p] = Idle]
  /\ UNCHANGED <<groups, server, toldGroups, held, used, issued, work, faults>>

(* The transaction the save is part of is rolled back, by an error or by the end of the process. *)
Rollback(p) ==
  /\ doing[p].at = "saved" /\ Fault
  /\ doing' = [doing EXCEPT ![p] = Idle]
  /\ apart' = IF doing[p].action = "none" THEN apart ELSE apart \cup {doing[p].res.aid}
  /\ UNCHANGED <<rows, groups, registered, server, told, toldGroups, held, used, issued, mistold, astray, work>>

(***************************************************************************)
(* Deletion, and the two deferrals around it                               *)
(***************************************************************************)
(* delete(): the entry is made and the request sent before the row is touched. *)
BeginDelete(p, deferring) ==
  /\ Free(p) /\ held[p] # None /\ held[p].pk /\ Charge
  /\ LET o   == held[p].o
         aid == IF registered[o] = None \/ held[p].skip THEN None ELSE registered[o].aid
         Deleting == doing' = [doing EXCEPT ![p] = [at |-> "delete", o |-> o, aid |-> aid, deferring |-> deferring]]
         \* the exception leaves the blocks: the entry made so far is written all the same
         Raised == doing' = [doing EXCEPT ![p] = IF deferring THEN [at |-> "entries", o |-> o, done |-> FALSE] ELSE Idle]
     IN  \/ /\ aid = None /\ Deleting
            /\ UNCHANGED <<server, apart, faults>>
         \/ /\ aid # None /\ ServerTakes("delete", aid, None) /\ Deleting
            /\ server' = ServerAfter("delete", aid, None)
            /\ apart' = apart \ {aid}
            /\ UNCHANGED faults
         \/ /\ aid # None /\ Raised
            /\ IF ServerTakes("delete", aid, None) THEN Fault ELSE UNCHANGED faults
            /\ UNCHANGED <<server, apart>>
         \/ /\ aid # None /\ ServerTakes("delete", aid, None) /\ Raised /\ Fault
            /\ server' = ServerAfter("delete", aid, None)
            /\ apart' = apart \cup {aid}
  /\ UNCHANGED <<rows, groups, registered, told, toldGroups, held, used, issued, mistold, astray>>

(* The deletion did not ask the server: the instance was flagged by an earlier save, or  *)
(* the row was deleted and inserted again under another ansible_id in the meantime.      *)
ApartDeleted(p, d) ==
  LET r == registered[d.o]
      unasked == r # None /\ r.owner = "server" /\ r.aid # d.aid /\ (held[p].skip \/ d.aid # None \/ rows[d.o] # None)
      \* it asked, and the row has been inserted again and the server been told since
      overtaken == d.aid # None /\ server[d.aid] # None
  IN  apart \cup (IF unasked THEN {r.aid} ELSE {}) \cup (IF overtaken THEN {d.aid} ELSE {})

(* The rows go, post_delete, and the commit. *)
FinishDelete(p) ==
  /\ doing[p].at = "delete" /\ ~Locked(doing[p].o)
  /\ LET d == doing[p]
     IN  /\ rows' = [rows EXCEPT ![d.o] = None]
         /\ groups' = [groups EXCEPT ![d.o] = {}]
         /\ apart' = ApartDeleted(p, d)
         /\ IF d.deferring
            THEN /\ doing' = [doing EXCEPT ![p] = [at |-> "cleanup", o |-> d.o, done |-> TRUE]]
                 /\ UNCHANGED <<registered, told, toldGroups, mistold, astray>>
            ELSE /\ doing' = [doing EXCEPT ![p] = Idle]
                 /\ registered' = [registered EXCEPT ![d.o] = None]
                 /\ told' = [told EXCEPT ![d.o] = None]
                 /\ toldGroups' = [toldGroups EXCEPT ![d.o] = {}]
                 /\ mistold' = mistold \ {d.o}
                 /\ astray' = astray \ {d.o}
  /\ held' = [held EXCEPT ![p] = None]
  /\ UNCHANGED <<server, used, issued, work, faults>>

(* The deletion fails, before post_delete or after it, and what was deferred is flushed. *)
RollbackDelete(p, late) ==
  /\ doing[p].at = "delete" /\ Fault
  /\ LET d == doing[p]
     IN  /\ doing' = [doing EXCEPT ![p] =
               IF ~d.deferring THEN Idle ELSE [at |-> IF late THEN "cleanup" ELSE "entries", o |-> d.o, done |-> FALSE]]
         /\ apart' = IF d.aid = None THEN apart ELSE apart \cup {d.aid}
  /\ UNCHANGED <<rows, groups, registered, server, told, toldGroups, held, used, issued, mistold, astray, work>>

(* _flush_pending_resources: by content type and primary key, whatever is there by now *)
FlushCleanup(p) ==
  /\ doing[p].at = "cleanup"
  /\ LET o == doing[p].o
     IN  /\ registered' = [registered EXCEPT ![o] = None]
         /\ astray' = IF rows[o] = None THEN astray \ {o} ELSE astray \cup {o}
         /\ apart' = IF rows[o] # None /\ registered[o] # None THEN apart \cup {registered[o].aid} ELSE apart
         /\ doing' = [doing EXCEPT ![p].at = "entries"]
  /\ UNCHANGED <<rows, groups, server, told, toldGroups, held, used, issued, mistold, work, faults>>

(* _flush_deferred_activity_stream *)
FlushEntries(p) ==
  /\ doing[p].at = "entries"
  /\ LET o == doing[p].o
     IN  /\ told' = [told EXCEPT ![o] = None]
         /\ toldGroups' = [toldGroups EXCEPT ![o] = {}]
         /\ mistold' = IF rows[o] = None THEN mistold \ {o} ELSE mistold \cup {o}
  /\ doing' = [doing EXCEPT ![p] = Idle]
  /\ UNCHANGED <<rows, groups, registered, server, held, used, issued, apart, astray, work, faults>>

(* The process ends between the commit of the deletion and the flush. *)
CrashBeforeFlush(p) ==
  /\ doing[p].at \in {"cleanup", "entries"} /\ Fault
  /\ LET o == doing[p].o
         done == doing[p].done
     IN  /\ astray' = IF done /\ doing[p].at = "cleanup" THEN astray \cup {o} ELSE astray
         /\ mistold' = IF done THEN mistold \cup {o} ELSE mistold
  /\ doing' = [doing EXCEPT ![p] = Idle]
  /\ held' = [held EXCEPT ![p] = None]
  /\ UNCHANGED <<rows, groups, registered, server, told, toldGroups, used, issued, apart, work>>

(***************************************************************************)
(* Many-to-many relations                                                  *)
(***************************************************************************)
OnRow(p) == Free(p) /\ held[p] # None /\ rows[held[p].o] # None

(* add(): post_add names the groups that were missing. *)
Associate(p, g) ==
  /\ OnRow(p) /\ Charge
  /\ groups' = [groups EXCEPT ![held[p].o] = @ \cup {g}]
  /\ toldGroups' = [toldGroups EXCEPT ![held[p].o] = @ \cup ({g} \ groups[held[p].o])]
  /\ UNCHANGED <<rows, registered, server, told, held, doing, used, issued, apart, mistold, astray, faults>>

(* remove(): post_remove names the groups asked for. *)
Disassociate(p, g) ==
  /\ OnRow(p) /\ Charge
  /\ groups' = [groups EXCEPT ![held[p].o] = @ \ {g}]
  /\ toldGroups' = [toldGroups EXCEPT ![held[p].o] = @ \ {g}]
  /\ UNCHANGED <<rows, registered, server, told, held, doing, used, issued, apart, mistold, astray, faults>>

(* A bug: post_clear, when they are gone. *)
ClearedLate(o) == {}

(* clear(): pre_clear reads the groups, and whatever is there is deleted then. *)
Cleared(o) == groups[o]

BeginClear(p) ==
  /\ OnRow(p) /\ Charge
  /\ LET o == held[p].o
     IN  doing' = [doing EXCEPT ![p] = [at |-> "clear", o |-> o, entry |-> Cleared(o), was |-> groups[o]]]
  /\ UNCHANGED <<rows, groups, registered, server, told, toldGroups, held, used, issued, apart, mistold, astray, faults>>

FinishClear(p) ==
  /\ doing[p].at = "clear"
  /\ LET d == doing[p]
     IN  /\ groups' = [groups EXCEPT ![d.o] = {}]
         /\ toldGroups' = [toldGroups EXCEPT ![d.o] = @ \ d.entry]
         /\ mistold' = IF groups[d.o] \subseteq d.was THEN mistold ELSE mistold \cup {d.o}
  /\ doing' = [doing EXCEPT ![p] = Idle]
  /\ UNCHANGED <<rows, registered, server, told, held, used, issued, apart, astray, work, faults>>

(***************************************************************************)
(* The specification                                                       *)
(***************************************************************************)
(* Existing objects are owned by the server and known to it, or by this service and not. *)
InitWith(first, owner) ==
  LET row(o) == IF o \in DOMAIN first THEN first[o] ELSE None
      aid(o) == CHOOSE a \in Ids : TRUE
  IN  /\ rows = [o \in Objects |-> row(o)]
      /\ groups = [o \in Objects |-> {}]
      /\ registered = [o \in Objects |->
           IF row(o) = None THEN None ELSE [aid |-> aid(o), name |-> row(o).username, owner |-> owner]]
      /\ server = [a \in Ids |-> IF owner = "server" /\ \E o \in DOMAIN first : aid(o) = a
                                 THEN View(first[CHOOSE o \in DOMAIN first : aid(o) = a]) ELSE None]
      /\ told = [o \in Objects |-> IF row(o) = None THEN None ELSE [f \in Logged |-> row(o)[f]]]
      /\ toldGroups = [o \in Objects |-> {}]
      /\ used = DOMAIN first /\ issued = {aid(o) : o \in DOMAIN first}

Init ==
  /\ \E o \in Objects, u \in Usernames, e \in Emails, owner \in {"server", "here"} :
        InitWith([x \in {o} |-> [username |-> u, email |-> e, last_login |-> FALSE, modified_by |-> Nobody]], owner)
  /\ held = [p \in Processes |-> None] /\ doing = [p \in Processes |-> Idle]
  /\ apart = {} /\ mistold = {} /\ astray = {} /\ work = 0 /\ faults = 0

Finish(p) ==
  \/ Write(p) \/ Commit(p) \/ FinishDelete(p) \/ FlushCleanup(p) \/ FlushEntries(p) \/ FinishClear(p)

Next ==
  \E p \in Processes :
    \/ \E o \in Objects : Load(p, o)
    \/ \E o \in Objects, u \in Usernames, e \in Emails : New(p, o, u, e)
    \/ Forget(p)
    \/ held[p] # None /\ \E row \in Edits(held[p].row), fields \in SaveFields : BeginSave(p, row, fields)
    \/ \E deferring \in BOOLEAN : BeginDelete(p, deferring)
    \/ \E late \in BOOLEAN : RollbackDelete(p, late)
    \/ Rollback(p) \/ CrashBeforeFlush(p)
    \/ \E g \in Groups : Associate(p, g) \/ Disassociate(p, g)
    \/ BeginClear(p)
    \/ Finish(p)

Spec == Init /\ [][Next]_vars

(***************************************************************************)
(* Properties                                                              *)
(***************************************************************************)
TypeOK ==
  /\ \A o \in Objects :
       /\ rows[o] \in Rows \cup {None}
       /\ registered[o] \in Resources \cup {None}
       /\ told[o] = None \/ DOMAIN told[o] = Logged
  /\ groups \in [Objects -> SUBSET Groups] /\ toldGroups \in [Objects -> SUBSET Groups]
  /\ \A a \in Ids : server[a] \in Views \cup {None}
  /\ \A p \in Processes :
       /\ held[p] = None \/ (held[p].o \in used /\ held[p].row \in Rows)
       /\ doing[p].at \in {"idle", "save", "saved", "delete", "cleanup", "entries", "clear"}
  /\ apart \subseteq issued /\ issued \subseteq Ids /\ mistold \subseteq used /\ astray \subseteq used /\ used \subseteq Objects

(* The server has been asked and the transaction has not ended. *)
InFlight(a) == \E p \in Processes :
  \/ doing[p].at = "saved" /\ doing[p].action # "none" /\ doing[p].res.aid = a
  \/ doing[p].at = "delete" /\ doing[p].aid = a

OwnedThere(a) == {o \in Objects : rows[o] # None /\ registered[o] # None
                                    /\ registered[o].aid = a /\ registered[o].owner = "server"}

(* Outside a save or a deletion in progress the server keeps, under each     *)
(* ansible_id, what this service has saved, and nothing for one it does not  *)
(* have or does not share, save for the named causes (handlers.py:52-92,     *)
(* sync_to_resource_server.py:73-132).                                       *)
ServerHasWhatIsSaved ==
  \A a \in Ids \ apart : ~InFlight(a) =>
     IF OwnedThere(a) = {} THEN server[a] = None
     ELSE \A o \in OwnedThere(a) : server[a] = View(rows[o])

Deferred(o, stages) == \E p \in Processes : doing[p].at \in stages /\ doing[p].o = o

(* Whoever reads the activity stream of an object from its first entry on    *)
(* ends with the object's row: no change is left out, none is told that was  *)
(* not made (signals.py:193-272).                                            *)
StreamTellsRow ==
  \A o \in Objects \ mistold : ~Deferred(o, {"cleanup", "entries"}) =>
     told[o] = IF rows[o] = None THEN None ELSE [f \in Logged |-> rows[o][f]]

(* ... and with its groups (signals.py:275-318, 377-416). *)
StreamTellsGroups ==
  \A o \in Objects \ mistold : ~Deferred(o, {"cleanup", "entries"}) => toldGroups[o] = groups[o]

(* Reading the activity stream of an object (signals.py) gives the object    *)
(* and its groups, in spite of deferred, refused and rolled back changes.    *)
StreamTells == TypeOK /\ StreamTellsRow /\ StreamTellsGroups

(* An object has a Resource row exactly as long as it lives, under its       *)
(* present name (handlers.py:28-48, 104-152).                                *)
RegistryFollows ==
  \A o \in Objects \ astray : ~Deferred(o, {"cleanup"}) =>
     /\ registered[o] = None <=> rows[o] = None
     /\ rows[o] # None => registered[o].name = rows[o].username
=============================================================================

-------------------------- MODULE SharedObjectsProofs --------------------------
(***************************************************************************)
(* What SharedObjects promises of rows, Resource rows, the copies on the   *)
(* server and the activity stream, for any objects, processes, fields and  *)
(* bounds.  The invariant says of each call in progress what it may still  *)
(* rely on of what it has read: the row stays as it was from the write to  *)
(* the commit, the Resource row may go, the row compared may be another.   *)
(***************************************************************************)
EXTENDS SharedObjects, TLAPS

-----------------------------------------------------------------------------
(* The inductive invariant                                                 *)

Stages == {"idle", "save", "saved", "delete", "cleanup", "entries", "clear"}
Partial == (SUBSET Fields) \ {{}}

\* What a call in progress knows, by its stage.
SaveFits(d) ==
  /\ d.fields \in Partial \cup {None} /\ d.seen \in Rows \cup {None} /\ d.flagged \in BOOLEAN
SavedFits(d, ids) ==
  /\ d.row \in Rows /\ d.data \in Rows /\ d.was \in Rows \cup {None}
  /\ d.res \in Resources /\ d.res.aid \in ids /\ d.res.name = d.row.username
  /\ d.action \in {"none", "create", "update"}
DoingFits(d, keys, ids) ==
  /\ "at" \in DOMAIN d /\ d.at \in Stages
  /\ d.at # "idle" => d.o \in keys
  /\ d.at \in {"save", "saved"} => SaveFits(d)
  /\ d.at = "saved" => SavedFits(d, ids)
  /\ d.at = "delete" => d.aid \in ids \cup {None} /\ d.deferring \in BOOLEAN
  /\ d.at \in {"cleanup", "entries"} => d.done \in BOOLEAN
  /\ d.at = "clear" => d.entry = d.was

RowsFit ==
  /\ rows \in [Objects -> Rows \cup {None}] /\ registered \in [Objects -> Resources \cup {None}]
  /\ groups \in [Objects -> SUBSET Groups] /\ toldGroups \in [Objects -> SUBSET Groups]
  /\ told = [o \in Objects |-> told[o]] /\ \A o \in Objects : told[o] = None \/ DOMAIN told[o] = Logged
  /\ server \in [Ids -> Views \cup {None}]
HistoryFits ==
  /\ used \subseteq Objects /\ issued \subseteq Ids
  /\ apart \subseteq issued /\ mistold \subseteq used /\ astray \subseteq used
  /\ \A o \in Objects : rows[o] # None => o \in used
  /\ \A o \in Objects : registered[o] # None => registered[o].aid \in issued
HeldFits ==
  /\ held \in [Processes -> Instances \cup {None}]
  /\ \A p \in Processes : held[p] # None => held[p].o \in used
DoingAllFit ==
  /\ doing = [p \in Processes |-> doing[p]]
  /\ \A p \in Processes : DoingFits(doing[p], used, issued)
  /\ \A p \in Processes : doing[p].at = "save" => held[p] # None
TypeInv == RowsFit /\ HistoryFits /\ HeldFits /\ DoingAllFit

\* A save has what it was called with: the fields of its entry are those in which
\* the row it compared and the instance differ, and the row it wrote is its own.
SaveKnows(d, new) == d.entry = Changes(d.seen, new, d.fields)
SavedKnows(d) ==
  /\ SaveKnows(d, d.data)
  /\ d.was = None => d.fields = None
  /\ d.row = IF d.fields = None THEN d.data ELSE Merge(d.was, d.data, d.fields)
EntriesFit == \A p \in Processes :
  /\ doing[p].at = "save" => SaveKnows(doing[p], held[p].row)
  /\ doing[p].at = "saved" => SavedKnows(doing[p])

\* A row that is written and not committed is written by one process and stays.
OneWriter == \A p, q \in Processes :
  doing[p].at = "saved" /\ doing[q].at = "saved" /\ doing[p].o = doing[q].o => p = q
RowStays == \A p \in Processes : doing[p].at = "saved" => rows[doing[p].o] = doing[p].was
LockInv == OneWriter /\ RowStays

\* The Resource row of an object under the name it has in its row.
Done(o, stages) == \E p \in Processes : doing[p].at \in stages /\ doing[p].o = o /\ doing[p].done
RegistryInv ==
  \A o \in Objects \ astray : ~Done(o, {"cleanup"}) =>
     /\ registered[o] = None <=> rows[o] = None
     /\ rows[o] # None => registered[o].name = rows[o].username

\* The activity stream.
Story(row) == IF row = None THEN None ELSE [f \in Logged |-> row[f]]
StreamInv ==
  \A o \in Objects \ mistold : ~Done(o, {"cleanup", "entries"}) =>
     told[o] = Story(rows[o]) /\ toldGroups[o] = groups[o]
GroupsInv == \A o \in Objects : rows[o] = None => groups[o] = {}

\* An ansible_id is one object's for good: nobody else's call refers to it.
Cites(d, a) == (d.at = "saved" /\ d.res.aid = a) \/ (d.at = "delete" /\ d.aid = a)
Owns(o, a) ==
  \/ registered[o] # None /\ registered[o].aid = a
  \/ \E p \in Processes : Cites(doing[p], a) /\ doing[p].o = o
AidsApart == \A x, y \in Objects, a \in Ids : Owns(x, a) /\ Owns(y, a) => x = y

\* What a save that has been written knows of the Resource row, which may have
\* been removed since, and why it has asked nothing of the server.
Unchanged(seen, new, fields) ==
  /\ seen # None
  /\ fields = None => View(seen) = View(new)
  /\ fields # None => fields \cap Synced = {}
SkipFits == \A p \in Processes :
  LET d == doing[p]
  IN  /\ d.at = "save" /\ held[p].skip /\ ~d.flagged => Unchanged(d.seen, held[p].row, d.fields)
      /\ d.at = "saved" /\ d.action = "none" /\ d.res.owner = "server" /\ ~d.flagged
           => Unchanged(d.seen, d.data, d.fields)
ResourceFits == \A p \in Processes :
  LET d == doing[p]
  IN  d.at = "saved" =>
        /\ d.action # "none" => d.res.owner = "server"
        /\ \/ registered[d.o] = None
           \/ /\ registered[d.o].aid = d.res.aid
              /\ d.action = "none" => registered[d.o].owner = d.res.owner

\* A save that asks nothing goes by the Resource row; where a cleanup has taken that
\* away from a row that is there, nobody knows of the copy on the server any more.
GoneFits == \A p \in Processes :
  LET d == doing[p]
  IN  d.at = "saved" /\ d.action = "none" /\ d.res.owner = "server" /\ d.was # None /\ registered[d.o] = None
        => d.res.aid \in apart

\* What the server has been sent is there until somebody asks it to delete it.
Asked(a) == \E p \in Processes : doing[p].at = "delete" /\ doing[p].aid = a
SentFits == \A p \in Processes :
  LET d == doing[p]
  IN  d.at = "saved" /\ d.action # "none" /\ d.res.aid \notin apart /\ ~Asked(d.res.aid)
        => server[d.res.aid] = View(d.data)
ServerInv == AidsApart /\ SkipFits /\ ResourceFits /\ GoneFits /\ SentFits /\ ServerHasWhatIsSaved

IInv == TypeInv /\ EntriesFit /\ LockInv /\ RegistryInv /\ StreamInv /\ GroupsInv /\ ServerInv

-----------------------------------------------------------------------------
(* The types                                                               *)

LEMMA NoneIsNone ==
  /\ None \notin Rows /\ None \notin Views /\ None \notin Resources /\ None \notin Instances /\ None \notin Ids
  /\ \A fields \in SUBSET Fields : fields # None
BY SharedAssumption

LEMMA ViewFits == \A row \in Rows : View(row) \in Views
BY NoneIsNone DEF View, Views, Rows, Synced

LEMMA MergeFits == \A row, new \in Rows : \A fields : Merge(row, new, fields) \in Rows
BY DEF Merge, Rows, Fields

LEMMA NewIdFits == issued # Ids /\ issued \subseteq Ids => NewId \in Ids /\ NewId \notin issued
BY DEF NewId

\* A call is a process's own: nobody else's call or instance changes with it.
Moves(p) == /\ doing' = [doing EXCEPT ![p] = doing'[p]]
            /\ held' = [held EXCEPT ![p] = held'[p]]

LEMMA MovesAlone ==
  ASSUME TypeInv, NEW p \in Processes, Moves(p)
  PROVE  /\ \A q \in Processes \ {p} : doing'[q] = doing[q] /\ held'[q] = held[q]
         /\ doing' = [q \in Processes |-> doing'[q]] /\ held' = [q \in Processes |-> held'[q]]
BY DEF TypeInv, HeldFits, DoingAllFit, Moves

\* With more keys and ids given, what is in progress fits as before.
LEMMA FitsGrow ==
  ASSUME NEW keys, NEW more, keys \subseteq more, NEW ids, NEW others, ids \subseteq others,
         NEW d, DoingFits(d, keys, ids)
  PROVE  DoingFits(d, more, others)
BY DEF DoingFits, SavedFits

\* One process goes on, within its types.
LEMMA ProcessFits ==
  ASSUME TypeInv, NEW p \in Processes, Moves(p),
         used \subseteq used', issued \subseteq issued',
         DoingFits(doing'[p], used', issued'),
         doing'[p].at = "save" => held'[p] # None,
         held'[p] = None \/ (held'[p] \in Instances /\ held'[p].o \in used')
  PROVE  DoingAllFit' /\ HeldFits'
<1>1. \A q \in Processes \ {p} : doing'[q] = doing[q] /\ held'[q] = held[q]
  BY MovesAlone
<1>2. doing' = [q \in Processes |-> doing'[q]] /\ held' = [q \in Processes |-> held'[q]]
  BY MovesAlone
<1>3. \A q \in Processes : DoingFits(doing'[q], used', issued')
  <2> SUFFICES ASSUME NEW q \in Processes, q # p PROVE DoingFits(doing'[q], used', issued')
    OBVIOUS
  <2>1. DoingFits(doing[q], used, issued)
    BY DEF TypeInv, DoingAllFit
  <2> QED BY <1>1, <2>1, FitsGrow
<1>4. \A q \in Processes : doing'[q].at = "save" => held'[q] # None
  BY <1>1 DEF TypeInv, DoingAllFit
<1>5. \A q \in Processes : held'[q] = None \/ (held'[q] \in Instances /\ held'[q].o \in used')
  BY <1>1 DEF TypeInv, HeldFits
<1> QED BY <1>2, <1>3, <1>4, <1>5 DEF DoingAllFit, HeldFits

LEMMA IdleFits == \A keys, ids : DoingFits(Idle, keys, ids)
BY DEF DoingFits, Idle, Stages

LEMMA StaysFits ==
  ASSUME TypeInv, NEW p \in Processes, used \subseteq used', issued \subseteq issued'
  PROVE  /\ DoingFits(doing[p], used', issued')
         /\ held[p] = None \/ (held[p] \in Instances /\ held[p].o \in used')
<1>1. DoingFits(doing[p], used, issued)
  BY DEF TypeInv, DoingAllFit
<1> QED BY <1>1, FitsGrow DEF TypeInv, HeldFits

\* Two fields of one instance are set at once.
LEMMA TwoFields ==
  ASSUME NEW S, NEW h \in [Processes -> S], NEW p \in Processes, NEW r, NEW s
  PROVE  [h EXCEPT ![p].row = r, ![p].skip = s] = [h EXCEPT ![p] = [h[p] EXCEPT !.row = r, !.skip = s]]
<1> DEFINE g == [h EXCEPT ![p].row = r]
<1>1. g[p] = [h[p] EXCEPT !.row = r] /\ DOMAIN g = Processes /\ \A q \in Processes \ {p} : g[q] = h[q]
  OBVIOUS
<1> QED BY <1>1

\* What a process does in one step.
Step(p) ==
  \/ \E o \in Objects : Load(p, o)
  \/ \E o \in Objects, u \in Usernames, e \in Emails : New(p, o, u, e)
  \/ Forget(p)
  \/ held[p] # None /\ \E row \in Edits(held[p].row), fields \in SaveFields : BeginSave(p, row, fields)
  \/ \E deferring \in BOOLEAN : BeginDelete(p, deferring)
  \/ \E late \in BOOLEAN : RollbackDelete(p, late)
  \/ Rollback(p) \/ CrashBeforeFlush(p)
  \/ \E g \in Groups : Associate(p, g) \/ Disassociate(p, g)
  \/ BeginClear(p)
  \/ Write(p) \/ Commit(p) \/ FinishDelete(p) \/ FlushCleanup(p) \/ FlushEntries(p) \/ FinishClear(p)

LEMMA NextIsStep == Next <=> \E p \in Processes : Step(p)
BY DEF Next, Finish, Step

LEMMA StepMoves ==
  ASSUME TypeInv, NEW p \in Processes, Step(p)
  PROVE  Moves(p)
<1> DEFINE Doing == doing' = [doing EXCEPT ![p] = doing'[p]]
           Held  == held' = [held EXCEPT ![p] = held'[p]]
<1> SUFFICES Doing /\ Held
  BY DEF Moves
<1>0. /\ UNCHANGED doing => Doing
      /\ UNCHANGED held => Held
      /\ \A d : doing' = [doing EXCEPT ![p] = d] => Doing
      /\ \A h : held' = [held EXCEPT ![p] = h] => Held
  <2>1. doing = [q \in Processes |-> doing[q]]
    BY DEF TypeInv, DoingAllFit
  <2>2. held = [q \in Processes |-> held[q]]
    BY DEF TypeInv, HeldFits
  <2>3. UNCHANGED doing => Doing
    BY <2>1
  <2>4. UNCHANGED held => Held
    BY <2>2
  <2>5. ASSUME NEW d, doing' = [doing EXCEPT ![p] = d] PROVE Doing
    BY <2>1, <2>5
  <2>6. ASSUME NEW h, held' = [held EXCEPT ![p] = h] PROVE Held
    BY <2>2, <2>6
  <2> QED BY <2>3, <2>4, <2>5, <2>6
<1> HIDE DEF Doing, Held
<1>1. ASSUME NEW o \in Objects, Load(p, o) PROVE Doing /\ Held
  BY <1>0, <1>1 DEF Load
<1>2. ASSUME NEW o \in Objects, NEW u \in Usernames, NEW e \in Emails, New(p, o, u, e) PROVE Doing /\ Held
  BY <1>0, <1>2 DEF New
<1>3. CASE Forget(p)
  BY <1>0, <1>3 DEF Forget
<1>4. ASSUME NEW row \in Edits(held[p].row), NEW fields \in SaveFields, BeginSave(p, row, fields) PROVE Doing /\ Held
  <2>1. /\ held' = [held EXCEPT ![p].row = row] \/ \E r, s : held' = [held EXCEPT ![p].row = r, ![p].skip = s]
        /\ Doing
    BY <1>0, <1>4 DEF BeginSave
  <2>2. \A r, s : [held EXCEPT ![p].row = r, ![p].skip = s] = [held EXCEPT ![p] = [held[p] EXCEPT !.row = r, !.skip = s]]
    BY TwoFields DEF TypeInv, HeldFits
  <2>3. Held
    BY <1>0, <2>1, <2>2
  <2> QED BY <2>1, <2>3
<1>5. ASSUME NEW deferring \in BOOLEAN, BeginDelete(p, deferring) PROVE Doing /\ Held
  BY <1>0, <1>5 DEF BeginDelete
<1>6. ASSUME NEW late \in BOOLEAN, RollbackDelete(p, late) PROVE Doing /\ Held
  BY <1>0, <1>6 DEF RollbackDelete
<1>7. CASE Rollback(p) \/ CrashBeforeFlush(p)
  BY <1>0, <1>7 DEF Rollback, CrashBeforeFlush
<1>8. ASSUME NEW g \in Groups, Associate(p, g) \/ Disassociate(p, g) PROVE Doing /\ Held
  BY <1>0, <1>8 DEF Associate, Disassociate
<1>9. CASE BeginClear(p) \/ FinishClear(p)
  BY <1>0, <1>9 DEF BeginClear, FinishClear
<1>10. CASE Write(p)
  <2>1. Doing
    BY <1>0, <1>10 DEF Write
  <2>2. held' = [held EXCEPT ![p].pk = TRUE] \/ UNCHANGED held
    BY <1>10 DEF Write
  <2> QED BY <1>0, <2>1, <2>2
<1>11. CASE Commit(p) \/ FlushEntries(p)
  BY <1>0, <1>11 DEF Commit, FlushEntries
<1>12. CASE FinishDelete(p)
  BY <1>0, <1>12 DEF FinishDelete
<1>13. CASE FlushCleanup(p)
  BY <1>0, <1>13 DEF FlushCleanup
<1> QED BY <1>1, <1>2, <1>3, <1>4, <1>5, <1>6, <1>7, <1>8, <1>9, <1>10, <1>11, <1>12, <1>13 DEF Step

\* Taking up, making and letting go of an instance.
LEMMA InstanceFits ==
  ASSUME TypeInv, NEW p \in Processes, Moves(p),
         \/ \E o \in Objects : Load(p, o)
         \/ \E o \in Objects, u \in Usernames, e \in Emails : New(p, o, u, e)
         \/ Forget(p)
  PROVE  TypeInv'
<1> USE DEF TypeInv
<1>0. UNCHANGED doing /\ doing[p] = Idle /\ Idle.at # "save"
  BY DEF Load, New, Forget, Free, Idle
<1>1. ASSUME NEW o \in Objects, Load(p, o) PROVE TypeInv'
  <2> DEFINE h == [o |-> o, row |-> rows[o], skip |-> FALSE, pk |-> TRUE]
  <2>1. held'[p] = h /\ h \in Instances /\ h.o \in used'
    BY <1>1 DEF Load, HeldFits, RowsFit, HistoryFits, Instances
  <2>2. RowsFit' /\ HistoryFits'
    BY <1>1 DEF Load, RowsFit, HistoryFits
  <2> QED BY <1>0, <1>1, <2>1, <2>2, IdleFits, ProcessFits DEF Load
<1>2. ASSUME NEW o \in Objects, NEW u \in Usernames, NEW e \in Emails, New(p, o, u, e) PROVE TypeInv'
  <2> DEFINE row == [username |-> u, email |-> e, last_login |-> FALSE, modified_by |-> Nobody]
             h == [o |-> o, row |-> row, skip |-> FALSE, pk |-> FALSE]
  <2>1. row \in Rows
    BY DEF Rows
  <2>2. held'[p] = h /\ h \in Instances /\ h.o \in used'
    BY <1>2, <2>1 DEF New, HeldFits, HistoryFits, Instances
  <2>3. RowsFit' /\ HistoryFits'
    BY <1>2 DEF New, RowsFit, HistoryFits
  <2> QED BY <1>0, <1>2, <2>2, <2>3, IdleFits, ProcessFits DEF New
<1>3. CASE Forget(p)
  <2>1. held'[p] = None
    BY <1>3 DEF Forget, HeldFits
  <2>2. RowsFit' /\ HistoryFits'
    BY <1>3 DEF Forget, RowsFit, HistoryFits
  <2> QED BY <1>0, <1>3, <2>1, <2>2, IdleFits, ProcessFits DEF Forget
<1> QED BY <1>1, <1>2, <1>3

LEMMA EditFits == \A row \in Rows : Edits(row) \subseteq Rows
BY DEF Edits, Rows

LEMMA WrittenFits ==
  ASSUME NEW p, NEW fields \in SaveFields, WithModifiedBy(p, fields) # {}
  PROVE  WithModifiedBy(p, fields) \in Partial
<1>1. fields = None \/ fields \subseteq Fields
  BY DEF SaveFields, Fields
<1>2. WithModifiedBy(p, fields) \subseteq Fields
  BY <1>1 DEF WithModifiedBy, Fields
<1> QED BY <1>2 DEF Partial

LEMMA BeginSaveFits ==
  ASSUME TypeInv, NEW p \in Processes, Moves(p), held[p] # None,
         NEW row \in Edits(held[p].row), NEW fields \in SaveFields, BeginSave(p, row, fields)
  PROVE  TypeInv'
<1> DEFINE o       == held[p].o
           written == WithModifiedBy(p, fields)
           new     == IF "modified_by" \in written THEN [row EXCEPT !.modified_by = p] ELSE row
           update  == IF fields = None THEN None ELSE written
           skip    == held[p].skip \/ Skips(o, rows[o], new, update)
           entry   == Changes(rows[o], new, update)
           d       == [at |-> "save", o |-> o, fields |-> update, seen |-> rows[o], flagged |-> held[p].skip,
                       entry |-> entry]
<1>1. held \in [Processes -> Instances \cup {None}] /\ held[p] \in Instances /\ o \in Objects /\ o \in used
  BY DEF TypeInv, HeldFits, Instances
<1>2. row \in Rows /\ new \in Rows
  <2>1. row \in Rows
    BY <1>1, EditFits DEF Instances
  <2> QED BY <2>1 DEF Rows
<1>3. skip \in BOOLEAN
  BY <1>1 DEF Instances, Skips
<1>4. rows[o] \in Rows \cup {None} /\ held[p].skip \in BOOLEAN
  BY <1>1 DEF TypeInv, RowsFit, Instances
<1>5. RowsFit' /\ HistoryFits'
  BY DEF BeginSave, TypeInv, RowsFit, HistoryFits
<1>6. UNCHANGED <<used, issued>>
  BY DEF BeginSave
<1>7. CASE written = {}
  <2>1. held' = [held EXCEPT ![p].row = row] /\ UNCHANGED doing
    BY <1>7 DEF BeginSave
  <2>2. held'[p] \in Instances /\ held'[p].o = o
    BY <1>1, <1>2, <2>1 DEF Instances
  <2>3. doing'[p].at # "save"
    BY <2>1 DEF BeginSave, Free, Idle
  <2> QED BY <1>1, <1>5, <1>6, <2>1, <2>2, <2>3, StaysFits, ProcessFits DEF TypeInv
<1>8. CASE written # {}
  <2>1. held' = [held EXCEPT ![p].row = new, ![p].skip = skip] /\ doing' = [doing EXCEPT ![p] = d]
    BY <1>8 DEF BeginSave
  <2> HIDE DEF new, skip, entry
  <2>2. held'[p] = [held[p] EXCEPT !.row = new, !.skip = skip]
    BY <1>1, <2>1, TwoFields
  <2>3. held'[p] \in Instances /\ held'[p].o = o
    BY <1>1, <1>2, <1>3, <2>2 DEF Instances
  <2>4. update \in Partial \cup {None}
    BY <1>8, WrittenFits
  <2>5. doing'[p] = d
    BY <2>1 DEF TypeInv, DoingAllFit
  <2> HIDE DEF update
  <2>6. DoingFits(d, used, issued)
    BY <1>1, <1>4, <2>4 DEF DoingFits, SaveFits, Stages
  <2>7. held'[p] # None
    BY <2>3, NoneIsNone
  <2> HIDE DEF d, o
  <2> QED BY <1>1, <1>5, <1>6, <2>3, <2>5, <2>6, <2>7, ProcessFits DEF TypeInv
<1> QED BY <1>7, <1>8

\* The write of a save: the row, the Resource row and the request that it makes.
NewRow(p)  == RowAfter(doing[p], held[p].row)
NewRes(p)  == ResourceAfter(doing[p].o, NewRow(p))
Request(p) == Action(p, doing[p].o, NewRes(p))
Written(p) ==
  [at |-> "saved", o |-> doing[p].o, fields |-> doing[p].fields, row |-> NewRow(p),
   res |-> Answered(Request(p), NewRes(p)), action |-> Request(p), data |-> held[p].row, was |-> rows[doing[p].o],
   seen |-> doing[p].seen, flagged |-> doing[p].flagged, entry |-> doing[p].entry]

\* ... and how it ends: refused by the database or the server, with the answer lost, or well.
WriteRefused(p) ==
  /\ doing' = [doing EXCEPT ![p] = Idle]
  /\ UNCHANGED <<server, apart>>
  /\ issued' = issued \/ (issued' = issued \cup {NewRes(p).aid} /\ (registered[doing[p].o] = None => issued # Ids))
WriteLost(p) ==
  /\ Request(p) # "none"
  /\ doing' = [doing EXCEPT ![p] = Idle]
  /\ server' = [server EXCEPT ![NewRes(p).aid] = View(held[p].row)]
  /\ apart' = apart \cup {NewRes(p).aid}
  /\ issued' = issued \cup {NewRes(p).aid} /\ (registered[doing[p].o] = None => issued # Ids)
WriteDone(p) ==
  /\ ~Impossible(doing[p], held[p].row)
  /\ doing' = [doing EXCEPT ![p] = Written(p)]
  /\ server' = IF Request(p) = "none" THEN server ELSE [server EXCEPT ![NewRes(p).aid] = View(held[p].row)]
  /\ apart' = IF Request(p) = "none" THEN apart ELSE apart \ {NewRes(p).aid}
  /\ issued' = issued \cup {NewRes(p).aid} /\ (registered[doing[p].o] = None => issued # Ids)

LEMMA RequestIs ==
  ASSUME NEW p
  PROVE  /\ Request(p) \in {"none", "create", "update"}
         /\ \A a, data : ServerAfter(Request(p), a, data) = [server EXCEPT ![a] = data]
BY DEF Request, Action, ServerAfter

LEMMA WriteEnds ==
  ASSUME NEW p, Write(p)
  PROVE  /\ doing[p].at = "save" /\ ~Locked(doing[p].o)
         /\ WriteRefused(p) \/ WriteLost(p) \/ WriteDone(p)
         /\ held' = held \/ held' = [held EXCEPT ![p].pk = TRUE]
         /\ UNCHANGED <<rows, groups, registered, told, toldGroups, used, mistold, astray, work>>
<1>1. /\ doing[p].at = "save" /\ ~Locked(doing[p].o)
      /\ UNCHANGED <<rows, groups, registered, told, toldGroups, used, mistold, astray, work>>
      /\ held' = held \/ held' = [held EXCEPT ![p].pk = TRUE]
  BY DEF Write
<1>2. \/ /\ Impossible(doing[p], held[p].row)
         /\ doing' = [doing EXCEPT ![p] = Idle]
         /\ UNCHANGED <<held, server, issued, apart, faults>>
      \/ /\ ~Impossible(doing[p], held[p].row) /\ (registered[doing[p].o] = None => issued # Ids)
         /\ issued' = issued \cup {NewRes(p).aid}
         /\ \/ /\ server' = IF Request(p) = "none" THEN server
                            ELSE ServerAfter(Request(p), NewRes(p).aid, View(held[p].row))
               /\ doing' = [doing EXCEPT ![p] = Written(p)]
               /\ apart' = IF Request(p) = "none" THEN apart ELSE apart \ {NewRes(p).aid}
            \/ /\ doing' = [doing EXCEPT ![p] = Idle]
               /\ UNCHANGED <<server, apart>>
            \/ /\ Request(p) # "none"
               /\ server' = ServerAfter(Request(p), NewRes(p).aid, View(held[p].row))
               /\ doing' = [doing EXCEPT ![p] = Idle]
               /\ apart' = apart \cup {NewRes(p).aid}
  BY DEF Write, NewRow, NewRes, Request, Written
<1> QED BY <1>1, <1>2, RequestIs DEF WriteRefused, WriteLost, WriteDone

\* What a save that is about to be written has at hand.
LEMMA SaveHas ==
  ASSUME TypeInv, NEW p \in Processes, doing[p].at = "save"
  PROVE  /\ held[p] \in Instances /\ held[p].row \in Rows
         /\ doing[p].o \in Objects /\ doing[p].o \in used /\ SaveFits(doing[p])
         /\ rows[doing[p].o] \in Rows \cup {None} /\ registered[doing[p].o] \in Resources \cup {None}
<1>1. held[p] \in Instances
  BY DEF TypeInv, DoingAllFit, HeldFits
<1>2. DoingFits(doing[p], used, issued)
  BY DEF TypeInv, DoingAllFit
<1> QED BY <1>1, <1>2 DEF TypeInv, HistoryFits, RowsFit, DoingFits, Instances

LEMMA NewRowFits ==
  ASSUME TypeInv, NEW p \in Processes, doing[p].at = "save"
  PROVE  NewRow(p) \in Rows
<1>1. /\ held[p].row \in Rows /\ rows[doing[p].o] \in Rows \cup {None}
  BY SaveHas
<1> QED BY <1>1, MergeFits DEF NewRow, RowAfter

LEMMA NewResFits ==
  ASSUME TypeInv, NEW p \in Processes, doing[p].at = "save", registered[doing[p].o] = None => issued # Ids
  PROVE  /\ NewRes(p) \in Resources /\ NewRes(p).name = NewRow(p).username
         /\ Answered(Request(p), NewRes(p)) \in Resources
         /\ Answered(Request(p), NewRes(p)).aid = NewRes(p).aid
         /\ Answered(Request(p), NewRes(p)).name = NewRow(p).username
         /\ registered[doing[p].o] = None => NewRes(p).aid \notin issued /\ NewRes(p).owner = "here"
         /\ registered[doing[p].o] # None => /\ NewRes(p).aid = registered[doing[p].o].aid
                                             /\ NewRes(p).owner = registered[doing[p].o].owner
<1> DEFINE r == registered[doing[p].o]
<1>1. NewRow(p).username \in Usernames
  BY NewRowFits DEF Rows
<1>2. r \in Resources \cup {None}
  BY SaveHas
<1>3. CASE r = None
  <2>1. NewId \in Ids /\ NewId \notin issued
    BY <1>3, NewIdFits DEF TypeInv, HistoryFits
  <2>2. NewRes(p) = [aid |-> NewId, name |-> NewRow(p).username, owner |-> "here"]
    BY <1>3 DEF NewRes, ResourceAfter, init_resource_from_object
  <2> QED BY <1>1, <1>3, <2>1, <2>2 DEF Resources, Answered
<1>4. CASE r # None
  <2>1. NewRes(p) = [r EXCEPT !.name = NewRow(p).username]
    BY <1>4 DEF NewRes, ResourceAfter, update_from_content_object
  <2> QED BY <1>1, <1>2, <1>4, <2>1 DEF Resources, Answered
<1> QED BY <1>3, <1>4

LEMMA WriteFits ==
  ASSUME TypeInv, NEW p \in Processes, Moves(p), Write(p)
  PROVE  TypeInv'
<1>1. /\ doing[p].at = "save"
      /\ held' = held \/ held' = [held EXCEPT ![p].pk = TRUE]
      /\ UNCHANGED <<rows, groups, registered, told, toldGroups, used, mistold, astray, work>>
  BY WriteEnds
<1>2. /\ held[p] \in Instances /\ held[p].row \in Rows
      /\ doing[p].o \in Objects /\ doing[p].o \in used /\ SaveFits(doing[p])
      /\ rows[doing[p].o] \in Rows \cup {None}
  BY <1>1, SaveHas
<1>3. held'[p] \in Instances /\ held'[p].o \in used'
  <2>1. held[p].o \in used /\ held \in [Processes -> Instances \cup {None}]
    BY <1>2, NoneIsNone DEF TypeInv, HeldFits
  <2>2. held'[p] = held[p] \/ held'[p] = [held[p] EXCEPT !.pk = TRUE]
    BY <1>1, <2>1
  <2>3. [held[p] EXCEPT !.pk = TRUE] \in Instances /\ [held[p] EXCEPT !.pk = TRUE].o = held[p].o
    BY <1>2 DEF Instances
  <2> QED BY <1>1, <1>2, <2>1, <2>2, <2>3
<1>4. held'[p] # None
  BY <1>3, NoneIsNone
<1>5. RowsFit /\ HistoryFits /\ doing = [q \in Processes |-> doing[q]] /\ View(held[p].row) \in Views
  BY <1>2, ViewFits DEF TypeInv, DoingAllFit
<1>6. CASE WriteRefused(p)
  <2>1. issued \subseteq issued' /\ issued' \subseteq Ids
    BY <1>1, <1>6, NewResFits DEF WriteRefused, TypeInv, HistoryFits, Resources
  <2>2. doing'[p] = Idle /\ Idle.at # "save"
    BY <1>5, <1>6 DEF WriteRefused, Idle
  <2>3. RowsFit' /\ HistoryFits'
    BY <1>1, <1>5, <1>6, <2>1 DEF WriteRefused, RowsFit, HistoryFits
  <2> QED BY <1>1, <1>3, <2>1, <2>2, <2>3, IdleFits, ProcessFits DEF TypeInv
<1>7. CASE WriteLost(p)
  <2>1. issued \subseteq issued' /\ issued' \subseteq Ids /\ NewRes(p).aid \in issued' /\ NewRes(p).aid \in Ids
    BY <1>1, <1>7, NewResFits DEF WriteLost, TypeInv, HistoryFits, Resources
  <2>2. doing'[p] = Idle /\ Idle.at # "save"
    BY <1>5, <1>7 DEF WriteLost, Idle
  <2>3. RowsFit'
    BY <1>1, <1>5, <1>7, <2>1 DEF WriteLost, RowsFit
  <2>4. HistoryFits'
    BY <1>1, <1>5, <1>7, <2>1 DEF WriteLost, HistoryFits
  <2> QED BY <1>1, <1>3, <2>1, <2>2, <2>3, <2>4, IdleFits, ProcessFits DEF TypeInv
<1>8. CASE WriteDone(p)
  <2>1. issued \subseteq issued' /\ issued' \subseteq Ids /\ NewRes(p).aid \in issued' /\ NewRes(p).aid \in Ids
    BY <1>1, <1>8, NewResFits DEF WriteDone, TypeInv, HistoryFits, Resources
  <2>2. doing'[p] = Written(p)
    BY <1>5, <1>8 DEF WriteDone
  <2>3. RowsFit'
    BY <1>1, <1>5, <1>8, <2>1 DEF WriteDone, RowsFit
  <2>4. HistoryFits'
    BY <1>1, <1>5, <1>8, <2>1 DEF WriteDone, HistoryFits
  <2>5. /\ Answered(Request(p), NewRes(p)) \in Resources
        /\ Answered(Request(p), NewRes(p)).aid \in issued'
        /\ Answered(Request(p), NewRes(p)).name = NewRow(p).username
    BY <1>1, <1>8, <2>1, NewResFits DEF WriteDone
  <2>6. Written(p).at = "saved" /\ Written(p).o \in used' /\ "at" \in DOMAIN Written(p)
    BY <1>1, <1>2 DEF Written
  <2>7. SaveFits(Written(p))
    BY <1>2 DEF Written, SaveFits
  <2>8. SavedFits(Written(p), issued')
    BY <1>1, <1>2, <2>5, NewRowFits, RequestIs DEF Written, SavedFits
  <2>9. DoingFits(doing'[p], used', issued')
    BY <2>2, <2>6, <2>7, <2>8 DEF DoingFits, Stages
  <2> QED BY <1>1, <1>3, <1>4, <2>1, <2>3, <2>4, <2>9, ProcessFits DEF TypeInv
<1> QED BY <1>6, <1>7, <1>8, WriteEnds

\* A process that ends a call, or a stage of it.
LEMMA EndFits ==
  ASSUME TypeInv, NEW p \in Processes, Moves(p), UNCHANGED <<used, issued>>,
         doing'[p] = Idle, held'[p] = held[p] \/ held'[p] = None
  PROVE  DoingAllFit' /\ HeldFits'
<1>1. DoingFits(doing'[p], used', issued') /\ doing'[p].at # "save"
  BY IdleFits DEF Idle
<1>2. held'[p] = None \/ (held'[p] \in Instances /\ held'[p].o \in used')
  BY DEF TypeInv, HeldFits
<1> QED BY <1>1, <1>2, ProcessFits

LEMMA SavedHas ==
  ASSUME TypeInv, NEW p \in Processes, doing[p].at = "saved"
  PROVE  /\ doing[p].o \in Objects /\ doing[p].o \in used
         /\ SaveFits(doing[p]) /\ SavedFits(doing[p], issued)
         /\ doing[p].res.aid \in Ids
<1>1. DoingFits(doing[p], used, issued)
  BY DEF TypeInv, DoingAllFit
<1> QED BY <1>1 DEF TypeInv, HistoryFits, DoingFits, SavedFits

LEMMA ToldFits ==
  ASSUME TypeInv, NEW p \in Processes, doing[p].at = "saved"
  PROVE  ToldAfter(doing[p]) = None \/ DOMAIN ToldAfter(doing[p]) = Logged
BY DEF ToldAfter

LEMMA ApartFits ==
  ASSUME NEW d
  PROVE  ApartAfter(d) \in {apart, apart \cup {d.res.aid}}
BY DEF ApartAfter

LEMMA CommitFits ==
  ASSUME TypeInv, NEW p \in Processes, Moves(p), Commit(p)
  PROVE  TypeInv'
<1> DEFINE d == doing[p]
<1>1. /\ d.o \in Objects /\ d.o \in used /\ d.row \in Rows /\ d.res \in Resources /\ d.res.aid \in issued
  BY SavedHas DEF Commit, SavedFits
<1>2. RowsFit /\ HistoryFits
  BY DEF TypeInv
<1>3. /\ rows' = [rows EXCEPT ![d.o] = d.row]
      /\ registered' = [registered EXCEPT ![d.o] = d.res]
      /\ told' = [told EXCEPT ![d.o] = ToldAfter(d)]
      /\ apart' = ApartAfter(d)
      /\ mistold' \subseteq mistold \cup {d.o} /\ astray' \subseteq astray
      /\ doing' = [doing EXCEPT ![p] = Idle]
      /\ UNCHANGED <<groups, server, toldGroups, held, used, issued>>
  BY DEF Commit
<1>4. ToldAfter(d) = None \/ DOMAIN ToldAfter(d) = Logged
  BY ToldFits DEF Commit
<1>5. apart' \subseteq issued
  BY <1>1, <1>2, <1>3, ApartFits DEF HistoryFits
<1>6. doing'[p] = Idle
  BY <1>3 DEF TypeInv, DoingAllFit
<1> HIDE DEF d
<1>7. RowsFit'
  BY <1>1, <1>2, <1>3, <1>4 DEF RowsFit
<1>8. HistoryFits'
  BY <1>1, <1>2, <1>3, <1>5 DEF HistoryFits, RowsFit
<1> QED BY <1>3, <1>6, <1>7, <1>8, EndFits DEF TypeInv

LEMMA RollbackFits ==
  ASSUME TypeInv, NEW p \in Processes, Moves(p), Rollback(p)
  PROVE  TypeInv'
<1>1. doing[p].res.aid \in issued
  BY SavedHas DEF Rollback, SavedFits
<1>2. RowsFit' /\ HistoryFits'
  BY <1>1 DEF Rollback, TypeInv, RowsFit, HistoryFits
<1>3. doing'[p] = Idle
  BY DEF Rollback, TypeInv, DoingAllFit
<1> QED BY <1>2, <1>3, EndFits DEF TypeInv, Rollback

\* A process that goes on to a stage of a deletion or of clear().
LEMMA GoesOn ==
  ASSUME TypeInv, NEW p \in Processes, Moves(p), UNCHANGED <<used, issued>>,
         DoingFits(doing'[p], used, issued), doing'[p].at # "save",
         held'[p] = held[p] \/ held'[p] = None
  PROVE  DoingAllFit' /\ HeldFits'
<1>1. held'[p] = None \/ (held'[p] \in Instances /\ held'[p].o \in used')
  BY DEF TypeInv, HeldFits
<1> QED BY <1>1, ProcessFits

LEMMA BeginDeleteFits ==
  ASSUME TypeInv, NEW p \in Processes, Moves(p), NEW deferring \in BOOLEAN, BeginDelete(p, deferring)
  PROVE  TypeInv'
<1> DEFINE o   == held[p].o
           aid == IF registered[o] = None \/ held[p].skip THEN None ELSE registered[o].aid
           deleting == [at |-> "delete", o |-> o, aid |-> aid, deferring |-> deferring]
           raised == IF deferring THEN [at |-> "entries", o |-> o, done |-> FALSE] ELSE Idle
<1>1. o \in Objects /\ o \in used
  BY DEF BeginDelete, TypeInv, HeldFits, HistoryFits
<1>2. aid \in issued \cup {None} /\ (aid # None => aid \in Ids)
  BY <1>1 DEF TypeInv, HistoryFits
<1>3. /\ doing' = [doing EXCEPT ![p] = deleting] \/ doing' = [doing EXCEPT ![p] = raised]
      /\ \/ UNCHANGED server /\ UNCHANGED apart
         \/ aid # None /\ server' = [server EXCEPT ![aid] = None] /\ apart' \in {apart \ {aid}, apart \cup {aid}}
      /\ UNCHANGED <<rows, groups, registered, told, toldGroups, held, used, issued, mistold, astray>>
  BY DEF BeginDelete, ServerAfter
<1> HIDE DEF aid
<1>4. DoingFits(deleting, used, issued) /\ DoingFits(raised, used, issued)
  BY <1>1, <1>2, IdleFits DEF DoingFits, Stages
<1>5. deleting.at # "save" /\ raised.at # "save"
  BY DEF Idle
<1> HIDE DEF deleting, raised
<1>6. doing'[p] = deleting \/ doing'[p] = raised
  BY <1>3 DEF TypeInv, DoingAllFit
<1>7. RowsFit'
  BY <1>2, <1>3 DEF TypeInv, RowsFit
<1>8. HistoryFits'
  BY <1>2, <1>3 DEF TypeInv, HistoryFits
<1> QED BY <1>3, <1>4, <1>5, <1>6, <1>7, <1>8, GoesOn DEF TypeInv

LEMMA DeleteHas ==
  ASSUME TypeInv, NEW p \in Processes, doing[p].at = "delete"
  PROVE  /\ doing[p].o \in Objects /\ doing[p].o \in used
         /\ doing[p].aid \in issued \cup {None} /\ doing[p].deferring \in BOOLEAN
<1>1. DoingFits(doing[p], used, issued)
  BY DEF TypeInv, DoingAllFit
<1> QED BY <1>1 DEF TypeInv, HistoryFits, DoingFits

LEMMA FlushHas ==
  ASSUME TypeInv, NEW p \in Processes, doing[p].at \in {"cleanup", "entries", "clear"}
  PROVE  /\ doing[p].o \in Objects /\ doing[p].o \in used
         /\ doing[p].at # "clear" => doing[p].done \in BOOLEAN
         /\ doing[p].at = "clear" => doing[p].entry = doing[p].was
<1>1. DoingFits(doing[p], used, issued)
  BY DEF TypeInv, DoingAllFit
<1> QED BY <1>1 DEF TypeInv, HistoryFits, DoingFits

LEMMA ApartDeletedFits ==
  ASSUME TypeInv, NEW p \in Processes, doing[p].at = "delete"
  PROVE  ApartDeleted(p, doing[p]) \subseteq issued /\ apart \subseteq ApartDeleted(p, doing[p])
BY DeleteHas DEF ApartDeleted, TypeInv, HistoryFits

LEMMA FinishDeleteFits ==
  ASSUME TypeInv, NEW p \in Processes, Moves(p), FinishDelete(p)
  PROVE  TypeInv'
<1> DEFINE d == doing[p]
           cleanup == [at |-> "cleanup", o |-> d.o, done |-> TRUE]
<1>1. d.o \in Objects /\ d.o \in used
  BY DeleteHas DEF FinishDelete
<1>2. RowsFit /\ HistoryFits
  BY DEF TypeInv
<1>3. /\ rows' = [rows EXCEPT ![d.o] = None]
      /\ groups' = [groups EXCEPT ![d.o] = {}]
      /\ apart' = ApartDeleted(p, d)
      /\ registered' = registered \/ registered' = [registered EXCEPT ![d.o] = None]
      /\ told' = told \/ told' = [told EXCEPT ![d.o] = None]
      /\ toldGroups' = toldGroups \/ toldGroups' = [toldGroups EXCEPT ![d.o] = {}]
      /\ mistold' \subseteq mistold /\ astray' \subseteq astray
      /\ doing' = [doing EXCEPT ![p] = cleanup] \/ doing' = [doing EXCEPT ![p] = Idle]
      /\ held' = [held EXCEPT ![p] = None]
      /\ UNCHANGED <<server, used, issued>>
  BY DEF FinishDelete
<1>4. DoingFits(cleanup, used, issued) /\ DoingFits(Idle, used, issued) /\ cleanup.at # "save" /\ Idle.at # "save"
  BY <1>1, IdleFits DEF DoingFits, Stages, Idle
<1>5. apart' \subseteq issued
  BY <1>3, ApartDeletedFits DEF FinishDelete
<1> HIDE DEF cleanup, d
<1>6. (doing'[p] = cleanup \/ doing'[p] = Idle) /\ held'[p] = None
  BY <1>3 DEF TypeInv, DoingAllFit, HeldFits
<1>7. RowsFit'
  BY <1>1, <1>2, <1>3 DEF RowsFit
<1>8. HistoryFits'
  BY <1>1, <1>2, <1>3, <1>5 DEF HistoryFits, RowsFit
<1> QED BY <1>3, <1>4, <1>6, <1>7, <1>8, GoesOn DEF TypeInv

LEMMA RollbackDeleteFits ==
  ASSUME TypeInv, NEW p \in Processes, Moves(p), NEW late \in BOOLEAN, RollbackDelete(p, late)
  PROVE  TypeInv'
<1> DEFINE d == doing[p]
           next == IF ~d.deferring THEN Idle
                   ELSE [at |-> IF late THEN "cleanup" ELSE "entries", o |-> d.o, done |-> FALSE]
<1>1. d.o \in Objects /\ d.o \in used /\ d.aid \in issued \cup {None}
  BY DeleteHas DEF RollbackDelete
<1>2. /\ doing' = [doing EXCEPT ![p] = next]
      /\ apart' = IF d.aid = None THEN apart ELSE apart \cup {d.aid}
      /\ UNCHANGED <<rows, groups, registered, server, told, toldGroups, held, used, issued, mistold, astray>>
  BY DEF RollbackDelete
<1>3. DoingFits(next, used, issued) /\ next.at # "save"
  BY <1>1, IdleFits DEF DoingFits, Stages, Idle
<1> HIDE DEF next, d
<1>4. doing'[p] = next
  BY <1>2 DEF TypeInv, DoingAllFit
<1>5. RowsFit' /\ HistoryFits'
  BY <1>1, <1>2 DEF TypeInv, RowsFit, HistoryFits
<1> QED BY <1>2, <1>3, <1>4, <1>5, GoesOn DEF TypeInv

LEMMA FlushFits ==
  ASSUME TypeInv, NEW p \in Processes, Moves(p), FlushCleanup(p) \/ FlushEntries(p) \/ CrashBeforeFlush(p)
  PROVE  TypeInv'
<1> DEFINE d == doing[p]
           next == [d EXCEPT !.at = "entries"]
<1>1. d.at \in {"cleanup", "entries"} /\ d.o \in Objects /\ d.o \in used /\ DoingFits(d, used, issued)
  BY FlushHas DEF FlushCleanup, FlushEntries, CrashBeforeFlush, TypeInv, DoingAllFit
<1>2. /\ doing' = [doing EXCEPT ![p] = next] \/ doing' = [doing EXCEPT ![p] = Idle]
      /\ held' = held \/ held' = [held EXCEPT ![p] = None]
      /\ registered' = registered \/ registered' = [registered EXCEPT ![d.o] = None]
      /\ told' = told \/ told' = [told EXCEPT ![d.o] = None]
      /\ toldGroups' = toldGroups \/ toldGroups' = [toldGroups EXCEPT ![d.o] = {}]
      /\ apart' = apart \/ (registered[d.o] # None /\ apart' = apart \cup {registered[d.o].aid})
      /\ mistold' \subseteq mistold \cup {d.o} /\ astray' \subseteq astray \cup {d.o}
      /\ UNCHANGED <<rows, groups, server, used, issued>>
  BY DEF FlushCleanup, FlushEntries, CrashBeforeFlush
<1>3. DoingFits(next, used, issued) /\ DoingFits(Idle, used, issued) /\ next.at # "save" /\ Idle.at # "save"
  BY <1>1, IdleFits DEF DoingFits, Stages, Idle
<1> HIDE DEF next
<1>4. (doing'[p] = next \/ doing'[p] = Idle) /\ (held'[p] = held[p] \/ held'[p] = None)
  BY <1>2 DEF TypeInv, DoingAllFit, HeldFits
<1> HIDE DEF d
<1>5. RowsFit'
  BY <1>1, <1>2 DEF TypeInv, RowsFit
<1>6. HistoryFits'
  BY <1>1, <1>2 DEF TypeInv, RowsFit, HistoryFits
<1> QED BY <1>2, <1>3, <1>4, <1>5, <1>6, GoesOn DEF TypeInv

LEMMA GroupsFit ==
  ASSUME TypeInv, NEW p \in Processes, Moves(p),
         (\E g \in Groups : Associate(p, g) \/ Disassociate(p, g)) \/ BeginClear(p) \/ FinishClear(p)
  PROVE  TypeInv'
<1>1. ASSUME NEW g \in Groups, Associate(p, g) \/ Disassociate(p, g) PROVE TypeInv'
  <2>1. held[p].o \in Objects
    BY <1>1 DEF Associate, Disassociate, OnRow, TypeInv, HeldFits, HistoryFits
  <2>2. RowsFit'
    BY <1>1, <2>1 DEF Associate, Disassociate, TypeInv, RowsFit
  <2>3. HistoryFits'
    BY <1>1 DEF Associate, Disassociate, TypeInv, HistoryFits
  <2>4. DoingFits(doing'[p], used, issued) /\ doing'[p].at # "save"
    BY <1>1, IdleFits DEF Associate, Disassociate, OnRow, Free, Idle
  <2> QED BY <1>1, <2>2, <2>3, <2>4, GoesOn DEF TypeInv, Associate, Disassociate
<1>2. CASE BeginClear(p)
  <2> DEFINE next == [at |-> "clear", o |-> held[p].o, entry |-> groups[held[p].o], was |-> groups[held[p].o]]
  <2>1. held[p].o \in used
    BY <1>2 DEF BeginClear, OnRow, TypeInv, HeldFits
  <2>2. DoingFits(next, used, issued) /\ next.at # "save"
    BY <2>1 DEF DoingFits, Stages
  <2>3. doing' = [doing EXCEPT ![p] = next]
    BY <1>2 DEF BeginClear, Cleared
  <2> HIDE DEF next
  <2>4. doing'[p] = next
    BY <2>3 DEF TypeInv, DoingAllFit
  <2>5. RowsFit' /\ HistoryFits'
    BY <1>2 DEF BeginClear, TypeInv, RowsFit, HistoryFits
  <2> QED BY <1>2, <2>2, <2>4, <2>5, GoesOn DEF TypeInv, BeginClear
<1>3. CASE FinishClear(p)
  <2>1. doing[p].o \in Objects /\ doing[p].o \in used
    BY <1>3, FlushHas DEF FinishClear
  <2>2. RowsFit' /\ HistoryFits'
    BY <1>3, <2>1 DEF FinishClear, TypeInv, RowsFit, HistoryFits
  <2>3. doing'[p] = Idle
    BY <1>3 DEF FinishClear, TypeInv, DoingAllFit
  <2> QED BY <1>3, <2>2, <2>3, EndFits DEF TypeInv, FinishClear
<1> QED BY <1>1, <1>2, <1>3

LEMMA StepFits == ASSUME TypeInv, NEW p \in Processes, Step(p) PROVE TypeInv'
BY StepMoves, InstanceFits, BeginSaveFits, WriteFits, CommitFits, RollbackFits, BeginDeleteFits, FinishDeleteFits,
   RollbackDeleteFits, FlushFits, GroupsFit DEF Step

-----------------------------------------------------------------------------
(* What a save knows, and what it has locked                               *)

\* Only a write brings a process to "saved", only the beginnings of a save and of a
\* deletion to theirs.
LEMMA StageComesFrom ==
  ASSUME TypeInv, NEW p \in Processes, Step(p)
  PROVE  /\ doing'[p].at = "save" =>
              /\ held[p] # None
              /\ \E row \in Edits(held[p].row), fields \in SaveFields : BeginSave(p, row, fields)
         /\ doing'[p].at = "saved" => Write(p) /\ WriteDone(p) /\ doing'[p] = Written(p)
         /\ doing'[p].at = "delete" => \E deferring \in BOOLEAN : BeginDelete(p, deferring)
<1> DEFINE Elsewhere == doing'[p].at \notin {"save", "saved", "delete"}
<1>0. doing = [q \in Processes |-> doing[q]] /\ Idle.at = "idle"
  BY DEF TypeInv, DoingAllFit, Idle
<1>1. ASSUME NEW o \in Objects, Load(p, o) PROVE Elsewhere
  BY <1>0, <1>1 DEF Load, Free
<1>2. ASSUME NEW o \in Objects, NEW u \in Usernames, NEW e \in Emails, New(p, o, u, e) PROVE Elsewhere
  BY <1>0, <1>2 DEF New, Free
<1>3. CASE Forget(p)
  BY <1>0, <1>3 DEF Forget, Free
<1>4. ASSUME held[p] # None, NEW row \in Edits(held[p].row), NEW fields \in SaveFields, BeginSave(p, row, fields)
      PROVE  doing'[p].at \notin {"saved", "delete"}
  BY <1>0, <1>4 DEF BeginSave, Free
<1>5. ASSUME NEW deferring \in BOOLEAN, BeginDelete(p, deferring) PROVE doing'[p].at \notin {"save", "saved"}
  BY <1>0, <1>5 DEF BeginDelete
<1>6. ASSUME NEW late \in BOOLEAN, RollbackDelete(p, late) PROVE Elsewhere
  BY <1>0, <1>6 DEF RollbackDelete
<1>7. CASE Rollback(p) \/ CrashBeforeFlush(p)
  BY <1>0, <1>7 DEF Rollback, CrashBeforeFlush
<1>8. ASSUME NEW g \in Groups, Associate(p, g) \/ Disassociate(p, g) PROVE Elsewhere
  BY <1>0, <1>8 DEF Associate, Disassociate, OnRow, Free
<1>9. CASE BeginClear(p) \/ FinishClear(p)
  BY <1>0, <1>9 DEF BeginClear, FinishClear
<1>10. CASE Write(p)
  <2>1. doing'[p] = Idle \/ (WriteDone(p) /\ doing'[p] = Written(p))
    BY <1>0, <1>10, WriteEnds DEF WriteRefused, WriteLost, WriteDone
  <2>2. Written(p).at = "saved"
    BY DEF Written
  <2> QED BY <1>0, <1>10, <2>1, <2>2
<1>11. CASE Commit(p) \/ FlushEntries(p)
  BY <1>0, <1>11 DEF Commit, FlushEntries
<1>12. CASE FinishDelete(p)
  BY <1>0, <1>12 DEF FinishDelete
<1>13. CASE FlushCleanup(p)
  <2>1. doing'[p].at = "entries"
    BY <1>0, <1>13, FlushHas DEF FlushCleanup, TypeInv, DoingAllFit, DoingFits
  <2> QED BY <2>1
<1> HIDE DEF Elsewhere
<1> QED BY <1>1, <1>2, <1>3, <1>4, <1>5, <1>6, <1>7, <1>8, <1>9, <1>10, <1>11, <1>12, <1>13 DEF Step, Elsewhere

\* The row of an object changes when it is committed, and with a deletion.
LEMMA RowsChange ==
  ASSUME NEW p \in Processes, Step(p)
  PROVE  UNCHANGED rows \/ Commit(p) \/ FinishDelete(p)
BY DEF Step, Load, New, Forget, BeginSave, BeginDelete, RollbackDelete, Rollback, CrashBeforeFlush, Associate, Disassociate,
   BeginClear, Write, FlushCleanup, FlushEntries, FinishClear

\* What a save has written is what it was called with.
LEMMA WrittenKnows ==
  ASSUME TypeInv, NEW p \in Processes, doing[p].at = "save", ~Impossible(doing[p], held[p].row),
         SaveKnows(doing[p], held[p].row)
  PROVE  SavedKnows(Written(p))
<1>1. SaveKnows(Written(p), Written(p).data)
  BY DEF SaveKnows, Written
<1>2. Written(p).was = None => Written(p).fields = None
  BY DEF Written, Impossible
<1>3. Written(p).row = IF Written(p).fields = None THEN Written(p).data
                       ELSE Merge(Written(p).was, Written(p).data, Written(p).fields)
  BY DEF Written, Impossible, NewRow, RowAfter
<1> QED BY <1>1, <1>2, <1>3 DEF SavedKnows

\* A save that begins compares the row there is with the instance it will write.
LEMMA BeginSaveKnows ==
  ASSUME TypeInv, NEW p \in Processes, held[p] # None, NEW row, NEW fields, BeginSave(p, row, fields),
         doing'[p].at = "save"
  PROVE  /\ SaveKnows(doing'[p], held'[p].row)
         /\ doing'[p].flagged = held[p].skip /\ doing'[p].o = held[p].o /\ doing'[p].seen = rows[held[p].o]
         /\ held'[p].skip = (held[p].skip \/ Skips(held[p].o, rows[held[p].o], held'[p].row, doing'[p].fields))
<1> DEFINE o       == held[p].o
           written == WithModifiedBy(p, fields)
           new     == IF "modified_by" \in written THEN [row EXCEPT !.modified_by = p] ELSE row
           update  == IF fields = None THEN None ELSE written
           skip    == held[p].skip \/ Skips(o, rows[o], new, update)
           entry   == Changes(rows[o], new, update)
           d       == [at |-> "save", o |-> o, fields |-> update, seen |-> rows[o], flagged |-> held[p].skip,
                       entry |-> entry]
<1>1. held \in [Processes -> Instances \cup {None}] /\ held[p] \in Instances
  BY DEF TypeInv, HeldFits
<1>2. written # {}
  BY DEF BeginSave, Free, Idle
<1>3. held' = [held EXCEPT ![p].row = new, ![p].skip = skip] /\ doing' = [doing EXCEPT ![p] = d]
  BY <1>2 DEF BeginSave
<1> HIDE DEF new, skip
<1>4. held'[p] = [held[p] EXCEPT !.row = new, !.skip = skip]
  BY <1>1, <1>3, TwoFields
<1>5. held'[p].row = new /\ held'[p].skip = skip
  BY <1>1, <1>4 DEF Instances
<1>6. doing'[p] = d
  BY <1>3 DEF TypeInv, DoingAllFit
<1>7. d.entry = Changes(d.seen, new, d.fields) /\ d.flagged = held[p].skip /\ d.o = o /\ d.seen = rows[o] /\ d.fields = update
  OBVIOUS
<1> HIDE DEF d, update
<1> QED BY <1>5, <1>6, <1>7 DEF SaveKnows, skip

LEMMA StepKnows ==
  ASSUME TypeInv, EntriesFit, NEW p \in Processes, Step(p)
  PROVE  EntriesFit'
<1>1. Moves(p)
  BY StepMoves
<1>2. ASSUME NEW q \in Processes \ {p}
      PROVE  /\ doing'[q].at = "save" => SaveKnows(doing'[q], held'[q].row)
             /\ doing'[q].at = "saved" => SavedKnows(doing'[q])
  BY <1>1, MovesAlone DEF EntriesFit
<1>3. doing'[p].at = "save" => SaveKnows(doing'[p], held'[p].row)
  BY StageComesFrom, BeginSaveKnows
<1>4. doing'[p].at = "saved" => SavedKnows(doing'[p])
  BY StageComesFrom, WriteEnds, WrittenKnows DEF EntriesFit, WriteDone
<1> QED BY <1>2, <1>3, <1>4 DEF EntriesFit, SaveKnows, SavedKnows

LEMMA StepLocks ==
  ASSUME TypeInv, LockInv, NEW p \in Processes, Step(p)
  PROVE  LockInv'
<1>1. Moves(p)
  BY StepMoves
<1>2. \A q \in Processes \ {p} : doing'[q] = doing[q]
  BY <1>1, MovesAlone
<1>3. doing'[p].at = "saved" => /\ \A q \in Processes \ {p} : doing'[q].at = "saved" => doing'[q].o # doing'[p].o
                                /\ doing'[p].o = doing[p].o /\ doing'[p].was = rows[doing[p].o]
                                /\ UNCHANGED rows
  <2> SUFFICES ASSUME doing'[p].at = "saved"
               PROVE  /\ \A q \in Processes \ {p} : doing'[q].at = "saved" => doing'[q].o # doing'[p].o
                      /\ doing'[p].o = doing[p].o /\ doing'[p].was = rows[doing[p].o]
                      /\ UNCHANGED rows
    OBVIOUS
  <2>1. Write(p) /\ doing'[p] = Written(p) /\ ~Locked(doing[p].o) /\ UNCHANGED rows
    BY StageComesFrom, WriteEnds
  <2>2. Written(p).o = doing[p].o /\ Written(p).was = rows[doing[p].o]
    BY DEF Written
  <2> QED BY <1>2, <2>1, <2>2 DEF Locked
<1>4. OneWriter'
  <2> SUFFICES ASSUME NEW q \in Processes, NEW r \in Processes,
                      doing'[q].at = "saved", doing'[r].at = "saved", doing'[q].o = doing'[r].o
               PROVE  q = r
    BY DEF OneWriter
  <2>1. CASE q = p \/ r = p
    BY <1>3, <2>1
  <2>2. CASE q # p /\ r # p
    BY <1>2, <2>2 DEF LockInv, OneWriter
  <2> QED BY <2>1, <2>2
<1>5. ASSUME NEW q \in Processes \ {p}, doing[q].at = "saved"
      PROVE  rows'[doing[q].o] = rows[doing[q].o]
  <2>1. rows \in [Objects -> Rows \cup {None}]
    BY DEF TypeInv, RowsFit
  <2>2. CASE Commit(p)
    <3>1. doing[p].o # doing[q].o
      BY <1>5, <2>2 DEF LockInv, OneWriter, Commit
    <3>2. doing[p].o \in Objects /\ doing[q].o \in Objects
      BY <1>5, <2>2, SavedHas DEF Commit
    <3> QED BY <2>1, <2>2, <3>1, <3>2 DEF Commit
  <2>3. CASE FinishDelete(p)
    <3>1. doing[p].o # doing[q].o
      BY <1>5, <2>3 DEF FinishDelete, Locked
    <3>2. doing[q].o \in Objects
      BY <1>5, SavedHas
    <3> QED BY <2>1, <2>3, <3>1, <3>2 DEF FinishDelete
  <2> QED BY <2>2, <2>3, RowsChange
<1>6. RowStays'
  <2> SUFFICES ASSUME NEW q \in Processes, doing'[q].at = "saved" PROVE rows'[doing'[q].o] = doing'[q].was
    BY DEF RowStays
  <2>1. CASE q = p
    BY <1>3, <2>1
  <2>2. CASE q # p
    BY <1>2, <1>5, <2>2 DEF LockInv, RowStays
  <2> QED BY <2>1, <2>2
<1> QED BY <1>4, <1>6 DEF LockInv

-----------------------------------------------------------------------------
(* The Resource row                                                        *)

\* Whoever has something to flush goes on with that, or dies.
LEMMA FlushComesFirst ==
  ASSUME NEW p \in Processes, Step(p), doing[p].at \in {"cleanup", "entries"}
  PROVE  FlushCleanup(p) \/ FlushEntries(p) \/ CrashBeforeFlush(p)
<1>1. ~Free(p)
  BY DEF Free, Idle
<1>2. ~(\E o \in Objects : Load(p, o)) /\ ~(\E o \in Objects, u \in Usernames, e \in Emails : New(p, o, u, e)) /\ ~Forget(p)
  BY <1>1 DEF Load, New, Forget
<1>3. /\ \A row, fields : ~BeginSave(p, row, fields)
      /\ \A deferring : ~BeginDelete(p, deferring)
      /\ \A late : ~RollbackDelete(p, late)
  BY <1>1 DEF BeginSave, BeginDelete, RollbackDelete
<1>4. ~Rollback(p) /\ ~BeginClear(p) /\ ~Write(p) /\ ~Commit(p) /\ ~FinishDelete(p) /\ ~FinishClear(p)
      /\ \A g : ~Associate(p, g) /\ ~Disassociate(p, g)
  BY <1>1 DEF Rollback, BeginClear, Write, Commit, FinishDelete, FinishClear, Associate, Disassociate, OnRow
<1> QED BY <1>2, <1>3, <1>4 DEF Step

\* What others have to flush stays; so does one's own until one goes on.
LEMMA DoneStays ==
  ASSUME TypeInv, NEW p \in Processes, Step(p), NEW o, NEW stages \in SUBSET {"cleanup", "entries"},
         Done(o, stages), ~(doing[p].at \in stages /\ doing[p].o = o /\ doing[p].done)
  PROVE  Done(o, stages)'
<1>1. PICK q \in Processes : doing[q].at \in stages /\ doing[q].o = o /\ doing[q].done
  BY DEF Done
<1>2. q # p
  BY <1>1
<1>3. doing'[q] = doing[q]
  BY <1>2, StepMoves, MovesAlone
<1> QED BY <1>1, <1>3 DEF Done

LEMMA RegistryStays ==
  ASSUME NEW p \in Processes, Step(p)
  PROVE  \/ UNCHANGED <<rows, registered, astray>> /\ doing[p].at # "cleanup"
         \/ Commit(p) \/ FinishDelete(p) \/ FlushCleanup(p) \/ CrashBeforeFlush(p)
<1>1. \/ UNCHANGED <<rows, registered, astray>>
      \/ Commit(p) \/ FinishDelete(p) \/ FlushCleanup(p) \/ CrashBeforeFlush(p)
  BY DEF Step, Load, New, Forget, BeginSave, BeginDelete, RollbackDelete, Rollback, Associate, Disassociate,
     BeginClear, Write, FinishClear, FlushEntries
<1>2. FlushEntries(p) => doing[p].at # "cleanup"
  BY DEF FlushEntries
<1> QED BY <1>1, <1>2, FlushComesFirst

LEMMA StepRegistry ==
  ASSUME TypeInv, RegistryInv, NEW p \in Processes, Step(p)
  PROVE  RegistryInv'
<1> DEFINE d == doing[p]
<1>0. RowsFit /\ doing = [q \in Processes |-> doing[q]]
  BY DEF TypeInv, DoingAllFit
<1> SUFFICES ASSUME NEW o \in Objects, o \notin astray', ~Done(o, {"cleanup"})'
             PROVE  /\ registered'[o] = None <=> rows'[o] = None
                    /\ rows'[o] # None => registered'[o].name = rows'[o].username
  BY DEF RegistryInv
<1>1. ASSUME o \notin astray, rows'[o] = rows[o], registered'[o] = registered[o],
             ~(d.at = "cleanup" /\ d.o = o /\ d.done)
      PROVE  /\ registered'[o] = None <=> rows'[o] = None
             /\ rows'[o] # None => registered'[o].name = rows'[o].username
  <2>1. ~Done(o, {"cleanup"})
    BY <1>1, DoneStays
  <2> QED BY <1>1, <2>1 DEF RegistryInv
<1>2. CASE UNCHANGED <<rows, registered, astray>> /\ d.at # "cleanup"
  BY <1>1, <1>2
<1>3. CASE Commit(p)
  <2>1. d.o \in Objects /\ d.row \in Rows /\ d.res \in Resources /\ d.res.name = d.row.username
    BY <1>3, SavedHas DEF Commit, SavedFits
  <2>2. CASE o = d.o
    BY <1>0, <1>3, <2>1, <2>2, NoneIsNone DEF Commit, RowsFit
  <2>3. CASE o # d.o
    <3>1. o \notin astray /\ rows'[o] = rows[o] /\ registered'[o] = registered[o] /\ d.at # "cleanup"
      BY <1>0, <1>3, <2>1, <2>3 DEF Commit, RowsFit
    <3> QED BY <1>1, <3>1
  <2> QED BY <2>2, <2>3
<1>4. CASE FinishDelete(p)
  <2>1. d.o \in Objects /\ d.at # "cleanup"
    BY <1>4, DeleteHas DEF FinishDelete
  <2>2. CASE o # d.o
    <3>1. o \notin astray /\ rows'[o] = rows[o] /\ registered'[o] = registered[o]
      BY <1>0, <1>4, <2>1, <2>2 DEF FinishDelete, RowsFit
    <3> QED BY <1>1, <2>1, <3>1
  <2>3. CASE o = d.o /\ d.deferring
    <3>1. doing'[p] = [at |-> "cleanup", o |-> o, done |-> TRUE]
      BY <1>0, <1>4, <2>3 DEF FinishDelete
    <3>2. Done(o, {"cleanup"})'
      BY <3>1 DEF Done
    <3> QED BY <3>2
  <2>4. CASE o = d.o /\ ~d.deferring
    BY <1>0, <1>4, <2>4 DEF FinishDelete, RowsFit
  <2> QED BY <2>2, <2>3, <2>4
<1>5. CASE FlushCleanup(p)
  <2>1. d.o \in Objects
    BY <1>5, FlushHas DEF FlushCleanup
  <2>2. CASE o # d.o
    <3>1. o \notin astray /\ rows'[o] = rows[o] /\ registered'[o] = registered[o]
      BY <1>0, <1>5, <2>1, <2>2 DEF FlushCleanup, RowsFit
    <3> QED BY <1>1, <2>2, <3>1
  <2>3. CASE o = d.o
    BY <1>0, <1>5, <2>3 DEF FlushCleanup, RowsFit
  <2> QED BY <2>2, <2>3
<1>6. CASE CrashBeforeFlush(p)
  <2>1. o \notin astray /\ rows'[o] = rows[o] /\ registered'[o] = registered[o] /\ ~(d.at = "cleanup" /\ d.o = o /\ d.done)
    BY <1>6 DEF CrashBeforeFlush
  <2> QED BY <1>1, <2>1
<1> QED BY <1>2, <1>3, <1>4, <1>5, <1>6, RegistryStays

-----------------------------------------------------------------------------
(* The activity stream                                                     *)

LEMMA StepGroups ==
  ASSUME TypeInv, GroupsInv, NEW p \in Processes, Step(p)
  PROVE  GroupsInv'
<1>0. RowsFit
  BY DEF TypeInv
<1> SUFFICES ASSUME NEW o \in Objects, rows'[o] = None PROVE groups'[o] = {}
  BY DEF GroupsInv
<1>1. CASE UNCHANGED <<rows, groups>>
  BY <1>1 DEF GroupsInv
<1>2. ASSUME NEW g \in Groups, Associate(p, g) \/ Disassociate(p, g) PROVE groups'[o] = {}
  BY <1>0, <1>2 DEF Associate, Disassociate, OnRow, RowsFit, GroupsInv
<1>3. CASE FinishClear(p)
  BY <1>0, <1>3 DEF FinishClear, RowsFit, GroupsInv
<1>4. CASE Commit(p)
  <2>1. doing[p].o \in Objects /\ doing[p].row \in Rows
    BY <1>4, SavedHas DEF Commit, SavedFits
  <2> QED BY <1>0, <1>4, <2>1, NoneIsNone DEF Commit, RowsFit, GroupsInv
<1>5. CASE FinishDelete(p)
  <2>1. doing[p].o \in Objects
    BY <1>5, DeleteHas DEF FinishDelete
  <2> QED BY <1>0, <1>5, <2>1 DEF FinishDelete, RowsFit, GroupsInv
<1>6. \/ UNCHANGED <<rows, groups>> \/ Commit(p) \/ FinishDelete(p) \/ FinishClear(p)
      \/ \E g \in Groups : Associate(p, g) \/ Disassociate(p, g)
  BY DEF Step, Load, New, Forget, BeginSave, BeginDelete, RollbackDelete, Rollback, CrashBeforeFlush,
     BeginClear, Write, FlushCleanup, FlushEntries
<1> QED BY <1>1, <1>2, <1>3, <1>4, <1>5, <1>6

\* The entries of a save that nobody has overtaken tell what it has changed.
LEMMA EntriesTell ==
  ASSUME NEW d, SaveFits(d), d.row \in Rows, d.data \in Rows, d.was \in Rows \cup {None},
         SavedKnows(d), ~Overtaken(d), d.was # None => told[d.o] = Story(d.was)
  PROVE  ToldAfter(d) = Story(d.row)
<1>0. Logged \subseteq Fields /\ d.row # None
  BY SharedAssumption, NoneIsNone DEF Logged
<1>1. CASE d.was = None
  BY <1>0, <1>1 DEF ToldAfter, Story
<1>2. CASE d.was # None
  <2>1. told[d.o] = [f \in Logged |-> d.was[f]] /\ told[d.o] # None
    BY <1>2, SharedAssumption DEF Story
  <2>2. ToldAfter(d) = [f \in Logged |-> IF f \in d.entry THEN d.data[f] ELSE d.was[f]]
    BY <1>2, <2>1 DEF ToldAfter
  <2>3. d.entry = Changes(d.seen, d.data, d.fields)
    BY DEF SavedKnows, SaveKnows
  <2>4. \A f \in IF d.fields = None THEN Fields ELSE d.fields : d.seen # None /\ d.was[f] = d.seen[f]
    BY <1>2 DEF Overtaken
  <2>5. d.seen # None
    BY <2>4 DEF SaveFits, Partial, Fields
  <2>6. ASSUME NEW f \in Logged
        PROVE  (IF f \in d.entry THEN d.data[f] ELSE d.was[f]) = d.row[f]
    <3>1. CASE d.fields = None
      <4>1. GetLimit(d.fields) # None /\ f \in GetLimit(d.fields) \ Excluded
        BY <2>6, <3>1, SharedAssumption, NoneIsNone DEF GetLimit, Logged
      <4>2. f \in d.entry <=> d.seen[f] # d.data[f]
        BY <2>3, <2>5, <4>1 DEF Changes
      <4> QED BY <1>0, <2>4, <3>1, <4>2 DEF SavedKnows
    <3>2. CASE d.fields # None /\ f \in d.fields
      <4>1. GetLimit(d.fields) # None /\ f \in GetLimit(d.fields) \ Excluded
        BY <2>6, <3>2, SharedAssumption, NoneIsNone DEF GetLimit, Logged
      <4>2. f \in d.entry <=> d.seen[f] # d.data[f]
        BY <2>3, <2>5, <4>1 DEF Changes
      <4>3. d.row[f] = d.data[f]
        BY <1>0, <3>2 DEF SavedKnows, Merge
      <4> QED BY <2>4, <3>2, <4>2, <4>3
    <3>3. CASE d.fields # None /\ f \notin d.fields
      <4>1. f \notin d.entry
        BY <2>3, <3>3 DEF Changes, GetLimit
      <4>2. d.row[f] = d.was[f]
        BY <1>0, <3>3 DEF SavedKnows, Merge
      <4> QED BY <4>1, <4>2
    <3> QED BY <3>1, <3>2, <3>3
  <2> QED BY <1>0, <2>2, <2>6 DEF Story
<1> QED BY <1>1, <1>2

LEMMA StreamStays ==
  ASSUME NEW p \in Processes, Step(p)
  PROVE  \/ UNCHANGED <<rows, groups, told, toldGroups, mistold>> /\ doing[p].at \notin {"cleanup", "entries"}
         \/ Commit(p) \/ FinishDelete(p) \/ FlushCleanup(p) \/ FlushEntries(p) \/ CrashBeforeFlush(p) \/ FinishClear(p)
         \/ \E g \in Groups : Associate(p, g) \/ Disassociate(p, g)
<1>1. \/ UNCHANGED <<rows, groups, told, toldGroups, mistold>>
      \/ Commit(p) \/ FinishDelete(p) \/ FlushCleanup(p) \/ FlushEntries(p) \/ CrashBeforeFlush(p) \/ FinishClear(p)
      \/ \E g \in Groups : Associate(p, g) \/ Disassociate(p, g)
  BY DEF Step, Load, New, Forget, BeginSave, BeginDelete, RollbackDelete, Rollback, BeginClear, Write
<1> QED BY <1>1, FlushComesFirst

LEMMA StepStream ==
  ASSUME TypeInv, EntriesFit, LockInv, GroupsInv, StreamInv, NEW p \in Processes, Step(p)
  PROVE  StreamInv'
<1> DEFINE d == doing[p]
           stages == {"cleanup", "entries"}
           Tells(o) == told[o] = Story(rows[o]) /\ toldGroups[o] = groups[o]
<1>0. RowsFit /\ doing = [q \in Processes |-> doing[q]]
  BY DEF TypeInv, DoingAllFit
<1> SUFFICES ASSUME NEW o \in Objects, o \notin mistold', ~Done(o, stages)'
             PROVE  Tells(o)'
  BY DEF StreamInv, Story
<1>1. ASSUME o \notin mistold, ~(d.at \in stages /\ d.o = o /\ d.done)
      PROVE  Tells(o)
  <2>1. ~Done(o, stages)
    BY <1>1, DoneStays
  <2> QED BY <1>1, <2>1 DEF StreamInv
<1>2. ASSUME Tells(o), rows'[o] = rows[o], groups'[o] = groups[o], told'[o] = told[o], toldGroups'[o] = toldGroups[o]
      PROVE  Tells(o)'
  BY <1>2 DEF Story
<1>3. CASE UNCHANGED <<rows, groups, told, toldGroups, mistold>> /\ d.at \notin stages
  BY <1>1, <1>2, <1>3
<1>4. CASE Commit(p)
  <2>1. d.o \in Objects /\ SaveFits(d) /\ SavedFits(d, issued) /\ d.at = "saved"
    BY <1>4, SavedHas DEF Commit
  <2>2. o \notin mistold
    BY <1>4 DEF Commit
  <2>3. Tells(o)
    BY <1>1, <2>1, <2>2
  <2>4. CASE o # d.o
    <3>1. rows'[o] = rows[o] /\ groups'[o] = groups[o] /\ told'[o] = told[o] /\ toldGroups'[o] = toldGroups[o]
      BY <1>0, <1>4, <2>1, <2>4 DEF Commit, RowsFit
    <3> QED BY <1>2, <2>3, <3>1
  <2>5. CASE o = d.o
    <3>1. rows'[o] = d.row /\ told'[o] = ToldAfter(d) /\ UNCHANGED <<groups, toldGroups>>
      BY <1>0, <1>4, <2>1, <2>5 DEF Commit, RowsFit
    <3>2. ~Overtaken(d)
      BY <1>4, <2>5 DEF Commit
    <3>3. SavedKnows(d) /\ rows[o] = d.was
      BY <2>1, <2>5 DEF EntriesFit, LockInv, RowStays
    <3>4. ToldAfter(d) = Story(d.row)
      BY <2>1, <2>3, <2>5, <3>2, <3>3, EntriesTell DEF SavedFits
    <3>5. told'[o] = Story(rows'[o]) /\ toldGroups'[o] = groups'[o]
      BY <2>3, <3>1, <3>4
    <3> QED BY <3>5 DEF Story
  <2> QED BY <2>4, <2>5
<1>5. CASE FinishDelete(p)
  <2>1. d.o \in Objects /\ d.at = "delete"
    BY <1>5, DeleteHas DEF FinishDelete
  <2>2. CASE o # d.o
    <3>1. rows'[o] = rows[o] /\ groups'[o] = groups[o] /\ told'[o] = told[o] /\ toldGroups'[o] = toldGroups[o]
          /\ o \notin mistold
      BY <1>0, <1>5, <2>1, <2>2 DEF FinishDelete, RowsFit
    <3> QED BY <1>1, <1>2, <2>1, <3>1
  <2>3. CASE o = d.o /\ d.deferring
    <3>1. doing'[p] = [at |-> "cleanup", o |-> o, done |-> TRUE]
      BY <1>0, <1>5, <2>3 DEF FinishDelete
    <3>2. Done(o, stages)'
      BY <3>1 DEF Done
    <3> QED BY <3>2
  <2>4. CASE o = d.o /\ ~d.deferring
    BY <1>0, <1>5, <2>4 DEF FinishDelete, RowsFit, Story
  <2> QED BY <2>2, <2>3, <2>4
<1>6. CASE FlushCleanup(p)
  <2>1. ~(d.at \in stages /\ d.o = o /\ d.done)
    <3> SUFFICES ASSUME d.o = o, d.done PROVE FALSE
      OBVIOUS
    <3>1. DoingFits(d, used, issued) /\ doing'[p] = [d EXCEPT !.at = "entries"]
      BY <1>0, <1>6 DEF FlushCleanup, TypeInv, DoingAllFit
    <3> HIDE DEF d
    <3>2. doing'[p].at = "entries" /\ doing'[p].o = o /\ doing'[p].done
      BY <3>1 DEF DoingFits
    <3> QED BY <3>2 DEF Done
  <2>2. UNCHANGED <<rows, groups, told, toldGroups, mistold>>
    BY <1>6 DEF FlushCleanup
  <2> QED BY <1>1, <1>2, <2>1, <2>2
<1>7. CASE FlushEntries(p)
  <2>1. CASE o # d.o
    <3>1. d.o \in Objects
      BY <1>7, FlushHas DEF FlushEntries
    <3>2. rows'[o] = rows[o] /\ groups'[o] = groups[o] /\ told'[o] = told[o] /\ toldGroups'[o] = toldGroups[o]
          /\ o \notin mistold
      BY <1>0, <1>7, <2>1, <3>1 DEF FlushEntries, RowsFit
    <3> QED BY <1>1, <1>2, <2>1, <3>2
  <2>2. CASE o = d.o
    <3>1. rows[o] = None /\ UNCHANGED <<rows, groups>> /\ told'[o] = None /\ toldGroups'[o] = {}
      BY <1>0, <1>7, <2>2 DEF FlushEntries, RowsFit
    <3> QED BY <3>1 DEF GroupsInv, Story
  <2> QED BY <2>1, <2>2
<1>8. CASE CrashBeforeFlush(p)
  <2>1. o \notin mistold /\ ~(d.at \in stages /\ d.o = o /\ d.done) /\ UNCHANGED <<rows, groups, told, toldGroups>>
    BY <1>8 DEF CrashBeforeFlush
  <2> QED BY <1>1, <1>2, <2>1
<1>9. ASSUME NEW g \in Groups, Associate(p, g) \/ Disassociate(p, g) PROVE Tells(o)'
  <2>1. o \notin mistold /\ d.at \notin stages /\ UNCHANGED <<rows, told>>
    BY <1>9 DEF Associate, Disassociate, OnRow, Free, Idle
  <2>2. Tells(o)
    BY <1>1, <2>1
  <2>3. PICK x : x = held[p].o
    OBVIOUS
  <2>4. groups[o] = toldGroups[o] /\ o \in DOMAIN groups /\ o \in DOMAIN toldGroups
    BY <1>0, <2>2 DEF RowsFit
  <2>5. CASE Associate(p, g)
    <3>1. /\ groups' = [groups EXCEPT ![x] = @ \cup {g}]
          /\ toldGroups' = [toldGroups EXCEPT ![x] = @ \cup ({g} \ groups[x])]
      BY <2>3, <2>5 DEF Associate
    <3>2. o = x => toldGroups'[o] = groups'[o]
      BY <2>4, <3>1
    <3>3. o # x => toldGroups'[o] = groups'[o]
      BY <2>4, <3>1
    <3> QED BY <2>1, <2>2, <3>2, <3>3 DEF Story
  <2>6. CASE Disassociate(p, g)
    <3>1. /\ groups' = [groups EXCEPT ![x] = @ \ {g}]
          /\ toldGroups' = [toldGroups EXCEPT ![x] = @ \ {g}]
      BY <2>3, <2>6 DEF Disassociate
    <3>2. o = x => toldGroups'[o] = groups'[o]
      BY <2>4, <3>1
    <3>3. o # x => toldGroups'[o] = groups'[o]
      BY <2>4, <3>1
    <3> QED BY <2>1, <2>2, <3>2, <3>3 DEF Story
  <2> QED BY <1>9, <2>5, <2>6
<1>10. CASE FinishClear(p)
  <2>1. o \notin mistold /\ d.at \notin stages /\ UNCHANGED <<rows, told>>
    BY <1>10 DEF FinishClear
  <2>2. Tells(o)
    BY <1>1, <2>1
  <2>3. d.o \in Objects /\ d.entry = d.was
    BY <1>10, FlushHas DEF FinishClear
  <2>4. o = d.o => groups[o] \subseteq d.was
    BY <1>10 DEF FinishClear
  <2>5. /\ groups' = [groups EXCEPT ![d.o] = {}]
        /\ toldGroups' = [toldGroups EXCEPT ![d.o] = @ \ d.entry]
    BY <1>10 DEF FinishClear
  <2>6. toldGroups[o] = groups[o]
    BY <2>2
  <2> HIDE DEF d, Tells
  <2>7. toldGroups'[o] = groups'[o]
    <3>1. CASE o = d.o
      BY <1>0, <2>3, <2>4, <2>5, <2>6, <3>1 DEF RowsFit
    <3>2. CASE o # d.o
      BY <1>0, <2>3, <2>5, <2>6, <3>2 DEF RowsFit
    <3> QED BY <3>1, <3>2
  <2> QED BY <2>1, <2>2, <2>7 DEF Story, Tells
<1> QED BY <1>3, <1>4, <1>5, <1>6, <1>7, <1>8, <1>9, <1>10, StreamStays

-----------------------------------------------------------------------------
(* The ansible_ids                                                         *)

LEMMA OwnedAreIssued ==
  ASSUME TypeInv
  PROVE  /\ \A o \in Objects, a \in Ids : Owns(o, a) => a \in issued
         /\ \A o \in Objects : registered[o] # None => registered[o].aid \in Ids
<1>1. ASSUME NEW p \in Processes, NEW a \in Ids, Cites(doing[p], a) PROVE a \in issued
  BY <1>1, SavedHas, DeleteHas, NoneIsNone DEF Cites, SavedFits
<1> QED BY <1>1 DEF Owns, TypeInv, HistoryFits

LEMMA RegistersChange ==
  ASSUME NEW p \in Processes, Step(p)
  PROVE  UNCHANGED registered \/ Commit(p) \/ FinishDelete(p) \/ FlushCleanup(p)
BY DEF Step, Load, New, Forget, BeginSave, BeginDelete, RollbackDelete, Rollback, CrashBeforeFlush, Associate, Disassociate,
   BeginClear, Write, FlushEntries, FinishClear

LEMMA RegisteredChange ==
  ASSUME TypeInv, NEW p \in Processes, Step(p), NEW o \in Objects
  PROVE  \/ registered'[o] = registered[o] \/ registered'[o] = None
         \/ Commit(p) /\ o = doing[p].o /\ registered'[o] = doing[p].res
<1>0. registered \in [Objects -> Resources \cup {None}]
  BY DEF TypeInv, RowsFit
<1>1. CASE Commit(p)
  BY <1>0, <1>1 DEF Commit
<1>2. CASE FinishDelete(p)
  BY <1>0, <1>2 DEF FinishDelete
<1>3. CASE FlushCleanup(p)
  BY <1>0, <1>3 DEF FlushCleanup
<1>4. UNCHANGED registered \/ Commit(p) \/ FinishDelete(p) \/ FlushCleanup(p)
  BY RegistersChange
<1> QED BY <1>1, <1>2, <1>3, <1>4

LEMMA WriteIds ==
  ASSUME TypeInv, NEW p \in Processes, Write(p), WriteDone(p) \/ WriteLost(p)
  PROVE  /\ NewRes(p).aid \in Ids /\ NewRes(p) \in Resources
         /\ NewRes(p).aid \notin issued \/ Owns(doing[p].o, NewRes(p).aid)
         /\ Written(p).res \in Resources /\ Written(p).res.aid = NewRes(p).aid
<1>1. doing[p].at = "save" /\ (registered[doing[p].o] = None => issued # Ids)
  BY WriteEnds DEF WriteDone, WriteLost
<1>2. Written(p).res = Answered(Request(p), NewRes(p))
  BY DEF Written
<1> QED BY <1>1, <1>2, NewResFits DEF Resources, Owns

LEMMA BeginDeleteIds ==
  ASSUME TypeInv, NEW p \in Processes, NEW deferring \in BOOLEAN, BeginDelete(p, deferring), NEW a \in Ids
  PROVE  /\ Cites(doing'[p], a) => /\ Owns(held[p].o, a) /\ doing'[p].o = held[p].o
                                   /\ registered[held[p].o] # None
         /\ held[p].o \in Objects
<1> DEFINE o   == held[p].o
           aid == IF registered[o] = None \/ held[p].skip THEN None ELSE registered[o].aid
           deleting == [at |-> "delete", o |-> o, aid |-> aid, deferring |-> deferring]
           raised == IF deferring THEN [at |-> "entries", o |-> o, done |-> FALSE] ELSE Idle
<1>1. doing' = [doing EXCEPT ![p] = deleting] \/ doing' = [doing EXCEPT ![p] = raised]
  BY DEF BeginDelete
<1>2. raised.at \notin {"saved", "delete"}
  BY DEF Idle
<1>3. deleting.at = "delete" /\ deleting.aid = aid /\ deleting.o = o
  OBVIOUS
<1> HIDE DEF deleting, raised
<1>4. doing'[p] = deleting \/ doing'[p] = raised
  BY <1>1 DEF TypeInv, DoingAllFit
<1>5. o \in Objects
  BY DEF BeginDelete, TypeInv, HeldFits, HistoryFits
<1> QED BY <1>2, <1>3, <1>4, <1>5, NoneIsNone DEF Cites, Owns

\* An object comes by an id that it had, or by one that nobody had.
LEMMA StepOwns ==
  ASSUME TypeInv, NEW p \in Processes, Step(p), NEW o \in Objects, NEW a \in Ids, Owns(o, a)'
  PROVE  Owns(o, a) \/ (a \notin issued /\ o = doing[p].o)
<1>1. CASE registered'[o] # None /\ registered'[o].aid = a
  <2>1. CASE registered'[o] = registered[o]
    BY <1>1, <2>1 DEF Owns
  <2>2. CASE Commit(p) /\ o = doing[p].o /\ registered'[o] = doing[p].res
    BY <1>1, <2>2 DEF Owns, Cites, Commit
  <2> QED BY <1>1, <2>1, <2>2, RegisteredChange
<1>2. ASSUME NEW q \in Processes, q # p, Cites(doing'[q], a), doing'[q].o = o
      PROVE  Owns(o, a)
  <2>1. doing'[q] = doing[q]
    BY <1>2, StepMoves, MovesAlone
  <2> QED BY <1>2, <2>1 DEF Owns
<1>3. CASE Cites(doing'[p], a) /\ doing'[p].o = o
  <2>1. CASE doing'[p].at = "saved"
    <3>1. Write(p) /\ WriteDone(p) /\ doing'[p] = Written(p)
      BY <2>1, StageComesFrom
    <3>2. Written(p).o = doing[p].o /\ Written(p).res.aid = a
      BY <1>3, <2>1, <3>1 DEF Written, Cites
    <3> QED BY <1>3, <3>1, <3>2, WriteIds
  <2>2. CASE doing'[p].at = "delete"
    BY <1>3, <2>2, StageComesFrom, BeginDeleteIds
  <2> QED BY <1>3, <2>1, <2>2 DEF Cites
<1> QED BY <1>1, <1>2, <1>3 DEF Owns, Cites

LEMMA StepIds ==
  ASSUME TypeInv, AidsApart, NEW p \in Processes, Step(p)
  PROVE  AidsApart'
<1> SUFFICES ASSUME NEW x \in Objects, NEW y \in Objects, NEW a \in Ids, Owns(x, a)', Owns(y, a)'
             PROVE  x = y
  BY DEF AidsApart
<1>1. /\ Owns(x, a) \/ (a \notin issued /\ x = doing[p].o)
      /\ Owns(y, a) \/ (a \notin issued /\ y = doing[p].o)
  BY StepOwns
<1> QED BY <1>1, OwnedAreIssued DEF AidsApart

-----------------------------------------------------------------------------
(* What a save knows of the Resource row and of the server                 *)

LEMMA SkipsMeans ==
  ASSUME NEW o, NEW old, NEW new \in Rows, NEW fields, Skips(o, old, new, fields)
  PROVE  Unchanged(old, new, fields)
<1>1. CASE fields = None
  <2>1. {f \in Synced : old[f] # new[f]} = {}
    BY <1>1 DEF Skips
  <2>2. \A f \in Synced : old[f] = new[f]
    BY <2>1
  <2>3. View(old) = View(new)
    BY <2>2, NoneIsNone DEF View, Skips
  <2> QED BY <1>1, <2>3 DEF Skips, Unchanged
<1>2. CASE fields # None
  BY <1>2 DEF Skips, Unchanged
<1> QED BY <1>1, <1>2

LEMMA StepSkips ==
  ASSUME TypeInv, SkipFits, NEW p \in Processes, Step(p)
  PROVE  SkipFits'
<1> DEFINE Fits(d, h) ==
      /\ d.at = "save" /\ h.skip /\ ~d.flagged => Unchanged(d.seen, h.row, d.fields)
      /\ d.at = "saved" /\ d.action = "none" /\ d.res.owner = "server" /\ ~d.flagged
           => Unchanged(d.seen, d.data, d.fields)
<1>1. ASSUME NEW q \in Processes, q # p PROVE Fits(doing'[q], held'[q])
  <2>1. doing'[q] = doing[q] /\ held'[q] = held[q]
    BY <1>1, StepMoves, MovesAlone
  <2> QED BY <2>1 DEF SkipFits
<1>2. ASSUME doing'[p].at = "save", held'[p].skip, ~doing'[p].flagged
      PROVE  Unchanged(doing'[p].seen, held'[p].row, doing'[p].fields)
  <2>1. Skips(held[p].o, rows[held[p].o], held'[p].row, doing'[p].fields) /\ doing'[p].seen = rows[held[p].o]
    BY <1>2, StageComesFrom, BeginSaveKnows
  <2>2. held'[p].row \in Rows
    <3>1. TypeInv'
      BY StepFits
    <3> QED BY <1>2, <3>1 DEF TypeInv, DoingAllFit, HeldFits, Instances
  <2> QED BY <2>1, <2>2, SkipsMeans
<1>3. ASSUME doing'[p].at = "saved", doing'[p].action = "none", doing'[p].res.owner = "server", ~doing'[p].flagged
      PROVE  Unchanged(doing'[p].seen, doing'[p].data, doing'[p].fields)
  <2>1. Write(p) /\ WriteDone(p) /\ doing'[p] = Written(p) /\ doing[p].at = "save"
    BY <1>3, StageComesFrom, WriteEnds
  <2>2. Request(p) = "none" /\ NewRes(p).owner = "server"
    BY <1>3, <2>1 DEF Written, Answered
  <2>3. held[p].skip
    BY <2>2 DEF Request, Action
  <2>4. Unchanged(doing[p].seen, held[p].row, doing[p].fields)
    BY <1>3, <2>1, <2>3 DEF SkipFits, Written
  <2> QED BY <2>1, <2>4 DEF Written
<1>4. \A q \in Processes : Fits(doing'[q], held'[q])
  BY <1>1, <1>2, <1>3
<1> QED BY <1>4 DEF SkipFits, Unchanged, View

LEMMA StepResource ==
  ASSUME TypeInv, LockInv, ResourceFits, NEW p \in Processes, Step(p)
  PROVE  ResourceFits'
<1> SUFFICES ASSUME NEW q \in Processes, doing'[q].at = "saved"
             PROVE  /\ doing'[q].action # "none" => doing'[q].res.owner = "server"
                    /\ \/ registered'[doing'[q].o] = None
                       \/ /\ registered'[doing'[q].o].aid = doing'[q].res.aid
                          /\ doing'[q].action = "none" => registered'[doing'[q].o].owner = doing'[q].res.owner
  BY DEF ResourceFits
<1>1. CASE q # p
  <2>1. doing'[q] = doing[q]
    BY <1>1, StepMoves, MovesAlone
  <2>2. doing[q].o \in Objects
    BY <2>1, SavedHas
  <2>3. Commit(p) => doing[p].o # doing[q].o
    BY <1>1, <2>1 DEF Commit, LockInv, OneWriter
  <2>4. registered'[doing[q].o] = registered[doing[q].o] \/ registered'[doing[q].o] = None
    BY <2>2, <2>3, RegisteredChange
  <2> QED BY <2>1, <2>4 DEF ResourceFits
<1>2. CASE q = p
  <2>1. Write(p) /\ WriteDone(p) /\ doing'[p] = Written(p) /\ doing[p].at = "save" /\ UNCHANGED registered
    BY <1>2, StageComesFrom, WriteEnds
  <2>2. NewRes(p) \in Resources
    BY <2>1, WriteIds
  <2>3. /\ Written(p).action = Request(p) /\ Written(p).res = Answered(Request(p), NewRes(p)) /\ Written(p).o = doing[p].o
    BY DEF Written
  <2>4. Request(p) # "none" => Answered(Request(p), NewRes(p)).owner = "server"
    BY <2>2 DEF Request, Action, Answered, Resources
  <2>5. Request(p) = "none" => Answered(Request(p), NewRes(p)) = NewRes(p)
    BY DEF Answered
  <2>6. registered[doing[p].o] # None => /\ NewRes(p).aid = registered[doing[p].o].aid
                                         /\ NewRes(p).owner = registered[doing[p].o].owner
    BY <2>1, NewResFits
  <2>7. Written(p).res.aid = NewRes(p).aid
    BY <2>1, WriteIds
  <2> QED BY <1>2, <2>1, <2>3, <2>4, <2>5, <2>6, <2>7
<1> QED BY <1>1, <1>2

\* The server changes what it has under one id at a time, at the request of a save or
\* a deletion; an id that is no longer apart has been asked about since.
LEMMA ServerChange ==
  ASSUME TypeInv, NEW p \in Processes, Step(p), NEW a \in Ids
  PROVE  \/ server'[a] = server[a] /\ (a \in apart => a \in apart')
         \/ Write(p) /\ WriteDone(p) /\ Request(p) # "none" /\ a = NewRes(p).aid
         \/ a \in apart'
         \/ doing'[p].at = "delete" /\ doing'[p].aid = a
<1>0. server \in [Ids -> Views \cup {None}] /\ doing = [q \in Processes |-> doing[q]]
  BY DEF TypeInv, RowsFit, DoingAllFit
<1>1. CASE Write(p)
  <2>1. CASE WriteRefused(p)
    BY <2>1 DEF WriteRefused
  <2>2. CASE WriteLost(p)
    <3>1. NewRes(p).aid \in Ids
      BY <1>1, <2>2, WriteIds
    <3> QED BY <1>0, <2>2, <3>1 DEF WriteLost
  <2>3. CASE WriteDone(p)
    <3>1. NewRes(p).aid \in Ids
      BY <1>1, <2>3, WriteIds
    <3> QED BY <1>0, <1>1, <2>3, <3>1 DEF WriteDone
  <2> QED BY <1>1, <2>1, <2>2, <2>3, WriteEnds
<1>2. ASSUME NEW deferring \in BOOLEAN, BeginDelete(p, deferring)
      PROVE  \/ server'[a] = server[a] /\ (a \in apart => a \in apart')
             \/ a \in apart'
             \/ doing'[p].at = "delete" /\ doing'[p].aid = a
  <2> DEFINE o   == held[p].o
             aid == IF registered[o] = None \/ held[p].skip THEN None ELSE registered[o].aid
             deleting == [at |-> "delete", o |-> o, aid |-> aid, deferring |-> deferring]
  <2>1. \/ UNCHANGED <<server, apart>>
        \/ /\ doing' = [doing EXCEPT ![p] = deleting]
           /\ aid # None /\ server' = [server EXCEPT ![aid] = None] /\ apart' = apart \ {aid}
        \/ aid # None /\ server' = [server EXCEPT ![aid] = None] /\ apart' = apart \cup {aid}
    BY <1>2 DEF BeginDelete, ServerAfter
  <2>2. deleting.at = "delete" /\ deleting.aid = aid
    OBVIOUS
  <2> HIDE DEF deleting, aid
  <2>3. doing' = [doing EXCEPT ![p] = deleting] => doing'[p] = deleting
    BY <1>0
  <2> QED BY <1>0, <2>1, <2>2, <2>3
<1>3. UNCHANGED server \/ Write(p) \/ \E deferring \in BOOLEAN : BeginDelete(p, deferring)
  BY DEF Step, Load, New, Forget, BeginSave, RollbackDelete, Rollback, CrashBeforeFlush, Associate, Disassociate,
     BeginClear, Commit, FinishDelete, FlushCleanup, FlushEntries, FinishClear
<1>4. Write(p) \/ (\E deferring \in BOOLEAN : BeginDelete(p, deferring)) \/ apart \subseteq apart'
  <2>1. CASE Commit(p)
    BY <2>1, ApartFits DEF Commit
  <2>2. CASE FinishDelete(p)
    BY <2>2 DEF FinishDelete, ApartDeleted
  <2>3. \/ apart \subseteq apart' \/ Write(p) \/ Commit(p) \/ FinishDelete(p)
        \/ \E deferring \in BOOLEAN : BeginDelete(p, deferring)
    BY DEF Step, Load, New, Forget, BeginSave, RollbackDelete, Rollback, CrashBeforeFlush, Associate, Disassociate,
       BeginClear, FlushCleanup, FlushEntries, FinishClear
  <2> QED BY <2>1, <2>2, <2>3
<1> QED BY <1>1, <1>2, <1>3, <1>4

LEMMA StepGone ==
  ASSUME TypeInv, LockInv, AidsApart, ResourceFits, GoneFits, NEW p \in Processes, Step(p)
  PROVE  GoneFits'
<1> SUFFICES ASSUME NEW q \in Processes, doing'[q].at = "saved", doing'[q].action = "none", doing'[q].res.owner = "server",
                    doing'[q].was # None, registered'[doing'[q].o] = None
             PROVE  doing'[q].res.aid \in apart'
  BY DEF GoneFits
<1>1. CASE q = p
  <2>1. Write(p) /\ WriteDone(p) /\ doing'[p] = Written(p) /\ doing[p].at = "save" /\ UNCHANGED registered
    BY <1>1, StageComesFrom, WriteEnds
  <2>2. /\ Written(p).action = Request(p) /\ Written(p).res = Answered(Request(p), NewRes(p)) /\ Written(p).o = doing[p].o
    BY DEF Written
  <2>3. Written(p).res = NewRes(p) /\ registered[doing[p].o] = None
    BY <1>1, <2>1, <2>2 DEF Answered
  <2>4. NewRes(p).owner = "here"
    BY <2>1, <2>3, NewResFits DEF WriteDone
  <2> QED BY <1>1, <2>1, <2>3, <2>4
<1>2. CASE q # p
  <2>0. doing'[q] = doing[q]
    BY <1>2, StepMoves, MovesAlone
  <2> DEFINE o == doing[q].o
             a == doing[q].res.aid
  <2>1. /\ doing[q].at = "saved" /\ doing[q].action = "none" /\ doing[q].res.owner = "server" /\ doing[q].was # None
        /\ o \in Objects /\ a \in Ids /\ a \in issued /\ registered'[o] = None
    BY <2>0, SavedHas DEF SavedFits
  <2>2. Owns(o, a) /\ Locked(o) /\ rows[o] = doing[q].was
    BY <2>1 DEF Owns, Cites, Locked, LockInv, RowStays
  <2>3. CASE registered[o] # None
    <3>1. registered[o].aid = a
      BY <2>1, <2>3 DEF ResourceFits
    <3>2. registered \in [Objects -> Resources \cup {None}]
      BY DEF TypeInv, RowsFit
    <3>3. CASE FlushCleanup(p)
      <4>1. doing[p].o = o
        <5>1. doing[p].o \in Objects
          BY <3>3, FlushHas DEF FlushCleanup
        <5> QED BY <2>1, <2>3, <3>2, <3>3, <5>1 DEF FlushCleanup
      <4> QED BY <2>0, <2>1, <2>2, <2>3, <3>1, <3>3, <4>1 DEF FlushCleanup
    <3>4. CASE FinishDelete(p)
      <4>1. doing[p].o \in Objects /\ doing[p].o # o
        BY <2>2, <3>4, DeleteHas DEF FinishDelete
      <4> QED BY <2>1, <2>3, <3>2, <3>4, <4>1 DEF FinishDelete
    <3>5. CASE Commit(p)
      <4>1. doing[p].o # o
        BY <1>2, <2>1, <3>5 DEF Commit, LockInv, OneWriter
      <4> QED BY <2>1, <2>3, <3>2, <3>5, <4>1 DEF Commit
    <3>6. UNCHANGED registered \/ Commit(p) \/ FinishDelete(p) \/ FlushCleanup(p)
      BY RegistersChange
    <3> QED BY <2>1, <2>3, <3>3, <3>4, <3>5, <3>6
  <2>4. CASE registered[o] = None
    <3>1. a \in apart
      BY <2>1, <2>4 DEF GoneFits
    <3>2. ~(Write(p) /\ WriteDone(p) /\ a = NewRes(p).aid)
      <4> SUFFICES ASSUME Write(p), WriteDone(p), a = NewRes(p).aid PROVE FALSE
        OBVIOUS
      <4>1. doing[p].at = "save" /\ ~Locked(doing[p].o) /\ doing[p].o \in Objects
        BY WriteEnds, SaveHas
      <4>2. Owns(doing[p].o, a)
        BY <2>1, WriteIds
      <4>3. doing[p].o = o
        BY <2>1, <2>2, <4>1, <4>2 DEF AidsApart
      <4> QED BY <2>2, <4>1, <4>3
    <3>3. ~(doing'[p].at = "delete" /\ doing'[p].aid = a)
      <4> SUFFICES ASSUME doing'[p].at = "delete", doing'[p].aid = a PROVE FALSE
        OBVIOUS
      <4>1. PICK deferring \in BOOLEAN : BeginDelete(p, deferring)
        BY StageComesFrom
      <4>2. Cites(doing'[p], a)
        BY DEF Cites
      <4>3. Owns(held[p].o, a) /\ held[p].o \in Objects /\ registered[held[p].o] # None
        BY <2>1, <4>1, <4>2, BeginDeleteIds
      <4>4. held[p].o = o
        BY <2>1, <2>2, <4>3 DEF AidsApart
      <4> QED BY <2>4, <4>3, <4>4
    <3> QED BY <2>0, <2>1, <3>1, <3>2, <3>3, ServerChange
  <2> QED BY <2>3, <2>4
<1> QED BY <1>1, <1>2

\* A deletion goes on asking for its id until it is done, which a save of the object
\* prevents, or has failed, which leaves the id apart.
LEMMA AskedStays ==
  ASSUME TypeInv, NEW p \in Processes, Step(p), NEW a \in Ids, Asked(a)
  PROVE  \/ Asked(a)' \/ a \in apart'
         \/ FinishDelete(p) /\ doing[p].aid = a
<1>1. PICK q \in Processes : doing[q].at = "delete" /\ doing[q].aid = a
  BY DEF Asked
<1>2. CASE q # p
  <2>1. doing'[q] = doing[q]
    BY <1>2, StepMoves, MovesAlone
  <2> QED BY <1>1, <2>1 DEF Asked
<1>3. CASE q = p
  <2>1. FinishDelete(p) \/ \E late \in BOOLEAN : RollbackDelete(p, late)
    <3>1. ~Free(p) /\ doing[p].at = "delete"
      BY <1>1, <1>3 DEF Free, Idle
    <3>2. ~(\E o \in Objects : Load(p, o)) /\ ~(\E o \in Objects, u \in Usernames, e \in Emails : New(p, o, u, e))
          /\ ~Forget(p)
      BY <3>1 DEF Load, New, Forget
    <3>3. (\A row, fields : ~BeginSave(p, row, fields)) /\ (\A deferring : ~BeginDelete(p, deferring))
      BY <3>1 DEF BeginSave, BeginDelete
    <3>4. ~Rollback(p) /\ ~BeginClear(p) /\ ~Write(p) /\ ~Commit(p) /\ ~FlushCleanup(p) /\ ~FlushEntries(p)
          /\ ~FinishClear(p) /\ ~CrashBeforeFlush(p) /\ \A g : ~Associate(p, g) /\ ~Disassociate(p, g)
      BY <3>1 DEF Rollback, BeginClear, Write, Commit, FlushCleanup, FlushEntries, FinishClear, CrashBeforeFlush,
         Associate, Disassociate, OnRow
    <3> QED BY <3>2, <3>3, <3>4 DEF Step
  <2>2. ASSUME NEW late \in BOOLEAN, RollbackDelete(p, late) PROVE a \in apart'
    BY <1>1, <1>3, <2>2, NoneIsNone DEF RollbackDelete
  <2> QED BY <1>1, <1>3, <2>1, <2>2
<1> QED BY <1>2, <1>3

LEMMA StepSent ==
  ASSUME TypeInv, AidsApart, SentFits, NEW p \in Processes, Step(p)
  PROVE  SentFits'
<1> SUFFICES ASSUME NEW q \in Processes, doing'[q].at = "saved", doing'[q].action # "none",
                    NEW a, a = doing'[q].res.aid, a \notin apart', ~Asked(a)'
             PROVE  server'[a] = View(doing'[q].data)
  BY DEF SentFits, View, Asked
<1>0. server \in [Ids -> Views \cup {None}]
  BY DEF TypeInv, RowsFit
<1>1. CASE q = p
  <2>1. Write(p) /\ WriteDone(p) /\ doing'[p] = Written(p)
    BY <1>1, StageComesFrom
  <2>2. NewRes(p).aid \in Ids /\ Written(p).res.aid = NewRes(p).aid
    BY <2>1, WriteIds
  <2>3. Written(p).action = Request(p) /\ Written(p).data = held[p].row
    BY DEF Written
  <2> QED BY <1>0, <1>1, <2>1, <2>2, <2>3 DEF WriteDone
<1>2. CASE q # p
  <2>0. doing'[q] = doing[q]
    BY <1>2, StepMoves, MovesAlone
  <2> DEFINE o == doing[q].o
  <2>1. /\ doing[q].at = "saved" /\ doing[q].action # "none" /\ a = doing[q].res.aid
        /\ a \in Ids /\ a \in issued /\ o \in Objects
    BY <2>0, SavedHas DEF SavedFits
  <2>2. Owns(o, a)
    BY <2>1 DEF Owns, Cites
  <2>3. ~Asked(a)
    <3> SUFFICES ASSUME FinishDelete(p), doing[p].aid = a PROVE FALSE
      BY <2>1, AskedStays
    <3>1. doing[p].o \in Objects /\ Owns(doing[p].o, a)
      BY <2>1, DeleteHas DEF FinishDelete, Owns, Cites
    <3>2. doing[p].o = o
      BY <2>1, <2>2, <3>1 DEF AidsApart
    <3> QED BY <2>1, <3>2 DEF FinishDelete, Locked
  <2>4. ~(doing'[p].at = "delete" /\ doing'[p].aid = a)
    BY <2>1 DEF Asked
  <2>5. ~(Write(p) /\ WriteDone(p) /\ a = NewRes(p).aid)
    <3> SUFFICES ASSUME Write(p), WriteDone(p), a = NewRes(p).aid PROVE FALSE
      OBVIOUS
    <3>1. doing[p].at = "save" /\ ~Locked(doing[p].o) /\ doing[p].o \in Objects
      BY WriteEnds, SaveHas
    <3>2. Owns(doing[p].o, a)
      BY <2>1, WriteIds
    <3>3. doing[p].o = o
      BY <2>1, <2>2, <3>1, <3>2 DEF AidsApart
    <3> QED BY <2>1, <3>1, <3>3 DEF Locked
  <2>6. server'[a] = server[a] /\ a \notin apart
    BY <2>1, <2>4, <2>5, ServerChange
  <2> QED BY <2>0, <2>1, <2>3, <2>6 DEF SentFits
<1> QED BY <1>1, <1>2

-----------------------------------------------------------------------------
(* What the server keeps                                                   *)

\* The object is there, and the server owns it, under an id.
There(o, a) == /\ rows[o] # None /\ registered[o] # None
               /\ registered[o].aid = a /\ registered[o].owner = "server"

\* What the server has under an id that nobody is asking about.
Right(a) == /\ \A o \in Objects : There(o, a) => server[a] = View(rows[o])
            /\ (\A o \in Objects : ~There(o, a)) => server[a] = None

\* The requests of a call that is not at its end.
Asks(d, a) == \/ d.at = "saved" /\ d.action # "none" /\ d.res.aid = a
              \/ d.at = "delete" /\ d.aid = a

LEMMA InFlightIs == \A a : InFlight(a) <=> \E p \in Processes : Asks(doing[p], a)
BY DEF InFlight, Asks

LEMMA RightIs == ServerHasWhatIsSaved <=> \A a \in Ids \ apart : ~InFlight(a) => Right(a)
<1>1. ASSUME NEW a \in Ids
      PROVE  Right(a) <=> IF OwnedThere(a) = {} THEN server[a] = None
                          ELSE \A o \in OwnedThere(a) : server[a] = View(rows[o])
  <2>1. \A o \in Objects : o \in OwnedThere(a) <=> There(o, a)
    BY DEF OwnedThere, There
  <2>2. OwnedThere(a) \subseteq Objects
    BY DEF OwnedThere
  <2> QED BY <2>1, <2>2 DEF Right
<1> QED BY <1>1 DEF ServerHasWhatIsSaved

LEMMA RightIsAfter == ServerHasWhatIsSaved' <=> (\A a \in Ids \ apart : ~InFlight(a) => Right(a))'
BY RightIs, PTL

\* Where the objects and the server's copy stay, what is right stays right.
LEMMA RightStays ==
  ASSUME NEW a \in Ids, Right(a), server'[a] = server[a],
         \A o \in Objects : (There(o, a)' <=> There(o, a)) /\ (There(o, a) => rows'[o] = rows[o])
  PROVE  Right(a)'
<1>1. \A o \in Objects : There(o, a)' => server'[a] = View(rows'[o])
  BY DEF Right
<1>2. (\A o \in Objects : ~There(o, a)') => server'[a] = None
  BY DEF Right
<1> QED BY <1>1, <1>2 DEF Right, View

\* A call of another process goes on asking; one's own does so unless the step ends it.
LEMMA InFlightStays ==
  ASSUME TypeInv, NEW p \in Processes, Step(p), NEW a \in Ids, ~InFlight(a)', ~Asks(doing[p], a)
  PROVE  ~InFlight(a)
<1>1. \A q \in Processes : ~Asks(doing'[q], a)
  BY InFlightIs DEF InFlight, Asks
<1>2. \A q \in Processes \ {p} : doing'[q] = doing[q]
  BY StepMoves, MovesAlone
<1> QED BY <1>1, <1>2, InFlightIs

\* An object that comes by no other row, no other Resource row and no other copy.
LEMMA StaysRight ==
  ASSUME TypeInv, ServerHasWhatIsSaved, NEW p \in Processes, Step(p),
         NEW a \in Ids, a \notin apart, ~InFlight(a)', ~Asks(doing[p], a), server'[a] = server[a],
         \A o \in Objects : (There(o, a)' <=> There(o, a)) /\ (There(o, a) => rows'[o] = rows[o])
  PROVE  Right(a)'
BY InFlightStays, RightIs, RightStays

LEMMA UnchangedThere ==
  ASSUME UNCHANGED <<rows, registered>>
  PROVE  \A o \in Objects, a \in Ids : (There(o, a)' <=> There(o, a)) /\ (There(o, a) => rows'[o] = rows[o])
BY DEF There

\* The steps that change no object.
LEMMA RequestsRight ==
  ASSUME TypeInv, ServerHasWhatIsSaved, NEW p \in Processes, Step(p), UNCHANGED <<rows, registered>>,
         ~Commit(p), ~FinishDelete(p), NEW a \in Ids, a \notin apart', ~InFlight(a)'
  PROVE  Right(a)'
<1>0. ~Asks(doing'[p], a)
  BY DEF InFlight, Asks
<1>1. ~(Write(p) /\ WriteDone(p) /\ Request(p) # "none" /\ a = NewRes(p).aid)
  <2> SUFFICES ASSUME Write(p), WriteDone(p), Request(p) # "none", a = NewRes(p).aid PROVE FALSE
    OBVIOUS
  <2>1. doing'[p] = Written(p)
    BY DEF WriteDone, TypeInv, DoingAllFit
  <2>2. Written(p).res.aid = a /\ Written(p).at = "saved" /\ Written(p).action = Request(p)
    BY WriteIds DEF Written
  <2> QED BY <1>0, <2>1, <2>2 DEF Asks
<1>2. server'[a] = server[a] /\ a \notin apart
  BY <1>0, <1>1, ServerChange DEF Asks
<1>3. ~Asks(doing[p], a)
  <2> SUFFICES ASSUME Asks(doing[p], a) PROVE FALSE
    OBVIOUS
  <2>1. CASE doing[p].at = "delete"
    <3>1. Asked(a)
      BY <2>1 DEF Asks, Asked
    <3>2. ~Asked(a)'
      BY DEF InFlight, Asked
    <3> QED BY <3>1, <3>2, AskedStays
  <2>2. CASE doing[p].at = "saved"
    <3>1. ~Free(p) /\ doing[p].action # "none" /\ doing[p].res.aid = a
      BY <2>2 DEF Free, Idle, Asks
    <3>2. Rollback(p)
      <4>1. ~(\E o \in Objects : Load(p, o)) /\ ~(\E o \in Objects, u \in Usernames, e \in Emails : New(p, o, u, e))
            /\ ~Forget(p)
        BY <3>1 DEF Load, New, Forget
      <4>2. (\A row, fields : ~BeginSave(p, row, fields)) /\ (\A deferring : ~BeginDelete(p, deferring))
            /\ (\A late : ~RollbackDelete(p, late))
        BY <2>2, <3>1 DEF BeginSave, BeginDelete, RollbackDelete
      <4>3. ~BeginClear(p) /\ ~Write(p) /\ ~FlushCleanup(p) /\ ~FlushEntries(p)
            /\ ~FinishClear(p) /\ ~CrashBeforeFlush(p) /\ \A g : ~Associate(p, g) /\ ~Disassociate(p, g)
        BY <2>2, <3>1 DEF BeginClear, Write, FlushCleanup, FlushEntries, FinishClear, CrashBeforeFlush,
           Associate, Disassociate, OnRow
      <4> QED BY <4>1, <4>2, <4>3 DEF Step
    <3> QED BY <3>1, <3>2 DEF Rollback
  <2> QED BY <2>1, <2>2 DEF Asks
<1> QED BY <1>2, <1>3, StaysRight, UnchangedThere

LEMMA FlushCleanupRight ==
  ASSUME TypeInv, ServerHasWhatIsSaved, NEW p \in Processes, Step(p), FlushCleanup(p),
         NEW a \in Ids, a \notin apart', ~InFlight(a)'
  PROVE  Right(a)'
<1> DEFINE x == doing[p].o
<1>0. registered \in [Objects -> Resources \cup {None}] /\ x \in Objects
  BY FlushHas DEF FlushCleanup, TypeInv, RowsFit
<1>1. /\ registered' = [registered EXCEPT ![x] = None] /\ UNCHANGED <<rows, server>>
      /\ a \notin apart /\ ~Asks(doing[p], a)
      /\ rows[x] # None /\ registered[x] # None => registered[x].aid # a
  BY DEF FlushCleanup, Asks
<1> HIDE DEF x
<1>2. ASSUME NEW o \in Objects
      PROVE  (There(o, a)' <=> There(o, a)) /\ (There(o, a) => rows'[o] = rows[o])
  BY <1>0, <1>1 DEF There
<1> QED BY <1>1, <1>2, StaysRight

LEMMA FinishDeleteRight ==
  ASSUME TypeInv, AidsApart, ServerHasWhatIsSaved, NEW p \in Processes, Step(p), FinishDelete(p),
         NEW a \in Ids, a \notin apart', ~InFlight(a)'
  PROVE  Right(a)'
<1> DEFINE d == doing[p]
<1>0. /\ registered \in [Objects -> Resources \cup {None}] /\ rows \in [Objects -> Rows \cup {None}]
      /\ d.o \in Objects /\ d.at = "delete"
  BY DeleteHas DEF FinishDelete, TypeInv, RowsFit
<1>1. /\ rows' = [rows EXCEPT ![d.o] = None]
      /\ registered' = registered \/ registered' = [registered EXCEPT ![d.o] = None]
      /\ UNCHANGED server /\ a \notin ApartDeleted(p, d)
  BY DEF FinishDelete
<1>2. a \notin apart
  BY <1>1 DEF ApartDeleted
<1>3. CASE d.aid = a
  <2>1. server[a] = None
    BY <1>1, <1>3, NoneIsNone DEF ApartDeleted
  <2>2. Owns(d.o, a)
    BY <1>0, <1>3 DEF Owns, Cites
  <2>3. ASSUME NEW o \in Objects PROVE ~There(o, a)'
    <3> SUFFICES ASSUME There(o, a)' PROVE FALSE
      OBVIOUS
    <3>1. o # d.o
      BY <1>0, <1>1 DEF There
    <3>2. registered[o] # None /\ registered[o].aid = a
      BY <1>0, <1>1, <3>1 DEF There
    <3>3. Owns(o, a)
      BY <3>2 DEF Owns
    <3> QED BY <1>0, <2>2, <3>1, <3>3 DEF AidsApart
  <2>4. server'[a] = None
    BY <1>1, <2>1
  <2> QED BY <2>3, <2>4 DEF Right
<1>4. CASE d.aid # a
  <2>1. ~There(d.o, a)
    BY <1>1, <1>4 DEF ApartDeleted, There
  <2>2. ASSUME NEW o \in Objects
        PROVE  (There(o, a)' <=> There(o, a)) /\ (There(o, a) => rows'[o] = rows[o])
    BY <1>0, <1>1, <2>1 DEF There
  <2>3. ~Asks(d, a)
    BY <1>0, <1>4 DEF Asks
  <2> QED BY <1>1, <1>2, <2>2, <2>3, StaysRight
<1> QED BY <1>3, <1>4

\* A save in which no field of the server's copy is written leaves the copy right.
LEMMA UnchangedView ==
  ASSUME NEW d, d.was \in Rows, d.data \in Rows, d.seen = d.was, Unchanged(d.seen, d.data, d.fields), SavedKnows(d)
  PROVE  View(d.row) = View(d.was)
<1>1. CASE d.fields = None
  BY <1>1 DEF Unchanged, SavedKnows
<1>2. CASE d.fields # None
  <2>1. d.row = Merge(d.was, d.data, d.fields) /\ d.fields \cap Synced = {}
    BY <1>2 DEF Unchanged, SavedKnows
  <2>2. d.row \in Rows
    BY <2>1, MergeFits
  <2>3. \A f \in Synced : d.row[f] = d.was[f]
    BY <2>1 DEF Merge, Fields, Synced
  <2> QED BY <2>2, <2>3, NoneIsNone DEF View
<1> QED BY <1>1, <1>2

LEMMA CommitRight ==
  ASSUME TypeInv, EntriesFit, LockInv, AidsApart, SkipFits, ResourceFits, GoneFits, SentFits, ServerHasWhatIsSaved,
         NEW p \in Processes, Step(p), Commit(p), NEW a \in Ids, a \notin apart', ~InFlight(a)'
  PROVE  Right(a)'
<1> DEFINE d == doing[p]
<1> PICK x \in Objects, n \in Ids : x = d.o /\ n = d.res.aid
  BY SavedHas DEF Commit, SavedFits
<1>0. registered \in [Objects -> Resources \cup {None}] /\ rows \in [Objects -> Rows \cup {None}]
  BY DEF TypeInv, RowsFit
<1>1. d.at = "saved" /\ x \in Objects /\ SavedFits(d, issued) /\ n \in Ids
  BY SavedHas DEF Commit
<1>2. /\ rows' = [rows EXCEPT ![x] = d.row] /\ registered' = [registered EXCEPT ![x] = d.res]
      /\ UNCHANGED server /\ a \notin ApartAfter(d) /\ a \notin apart
  BY ApartFits DEF Commit
<1>3. d.action # "none" => d.res.owner = "server"
  BY <1>1 DEF ResourceFits
<1>4. registered[x] = None \/ (registered[x].aid = n /\ (d.action = "none" => registered[x].owner = d.res.owner))
  BY <1>1 DEF ResourceFits
<1>5. rows[x] = d.was /\ SavedKnows(d)
  BY <1>1 DEF LockInv, RowStays, EntriesFit
<1>6. Owns(x, n)
  BY <1>1 DEF Owns, Cites
<1>7. CASE a # n
  <2>1. ~There(x, a) /\ ~There(x, a)'
    BY <1>0, <1>1, <1>2, <1>4, <1>7 DEF There
  <2>2. ASSUME NEW o \in Objects
        PROVE  (There(o, a)' <=> There(o, a)) /\ (There(o, a) => rows'[o] = rows[o])
    BY <1>0, <1>1, <1>2, <2>1 DEF There
  <2>3. ~Asks(d, a)
    BY <1>1, <1>7 DEF Asks
  <2> QED BY <1>2, <2>2, <2>3, StaysRight
<1>8. CASE a = n
  <2>1. ASSUME NEW o \in Objects, o # x PROVE ~There(o, a) /\ ~There(o, a)'
    <3>1. There(o, a) \/ There(o, a)' => Owns(o, a)
      BY <1>0, <1>1, <1>2, <2>1 DEF There, Owns
    <3> QED BY <1>1, <1>6, <1>8, <2>1, <3>1 DEF AidsApart
  <2>2. rows'[x] = d.row /\ d.row # None /\ registered'[x] = d.res /\ d.res # None
    BY <1>0, <1>1, <1>2, NoneIsNone DEF SavedFits
  <2>3. There(x, a)' <=> d.res.owner = "server"
    BY <1>8, <2>2 DEF There
  <2>4. ASSUME d.res.owner = "server" => server[a] = View(d.row), d.res.owner # "server" => server[a] = None
        PROVE  Right(a)'
    BY <1>1, <1>2, <2>1, <2>2, <2>3, <2>4 DEF Right
  <2>5. CASE d.action # "none"
    <3>1. ~Asked(a)
      <4> SUFFICES ASSUME NEW q \in Processes, doing[q].at = "delete", doing[q].aid = a PROVE FALSE
        BY DEF Asked
      <4>1. q # p
        BY <1>1
      <4>2. doing'[q] = doing[q]
        BY <4>1, StepMoves, MovesAlone
      <4> QED BY <4>2 DEF InFlight
    <3>2. server[a] = View(d.data)
      BY <1>1, <1>2, <1>8, <2>5, <3>1 DEF SentFits
    <3>3. View(d.data) = View(d.row)
      <4>1. CASE d.fields = None
        BY <1>5, <4>1 DEF SavedKnows
      <4>2. CASE d.fields # None
        BY <1>2, <1>8, <2>5, <4>2 DEF ApartAfter, SentUnsaved
      <4> QED BY <4>1, <4>2
    <3> QED BY <1>3, <2>4, <2>5, <3>2, <3>3
  <2>6. CASE d.action = "none"
    <3>1. ~Asks(d, a)
      BY <1>1, <2>6 DEF Asks
    <3>2. Right(a)
      BY <1>2, <3>1, InFlightStays, RightIs
    <3>3. CASE d.res.owner # "server"
      <4>1. ~There(x, a)
        BY <1>4, <2>6, <3>3 DEF There
      <4>2. server[a] = None
        BY <2>1, <3>2, <4>1 DEF Right
      <4> QED BY <2>4, <3>3, <4>2
    <3>4. CASE d.res.owner = "server"
      <4>1. View(d.row) = View(d.was)
        <5> SUFFICES ASSUME View(d.row) # View(d.was) PROVE FALSE
          OBVIOUS
        <5>1. ~d.flagged /\ d.seen = d.was
          BY <1>2, <1>8, <2>6, <3>4 DEF ApartAfter, Unsent
        <5>2. Unchanged(d.seen, d.data, d.fields)
          BY <1>1, <2>6, <3>4, <5>1 DEF SkipFits
        <5>3. d.was \in Rows /\ d.data \in Rows
          BY <1>1, <5>1, <5>2 DEF SavedFits, Unchanged
        <5> QED BY <1>5, <5>1, <5>2, <5>3, UnchangedView
      <4>2. d.was # None
        BY <1>1, <2>2, <4>1, ViewFits, NoneIsNone DEF SavedFits, View
      <4>3. registered[x] # None
        BY <1>1, <1>2, <1>8, <2>6, <3>4, <4>2 DEF GoneFits
      <4>4. There(x, a)
        BY <1>4, <1>5, <1>8, <2>6, <3>4, <4>2, <4>3 DEF There
      <4>5. server[a] = View(d.was)
        BY <1>1, <1>5, <3>2, <4>4 DEF Right
      <4> QED BY <2>4, <3>4, <4>1, <4>5
    <3> QED BY <3>3, <3>4
  <2> QED BY <2>5, <2>6
<1> QED BY <1>7, <1>8

LEMMA StepServer ==
  ASSUME TypeInv, EntriesFit, LockInv, ServerInv, NEW p \in Processes, Step(p)
  PROVE  ServerHasWhatIsSaved'
<1> USE DEF ServerInv
<1>1. ASSUME NEW a \in Ids, a \notin apart', ~InFlight(a)' PROVE Right(a)'
  <2>1. CASE Commit(p)
    BY <1>1, <2>1, CommitRight
  <2>2. CASE FinishDelete(p)
    BY <1>1, <2>2, FinishDeleteRight
  <2>3. CASE FlushCleanup(p)
    BY <1>1, <2>3, FlushCleanupRight
  <2>4. CASE ~Commit(p) /\ ~FinishDelete(p) /\ ~FlushCleanup(p)
    <3>1. UNCHANGED <<rows, registered>>
      BY <2>4, RowsChange, RegistersChange
    <3> QED BY <1>1, <2>4, <3>1, RequestsRight
  <2> QED BY <2>1, <2>2, <2>3, <2>4
<1> QED BY <1>1, RightIsAfter

-----------------------------------------------------------------------------
(* The invariant                                                           *)

\* At the start there is one object, the server's or this service's own.
LEMMA InitIs ==
  ASSUME Init
  PROVE  \E o \in Objects, row \in Rows, a \in Ids, owner \in {"server", "here"} :
            /\ rows = [x \in Objects |-> IF x = o THEN row ELSE None]
            /\ registered = [x \in Objects |-> IF x = o THEN [aid |-> a, name |-> row.username, owner |-> owner] ELSE None]
            /\ server = [b \in Ids |-> IF owner = "server" /\ b = a THEN View(row) ELSE None]
            /\ told = [x \in Objects |-> Story(rows[x])]
            /\ used = {o} /\ issued = {a}
<1>1. PICK o \in Objects, u \in Usernames, e \in Emails, owner \in {"server", "here"} :
         InitWith([x \in {o} |-> [username |-> u, email |-> e, last_login |-> FALSE, modified_by |-> Nobody]], owner)
  BY DEF Init
<1> DEFINE row   == [username |-> u, email |-> e, last_login |-> FALSE, modified_by |-> Nobody]
           first == [x \in {o} |-> row]
           a     == CHOOSE b \in Ids : TRUE
<1>2. row \in Rows /\ row.username = u
  BY DEF Rows
<1>3. a \in Ids
  BY SharedAssumption
<1>4. DOMAIN first = {o} /\ first[o] = row /\ (CHOOSE x \in {o} : a = a) = o
  OBVIOUS
<1> HIDE DEF row, a
<1>5. /\ rows = [x \in Objects |-> IF x = o THEN row ELSE None]
      /\ registered = [x \in Objects |->
           IF (IF x = o THEN row ELSE None) = None THEN None
           ELSE [aid |-> a, name |-> (IF x = o THEN row ELSE None).username, owner |-> owner]]
      /\ server = [b \in Ids |-> IF owner = "server" /\ b = a THEN View(row) ELSE None]
      /\ told = [x \in Objects |->
           IF (IF x = o THEN row ELSE None) = None THEN None ELSE [f \in Logged |-> (IF x = o THEN row ELSE None)[f]]]
      /\ used = {o} /\ issued = {a}
  BY <1>1, <1>4 DEF InitWith, row, a
<1>6. registered = [x \in Objects |-> IF x = o THEN [aid |-> a, name |-> row.username, owner |-> owner] ELSE None]
  BY <1>2, <1>5, NoneIsNone
<1>7. told = [x \in Objects |-> Story(rows[x])]
  BY <1>5 DEF Story
<1>8. /\ rows = [x \in Objects |-> IF x = o THEN row ELSE None]
      /\ registered = [x \in Objects |-> IF x = o THEN [aid |-> a, name |-> row.username, owner |-> owner] ELSE None]
      /\ server = [b \in Ids |-> IF owner = "server" /\ b = a THEN View(row) ELSE None]
      /\ told = [x \in Objects |-> Story(rows[x])]
      /\ used = {o} /\ issued = {a}
  BY <1>5, <1>6, <1>7
<1>9. row \in Rows
  BY <1>2
<1> QED BY <1>3, <1>8, <1>9

LEMMA InitFits == Init => IInv
<1> SUFFICES ASSUME Init PROVE IInv
  OBVIOUS
<1>1. PICK o \in Objects, row \in Rows, a \in Ids, owner \in {"server", "here"} :
            /\ rows = [x \in Objects |-> IF x = o THEN row ELSE None]
            /\ registered = [x \in Objects |-> IF x = o THEN [aid |-> a, name |-> row.username, owner |-> owner] ELSE None]
            /\ server = [b \in Ids |-> IF owner = "server" /\ b = a THEN View(row) ELSE None]
            /\ told = [x \in Objects |-> Story(rows[x])]
            /\ used = {o} /\ issued = {a}
  BY InitIs
<1>2. /\ groups = [x \in Objects |-> {}] /\ toldGroups = [x \in Objects |-> {}]
      /\ held = [p \in Processes |-> None] /\ doing = [p \in Processes |-> Idle]
      /\ apart = {} /\ mistold = {} /\ astray = {}
  BY DEF Init, InitWith
<1>3. \A p \in Processes : doing[p].at = "idle" /\ held[p] = None
  BY <1>2 DEF Idle
<1>4. row # None /\ [aid |-> a, name |-> row.username, owner |-> owner] \in Resources
  BY NoneIsNone DEF Resources, Rows
<1>5. View(row) \in Views
  BY ViewFits
<1>6. TypeInv
  <2>1. RowsFit
    <3>1. told = [x \in Objects |-> told[x]] /\ \A x \in Objects : told[x] = None \/ DOMAIN told[x] = Logged
      BY <1>1 DEF Story
    <3>2. rows \in [Objects -> Rows \cup {None}] /\ registered \in [Objects -> Resources \cup {None}]
      BY <1>1, <1>4
    <3>3. server \in [Ids -> Views \cup {None}]
      BY <1>1, <1>5
    <3>4. groups \in [Objects -> SUBSET Groups] /\ toldGroups \in [Objects -> SUBSET Groups]
      BY <1>2
    <3> QED BY <3>1, <3>2, <3>3, <3>4 DEF RowsFit
  <2>2. HistoryFits
    BY <1>1, <1>2 DEF HistoryFits
  <2>3. HeldFits
    BY <1>2 DEF HeldFits
  <2>4. DoingAllFit
    BY <1>2, <1>3, IdleFits DEF DoingAllFit
  <2> QED BY <2>1, <2>2, <2>3, <2>4 DEF TypeInv
<1>7. EntriesFit /\ LockInv
  BY <1>3 DEF EntriesFit, LockInv, OneWriter, RowStays
<1>8. RegistryInv /\ StreamInv /\ GroupsInv
  <2>1. \A x \in Objects : /\ registered[x] = None <=> rows[x] = None
                           /\ rows[x] # None => registered[x].name = rows[x].username
    BY <1>1, <1>4, NoneIsNone
  <2> QED BY <1>1, <1>2, <2>1 DEF RegistryInv, StreamInv, GroupsInv
<1>9. SkipFits /\ ResourceFits /\ GoneFits /\ SentFits
  BY <1>3 DEF SkipFits, ResourceFits, GoneFits, SentFits
<1>10. AidsApart
  <2>1. \A x \in Objects, b \in Ids : Owns(x, b) => x = o
    BY <1>1, <1>3 DEF Owns, Cites
  <2> QED BY <2>1 DEF AidsApart
<1>11. ServerHasWhatIsSaved
  <2> SUFFICES ASSUME NEW b \in Ids PROVE Right(b)
    BY RightIs
  <2>1. \A x \in Objects : There(x, b) <=> x = o /\ b = a /\ owner = "server"
    BY <1>1, <1>4, NoneIsNone DEF There
  <2> QED BY <1>1, <2>1 DEF Right
<1> QED BY <1>6, <1>7, <1>8, <1>9, <1>10, <1>11 DEF IInv, ServerInv

LEMMA StepInv ==
  ASSUME IInv, NEW p \in Processes, Step(p)
  PROVE  IInv'
<1> USE DEF IInv, ServerInv
<1>1. TypeInv' /\ EntriesFit' /\ LockInv'
  BY StepFits, StepKnows, StepLocks
<1>2. RegistryInv' /\ StreamInv' /\ GroupsInv'
  BY StepRegistry, StepStream, StepGroups
<1>3. AidsApart' /\ SkipFits' /\ ResourceFits' /\ GoneFits' /\ SentFits'
  BY StepIds, StepSkips, StepResource, StepGone, StepSent
<1>4. ServerHasWhatIsSaved'
  BY StepServer
<1> QED BY <1>1, <1>2, <1>3, <1>4

LEMMA NextKeeps == IInv /\ [Next]_vars => IInv'
<1>1. ASSUME IInv, Next PROVE IInv'
  BY <1>1, NextIsStep, StepInv
<1>2. ASSUME IInv, UNCHANGED vars PROVE IInv'
  BY <1>2 DEF vars, IInv, TypeInv, RowsFit, HistoryFits, HeldFits, DoingAllFit, EntriesFit, LockInv, OneWriter, RowStays,
     RegistryInv, Done, StreamInv, Story, GroupsInv, ServerInv, AidsApart, Owns, Cites, SkipFits, ResourceFits, GoneFits,
     SentFits, Asked, ServerHasWhatIsSaved, OwnedThere, InFlight, View
<1> QED BY <1>1, <1>2

-----------------------------------------------------------------------------
(* The theorems                                                            *)

LEMMA Invariant == Spec => []IInv
BY InitFits, NextKeeps, PTL DEF Spec

LEMMA TypesAre == TypeInv => TypeOK
<1> SUFFICES ASSUME TypeInv PROVE TypeOK
  OBVIOUS
<1>1. \A p \in Processes : /\ held[p] = None \/ (held[p].o \in used /\ held[p].row \in Rows)
                           /\ doing[p].at \in {"idle", "save", "saved", "delete", "cleanup", "entries", "clear"}
  BY DEF TypeInv, HeldFits, DoingAllFit, DoingFits, Stages, Instances
<1>2. \A o \in Objects : /\ rows[o] \in Rows \cup {None} /\ registered[o] \in Resources \cup {None}
                         /\ told[o] = None \/ DOMAIN told[o] = Logged
  BY DEF TypeInv, RowsFit
<1>3. /\ groups \in [Objects -> SUBSET Groups] /\ toldGroups \in [Objects -> SUBSET Groups]
      /\ \A a \in Ids : server[a] \in Views \cup {None}
  BY DEF TypeInv, RowsFit
<1>4. /\ apart \subseteq issued /\ issued \subseteq Ids /\ mistold \subseteq used /\ astray \subseteq used
      /\ used \subseteq Objects
  BY DEF TypeInv, HistoryFits
<1> QED BY <1>1, <1>2, <1>3, <1>4 DEF TypeOK

LEMMA StreamFollows == IInv => StreamTells
<1> SUFFICES ASSUME IInv PROVE StreamTells
  OBVIOUS
<1>1. TypeOK
  BY TypesAre DEF IInv
<1>2. ASSUME NEW o \in Objects \ mistold, ~Deferred(o, {"cleanup", "entries"})
      PROVE  told[o] = Story(rows[o]) /\ toldGroups[o] = groups[o]
  <2>1. ~Done(o, {"cleanup", "entries"})
    BY <1>2 DEF Deferred, Done
  <2> QED BY <1>2, <2>1 DEF IInv, StreamInv
<1> QED BY <1>1, <1>2 DEF StreamTells, StreamTellsRow, StreamTellsGroups, Story

LEMMA RegistersFollow == IInv => RegistryFollows
<1> SUFFICES ASSUME IInv, NEW o \in Objects \ astray, ~Deferred(o, {"cleanup"})
             PROVE  /\ registered[o] = None <=> rows[o] = None
                    /\ rows[o] # None => registered[o].name = rows[o].username
  BY DEF RegistryFollows
<1>1. ~Done(o, {"cleanup"})
  BY DEF Deferred, Done
<1> QED BY <1>1 DEF IInv, RegistryInv

(* Outside a call in progress the resource server has, under each ansible_id, *)
(* what this service has saved, and nothing for an object it does not have,   *)
(* save for the named causes, however saves, deletions, failures and lost     *)
(* answers fall together (utils/sync_to_resource_server.py, handlers.py).           *)
THEOREM ServerKeepsWhatIsSaved == Spec => []ServerHasWhatIsSaved
<1>1. IInv => ServerHasWhatIsSaved
  BY DEF IInv, ServerInv
<1> QED BY <1>1, Invariant, PTL

(* The activity stream of an object, read from its first entry on, ends with  *)
(* the object's row and its groups: what is deferred, refused or rolled back  *)
(* leaves no entry out and none too many (signals.py).                        *)
THEOREM StreamTellsTheObject == Spec => []StreamTells
BY StreamFollows, Invariant, PTL

(* An object has a Resource row exactly as long as it lives, under its        *)
(* present name, until a cleanup that was deferred meets a row inserted since *)
(* or is never made (handlers.py).                                            *)
THEOREM RegistryFollowsTheObjects == Spec => []RegistryFollows
BY RegistersFollow, Invariant, PTL

=============================================================================

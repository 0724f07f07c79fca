---------------------------- MODULE AccountsProofs ----------------------------
(***************************************************************************)
(* Logins for any people, accounts, authenticators, requests and edits:    *)
(* the database stays sound, an account keeps its user, what somebody owns *)
(* moves with the account, and one authenticator stays enabled.            *)
(***************************************************************************)
EXTENDS Accounts, FiniteSetTheorems, TLAPS

-------------------------------------------------------------------------------
(* The inductive invariant *)

\* A request between its two phases.
Rowing(l) == l.step = "rows"
LoginFits(l) ==
  /\ "step" \in DOMAIN l
  /\ l.step = "away" => l.x \in Accounts
  /\ l.step = "rows" => /\ l.x \in Accounts /\ l.name \in Names
                        /\ l.social \in {None} \cup UserIds
                        /\ "step" \in DOMAIN l.from

LoginOK ==
  /\ login = [p \in Procs |-> login[p]]
  /\ \A p \in Procs : LoginFits(login[p])

EditFits(e) ==
  /\ e.step = "save" => /\ e.auth \in Auths /\ e.order \in Nat
                        /\ e.change \in [enabled : BOOLEAN, target : ({None} \cup Auths) \ {e.auth}]
  /\ e.step = "delete" => e.auth \in Auths

EditOK ==
  /\ edit = [d \in Admins |-> edit[d]]
  /\ \A d \in Admins : EditFits(edit[d])

SeenOK ==
  seen \in [logins : Int, edits : Int, raced : BOOLEAN, died : BOOLEAN, removed : BOOLEAN,
           misled : BOOLEAN, together : BOOLEAN, strayed : BOOLEAN, who : SUBSET Persons,
           had : SUBSET Things]

\* An account that signed in has its row, with the user it signed in as.
SignedOK ==
  /\ signed \in [Accounts -> {None} \cup UserIds]
  /\ \A x \in Accounts : signed[x] # None =>
       \E r \in rows : r.auth = x.auth /\ r.uid = x.uid /\ r.user = signed[x]

OwnerOK ==
  /\ owner \in [Things -> {None} \cup UserIds]
  /\ \A t \in Things : owner[t] # None => users[owner[t]] # None

\* Only one request is between its phases, unless two overlapped.
AloneOK ==
  ~seen.raced => \A p, q \in Procs : Rowing(login[p]) /\ Rowing(login[q]) => p = q

\* A request that will write a row for a user: its account has none, the
\* authenticator is there, and the name it chose is that user's.
WillHave(p, u) ==
  /\ Rowing(login[p])
  /\ login[p].x.auth \in Kept
  /\ RowOf(login[p].x) = {}
  /\ login[p].social = None
  /\ users[u] # None /\ users[u].name = login[p].name

\* Who owns something has a row or is about to have one.
OwnersHaveRows ==
  ~seen.raced /\ ~seen.died /\ ~seen.removed =>
    \A t \in Things : owner[t] # None =>
      \/ \E r \in rows : r.user = owner[t]
      \/ \E p \in Procs : WillHave(p, owner[t])

\* A user has one thing of a slot, and what is lost was lost to another.
ThingsOK == OneOfSlot(owner) /\ LostByClashOnly

AccountsInv ==
  /\ Sound(users, rows, auths) /\ clock \in Int
  /\ LoginOK /\ EditOK /\ SeenOK
  /\ SignedOK /\ OwnerOK /\ AloneOK /\ OwnersHaveRows /\ ThingsOK

-------------------------------------------------------------------------------
(* How a request moves on *)

LEMMA LoginMoves ==
  ASSUME LoginOK, NEW p \in Procs, NEW e, login' = [login EXCEPT ![p] = e], LoginFits(e)
  PROVE  /\ LoginOK' /\ login'[p] = e
         /\ \A q \in Procs \ {p} : login'[q] = login[q]
<1>1. \A q \in Procs : login'[q] = IF q = p THEN e ELSE login[q] BY DEF LoginOK
<1>2. login' = [q \in Procs |-> login'[q]] BY DEF LoginOK
<1> QED BY <1>1, <1>2 DEF LoginOK

LEMMA ToRowsMoves ==
  ASSUME LoginOK, NEW p \in Procs, NEW x \in Accounts, NEW name \in Names, ToRows(p, x, name),
         SocialUser(x) \in {None} \cup UserIds
  PROVE  /\ LoginOK' /\ Rowing(login'[p]) /\ login'[p].x = x /\ login'[p].name = name
         /\ login'[p].social = SocialUser(x)
         /\ \A q \in Procs \ {p} : login'[q] = login[q]
<1> DEFINE e == [step |-> "rows", x |-> x, name |-> name, social |-> SocialUser(x), from |-> login[p]]
<1>1. login' = [login EXCEPT ![p] = e] BY DEF ToRows
<1>2. /\ e.step = "rows" /\ e.x = x /\ e.name = name /\ e.social = SocialUser(x) /\ e.from = login[p]
      /\ "step" \in DOMAIN e
  OBVIOUS
<1>3. "step" \in DOMAIN login[p] BY DEF LoginOK, LoginFits
<1> HIDE DEF e
<1>4. LoginFits(e) BY <1>2, <1>3 DEF LoginFits
<1>5. LoginOK' /\ login'[p] = e /\ \A q \in Procs \ {p} : login'[q] = login[q]
  BY <1>1, <1>4, LoginMoves
<1> QED BY <1>2, <1>5 DEF Rowing

LEMMA FailsMoves ==
  ASSUME LoginOK, NEW p \in Procs, Fails(p)
  PROVE  /\ LoginOK' /\ ~Rowing(login'[p])
         /\ \A q \in Procs \ {p} : login'[q] = login[q]
<1> DEFINE l == Before(login[p])
           e == IF l.step = "loop" THEN [l EXCEPT !.queue = Tail(l.queue)] ELSE Idle
<1>1. login' = [login EXCEPT ![p] = e] BY DEF Fails
<1>2. e.step \in {"loop", "idle"}
  <2>1. ASSUME l.step = "loop", NEW v PROVE [l EXCEPT !.queue = v].step = "loop"
    <3>1. "step" \in DOMAIN l BY DEF Before, LoginOK, LoginFits
    <3> QED BY <2>1, <3>1
  <2> QED BY <2>1 DEF Idle
<1>3. LoginFits(e)
  <2>1. "step" \in DOMAIN e BY DEF Before, LoginOK, LoginFits, Idle
  <2> QED BY <1>2, <2>1 DEF LoginFits
<1> HIDE DEF e
<1> QED BY <1>1, <1>2, <1>3, LoginMoves DEF Rowing

-------------------------------------------------------------------------------
(* What is written to the database *)

LEMMA FilledIsSound ==
  ASSUME NEW us, NEW rs, NEW as, Sound(us, rs, as),
         NEW u \in UserIds, us[u] # None, NEW x \in Accounts
  PROVE  LET new == Filled(us, u, x) IN
         /\ Sound(new, rs, as)
         /\ \A v \in UserIds : us[v] # None => new[v] # None /\ new[v].name = us[v].name
<1> DEFINE new == Filled(us, u, x)
<1>1. CASE new = us BY <1>1
<1>2. CASE new = [us EXCEPT ![u].email = x.email]
  <2>1. us[u] \in UserRecords /\ x.email \in Emails
    <3>1. us[u] \in UserRecords BY DEF Sound
    <3>2. x.email \in Emails BY DEF Emails
    <3> QED BY <3>1, <3>2
  <2>2. [us[u] EXCEPT !.email = x.email] \in UserRecords BY <2>1 DEF UserRecords
  <2>3. [us[u] EXCEPT !.email = x.email] # None BY <2>2, AccountsAssumption
  <2>4. [us[u] EXCEPT !.email = x.email].name = us[u].name BY <2>1 DEF UserRecords
  <2>5. new = [us EXCEPT ![u] = [us[u] EXCEPT !.email = x.email]] BY <1>2
  <2> HIDE DEF new
  <2>6. new \in [UserIds -> {None} \cup UserRecords] BY <2>2, <2>5 DEF Sound
  <2>7. \A v \in UserIds : us[v] # None => new[v] # None /\ new[v].name = us[v].name
    BY <2>3, <2>4, <2>5 DEF Sound
  <2>8. \A v \in UserIds : new[v] # None => us[v] # None BY <2>5 DEF Sound
  <2>9. \A v, w \in UserIds : new[v] # None /\ new[w] # None /\ new[v].name = new[w].name => v = w
    BY <2>7, <2>8 DEF Sound
  <2>10. \A r \in rs : new[r.user] # None BY <2>7 DEF Sound, RowRecords
  <2>11. Sound(new, rs, as) BY <2>6, <2>9, <2>10 DEF Sound
  <2> QED BY <2>7, <2>11 DEF new
<1> QED BY <1>1, <1>2 DEF Filled

LEMMA CreatedIsSound ==
  ASSUME Sound(users, rows, auths), NEW name \in Names, NEW email \in Emails,
         NEW c \in GetOrCreateUser(name, email)
  PROVE  /\ Sound(c.us, rows, auths)
         /\ c.u \in UserIds /\ c.us[c.u] # None /\ c.us[c.u].name = name
         /\ \A v \in UserIds : users[v] # None => c.us[v] = users[v]
<1>1. CASE Named(users, name) # {}
  <2>1. PICK u \in Named(users, name) : c = [us |-> users, u |-> u] BY <1>1 DEF GetOrCreateUser
  <2> QED BY <2>1 DEF Named
<1>2. CASE Named(users, name) = {}
  <2> DEFINE new == [name |-> name, email |-> email, active |-> TRUE, secret |-> None]
  <2>1. PICK u \in UserIds \ Live : c = [us |-> [users EXCEPT ![u] = new], u |-> u]
    BY <1>2 DEF GetOrCreateUser, CreateUser
  <2>2. new \in UserRecords BY DEF UserRecords
  <2>3. new # None /\ new.name = name BY <2>2, AccountsAssumption
  <2> HIDE DEF new
  <2>4. c.us = [users EXCEPT ![u] = new] /\ c.u = u BY <2>1
  <2>5. c.us \in [UserIds -> {None} \cup UserRecords] BY <2>2, <2>4 DEF Sound
  <2>6. c.us[u] = new /\ \A v \in UserIds : v # u => c.us[v] = users[v] BY <2>4 DEF Sound
  <2>7. users[u] = None BY <2>1 DEF Live
  <2>8. \A v \in UserIds : v # u /\ c.us[v] # None => c.us[v].name # name BY <1>2, <2>6 DEF Named
  <2>9. \A v, w \in UserIds : c.us[v] # None /\ c.us[w] # None /\ c.us[v].name = c.us[w].name => v = w
    BY <2>3, <2>6, <2>8 DEF Sound
  <2>10. \A r \in rows : c.us[r.user] # None BY <2>6, <2>7 DEF Sound, RowRecords
  <2> QED BY <2>3, <2>4, <2>5, <2>6, <2>7, <2>9, <2>10 DEF Sound
<1> QED BY <1>1, <1>2

LEMMA WrittenIsSound ==
  ASSUME NEW us, NEW rs, NEW as, Sound(us, rs, as), NEW row \in RowRecords,
         us[row.user] # None, as[row.auth] # None
  PROVE  Sound(us, (rs \ {r \in rs : r.auth = row.auth /\ r.uid = row.uid}) \cup {row}, as)
<1> DEFINE old == {r \in rs : r.auth = row.auth /\ r.uid = row.uid}
           new == (rs \ old) \cup {row}
<1>1. new \subseteq RowRecords BY DEF Sound
<1>2. \A r \in new : us[r.user] # None /\ as[r.auth] # None BY DEF Sound
<1>3. ASSUME NEW r \in new, NEW q \in new, q.auth = r.auth, q.uid = r.uid PROVE q = r
  BY <1>3 DEF Sound
<1> HIDE DEF new
<1>4. Sound(us, new, as) BY <1>1, <1>2, <1>3 DEF Sound
<1> QED BY <1>4 DEF new

LEMMA PlainNames == \A x \in Accounts : Plain(x.uid) \in Names /\ Plain(x.name) \in Names /\ Plain(Selected(x)) \in Names
<1> SUFFICES ASSUME NEW x \in Accounts PROVE Plain(x.uid) \in Names /\ Plain(x.name) \in Names
  BY DEF Selected
<1>1. x.uid \in Uids /\ x.name \in Uids BY DEF Uids
<1>2. 0 \in 0 .. MaxSuffix BY AccountsAssumption
<1> QED BY <1>1, <1>2 DEF Names, Plain

LEMMA SocialUserType ==
  ASSUME Sound(users, rows, auths), NEW x \in Accounts
  PROVE  SocialUser(x) \in {None} \cup UserIds
<1> DEFINE own == {r \in rows : r.auth = x.auth /\ r.uid = x.uid}
<1>1. CASE own # {}
  <2>1. (CHOOSE r \in own : TRUE) \in own BY <1>1
  <2>2. (CHOOSE r \in own : TRUE) \in RowRecords BY <2>1 DEF Sound
  <2> QED BY <2>2 DEF SocialUser, RowRecords
<1> QED BY <1>1 DEF SocialUser

\* A migration leaves the rows of other accounts and the users who have one, and
\* the user the others become has a row or is about to get one.
LEMMA MigratedIsSound ==
  ASSUME Sound(users, rows, auths), NEW x \in Accounts, Migrating(x) # {}, NEW main \in MainUsers(x)
  PROVE  LET us == UsersAfter(x, main)
             rs == RowsAfter(x) IN
         /\ Sound(us, rs, auths)
         /\ main \in UserIds /\ us[main] # None /\ x.auth \in Kept
         /\ \A u \in UserIds : users[u] # None /\ u \notin Rowless(x, main) => us[u] # None
         /\ \/ \E r \in rs : r.user = main
            \/ RowOf(x) = {} /\ SocialUser(x) = None
<1> DEFINE rs == RowsAfter(x)
           us == UsersAfter(x, main)
           left == [u \in UserIds |-> IF u \in Rowless(x, main) THEN None ELSE users[u]]
           plain == Plain(Selected(x))
<1>1. main \in UserIds /\ users[main] # None
  <2>1. PICK r \in rows : main = r.user BY DEF MainUsers, Migrating
  <2> QED BY <2>1 DEF Sound, RowRecords
<1>2. x.auth \in Kept
  <2>1. PICK r \in rows : auths[r.auth].target = x.auth BY DEF Migrating
  <2>2. r.auth \in Auths /\ auths[r.auth] # None BY <2>1 DEF Sound, RowRecords
  <2>3. x.auth # None BY AccountsAssumption
  <2> QED BY <2>1, <2>2, <2>3 DEF Sound, Kept
<1>3. \/ \E r \in rs : r.user = main
      \/ RowOf(x) = {} /\ SocialUser(x) = None
  <2> DEFINE own == {r \in rows : r.auth = x.auth /\ r.uid = x.uid}
  <2>1. CASE own # {}
    <3>1. PICK r \in own : main = r.user BY <2>1 DEF MainUsers
    <3>2. r \notin Migrating(x)
      <4>1. auths[x.auth].target # x.auth BY <1>2, AccountsAssumption DEF Sound, Kept
      <4> QED BY <3>1, <4>1 DEF Migrating
    <3> QED BY <3>1, <3>2 DEF RowsAfter
  <2>2. CASE own = {} BY <2>2 DEF RowOf, SocialUser
  <2> QED BY <2>1, <2>2
<1>4. /\ left \in [UserIds -> {None} \cup UserRecords]
      /\ \A u \in UserIds : left[u] # None => users[u] # None /\ left[u] = users[u]
      /\ \A u \in UserIds : users[u] # None /\ u \notin Rowless(x, main) => left[u] # None
      /\ left[main] # None
  BY <1>1 DEF Sound, Rowless, LeftBehind
<1>5. \A r \in rs : left[r.user] # None
  BY DEF Sound, RowRecords, RowsAfter, Rowless
<1>6. us = IF Named(left, plain) = {} THEN [left EXCEPT ![main].name = plain] ELSE left
  BY DEF UsersAfter
<1>7. plain \in Names BY PlainNames
<1> HIDE DEF left, us, plain
<1>8. Sound(us, rs, auths) /\ us[main] # None
      /\ \A u \in UserIds : users[u] # None /\ u \notin Rowless(x, main) => us[u] # None
  <2>1. rs \subseteq rows BY DEF RowsAfter
  <2> HIDE DEF rs
  <2>2. CASE us = left BY <1>4, <1>5, <2>1, <2>2 DEF Sound
  <2>3. CASE us = [left EXCEPT ![main].name = plain] /\ Named(left, plain) = {}
    <3> DEFINE new == [left[main] EXCEPT !.name = plain]
    <3>1. left[main] \in UserRecords BY <1>1, <1>4
    <3>2. new \in UserRecords /\ new.name = plain BY <1>7, <3>1 DEF UserRecords
    <3>3. new # None BY <3>2, AccountsAssumption
    <3>4. us = [left EXCEPT ![main] = new] BY <2>3
    <3> HIDE DEF new
    <3>5. us \in [UserIds -> {None} \cup UserRecords] BY <1>4, <3>2, <3>4
    <3>6. us[main] = new /\ \A u \in UserIds : u # main => us[u] = left[u] BY <1>1, <1>4, <3>4
    <3>7. \A u \in UserIds : u # main /\ us[u] # None => us[u].name # plain BY <2>3, <3>6 DEF Named
    <3>8. \A u, v \in UserIds : us[u] # None /\ us[v] # None /\ us[u].name = us[v].name => u = v
      BY <1>4, <3>2, <3>3, <3>6, <3>7 DEF Sound
    <3>9. \A r \in rs : us[r.user] # None BY <1>5, <2>1, <3>3, <3>6 DEF Sound, RowRecords
    <3>10. \A u \in UserIds : users[u] # None /\ u \notin Rowless(x, main) => us[u] # None
      BY <1>4, <3>3, <3>6
    <3> QED BY <2>1, <3>3, <3>5, <3>6, <3>8, <3>9, <3>10 DEF Sound
  <2> QED BY <1>6, <2>2, <2>3
<1> QED BY <1>1, <1>2, <1>3, <1>8 DEF us, rs

-------------------------------------------------------------------------------
(* The steps of a login that write nothing *)

LEMMA InitInv == Init => AccountsInv
<1> SUFFICES ASSUME Init PROVE AccountsInv OBVIOUS
<1>1. PICK start \in Starts :
        /\ users = start.users /\ rows = start.rows /\ owner = start.owner /\ auths = start.auths
        /\ seen = [logins |-> start.logins, edits |-> start.edits, raced |-> FALSE, died |-> FALSE,
                   removed |-> FALSE, misled |-> FALSE, together |-> FALSE, strayed |-> FALSE, who |-> start.who,
                   had |-> {t \in Things : start.owner[t] # None}]
  BY DEF Init
<1>2. StartOK(start) BY AccountsAssumption
<1>3. Sound(users, rows, auths) BY <1>1, <1>2 DEF StartOK
<1>4. clock \in Int
  <2> DEFINE times == {auths[a].modified : a \in {b \in Auths : auths[b] # None}} \cup {0}
  <2>1. PICK m \in times : \A n \in times : n <= m BY <1>1, <1>2 DEF StartOK
  <2>2. times \subseteq Int BY <1>3 DEF Sound, AuthRecords
  <2>3. Newest = Max(times) BY DEF Newest, Kept
  <2>4. \E k \in times : \A n \in times : n <= k BY <2>1
  <2> HIDE DEF times
  <2>5. Max(times) \in times BY <2>2, <2>4 DEF Max
  <2> QED BY <2>2, <2>3, <2>5 DEF Init
<1>5. LoginOK BY DEF Init, LoginOK, LoginFits, Idle
<1>6. EditOK BY DEF Init, EditOK, EditFits, Idle
<1>7. SeenOK BY <1>1, <1>2 DEF SeenOK, StartOK
<1>8. SignedOK BY DEF Init, SignedOK
<1>9. owner \in [Things -> {None} \cup UserIds] /\ \A t \in Things : owner[t] # None => \E r \in rows : r.user = owner[t]
  BY <1>1, <1>2 DEF StartOK
<1>10. OwnerOK BY <1>3, <1>9 DEF OwnerOK, Sound
<1>11. AloneOK BY DEF Init, AloneOK, Rowing, Idle
<1>12. ThingsOK BY <1>1, <1>2 DEF ThingsOK, LostByClashOnly, StartOK
<1> QED BY <1>3, <1>4, <1>5, <1>6, <1>7, <1>8, <1>9, <1>10, <1>11, <1>12 DEF AccountsInv, OwnersHaveRows

\* What happened is not forgotten.
Remembered == /\ SeenOK' /\ (seen.raced => seen'.raced) /\ (seen.died => seen'.died)
              /\ (seen.removed => seen'.removed) /\ seen'.had = seen.had

\* A step that moves nothing loses nothing.
LEMMA ThingsStill ==
  ASSUME ThingsOK, UNCHANGED owner, seen'.had = seen.had
  PROVE  ThingsOK'
BY DEF ThingsOK, OneOfSlot, LostByClashOnly

\* Another request waits as before.
LEMMA WaitingStill ==
  ASSUME UNCHANGED <<users, rows>>, NEW q, NEW u, WillHave(q, u), login'[q] = login[q],
         login[q].x.auth \in Kept'
  PROVE  WillHave(q, u)'
BY DEF WillHave, RowOf, Rowing

LEMMA MovesAlone ==
  ASSUME AccountsInv, NEW p \in Procs, UNCHANGED <<users, rows, owner, auths, clock, edit, signed>>,
         LoginOK', \A q \in Procs \ {p} : login'[q] = login[q], Remembered,
         ~Rowing(login[p]) \/ seen'.died, Rowing(login'[p]) /\ Overlaps(p) => seen'.raced
  PROVE  AccountsInv'
<1>1. Sound(users, rows, auths)' /\ (clock \in Int)' BY DEF AccountsInv
<1>2. EditOK' BY DEF AccountsInv, EditOK
<1>3. SignedOK' BY DEF AccountsInv, SignedOK
<1>4. OwnerOK' BY DEF AccountsInv, OwnerOK
<1>5. AloneOK' BY DEF AccountsInv, AloneOK, Rowing, Overlaps, Remembered
<1>6. OwnersHaveRows'
  <2> SUFFICES ASSUME ~seen'.raced, ~seen'.died, ~seen'.removed, NEW t \in Things, owner[t] # None,
                      ~ \E r \in rows : r.user = owner[t]
               PROVE  \E q \in Procs : WillHave(q, owner[t])'
    BY DEF OwnersHaveRows
  <2>1. PICK q \in Procs : WillHave(q, owner[t]) BY DEF AccountsInv, OwnersHaveRows, Remembered
  <2>2. q # p BY <2>1 DEF WillHave
  <2>3. Kept' = Kept BY DEF Kept
  <2>4. WillHave(q, owner[t])' BY <2>1, <2>2, <2>3, WaitingStill DEF WillHave
  <2> QED BY <2>4
<1>7. ThingsOK' BY ThingsStill DEF AccountsInv, Remembered
<1> QED BY <1>1, <1>2, <1>3, <1>4, <1>5, <1>6, <1>7 DEF AccountsInv, Remembered

LEMMA TypeInv ==
  ASSUME AccountsInv, NEW p \in Procs, NEW cred, Type(p, cred)
  PROVE  AccountsInv'
<1> DEFINE e == [step |-> "key", cred |-> cred, key |-> Newest]
<1>1. LoginFits(e) /\ ~Rowing(e) BY DEF LoginFits, Rowing
<1>2. LoginOK' /\ ~Rowing(login'[p]) /\ \A q \in Procs \ {p} : login'[q] = login[q]
  BY <1>1, LoginMoves DEF Type, AccountsInv
<1>3. Remembered BY DEF Type, Remembered, AccountsInv, SeenOK
<1>4. ~Rowing(login[p]) BY DEF Type, Rowing, Idle
<1> QED BY <1>2, <1>3, <1>4, MovesAlone DEF Type, LoginUnchanged

LEMMA ConsultInv ==
  ASSUME AccountsInv, NEW p \in Procs, Consult(p)
  PROVE  AccountsInv'
<1> DEFINE e == [step |-> "loop", cred |-> login[p].cred, queue |-> cached'.list]
<1>1. LoginFits(e) /\ ~Rowing(e) BY DEF LoginFits, Rowing
<1>2. login' = [login EXCEPT ![p] = e] BY DEF Consult
<1> HIDE DEF e
<1>3. LoginOK' /\ ~Rowing(login'[p]) /\ \A q \in Procs \ {p} : login'[q] = login[q]
  BY <1>1, <1>2, LoginMoves DEF AccountsInv
<1>4. Remembered BY DEF Consult, Remembered, AccountsInv, SeenOK
<1>5. ~Rowing(login[p]) BY DEF Consult, Rowing
<1> QED BY <1>3, <1>4, <1>5, MovesAlone DEF Consult, LoginUnchanged

LEMMA RefusedInv ==
  ASSUME AccountsInv, NEW p \in Procs, Refused(p)
  PROVE  AccountsInv'
<1>1. LoginOK' /\ ~Rowing(login'[p]) /\ \A q \in Procs \ {p} : login'[q] = login[q]
  <2>1. CASE login' = [login EXCEPT ![p] = Idle]
    <3>1. LoginFits(Idle) /\ ~Rowing(Idle) BY DEF LoginFits, Rowing, Idle
    <3> QED BY <2>1, <3>1, LoginMoves DEF AccountsInv
  <2>2. CASE login' = [login EXCEPT ![p].queue = Tail(@)]
    <3> DEFINE e == [login[p] EXCEPT !.queue = Tail(login[p].queue)]
    <3>1. "step" \in DOMAIN login[p] /\ login[p].step = "loop" BY DEF AccountsInv, LoginOK, LoginFits, Refused
    <3>2. e.step = "loop" /\ "step" \in DOMAIN e BY <3>1
    <3>3. login' = [login EXCEPT ![p] = e] BY <2>2
    <3> HIDE DEF e
    <3>4. LoginFits(e) /\ ~Rowing(e) BY <3>2 DEF LoginFits, Rowing
    <3> QED BY <3>3, <3>4, LoginMoves DEF AccountsInv
  <2> QED BY <2>1, <2>2 DEF Refused
<1>2. Remembered BY DEF Refused, Remembered, AccountsInv, SeenOK
<1>3. ~Rowing(login[p]) BY DEF Refused, Rowing
<1> QED BY <1>1, <1>2, <1>3, MovesAlone DEF Refused, LoginUnchanged

LEMMA BeginInv ==
  ASSUME AccountsInv, NEW p \in Procs, NEW x \in Accounts, Begin(p, x)
  PROVE  AccountsInv'
<1> DEFINE e == [step |-> "away", x |-> x]
<1>1. LoginFits(e) /\ ~Rowing(e) BY DEF LoginFits, Rowing
<1>2. LoginOK' /\ ~Rowing(login'[p]) /\ \A q \in Procs \ {p} : login'[q] = login[q]
  BY <1>1, LoginMoves DEF Begin, AccountsInv
<1>3. Remembered BY DEF Begin, Remembered, AccountsInv, SeenOK
<1>4. ~Rowing(login[p]) BY DEF Begin, Rowing, Idle
<1> QED BY <1>2, <1>3, <1>4, MovesAlone DEF Begin, LoginUnchanged

LEMMA DiesInv ==
  ASSUME AccountsInv, NEW p \in Procs, Dies(p)
  PROVE  AccountsInv'
<1>1. LoginFits(Idle) /\ ~Rowing(Idle) BY DEF LoginFits, Rowing, Idle
<1>2. LoginOK' /\ ~Rowing(login'[p]) /\ \A q \in Procs \ {p} : login'[q] = login[q]
  BY <1>1, LoginMoves DEF Dies, AccountsInv
<1>3. Remembered /\ seen'.died BY DEF Dies, Remembered, AccountsInv, SeenOK
<1> QED BY <1>2, <1>3, MovesAlone DEF Dies, LoginUnchanged

\* The names that are chosen are names.
LEMMA ChosenNames ==
  ASSUME Sound(users, rows, auths), NEW x \in Accounts, NEW email,
         NEW name \in determine_username(users, rows, x, email), name # None
  PROVE  name \in Names
<1>1. \A u \in UserIds : users[u] # None => users[u].name \in Names BY DEF Sound, UserRecords
<1>2. ASSUME NEW uid \in Uids PROVE get_local_username(users, uid) \subseteq Names
  <2>1. 0 \in 0 .. MaxSuffix /\ 1 .. MaxSuffix \subseteq 0 .. MaxSuffix BY AccountsAssumption
  <2>2. \A n \in get_local_username(users, uid) : \E k \in 0 .. MaxSuffix : n = <<uid, k>>
    <3>1. CASE Named(users, Plain(uid)) = {} BY <2>1, <3>1 DEF get_local_username, Plain
    <3>2. CASE Named(users, Plain(uid)) # {}
      <4> TAKE n \in get_local_username(users, uid)
      <4>1. \E k \in 1 .. MaxSuffix : n = <<uid, k>> BY <3>2, Zenon DEF get_local_username
      <4> QED BY <2>1, <4>1
    <3> QED BY <3>1, <3>2
  <2> QED BY <2>2 DEF Names
<1>3. x.uid \in Uids /\ Selected(x) \in Uids BY DEF Uids, Selected
<1>4. \A uid \in Uids : NoMerge(users, rows, uid) \subseteq Names
  BY <1>2, AccountsAssumption DEF NoMerge, Names, Plain
<1>5. EmailFallback(users, rows, x, email) \subseteq Names \cup {None}
  BY <1>1, <1>2, <1>3, <1>4 DEF EmailFallback
<1>6. \A r \in rows : users[r.user].name \in Names BY <1>1 DEF Sound, RowRecords
<1> QED BY <1>5, <1>6 DEF determine_username

LEMMA ChooseNameInv ==
  ASSUME AccountsInv, NEW p \in Procs, NEW x \in Account(p), ChooseName(p, x)
  PROVE  AccountsInv'
<1>1. x \in Accounts /\ login[p].step \in {"loop", "away"}
  BY DEF Account, Knows, AccountsInv, LoginOK, LoginFits
<1>2. ~Rowing(login[p]) BY <1>1 DEF Rowing
<1>3. PICK name \in determine_username(users, rows, x, EmailFrom(x)) :
        IF name = None THEN Fails(p) /\ UNCHANGED seen
        ELSE ToRows(p, x, name) /\ seen' = [seen EXCEPT !.raced = @ \/ Overlaps(p)]
  BY DEF ChooseName
<1>4. CASE name = None
  <2>1. LoginOK' /\ ~Rowing(login'[p]) /\ \A q \in Procs \ {p} : login'[q] = login[q]
    BY <1>3, <1>4, FailsMoves DEF AccountsInv
  <2>2. Remembered BY <1>3, <1>4 DEF Remembered, AccountsInv, SeenOK
  <2> QED BY <1>2, <2>1, <2>2, MovesAlone DEF ChooseName, LoginUnchanged
<1>5. CASE name # None
  <2>1. name \in Names BY <1>1, <1>5, ChosenNames DEF AccountsInv
  <2>2. LoginOK' /\ \A q \in Procs \ {p} : login'[q] = login[q]
    <3>1. SocialUser(x) \in {None} \cup UserIds BY <1>1, SocialUserType DEF AccountsInv
    <3> QED BY <1>1, <1>3, <1>5, <2>1, <3>1, ToRowsMoves DEF AccountsInv
  <2>3. seen' = [seen EXCEPT !.raced = @ \/ Overlaps(p)] BY <1>3, <1>5
  <2>4. Remembered /\ (Overlaps(p) => seen'.raced)
    <3> PICK b \in BOOLEAN : b = (seen.raced \/ Overlaps(p)) BY DEF AccountsInv, SeenOK
    <3>1. seen' = [seen EXCEPT !.raced = b] BY <2>3
    <3> QED BY <3>1 DEF Remembered, AccountsInv, SeenOK
  <2> QED BY <1>2, <2>2, <2>4, MovesAlone DEF ChooseName, LoginUnchanged
<1> QED BY <1>4, <1>5

-------------------------------------------------------------------------------
(* The steps of a login that write *)

\* The turn of a thing that is to move is a number: of the orders of the rows that
\* move one is the least.
LEMMA TurnIsNumber ==
  ASSUME Sound(users, rows, auths), NEW x, NEW main, NEW t \in Carried(x, main)
  PROVE  TurnOf(x, t) \in Nat
<1> DEFINE S == {auths[r.auth].order : r \in {q \in Migrating(x) : q.user = owner[t]}}
<1>1. S \subseteq Nat
  <2> SUFFICES ASSUME NEW r \in rows PROVE auths[r.auth].order \in Nat BY DEF Migrating
  <2>1. r.auth \in Auths /\ auths[r.auth] \in AuthRecords BY DEF Sound, RowRecords
  <2> QED BY <2>1 DEF AuthRecords
<1>2. PICK s \in S : TRUE BY DEF Carried, LeftBehind
<1> HIDE DEF S
<1>3. \E m \in S : \A y \in S : m <= y
  <2> DEFINE below(n) == 0 .. n - 1
             T == {below(n) : n \in S}
  <2>1. T \subseteq FiniteSubsetsOf(Nat)
    <3> SUFFICES ASSUME NEW n \in Nat PROVE below(n) \in FiniteSubsetsOf(Nat) BY <1>1
    <3>1. IsFiniteSet(below(n)) BY FS_Interval
    <3> QED BY <3>1 DEF FiniteSubsetsOf
  <2>2. T # {} BY <1>2
  <2>3. \A n, m \in Nat : n < m => <<below(n), below(m)>> \in StrictSubsetOrdering(Nat)
    <3> SUFFICES ASSUME NEW n \in Nat, NEW m \in Nat, n < m
                 PROVE  <<below(n), below(m)>> \in StrictSubsetOrdering(Nat)
      OBVIOUS
    <3>1. below(n) \subseteq below(m) /\ n \in below(m) /\ n \notin below(n) OBVIOUS
    <3>2. below(n) \in SUBSET Nat /\ below(m) \in SUBSET Nat OBVIOUS
    <3> HIDE DEF below
    <3> QED BY <3>1, <3>2 DEF StrictSubsetOrdering
  <2> HIDE DEF T
  <2>4. PICK b \in T : \A c \in T : <<c, b>> \notin StrictSubsetOrdering(Nat)
    BY <2>1, <2>2, FS_StrictSubsetOrderingWellFounded, WFMin
  <2>5. PICK m \in S : b = below(m) BY DEF T
  <2> HIDE DEF below
  <2>6. \A n \in S : ~(n < m) BY <1>1, <2>3, <2>4, <2>5 DEF T
  <2> QED BY <1>1, <2>6
<1>4. Min(S) \in S BY <1>3 DEF Min
<1> QED BY <1>1, <1>4 DEF TurnOf, S

\* A thing that is to move goes to the main user or is skipped, for one of its slot
\* that the main user has in the end.
LEMMA SkippedForAnother ==
  ASSUME NEW x, NEW main \in UserIds, NEW skipped \in Skips(x, main), owner \in [Things -> {None} \cup UserIds],
         owner' = OwnerAfter(x, main, skipped)
  PROVE  /\ skipped \subseteq Carried(x, main)
         /\ \A t \in Carried(x, main) \ skipped : owner'[t] = main
         /\ \A t \in Things \ Carried(x, main) : owner'[t] = owner[t]
         /\ \A t \in skipped : /\ owner'[t] = Leaves(x, main, t)
                              /\ SlotOf[t] # None
                              /\ \E s \in Things \ {t} : SlotOf[s] = SlotOf[t] /\ owner'[s] = main
<1>1. skipped \subseteq Carried(x, main) /\ Carried(x, main) \subseteq Things BY DEF Skips, Carried
<1>2. \A t \in Things : owner'[t] = IF t \in skipped THEN Leaves(x, main, t)
                                    ELSE IF t \in Carried(x, main) THEN main ELSE owner[t]
  BY DEF OwnerAfter
<1>3. \A t \in Things : owner[t] = main => t \notin Carried(x, main) BY DEF Carried, LeftBehind
<1>4. ASSUME NEW t \in skipped
      PROVE  SlotOf[t] # None /\ \E s \in Things \ {t} : SlotOf[s] = SlotOf[t] /\ owner'[s] = main
  <2>1. SlotOf[t] # None BY <1>1, <1>4 DEF Skips
  <2>2. PICK s \in Things \ {t} :
          /\ SlotOf[s] = SlotOf[t]
          /\ owner[s] = main \/ (s \in Carried(x, main) \ skipped /\ TurnOf(x, s) <= TurnOf(x, t))
    BY <1>1, <1>4 DEF Skips
  <2>3. owner'[s] = main BY <1>1, <1>2, <1>3, <2>2
  <2> QED BY <2>1, <2>2, <2>3
<1> QED BY <1>1, <1>2, <1>4

LEMMA ThingsMoved ==
  ASSUME Sound(users, rows, auths), OwnerOK, ThingsOK, SeenOK, seen'.had = seen.had,
         NEW x, NEW main \in UserIds, main # None, NEW skipped \in Skips(x, main),
         owner' = OwnerAfter(x, main, skipped)
  PROVE  ThingsOK'
<1>1. /\ skipped \subseteq Carried(x, main)
      /\ \A t \in Carried(x, main) \ skipped : owner'[t] = main
      /\ \A t \in Things \ Carried(x, main) : owner'[t] = owner[t]
      /\ \A t \in skipped : /\ owner'[t] = Leaves(x, main, t)
                           /\ SlotOf[t] # None
                           /\ \E s \in Things \ {t} : SlotOf[s] = SlotOf[t] /\ owner'[s] = main
  BY SkippedForAnother DEF OwnerOK
<1>2. Carried(x, main) \subseteq Things /\ \A t \in Carried(x, main) : owner[t] # main
  BY DEF Carried, LeftBehind
<1>3. \A t \in Things : owner'[t] # None /\ owner'[t] # main => owner'[t] = owner[t]
  BY <1>1 DEF Leaves
<1>4. \A t \in Things : owner'[t] = main => owner[t] = main \/ t \in Carried(x, main) \ skipped
  <2> SUFFICES ASSUME NEW t \in Things, owner'[t] = main, owner[t] # main, t \notin Carried(x, main) \ skipped PROVE FALSE
    OBVIOUS
  <2>1. t \in skipped BY <1>1
  <2>2. owner'[t] \in {None, owner[t]} BY <1>1, <2>1 DEF Leaves
  <2> QED BY <2>2
<1>5. OneOfSlot(owner)'
  <2> SUFFICES ASSUME NEW t \in Things, NEW s \in Things, owner'[t] # None, owner'[t] = owner'[s],
                      SlotOf[t] # None, SlotOf[t] = SlotOf[s], t # s
               PROVE  FALSE
    BY DEF OneOfSlot
  <2>1. CASE owner'[t] # main BY <1>3, <2>1 DEF ThingsOK, OneOfSlot
  <2>2. CASE owner'[t] = main
    <3>1. ASSUME NEW r \in Carried(x, main) \ skipped, NEW q \in Things \ {r}, SlotOf[q] = SlotOf[r], SlotOf[r] # None
          PROVE  ~(owner[q] = main \/ (q \in Carried(x, main) \ skipped /\ TurnOf(x, q) <= TurnOf(x, r)))
      BY <3>1 DEF Skips
    <3>2. CASE owner[t] = main /\ owner[s] = main BY <3>2 DEF ThingsOK, OneOfSlot
    <3>3. CASE owner[t] = main /\ owner[s] # main
      <4>1. s \in Carried(x, main) \ skipped BY <1>4, <2>2, <3>3
      <4> QED BY <3>1, <3>3, <4>1
    <3>4. CASE owner[t] # main /\ owner[s] = main
      <4>1. t \in Carried(x, main) \ skipped BY <1>4, <2>2, <3>4
      <4> QED BY <3>1, <3>4, <4>1
    <3>5. CASE owner[t] # main /\ owner[s] # main
      <4>1. t \in Carried(x, main) \ skipped /\ s \in Carried(x, main) \ skipped BY <1>4, <2>2, <3>5
      <4>2. TurnOf(x, t) \in Nat /\ TurnOf(x, s) \in Nat BY <4>1, TurnIsNumber
      <4>3. TurnOf(x, t) <= TurnOf(x, s) \/ TurnOf(x, s) <= TurnOf(x, t) BY <4>2
      <4> QED BY <3>1, <4>1, <4>3
    <3> QED BY <3>2, <3>3, <3>4, <3>5
  <2> QED BY <2>1, <2>2
<1>6. LostByClashOnly'
  <2> SUFFICES ASSUME NEW t \in seen.had, owner'[t] = None
               PROVE  SlotOf[t] # None /\ \E s \in Things \ {t} : SlotOf[s] = SlotOf[t] /\ owner'[s] # None
    BY DEF LostByClashOnly
  <2>1. CASE t \in skipped BY <1>1, <2>1
  <2>2. CASE t \notin skipped
    <3>1. t \in Things /\ owner[t] = None BY <1>1, <1>2, <2>2 DEF SeenOK
    <3>2. PICK s \in Things \ {t} : SlotOf[s] = SlotOf[t] /\ owner[s] # None
      BY <3>1 DEF ThingsOK, LostByClashOnly
    <3>3. SlotOf[t] # None BY <3>1 DEF ThingsOK, LostByClashOnly
    <3>4. CASE owner'[s] # None BY <3>2, <3>3, <3>4
    <3>5. CASE owner'[s] = None
      <4>1. s \in skipped BY <1>1, <3>2, <3>5
      <4>2. PICK r \in Things \ {s} : SlotOf[r] = SlotOf[s] /\ owner'[r] = main BY <1>1, <4>1
      <4>3. r # t BY <4>2
      <4> QED BY <3>2, <3>3, <4>2, <4>3
    <3> QED BY <3>4, <3>5
  <2> QED BY <2>1, <2>2
<1> QED BY <1>5, <1>6 DEF ThingsOK

LEMMA MigrateInv ==
  ASSUME AccountsInv, NEW p \in Procs, NEW x \in Account(p), Migrate(p, x)
  PROVE  AccountsInv'
<1>1. x \in Accounts /\ ~Rowing(login[p])
  BY DEF Account, Knows, AccountsInv, LoginOK, LoginFits, Rowing
<1>2. PICK main \in MainUsers(x) : \E skipped \in Skips(x, main) :
        /\ users' = UsersAfter(x, main) /\ rows' = RowsAfter(x) /\ owner' = OwnerAfter(x, main, skipped)
        /\ ToRows(p, x, users'[main].name) /\ signed' = SignedStill(users', rows')
        /\ seen' = [seen EXCEPT !.raced = @ \/ Overlaps(p),
                                !.misled = @ \/ \E r \in Migrating(x) : PersonOf(r) # {x.person}]
  BY DEF Migrate
<1> PICK skipped \in Skips(x, main) : owner' = OwnerAfter(x, main, skipped) BY <1>2
<1>3. UNCHANGED <<auths, clock, edit>> /\ Migrating(x) # {} BY DEF Migrate, LoginUnchanged
<1>4. /\ Sound(users', rows', auths)
      /\ main \in UserIds /\ users'[main] # None /\ x.auth \in Kept
      /\ \A u \in UserIds : users[u] # None /\ u \notin Rowless(x, main) => users'[u] # None
      /\ \/ \E r \in rows' : r.user = main
         \/ RowOf(x) = {} /\ SocialUser(x) = None
  BY <1>1, <1>2, <1>3, MigratedIsSound DEF AccountsInv
<1>5. Sound(users, rows, auths)' /\ (clock \in Int)' BY <1>3, <1>4 DEF AccountsInv
<1>6. /\ LoginOK' /\ Rowing(login'[p]) /\ login'[p].x = x /\ login'[p].name = users'[main].name
      /\ login'[p].social = SocialUser(x)
      /\ \A q \in Procs \ {p} : login'[q] = login[q]
  <2>1. users'[main].name \in Names BY <1>4 DEF Sound, UserRecords
  <2>2. SocialUser(x) \in {None} \cup UserIds BY <1>1, SocialUserType DEF AccountsInv
  <2> QED BY <1>1, <1>2, <2>1, <2>2, ToRowsMoves DEF AccountsInv
<1>7. EditOK' BY <1>3 DEF AccountsInv, EditOK
<1>8. Remembered /\ (Overlaps(p) => seen'.raced)
  <2> PICK b \in BOOLEAN : b = (seen.raced \/ Overlaps(p)) BY DEF AccountsInv, SeenOK
  <2> PICK c \in BOOLEAN : c = (seen.misled \/ \E r \in Migrating(x) : PersonOf(r) # {x.person})
    BY DEF AccountsInv, SeenOK
  <2>1. seen' = [seen EXCEPT !.raced = b, !.misled = c] BY <1>2
  <2> QED BY <2>1 DEF Remembered, AccountsInv, SeenOK
<1>9. SignedOK'
  <2>1. signed' \in [Accounts -> {None} \cup UserIds] BY <1>2 DEF SignedStill, AccountsInv, SignedOK
  <2>2. ASSUME NEW y \in Accounts, signed'[y] # None
        PROVE  \E r \in rows' : r.auth = y.auth /\ r.uid = y.uid /\ r.user = signed'[y]
    <3>1. signed'[y] = signed[y] /\ signed[y] # None BY <1>2, <2>2 DEF SignedStill
    <3>2. PICK r \in rows' : r.auth = y.auth /\ r.uid = y.uid BY <1>2, <2>2 DEF SignedStill
    <3>3. r \in rows BY <1>2, <3>2 DEF RowsAfter
    <3>4. PICK q \in rows : q.auth = y.auth /\ q.uid = y.uid /\ q.user = signed[y]
      BY <3>1 DEF AccountsInv, SignedOK
    <3>5. q = r BY <3>2, <3>3, <3>4 DEF AccountsInv, Sound
    <3> QED BY <3>1, <3>2, <3>4, <3>5
  <2> QED BY <2>1, <2>2 DEF SignedOK
<1>10. /\ skipped \subseteq Carried(x, main)
       /\ \A t \in Carried(x, main) \ skipped : owner'[t] = main
       /\ \A t \in Things \ Carried(x, main) : owner'[t] = owner[t]
       /\ \A t \in skipped : owner'[t] = Leaves(x, main, t)
  BY <1>4, SkippedForAnother DEF AccountsInv, OwnerOK
<1>11. Carried(x, main) \subseteq Things BY DEF Carried
<1>12. \A t \in Things : owner'[t] # None /\ owner'[t] # main => owner'[t] = owner[t] /\ owner[t] \notin Rowless(x, main)
  BY <1>10 DEF Leaves, Carried, Rowless
<1>13. OwnerOK'
  <2>1. owner' \in [Things -> {None} \cup UserIds]
    BY <1>2, <1>4, <1>10, <1>11 DEF OwnerAfter, Leaves, AccountsInv, OwnerOK
  <2>2. ASSUME NEW t \in Things, owner'[t] # None PROVE users'[owner'[t]] # None
    BY <1>4, <1>12, <2>2 DEF AccountsInv, OwnerOK
  <2> QED BY <2>1, <2>2 DEF OwnerOK
<1>14. AloneOK' BY <1>6, <1>8 DEF AccountsInv, AloneOK, Rowing, Overlaps, Remembered
<1>15. OwnersHaveRows'
  <2> SUFFICES ASSUME ~seen'.raced, ~seen'.died, ~seen'.removed, NEW t \in Things, owner'[t] # None,
                      ~ \E r \in rows' : r.user = owner'[t]
               PROVE  WillHave(p, owner[t])'
    BY DEF OwnersHaveRows
  <2>1. \A q \in Procs : ~Rowing(login[q]) BY <1>1, <1>8 DEF Overlaps, Rowing
  <2>2. owner'[t] = main
    <3>1. ASSUME owner'[t] # main PROVE FALSE
      <4>1. owner[t] = owner'[t] /\ owner[t] \notin Rowless(x, main) BY <1>12, <3>1
      <4>2. PICK r \in rows : r.user = owner[t]
        BY <1>8, <2>1, <4>1 DEF AccountsInv, OwnersHaveRows, WillHave, Remembered
      <4>3. CASE r \in Migrating(x) BY <1>2, <3>1, <4>1, <4>2, <4>3 DEF LeftBehind, Rowless
      <4>4. CASE r \notin Migrating(x) BY <1>2, <4>1, <4>2, <4>4 DEF RowsAfter
      <4> QED BY <4>3, <4>4
    <3> QED BY <3>1
  <2>3. RowOf(x) = {} /\ SocialUser(x) = None BY <1>4, <2>2
  <2>4. RowOf(x)' = {} BY <1>2, <2>3 DEF RowOf, RowsAfter
  <2>5. x.auth \in Kept' BY <1>3, <1>4 DEF Kept
  <2>6. RowOf(login[p].x)' = {} BY <1>6, <2>4 DEF RowOf
  <2> QED BY <1>4, <1>6, <2>2, <2>3, <2>5, <2>6 DEF WillHave
<1>16. main # None BY <1>4, AccountsAssumption
<1>17. ThingsOK' BY <1>4, <1>8, <1>16, ThingsMoved DEF AccountsInv, Remembered
<1> QED BY <1>5, <1>6, <1>7, <1>8, <1>9, <1>13, <1>14, <1>15, <1>17 DEF AccountsInv, Remembered

\* A second phase keeps the rows that are there, for the same users, and writes
\* the one it was chosen for.
LEMMA WritesInv ==
  ASSUME AccountsInv, NEW p \in Procs, Rowing(login[p]), NEW x \in Accounts, login[p].x = x,
         UNCHANGED <<auths, clock, edit, owner>>, Sound(users, rows, auths)', Remembered,
         LoginOK', ~Rowing(login'[p]), \A q \in Procs \ {p} : login'[q] = login[q],
         \A u \in UserIds : users[u] # None => users'[u] # None,
         \A r \in rows : \E q \in rows' : q.auth = r.auth /\ q.uid = r.uid /\ q.user = r.user,
         \A u \in UserIds : WillHave(p, u) => \E r \in rows' : r.user = u,
         signed' \in [Accounts -> {None} \cup UserIds],
         \A y \in Accounts :
           \/ signed'[y] = signed[y]
           \/ \E r \in rows' : r.auth = y.auth /\ r.uid = y.uid /\ r.user = signed'[y]
  PROVE  /\ AccountsInv'
         /\ \A y \in Accounts : signed[y] # None /\ signed'[y] # None => signed'[y] = signed[y]
<1>1. EditOK' /\ (clock \in Int)' BY DEF AccountsInv, EditOK
<1>2. \A y \in Accounts : signed[y] # None =>
        \E r \in rows' : r.auth = y.auth /\ r.uid = y.uid /\ r.user = signed[y]
  <2> TAKE y \in Accounts
  <2> HAVE signed[y] # None
  <2>1. PICK r \in rows : r.auth = y.auth /\ r.uid = y.uid /\ r.user = signed[y]
    BY DEF AccountsInv, SignedOK
  <2> QED BY <2>1
<1>3. SignedOK' BY <1>2 DEF SignedOK
<1>4. OwnerOK' BY DEF AccountsInv, OwnerOK
<1>5. AloneOK' BY DEF AccountsInv, AloneOK, Rowing, Remembered
<1>6. OwnersHaveRows'
  <2> SUFFICES ASSUME ~seen'.raced, ~seen'.died, ~seen'.removed, NEW t \in Things, owner[t] # None
               PROVE  \E r \in rows' : r.user = owner[t]
    BY DEF OwnersHaveRows
  <2>1. CASE \E r \in rows : r.user = owner[t] BY <2>1
  <2>2. CASE \E q \in Procs : WillHave(q, owner[t])
    <3>1. WillHave(p, owner[t]) BY <2>2 DEF AccountsInv, AloneOK, WillHave, Remembered
    <3> QED BY <3>1 DEF AccountsInv, OwnerOK
  <2> QED BY <2>1, <2>2 DEF AccountsInv, OwnersHaveRows, Remembered
<1>7. \A y \in Accounts : signed[y] # None /\ signed'[y] # None => signed'[y] = signed[y]
  <2> TAKE y \in Accounts
  <2> HAVE signed[y] # None /\ signed'[y] # None
  <2>1. CASE signed'[y] # signed[y]
    <3>1. PICK r \in rows' : r.auth = y.auth /\ r.uid = y.uid /\ r.user = signed[y] BY <1>2
    <3>2. PICK q \in rows' : q.auth = y.auth /\ q.uid = y.uid /\ q.user = signed'[y] BY <2>1
    <3>3. q = r BY <3>1, <3>2 DEF Sound
    <3> QED BY <3>1, <3>2, <3>3
  <2> QED BY <2>1
<1>8. ThingsOK' BY ThingsStill DEF AccountsInv, Remembered
<1> QED BY <1>1, <1>3, <1>4, <1>5, <1>6, <1>7, <1>8 DEF AccountsInv, Remembered

LEMMA SignedInMoves ==
  ASSUME AccountsInv, NEW p \in Procs, NEW x \in Accounts, NEW us, NEW u \in UserIds,
         SignedIn(p, x, us, u)
  PROVE  /\ LoginOK' /\ ~Rowing(login'[p]) /\ \A q \in Procs \ {p} : login'[q] = login[q]
         /\ signed' \in [Accounts -> {None} \cup UserIds]
         /\ \A y \in Accounts : signed'[y] = signed[y] \/ (y = x /\ signed'[y] = u)
<1>1. LoginOK' /\ ~Rowing(login'[p]) /\ \A q \in Procs \ {p} : login'[q] = login[q]
  <2>1. CASE Fails(p) BY <2>1, FailsMoves DEF AccountsInv
  <2>2. CASE login' = [login EXCEPT ![p] = Idle]
    <3>1. LoginFits(Idle) /\ ~Rowing(Idle) BY DEF LoginFits, Rowing, Idle
    <3> QED BY <2>2, <3>1, LoginMoves DEF AccountsInv
  <2> QED BY <2>1, <2>2 DEF SignedIn
<1>2. signed' = signed \/ signed' = [signed EXCEPT ![x] = u] BY DEF SignedIn
<1> QED BY <1>1, <1>2 DEF AccountsInv, SignedOK

\* The user of the name that was chosen is the one who is waited for.
LEMMA NamedIsAwaited ==
  ASSUME Sound(users, rows, auths), NEW name \in Names, NEW email \in Emails,
         NEW c \in GetOrCreateUser(name, email),
         NEW u \in UserIds, users[u] # None, users[u].name = name
  PROVE  c.u = u
BY CreatedIsSound DEF Sound

LEMMA WriteRowsInv ==
  ASSUME AccountsInv, NEW p \in Procs, WriteRows(p)
  PROVE  /\ AccountsInv'
         /\ \A y \in Accounts : signed[y] # None /\ signed'[y] # None => signed'[y] = signed[y]
<1> DEFINE x == login[p].x
           name == login[p].name
           email == IF KindOf[x.auth] = "local"
                      THEN IF Named(users, Plain(x.uid)) = {} THEN None ELSE EmailFrom(x)
                      ELSE x.email
           row(c) == IF RowOf(x) # {} THEN CHOOSE r \in RowOf(x) : TRUE ELSE NewRow(x, c.u, None)
           written(c) == [row(c) EXCEPT !.email = email]
<1>1. Rowing(login[p]) /\ x \in Accounts /\ name \in Names
  BY DEF WriteRows, AccountsInv, LoginOK, LoginFits, Rowing
<1>2. PICK c \in GetOrCreateUser(name, None) :
        IF x.auth \notin Kept
          THEN users' = c.us /\ Fails(p) /\ UNCHANGED <<rows, signed>>
          ELSE /\ rows' = (rows \ RowOf(x)) \cup {written(c)}
               /\ users' = Filled(c.us, FinalUser(row(c), c.u), x)
               /\ IF KindOf[x.auth] = "local" /\ row(c).user \notin Named(users, Plain(x.uid))
                    THEN Fails(p) /\ UNCHANGED signed
                    ELSE SignedIn(p, x, users', FinalUser(row(c), c.u))
  BY DEF WriteRows
<1>3. UNCHANGED <<owner, auths, clock, edit>> BY DEF WriteRows, LoginUnchanged
<1>4. None \in Emails BY DEF Emails
<1>5. /\ Sound(c.us, rows, auths)
      /\ c.u \in UserIds /\ c.us[c.u] # None
      /\ \A v \in UserIds : users[v] # None => c.us[v] = users[v]
  BY <1>1, <1>2, <1>4, CreatedIsSound DEF AccountsInv
<1>6. Remembered
  <2> DEFINE bad == \E r \in rows' : KindOf[r.auth] = "local" /\ users'[r.user].name # Plain(r.uid)
  <2> PICK b \in BOOLEAN : b = (seen.strayed \/ bad) BY DEF AccountsInv, SeenOK
  <2>1. seen' = [seen EXCEPT !.strayed = b] BY DEF WriteRows
  <2> QED BY <2>1 DEF Remembered, AccountsInv, SeenOK
<1>7. x = login[p].x OBVIOUS
<1>8. name = login[p].name OBVIOUS
<1>9. signed \in [Accounts -> {None} \cup UserIds] BY DEF AccountsInv, SignedOK
<1>10. CASE x.auth \notin Kept
  <2>1. users' = c.us /\ Fails(p) /\ UNCHANGED <<rows, signed>> BY <1>2, <1>10
  <2>2. LoginOK' /\ ~Rowing(login'[p]) /\ \A q \in Procs \ {p} : login'[q] = login[q]
    BY <2>1, FailsMoves DEF AccountsInv
  <2>3. Sound(users, rows, auths)' BY <1>3, <1>5, <2>1
  <2>4. \A u \in UserIds : ~WillHave(p, u) BY <1>10 DEF WillHave
  <2>5. \A u \in UserIds : users[u] # None => users'[u] # None BY <1>5, <2>1
  <2> HIDE DEF x
  <2> QED BY <1>1, <1>3, <1>6, <1>7, <1>9, <2>1, <2>2, <2>3, <2>4, <2>5, WritesInv
<1>11. CASE x.auth \in Kept
  <2> DEFINE u == row(c).user
  <2>1. email \in Emails
    <3>1. CASE KindOf[x.auth] = "local" /\ Named(users, Plain(x.uid)) # {}
      <4>1. (CHOOSE v \in Named(users, Plain(x.uid)) : TRUE) \in Named(users, Plain(x.uid)) BY <3>1
      <4>2. users[CHOOSE v \in Named(users, Plain(x.uid)) : TRUE] \in UserRecords
        BY <4>1 DEF Named, AccountsInv, Sound
      <4> QED BY <3>1, <4>2 DEF EmailFrom, UserRecords
    <3>2. CASE KindOf[x.auth] = "local" /\ Named(users, Plain(x.uid)) = {} BY <1>4, <3>2
    <3>3. CASE KindOf[x.auth] # "local" BY <1>1, <3>3 DEF Emails
    <3> QED BY <3>1, <3>2, <3>3
  <2>2. /\ row(c) \in RowRecords /\ row(c).auth = x.auth /\ row(c).uid = x.uid
        /\ c.us[row(c).user] # None
        /\ RowOf(x) # {} => row(c) \in RowOf(x)
        /\ RowOf(x) = {} => row(c).user = c.u
    <3>1. CASE RowOf(x) # {}
      <4>1. row(c) \in RowOf(x) BY <3>1
      <4> HIDE DEF row
      <4> QED BY <1>5, <3>1, <4>1 DEF RowOf, Sound
    <3>2. CASE RowOf(x) = {}
      <4>1. row(c) = [auth |-> x.auth, uid |-> x.uid, user |-> c.u, email |-> None] BY <3>2 DEF NewRow
      <4>2. x.auth \in Auths /\ x.uid \in Uids BY <1>1, AccountsAssumption DEF Uids
      <4> HIDE DEF row, x
      <4> QED BY <1>4, <1>5, <3>2, <4>1, <4>2 DEF RowRecords
    <3> QED BY <3>1, <3>2
  <2>3. /\ written(c) \in RowRecords /\ written(c).auth = x.auth /\ written(c).uid = x.uid
        /\ written(c).user = row(c).user
    <3> HIDE DEF row, email
    <3> QED BY <2>1, <2>2 DEF RowRecords
  <2>4. /\ rows' = (rows \ RowOf(x)) \cup {written(c)}
        /\ users' = Filled(c.us, u, x)
        /\ \/ Fails(p) /\ UNCHANGED signed
           \/ SignedIn(p, x, users', u)
    BY <1>2, <1>11 DEF FinalUser
  <2> HIDE DEF row, written, email, name, x
  <2>5. u \in UserIds /\ c.us[u] # None BY <2>2 DEF RowRecords
  <2>6. Sound(c.us, (rows \ {r \in rows : r.auth = written(c).auth /\ r.uid = written(c).uid}) \cup {written(c)}, auths)
    BY <1>5, <1>11, <2>2, <2>3, WrittenIsSound DEF Kept
  <2>7. Sound(c.us, rows', auths) BY <2>3, <2>4, <2>6 DEF RowOf
  <2> HIDE DEF u
  <2>8. Sound(users', rows', auths) /\ \A v \in UserIds : c.us[v] # None => users'[v] # None
    BY <1>1, <2>4, <2>5, <2>7, FilledIsSound
  <2>9. Sound(users, rows, auths)' BY <1>3, <2>8
  <2>10. /\ LoginOK' /\ ~Rowing(login'[p]) /\ \A q \in Procs \ {p} : login'[q] = login[q]
         /\ signed' \in [Accounts -> {None} \cup UserIds]
         /\ \A y \in Accounts : signed'[y] = signed[y] \/ (y = x /\ signed'[y] = u)
    <3>1. CASE Fails(p) /\ UNCHANGED signed BY <1>9, <3>1, FailsMoves DEF AccountsInv
    <3>2. CASE SignedIn(p, x, users', u) BY <1>1, <2>5, <3>2, SignedInMoves
    <3> QED BY <2>4, <3>1, <3>2
  <2>11. \A v \in UserIds : users[v] # None => users'[v] # None BY <1>5, <2>8
  <2>12. \A r \in rows : \E q \in rows' : q.auth = r.auth /\ q.uid = r.uid /\ q.user = r.user
    <3> TAKE r \in rows
    <3>1. CASE r \in RowOf(x)
      <4>1. r = row(c) BY <2>2, <3>1 DEF RowOf, AccountsInv, Sound
      <4> QED BY <2>2, <2>3, <2>4, <4>1
    <3>2. CASE r \notin RowOf(x) BY <2>4, <3>2
    <3> QED BY <3>1, <3>2
  <2>13. \A v \in UserIds : WillHave(p, v) => \E r \in rows' : r.user = v
    <3> SUFFICES ASSUME NEW v \in UserIds, WillHave(p, v) PROVE \E r \in rows' : r.user = v
      OBVIOUS
    <3>1. RowOf(x) = {} /\ users[v] # None /\ users[v].name = name BY <1>7, <1>8 DEF WillHave
    <3>2. c.u = v BY <1>1, <1>2, <1>4, <3>1, NamedIsAwaited DEF AccountsInv
    <3> QED BY <2>2, <2>3, <2>4, <3>1, <3>2
  <2>14. \A y \in Accounts :
           \/ signed'[y] = signed[y]
           \/ \E r \in rows' : r.auth = y.auth /\ r.uid = y.uid /\ r.user = signed'[y]
    BY <2>3, <2>4, <2>10 DEF u
  <2> QED BY <1>1, <1>3, <1>6, <1>7, <2>9, <2>10, <2>11, <2>12, <2>13, <2>14, WritesInv
<1> QED BY <1>10, <1>11

LEMMA AssociateInv ==
  ASSUME AccountsInv, NEW p \in Procs, Associate(p)
  PROVE  /\ AccountsInv'
         /\ \A y \in Accounts : signed[y] # None /\ signed'[y] # None => signed'[y] = signed[y]
<1> DEFINE x == login[p].x
           name == login[p].name
           s == login[p].social
           told(r) == IF r \in RowOf(x) /\ x.email # None THEN [r EXCEPT !.email = x.email] ELSE r
<1>1. Rowing(login[p]) /\ x \in Accounts /\ name \in Names /\ s \in {None} \cup UserIds
  BY DEF Associate, AccountsInv, LoginOK, LoginFits, Rowing
<1>2. PICK c \in IF s # None THEN {[us |-> users, u |-> s]} ELSE GetOrCreateUser(name, x.email) :
        IF c.us[c.u] = None \/ x.auth \notin Kept \/ (RowOf(x) # {} /\ \A r \in RowOf(x) : r.user # c.u)
          THEN users' = c.us /\ Fails(p) /\ UNCHANGED <<rows, signed>>
          ELSE /\ rows' = IF RowOf(x) = {} THEN rows \cup {NewRow(x, c.u, x.email)} ELSE {told(r) : r \in rows}
               /\ users' = Filled(c.us, c.u, x)
               /\ SignedIn(p, x, users', c.u)
  BY DEF Associate, capture_oauth_email
<1>3. UNCHANGED <<owner, auths, clock, edit, seen>> BY DEF Associate, LoginUnchanged
<1>4. Remembered BY <1>3 DEF Remembered, AccountsInv, SeenOK
<1>5. x.email \in Emails /\ x.auth \in Auths /\ x.uid \in Uids
  BY <1>1, AccountsAssumption DEF Emails, Uids
<1>6. x = login[p].x /\ name = login[p].name /\ s = login[p].social OBVIOUS
<1>7. signed \in [Accounts -> {None} \cup UserIds] BY DEF AccountsInv, SignedOK
<1> HIDE DEF x, name, s
<1>8. /\ Sound(c.us, rows, auths) /\ c.u \in UserIds
      /\ \A v \in UserIds : users[v] # None => c.us[v] = users[v]
  <2>1. CASE s # None BY <1>1, <1>2, <2>1 DEF AccountsInv
  <2>2. CASE s = None
    <3>1. c \in GetOrCreateUser(name, x.email) BY <1>2, <2>2
    <3> QED BY <1>1, <1>5, <3>1, CreatedIsSound DEF AccountsInv
  <2> QED BY <2>1, <2>2
<1>9. ASSUME NEW v \in UserIds, WillHave(p, v)
      PROVE  x.auth \in Kept /\ RowOf(x) = {} /\ c.u = v /\ c.us[v] # None
  <2>1. x.auth \in Kept /\ RowOf(x) = {} /\ s = None /\ users[v] # None /\ users[v].name = name
    BY <1>6, <1>9 DEF WillHave
  <2>2. c \in GetOrCreateUser(name, x.email) BY <1>2, <2>1
  <2>3. c.u = v BY <1>1, <1>5, <2>1, <2>2, NamedIsAwaited DEF AccountsInv
  <2> QED BY <1>8, <2>1, <2>3
<1> DEFINE fails == c.us[c.u] = None \/ x.auth \notin Kept \/ (RowOf(x) # {} /\ \A r \in RowOf(x) : r.user # c.u)
<1>10. CASE fails
  <2>1. users' = c.us /\ Fails(p) /\ UNCHANGED <<rows, signed>> BY <1>2, <1>10
  <2>2. LoginOK' /\ ~Rowing(login'[p]) /\ \A q \in Procs \ {p} : login'[q] = login[q]
    BY <2>1, FailsMoves DEF AccountsInv
  <2>3. Sound(users, rows, auths)' BY <1>3, <1>8, <2>1
  <2>4. \A v \in UserIds : ~WillHave(p, v) BY <1>9, <1>10
  <2>5. \A v \in UserIds : users[v] # None => users'[v] # None BY <1>8, <2>1
  <2> QED BY <1>1, <1>3, <1>4, <1>6, <1>7, <2>1, <2>2, <2>3, <2>4, <2>5, WritesInv
<1>11. CASE ~fails
  <2>1. /\ c.us[c.u] # None /\ x.auth \in Kept
        /\ RowOf(x) = {} \/ \E r \in RowOf(x) : r.user = c.u
        /\ rows' = IF RowOf(x) = {} THEN rows \cup {NewRow(x, c.u, x.email)} ELSE {told(r) : r \in rows}
        /\ users' = Filled(c.us, c.u, x)
        /\ SignedIn(p, x, users', c.u)
    BY <1>2, <1>11
  <2> HIDE DEF fails
  <2>2. /\ Sound(c.us, rows', auths)
        /\ \A r \in rows : \E q \in rows' : q.auth = r.auth /\ q.uid = r.uid /\ q.user = r.user
        /\ \E r \in rows' : r.auth = x.auth /\ r.uid = x.uid /\ r.user = c.u
    <3>1. CASE RowOf(x) = {}
      <4> DEFINE new == NewRow(x, c.u, x.email)
      <4>1. new \in RowRecords /\ new.auth = x.auth /\ new.uid = x.uid /\ new.user = c.u
        BY <1>5, <1>8 DEF NewRow, RowRecords
      <4>2. rows' = rows \cup {new} BY <2>1, <3>1
      <4> HIDE DEF new
      <4>3. {r \in rows : r.auth = new.auth /\ r.uid = new.uid} = {} BY <3>1, <4>1 DEF RowOf
      <4>4. Sound(c.us, (rows \ {r \in rows : r.auth = new.auth /\ r.uid = new.uid}) \cup {new}, auths)
        BY <1>8, <2>1, <4>1, WrittenIsSound DEF Kept
      <4>5. Sound(c.us, rows', auths) BY <4>2, <4>3, <4>4
      <4> QED BY <4>1, <4>2, <4>5
    <3>2. CASE RowOf(x) # {}
      <4>1. rows' = {told(r) : r \in rows} BY <2>1, <3>2
      <4>2. \A r \in rows : /\ told(r) \in RowRecords
                            /\ told(r).auth = r.auth /\ told(r).uid = r.uid /\ told(r).user = r.user
        <5> TAKE r \in rows
        <5>1. r \in RowRecords BY <1>8 DEF Sound
        <5> QED BY <1>5, <5>1 DEF RowRecords
      <4> HIDE DEF told
      <4>3. rows' \subseteq RowRecords BY <4>1, <4>2
      <4>4. \A r \in rows' : \E q \in rows : r = told(q) BY <4>1
      <4>5. \A r \in rows' : c.us[r.user] # None /\ auths[r.auth] # None BY <1>8, <4>2, <4>4 DEF Sound
      <4>6. \A r, q \in rows' : q.auth = r.auth /\ q.uid = r.uid => q = r BY <1>8, <4>2, <4>4 DEF Sound
      <4>7. Sound(c.us, rows', auths) BY <1>8, <4>3, <4>5, <4>6 DEF Sound
      <4>8. \A r \in rows : told(r) \in rows' BY <4>1
      <4>9. PICK r \in rows : r.auth = x.auth /\ r.uid = x.uid /\ r.user = c.u BY <2>1, <3>2 DEF RowOf
      <4> QED BY <4>2, <4>7, <4>8, <4>9
    <3> QED BY <3>1, <3>2
  <2>3. Sound(users', rows', auths) /\ \A v \in UserIds : c.us[v] # None => users'[v] # None
    BY <1>1, <1>8, <2>1, <2>2, FilledIsSound
  <2>4. Sound(users, rows, auths)' BY <1>3, <2>3
  <2>5. /\ LoginOK' /\ ~Rowing(login'[p]) /\ \A q \in Procs \ {p} : login'[q] = login[q]
        /\ signed' \in [Accounts -> {None} \cup UserIds]
        /\ \A y \in Accounts : signed'[y] = signed[y] \/ (y = x /\ signed'[y] = c.u)
    BY <1>1, <1>8, <2>1, SignedInMoves
  <2>6. \A v \in UserIds : users[v] # None => users'[v] # None BY <1>8, <2>3
  <2>7. \A v \in UserIds : WillHave(p, v) => \E r \in rows' : r.user = v BY <1>9, <2>2
  <2>8. \A y \in Accounts :
          \/ signed'[y] = signed[y]
          \/ \E r \in rows' : r.auth = y.auth /\ r.uid = y.uid /\ r.user = signed'[y]
    BY <2>2, <2>5
  <2> QED BY <1>1, <1>3, <1>4, <1>6, <2>2, <2>4, <2>5, <2>6, <2>7, <2>8, WritesInv
<1> QED BY <1>10, <1>11

-------------------------------------------------------------------------------
(* The edits of the authenticators *)

LEMMA EditMoves ==
  ASSUME EditOK, NEW d \in Admins, NEW e, edit' = [edit EXCEPT ![d] = e], EditFits(e)
  PROVE  EditOK'
<1>1. \A q \in Admins : edit'[q] = IF q = d THEN e ELSE edit[q] BY DEF EditOK
<1>2. edit' = [q \in Admins |-> edit'[q]] BY DEF EditOK
<1> QED BY <1>1, <1>2 DEF EditOK

LEMMA EditsInv ==
  ASSUME AccountsInv, UNCHANGED <<users, rows, owner, login, signed>>, EditOK', Remembered,
         (clock \in Int)', Sound(users, rows, auths)',
         \A p \in Procs : Rowing(login[p]) /\ login[p].x.auth \in Kept =>
                          login[p].x.auth \in Kept' \/ seen'.removed
  PROVE  AccountsInv'
<1>1. LoginOK' BY DEF AccountsInv, LoginOK
<1>2. SignedOK' BY DEF AccountsInv, SignedOK
<1>3. OwnerOK' BY DEF AccountsInv, OwnerOK
<1>4. AloneOK' BY DEF AccountsInv, AloneOK, Remembered
<1>5. OwnersHaveRows'
  <2> SUFFICES ASSUME ~seen'.raced, ~seen'.died, ~seen'.removed, NEW t \in Things, owner[t] # None,
                      ~ \E r \in rows : r.user = owner[t]
               PROVE  \E q \in Procs : WillHave(q, owner[t])'
    BY DEF OwnersHaveRows
  <2>1. PICK q \in Procs : WillHave(q, owner[t]) BY DEF AccountsInv, OwnersHaveRows, Remembered
  <2>2. login[q].x.auth \in Kept' BY <2>1 DEF WillHave
  <2>3. WillHave(q, owner[t])' BY <2>1, <2>2, WaitingStill
  <2> QED BY <2>3
<1>6. ThingsOK' BY ThingsStill DEF AccountsInv, Remembered
<1> QED BY <1>1, <1>2, <1>3, <1>4, <1>5, <1>6 DEF AccountsInv, Remembered

LEMMA BeginEditInv ==
  ASSUME AccountsInv, NEW d \in Admins, NEW e, EditFits(e), edit' = [edit EXCEPT ![d] = e],
         seen' = [seen EXCEPT !.edits = @ - 1, !.together = @ \/ \E f \in Admins \ {d} : edit[f] # Idle],
         UNCHANGED <<auths, clock>>, EditUnchanged
  PROVE  AccountsInv'
<1>1. EditOK' BY EditMoves DEF AccountsInv
<1>2. Remembered
  <2> PICK b \in BOOLEAN : b = (seen.together \/ \E f \in Admins \ {d} : edit[f] # Idle)
    BY DEF AccountsInv, SeenOK
  <2> PICK k \in Int : k = seen.edits - 1 BY DEF AccountsInv, SeenOK
  <2>1. seen' = [seen EXCEPT !.edits = k, !.together = b] OBVIOUS
  <2> QED BY <2>1 DEF Remembered, AccountsInv, SeenOK
<1>3. (clock \in Int)' /\ Sound(users, rows, auths)' BY DEF AccountsInv, EditUnchanged
<1>4. Kept' = Kept BY DEF Kept
<1> QED BY <1>1, <1>2, <1>3, <1>4, EditsInv DEF EditUnchanged

LEMMA PatchInv ==
  ASSUME AccountsInv, NEW d \in Admins, NEW a \in Kept, NEW change \in Changes(a), Patch(d, a, change)
  PROVE  AccountsInv'
<1> DEFINE e == [step |-> "save", auth |-> a, change |-> change, order |-> auths[a].order]
<1>1. /\ change \in [enabled : BOOLEAN, target : ({None} \cup Auths) \ {a}] /\ a \in Auths
      /\ auths[a].order \in Nat
  BY DEF Changes, Kept, AccountsInv, Sound, AuthRecords
<1>2. EditFits(e) BY <1>1 DEF EditFits
<1>3. edit' = [edit EXCEPT ![d] = e] BY DEF Patch
<1> HIDE DEF e
<1> QED BY <1>2, <1>3, BeginEditInv DEF Patch

LEMMA DestroyInv ==
  ASSUME AccountsInv, NEW d \in Admins, NEW a \in Auths, Destroy(d, a)
  PROVE  AccountsInv'
<1> DEFINE e == [step |-> "delete", auth |-> a]
<1>1. EditFits(e) BY DEF EditFits
<1>2. edit' = [edit EXCEPT ![d] = e] BY DEF Destroy
<1> HIDE DEF e
<1> QED BY <1>1, <1>2, BeginEditInv DEF Destroy

LEMMA EndEditFits == EditFits(Idle)
BY DEF EditFits, Idle

\* What is saved is an authenticator, if anything is, and sends its users to another.
LEMMA SavedIsSound ==
  ASSUME AccountsInv, NEW d \in Admins, Save(d), edit[d].change.target \in {None} \cup Kept
  PROVE  /\ clock' \in Int /\ Sound(users, rows, auths)' /\ Kept' = Kept \cup {edit[d].auth}
         /\ edit[d].auth \in Auths /\ auths' = [auths EXCEPT ![edit[d].auth] = Saved(edit[d], clock')]
<1> DEFINE e == edit[d]
           a == e.auth
           new == Saved(e, clock')
<1>1. a \in Auths /\ e.order \in Nat /\ e.change \in [enabled : BOOLEAN, target : ({None} \cup Auths) \ {a}]
  BY DEF Save, AccountsInv, EditOK, EditFits
<1>2. clock' = clock + 1 /\ auths' = [auths EXCEPT ![a] = new] BY DEF Save
<1>3. clock' \in Int BY <1>2 DEF AccountsInv
<1> HIDE DEF a
<1>4. new \in AuthRecords /\ new.target \in {None} \cup (Kept \ {a})
  <2>1. new = [enabled |-> e.change.enabled, order |-> e.order, target |-> e.change.target, modified |-> clock']
    BY DEF Saved
  <2>2. e.change.target \in {None} \cup (Kept \ {a}) /\ e.change.enabled \in BOOLEAN BY <1>1
  <2> HIDE DEF new, e
  <2> QED BY <1>1, <1>3, <2>1, <2>2 DEF AuthRecords, Kept
<1>5. new # None BY <1>4, AccountsAssumption
<1> HIDE DEF new
<1>6. auths' \in [Auths -> {None} \cup AuthRecords] BY <1>1, <1>2, <1>4 DEF AccountsInv, Sound
<1>7. auths'[a] = new /\ \A b \in Auths : b # a => auths'[b] = auths[b]
  BY <1>1, <1>2 DEF AccountsInv, Sound
<1>8. Kept' = Kept \cup {a} BY <1>1, <1>5, <1>7 DEF Kept
<1>9. \A b \in Auths : auths'[b] # None => auths'[b].target \in {None} \cup ({c \in Auths : auths'[c] # None} \ {b})
  <2> SUFFICES ASSUME NEW b \in Auths, auths'[b] # None
               PROVE  auths'[b].target \in {None} \cup (Kept' \ {b})
    BY DEF Kept
  <2>1. CASE b = a BY <1>4, <1>7, <1>8, <2>1
  <2>2. CASE b # a BY <1>7, <1>8, <2>2 DEF AccountsInv, Sound, Kept
  <2> QED BY <2>1, <2>2
<1>10. UNCHANGED <<users, rows>> BY DEF Save, EditUnchanged
<1>11. \A r \in rows : auths'[r.auth] # None BY <1>8 DEF AccountsInv, Sound, RowRecords, Kept
<1>12. Sound(users, rows, auths)' BY <1>6, <1>9, <1>10, <1>11 DEF AccountsInv, Sound
<1> QED BY <1>1, <1>2, <1>3, <1>8, <1>12 DEF a, new

LEMMA SaveInv ==
  ASSUME AccountsInv, NEW d \in Admins, Save(d)
  PROVE  AccountsInv'
<1>1. EditOK' BY EndEditFits, EditMoves DEF Save, AccountsInv
<1>2. Remembered BY DEF Save, Remembered, AccountsInv, SeenOK
<1>3. CASE edit[d].change.target \in {None} \cup Kept
  <2>1. clock' \in Int /\ Sound(users, rows, auths)' /\ Kept \subseteq Kept' BY <1>3, SavedIsSound
  <2> QED BY <1>1, <1>2, <2>1, EditsInv DEF Save, EditUnchanged
<1>4. CASE edit[d].change.target \notin {None} \cup Kept
  <2>1. UNCHANGED <<auths, clock>> BY <1>4 DEF Save
  <2>2. (clock \in Int)' /\ Sound(users, rows, auths)' BY <2>1 DEF AccountsInv, Save, EditUnchanged
  <2>3. Kept' = Kept BY <2>1 DEF Kept
  <2> QED BY <1>1, <1>2, <2>2, <2>3, EditsInv DEF Save, EditUnchanged
<1> QED BY <1>3, <1>4

LEMMA DeleteInv ==
  ASSUME AccountsInv, NEW d \in Admins, Delete(d)
  PROVE  AccountsInv'
<1> DEFINE a == edit[d].auth
           unused == a \in Kept /\ ~HasUsers(a)
           awaited == \E p \in Procs : login[p].step = "rows" /\ login[p].x.auth = a
<1>1. EditOK' BY EndEditFits, EditMoves DEF Delete, AccountsInv
<1>2. Remembered /\ (unused /\ awaited => seen'.removed)
  <2> PICK b \in BOOLEAN : b = (seen.removed \/ (unused /\ awaited)) BY DEF AccountsInv, SeenOK
  <2>1. seen' = [seen EXCEPT !.removed = b] BY DEF Delete
  <2> QED BY <2>1 DEF Remembered, AccountsInv, SeenOK
<1>3. UNCHANGED <<users, rows, clock>> BY DEF Delete, EditUnchanged
<1>4. CASE unused
  <2>1. auths' = [b \in Auths |-> IF b = a \/ b \notin Kept THEN None
                                 ELSE IF auths[b].target = a THEN [auths[b] EXCEPT !.target = None] ELSE auths[b]]
    BY <1>4 DEF Delete
  <2>2. \A b \in Kept : /\ auths[b] \in AuthRecords
                        /\ [auths[b] EXCEPT !.target = None] \in AuthRecords
                        /\ [auths[b] EXCEPT !.target = None].target = None
    <3> TAKE b \in Kept
    <3>1. auths[b] \in AuthRecords BY DEF AccountsInv, Sound, Kept
    <3> QED BY <3>1 DEF AuthRecords
  <2>3. auths' \in [Auths -> {None} \cup AuthRecords] BY <2>1, <2>2
  <2>4. \A b \in Auths : auths'[b] # None <=> b \in Kept \ {a}
    <3> TAKE b \in Auths
    <3>1. CASE b = a \/ b \notin Kept BY <2>1, <3>1
    <3>2. CASE b \in Kept \ {a} BY <2>1, <2>2, <3>2, AccountsAssumption
    <3> QED BY <3>1, <3>2
  <2>5. Kept' = Kept \ {a} BY <2>4 DEF Kept
  <2>6. \A b \in Auths : auths'[b] # None => auths'[b].target \in {None} \cup (Kept' \ {b})
    <3> SUFFICES ASSUME NEW b \in Auths, auths'[b] # None PROVE auths'[b].target \in {None} \cup (Kept' \ {b})
      OBVIOUS
    <3>1. b \in Kept \ {a} BY <2>4
    <3>2. auths[b].target \in {None} \cup (Kept \ {b}) BY <3>1 DEF AccountsInv, Sound, Kept
    <3>3. CASE auths[b].target = a BY <2>1, <2>2, <3>1, <3>3
    <3>4. CASE auths[b].target # a BY <2>1, <2>5, <3>1, <3>2, <3>4
    <3> QED BY <3>3, <3>4
  <2>7. \A r \in rows : auths'[r.auth] # None
    BY <1>4, <2>4 DEF HasUsers, AccountsInv, Sound, RowRecords, Kept
  <2>8. \A b \in Auths : auths'[b] # None => auths'[b].target \in {None} \cup ({c \in Auths : auths'[c] # None} \ {b})
    BY <2>6 DEF Kept
  <2>9. Sound(users, rows, auths)' BY <1>3, <2>3, <2>7, <2>8 DEF AccountsInv, Sound
  <2>10. \A p \in Procs : Rowing(login[p]) /\ login[p].x.auth \in Kept =>
                          login[p].x.auth \in Kept' \/ seen'.removed
    BY <1>2, <1>4, <2>5 DEF Rowing
  <2> QED BY <1>1, <1>2, <1>3, <2>9, <2>10, EditsInv DEF Delete, EditUnchanged, AccountsInv
<1>5. CASE ~unused
  <2>1. auths' = auths BY <1>5 DEF Delete
  <2>2. (clock \in Int)' /\ Sound(users, rows, auths)' BY <1>3, <2>1 DEF AccountsInv
  <2>3. Kept' = Kept BY <2>1 DEF Kept
  <2> QED BY <1>1, <1>2, <2>2, <2>3, EditsInv DEF Delete, EditUnchanged
<1> QED BY <1>4, <1>5

-------------------------------------------------------------------------------
(* The theorems *)

\* What a step leaves true, and who an account signs in as afterwards.
LEMMA NextInv ==
  ASSUME AccountsInv, [Next]_vars
  PROVE  /\ AccountsInv'
         /\ \A x \in Accounts : signed[x] # None /\ signed'[x] # None => signed'[x] = signed[x]
<1>1. CASE UNCHANGED vars
  <2>1. Kept' = Kept BY <1>1 DEF Kept, vars
  <2>2. Remembered BY <1>1 DEF Remembered, AccountsInv, SeenOK, vars
  <2>3. EditOK' BY <1>1 DEF AccountsInv, EditOK, vars
  <2>4. (clock \in Int)' /\ Sound(users, rows, auths)' BY <1>1 DEF AccountsInv, vars
  <2> QED BY <1>1, <2>1, <2>2, <2>3, <2>4, EditsInv DEF vars
<1>2. ASSUME NEW p \in Procs, SignIn(p)
      PROVE  /\ AccountsInv'
             /\ \A x \in Accounts : signed[x] # None /\ signed'[x] # None => signed'[x] = signed[x]
  <2>1. CASE \E cred \in Typed : cred.person \in seen.who /\ Type(p, cred)
    BY <2>1, TypeInv DEF Type
  <2>2. CASE Consult(p) BY <2>2, ConsultInv DEF Consult
  <2>3. CASE Refused(p) BY <2>3, RefusedInv DEF Refused
  <2>4. CASE \E x \in Accounts : x.person \in seen.who /\ Begin(p, x)
    BY <2>4, BeginInv DEF Begin
  <2>5. CASE \E x \in Account(p) : Migrate(p, x)
    <3> PICK x \in Account(p) : Migrate(p, x) BY <2>5
    <3>1. \A y \in Accounts : signed'[y] # None => signed'[y] = signed[y]
      BY DEF Migrate, SignedStill
    <3> QED BY <3>1, MigrateInv
  <2>6. CASE \E x \in Account(p) : ChooseName(p, x)
    BY <2>6, ChooseNameInv DEF ChooseName
  <2>7. CASE WriteRows(p) BY <2>7, WriteRowsInv
  <2>8. CASE Associate(p) BY <2>8, AssociateInv
  <2>9. CASE Dies(p) BY <2>9, DiesInv DEF Dies
  <2> QED BY <1>2, <2>1, <2>2, <2>3, <2>4, <2>5, <2>6, <2>7, <2>8, <2>9 DEF SignIn
<1>3. ASSUME NEW d \in Admins, Administer(d)
      PROVE  /\ AccountsInv'
             /\ \A x \in Accounts : signed[x] # None /\ signed'[x] # None => signed'[x] = signed[x]
  <2>1. signed' = signed BY <1>3 DEF Administer, Patch, Destroy, Save, Delete, EditUnchanged
  <2>2. CASE \E a \in Kept : \E change \in Changes(a) : Patch(d, a, change) BY <2>1, <2>2, PatchInv
  <2>3. CASE \E a \in Auths : Destroy(d, a) BY <2>1, <2>3, DestroyInv
  <2>4. CASE Save(d) BY <2>1, <2>4, SaveInv
  <2>5. CASE Delete(d) BY <2>1, <2>5, DeleteInv
  <2> QED BY <1>3, <2>2, <2>3, <2>4, <2>5 DEF Administer
<1> QED BY <1>1, <1>2, <1>3 DEF Next

LEMMA AlwaysInv == Spec => []AccountsInv
<1>1. AccountsInv /\ [Next]_vars => AccountsInv' BY NextInv
<1> QED BY <1>1, InitInv, PTL DEF Spec

\* Of edits one after the other, the one that disables or deletes an
\* authenticator has another one left that is enabled.
Spares(d) ==
  edit[d].step = "delete" \/ (edit[d].step = "save" /\ ~edit[d].change.enabled) =>
    \E b \in Kept \ {edit[d].auth} : auths[b].enabled

EnabledInv ==
  ~seen.together =>
    /\ \E a \in Kept : auths[a].enabled
    /\ \A d, e \in Admins : edit[d] # Idle /\ edit[e] # Idle => d = e
    /\ \A d \in Admins : Spares(d)

\* An edit begins: nothing is in the database yet.
LEMMA BeginsEnabled ==
  ASSUME AccountsInv, EnabledInv, NEW d \in Admins, NEW e, edit' = [edit EXCEPT ![d] = e],
         seen' = [seen EXCEPT !.edits = @ - 1, !.together = @ \/ \E f \in Admins \ {d} : edit[f] # Idle],
         UNCHANGED auths,
         e.step = "delete" \/ (e.step = "save" /\ ~e.change.enabled) => ~is_last_enabled(e.auth)
  PROVE  EnabledInv'
<1>1. (seen.together => seen'.together) /\ ((\E f \in Admins \ {d} : edit[f] # Idle) => seen'.together)
  <2> PICK b \in BOOLEAN : b = (seen.together \/ \E f \in Admins \ {d} : edit[f] # Idle)
    BY DEF AccountsInv, SeenOK
  <2> PICK k \in Int : k = seen.edits - 1 BY DEF AccountsInv, SeenOK
  <2>1. seen' = [seen EXCEPT !.edits = k, !.together = b] OBVIOUS
  <2> QED BY <2>1 DEF AccountsInv, SeenOK
<1> SUFFICES ASSUME ~seen'.together
             PROVE  /\ \E a \in Kept' : auths[a].enabled
                    /\ \A f, g \in Admins : edit'[f] # Idle /\ edit'[g] # Idle => f = g
                    /\ \A f \in Admins : Spares(f)'
  BY DEF EnabledInv
<1>2. edit'[d] = e /\ \A f \in Admins \ {d} : edit'[f] = edit[f] BY DEF AccountsInv, EditOK
<1>3. PICK a \in Kept : auths[a].enabled BY <1>1 DEF EnabledInv
<1>4. Kept' = Kept BY DEF Kept
<1>5. \A f \in Admins \ {d} : edit'[f] = Idle BY <1>1, <1>2
<1>6. \A f \in Admins \ {d} : Spares(f)' BY <1>5 DEF Spares, Idle
<1>7. Spares(d)'
  <2>1. e.step = "delete" \/ (e.step = "save" /\ ~e.change.enabled) => \E b \in Kept \ {e.auth} : auths[b].enabled
    BY <1>3 DEF is_last_enabled
  <2> QED BY <1>2, <1>4, <2>1 DEF Spares
<1> QED BY <1>3, <1>4, <1>5, <1>6, <1>7

\* An edit ends and leaves one enabled.
LEMMA EndsEnabled ==
  ASSUME AccountsInv, EnabledInv, NEW d \in Admins, edit[d] # Idle, edit' = [edit EXCEPT ![d] = Idle],
         seen'.together = seen.together,
         ~seen.together => \E a \in Kept' : auths'[a].enabled
  PROVE  EnabledInv'
<1> SUFFICES ASSUME ~seen.together
             PROVE  \A f \in Admins : edit'[f] = Idle
  BY DEF EnabledInv, Spares, Idle
<1>1. edit'[d] = Idle /\ \A f \in Admins \ {d} : edit'[f] = edit[f] BY DEF AccountsInv, EditOK
<1> QED BY <1>1 DEF EnabledInv

LEMMA NextEnabled ==
  ASSUME AccountsInv, EnabledInv, [Next]_vars
  PROVE  EnabledInv'
<1>1. CASE UNCHANGED vars BY <1>1 DEF EnabledInv, Spares, Kept, vars
<1>2. ASSUME NEW p \in Procs, SignIn(p) PROVE EnabledInv'
  <2>1. UNCHANGED <<auths, edit>>
    BY <1>2 DEF SignIn, Type, Consult, Refused, Begin, Migrate, ChooseName, WriteRows, Associate, Dies, LoginUnchanged
  <2>2. seen'.together = seen.together
    BY <1>2 DEF SignIn, Type, Consult, Refused, Begin, Migrate, ChooseName, WriteRows, Associate, Dies,
                AccountsInv, SeenOK
  <2> QED BY <2>1, <2>2 DEF EnabledInv, Spares, Kept
<1>3. ASSUME NEW d \in Admins, NEW a \in Kept, NEW change \in Changes(a), Patch(d, a, change) PROVE EnabledInv'
  <2> DEFINE e == [step |-> "save", auth |-> a, change |-> change, order |-> auths[a].order]
  <2>1. change.enabled \in BOOLEAN BY DEF Changes
  <2>2. ~e.change.enabled => ~is_last_enabled(e.auth) BY <1>3, <2>1 DEF Patch, Validated
  <2>3. e.step = "save" /\ edit' = [edit EXCEPT ![d] = e] BY <1>3 DEF Patch
  <2> HIDE DEF e
  <2> QED BY <1>3, <2>2, <2>3, BeginsEnabled DEF Patch
<1>4. ASSUME NEW d \in Admins, NEW a \in Auths, Destroy(d, a) PROVE EnabledInv'
  <2> DEFINE e == [step |-> "delete", auth |-> a]
  <2>1. ~is_last_enabled(e.auth) /\ edit' = [edit EXCEPT ![d] = e] BY <1>4 DEF Destroy
  <2> HIDE DEF e
  <2> QED BY <1>4, <2>1, BeginsEnabled DEF Destroy
<1>5. ASSUME NEW d \in Admins, Save(d) PROVE EnabledInv'
  <2> DEFINE a == edit[d].auth
             change == edit[d].change
  <2>1. /\ edit[d] # Idle /\ edit' = [edit EXCEPT ![d] = Idle] /\ seen'.together = seen.together
        /\ change.enabled \in BOOLEAN /\ a \in Auths
    BY <1>5 DEF Save, Idle, AccountsInv, EditOK, EditFits
  <2>2. ASSUME ~seen.together PROVE \E b \in Kept' : auths'[b].enabled
    <3>1. CASE change.target \notin {None} \cup Kept
      <4>1. auths' = auths BY <1>5, <3>1 DEF Save
      <4> QED BY <2>2, <4>1 DEF EnabledInv, Kept
    <3>2. CASE change.target \in {None} \cup Kept
      <4> DEFINE new == Saved(edit[d], clock')
      <4>1. auths' = [auths EXCEPT ![a] = new] /\ Kept' = Kept \cup {a} BY <1>5, <3>2, SavedIsSound
      <4>2. auths'[a] = new /\ \A b \in Auths : b # a => auths'[b] = auths[b]
        BY <2>1, <4>1 DEF AccountsInv, Sound
      <4>4. new.enabled = change.enabled BY DEF Saved
      <4>5. CASE change.enabled
        <5>1. a \in Kept' BY <4>1
        <5> QED BY <4>2, <4>4, <4>5, <5>1
      <4>6. CASE ~change.enabled
        <5>1. PICK b \in Kept \ {a} : auths[b].enabled BY <1>5, <2>1, <2>2, <4>6 DEF EnabledInv, Spares, Save
        <5> QED BY <4>1, <4>2, <5>1
      <4> QED BY <2>1, <4>5, <4>6
    <3> QED BY <3>1, <3>2
  <2> QED BY <2>1, <2>2, EndsEnabled
<1>6. ASSUME NEW d \in Admins, Delete(d) PROVE EnabledInv'
  <2> DEFINE a == edit[d].auth
  <2>1. edit[d] # Idle /\ edit' = [edit EXCEPT ![d] = Idle] BY <1>6 DEF Delete, Idle
  <2>2. seen'.together = seen.together BY <1>6 DEF Delete, AccountsInv, SeenOK
  <2>3. ASSUME ~seen.together PROVE \E b \in Kept' : auths'[b].enabled
    <3>1. PICK b \in Kept \ {a} : auths[b].enabled BY <1>6, <2>3 DEF EnabledInv, Spares, Delete
    <3>2. b \in Auths /\ auths[b] \in AuthRecords BY <3>1 DEF AccountsInv, Sound, Kept
    <3>3. \/ auths'[b] = auths[b]
          \/ auths'[b] = [auths[b] EXCEPT !.target = None]
      BY <1>6, <3>1, <3>2 DEF Delete
    <3>4. [auths[b] EXCEPT !.target = None] \in AuthRecords /\ [auths[b] EXCEPT !.target = None].enabled = auths[b].enabled
      BY <3>2 DEF AuthRecords
    <3>5. auths'[b].enabled /\ auths'[b] # None BY <3>1, <3>2, <3>3, <3>4, AccountsAssumption
    <3> QED BY <3>2, <3>5 DEF Kept
  <2> QED BY <2>1, <2>2, <2>3, EndsEnabled
<1> QED BY <1>1, <1>2, <1>3, <1>4, <1>5, <1>6 DEF Next, Administer

\* The database holds what it allows whatever requests and edits interleave: no
\* second user of a name, no second row of an account, no row of a user or an
\* authenticator that is gone.
THEOREM DatabaseStaysSound == Spec => []TypeOK
<1>1. AccountsInv => TypeOK
  <2> SUFFICES ASSUME AccountsInv PROVE TypeOK OBVIOUS
  <2>1. \A x \in Accounts : signed[x] # None => signed[x] \in Live
    BY DEF AccountsInv, SignedOK, Sound, RowRecords, Live
  <2> QED BY <2>1 DEF AccountsInv, TypeOK
<1> QED BY <1>1, AlwaysInv, PTL

\* What somebody owns moves with the account, or is lost to another thing of its
\* slot, of which a user can have only one: for every set of people, accounts, things,
\* authenticators and requests (utils/authentication.py, authenticator_plugins/base.py).
THEOREM ThingsMoveWithTheAccount == Spec => []ThingsStayWithPerson
<1>1. AccountsInv => ThingsStayWithPerson
  <2> SUFFICES ASSUME AccountsInv PROVE ThingsStayWithPerson OBVIOUS
  <2>1. \A t \in Things : owner[t] # None => owner[t] \in Live
    BY DEF AccountsInv, OwnerOK, Live
  <2>2. ASSUME Quiet, ~seen.raced, ~seen.died, ~seen.removed, NEW t \in Things, owner[t] # None
        PROVE  \E r \in rows : r.user = owner[t]
    BY <2>2 DEF AccountsInv, OwnersHaveRows, WillHave, Rowing, Quiet
  <2>3. OneOfSlot(owner) /\ LostByClashOnly BY DEF AccountsInv, ThingsOK
  <2> QED BY <2>1, <2>2, <2>3 DEF ThingsStayWithPerson
<1> QED BY <1>1, AlwaysInv, PTL

\* Whoever signed in signs in as the same user again (SameUserAgain).
THEOREM SameUserEveryTime == Spec => SameUserAgain
<1>1. AccountsInv /\ [Next]_vars =>
        [\A x \in Accounts : signed[x] # None /\ signed'[x] # None => signed'[x] = signed[x]]_vars
  BY NextInv
<1> QED BY <1>1, AlwaysInv, PTL DEF Spec, SameUserAgain

\* However many edits follow each other, the one that would disable or delete the
\* last enabled authenticator is refused (OneEnabled).
THEOREM OneStaysEnabled == Spec => []OneEnabled
<1>1. Init => EnabledInv
  <2> SUFFICES ASSUME Init PROVE EnabledInv OBVIOUS
  <2>1. PICK start \in Starts : auths = start.auths BY DEF Init
  <2>2. \E a \in Kept : auths[a].enabled BY <2>1, AccountsAssumption DEF StartOK, Kept
  <2> QED BY <2>2 DEF Init, EnabledInv, Spares, Idle
<1>2. EnabledInv => OneEnabled BY DEF EnabledInv, OneEnabled
<1>3. AccountsInv /\ EnabledInv /\ [Next]_vars => EnabledInv' BY NextEnabled
<1> QED BY <1>1, <1>2, <1>3, AlwaysInv, PTL DEF Spec

===============================================================================

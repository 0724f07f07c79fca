------------------------------- MODULE Accounts -------------------------------
(***************************************************************************)
(* Which user somebody signs in as (ansible_base/authentication): the list *)
(* of authenticators a worker keeps, the loop a password goes through, the *)
(* two phases of a login (choose a user name, then write the rows), the    *)
(* migration of accounts from one authenticator to another, and the edits  *)
(* of the authenticators while people sign in.  What the authenticator     *)
(* maps give the user who signed in is the subject of ClaimsLogin.         *)
(***************************************************************************)
EXTENDS Integers, FiniteSets, FiniteSetsExt, Sequences, SequencesExt

CONSTANTS
  UserIds,      \* primary keys of users
  Procs,        \* requests that sign somebody in
  Admins,       \* requests that edit authenticators
  Auths,        \* authenticators, by slug
  KindOf,       \* their plugin: "local", "ldap", "bare" (radius, tacacs: no email) or "sso"
  Accounts,     \* accounts people have there: [auth, person, uid, name, email, alt]
  Things,       \* objects related to a user, which move with the account
  SlotOf,       \* the slot of a thing of which a user has only one (a uniqueness
                \* constraint on the user), or None
  SystemUser,   \* the uid nobody signs in with
  None,
  Starts,       \* situations to start from: [users, rows, owner, auths, who] and how many
                \* logins and edits may follow: the bounds
  MaxSuffix     \* bound of what follows a name that is taken

VARIABLES
  users,    \* the users: [name, email, active, secret] or None
  rows,     \* authenticator users: [auth, uid, user, email]
  owner,    \* the user each thing is related to, None when it was deleted with one
  auths,    \* the authenticators: [enabled, order, target, modified] or None
  cached,   \* the list this worker keeps and the time it is for
  clock,    \* the latest time of modification handed out
  login,    \* what each request that signs in is doing
  edit,     \* what each request that edits is doing
  signed,   \* history: the user each account last signed in as
  seen      \* history: what happened that a property makes an exception for

vars == <<users, rows, owner, auths, cached, clock, login, edit, signed, seen>>

Persons == {x.person : x \in Accounts}
Uids    == UNION {{x.uid, x.name} : x \in Accounts}
Emails  == {x.email : x \in Accounts} \cup {None}
Live    == {u \in UserIds : users[u] # None}
Kept    == {a \in Auths : auths[a] # None}
Names   == Uids \X (0 .. MaxSuffix)
Plain(uid) == <<uid, 0>>

\* what a login does that has not begun, and an edit
Idle    == [step |-> "idle"]

UserRecords == [name : Names, email : Emails, active : BOOLEAN, secret : Persons \cup {None}]
AuthRecords == [enabled : BOOLEAN, order : Nat, target : {None} \cup Auths, modified : Int]
RowRecords  == [auth : Auths, uid : Uids, user : UserIds, email : Emails]

\* What the database allows: names and (authenticator, uid) are unique, a row has
\* its user and its authenticator, and users are sent to another authenticator.
Sound(us, rs, as) ==
  /\ us \in [UserIds -> {None} \cup UserRecords]
  /\ \A u, v \in UserIds : us[u] # None /\ us[v] # None /\ us[u].name = us[v].name => u = v
  /\ rs \subseteq RowRecords
  /\ \A r \in rs : /\ us[r.user] # None /\ as[r.auth] # None
                   /\ \A q \in rs : q.auth = r.auth /\ q.uid = r.uid => q = r
  /\ as \in [Auths -> {None} \cup AuthRecords]
  /\ \A a \in Auths : as[a] # None => as[a].target \in {None} \cup ({b \in Auths : as[b] # None} \ {a})

\* No user has two things of one slot.
OneOfSlot(o) == \A t, s \in Things : o[t] # None /\ o[t] = o[s] /\ SlotOf[t] # None /\ SlotOf[t] = SlotOf[s] => t = s

\* A situation to start from: what belongs to somebody belongs to a user with a
\* row, one authenticator is enabled, and one was modified last.
StartOK(start) ==
  /\ Sound(start.users, start.rows, start.auths)
  /\ start.owner \in [Things -> {None} \cup UserIds]
  /\ \A t \in Things : start.owner[t] # None => \E r \in start.rows : r.user = start.owner[t]
  /\ OneOfSlot(start.owner)
  /\ \E a \in Auths : start.auths[a] # None /\ start.auths[a].enabled
  /\ start.logins \in Nat /\ start.edits \in Nat /\ start.who \subseteq Persons
  /\ LET times == {start.auths[a].modified : a \in {b \in Auths : start.auths[b] # None}} \cup {0}
     IN  \E m \in times : \A n \in times : n <= m

ASSUME AccountsAssumption ==
  /\ None \notin UserIds /\ None \notin Auths /\ None \notin UserRecords /\ None \notin AuthRecords
  /\ \A x \in Accounts : x.auth \in Auths
  /\ MaxSuffix \in Nat
  /\ \A start \in Starts : StartOK(start)

-------------------------------------------------------------------------------
(* The name of the user *)

Named(us, n) == {u \in UserIds : us[u] # None /\ us[u].name = n}

\* The name a backend gives, with something random after it when it is taken.
get_local_username(us, uid) ==
  IF Named(us, Plain(uid)) = {} THEN {Plain(uid)}
  ELSE {<<uid, k>> : k \in {i \in 1 .. MaxSuffix : 
                              /\ Named(us, <<uid, i>>) = {}
                              /\ \A q \in Procs : login[q].step = "rows" => login[q].name # <<uid, i>>
                              /\ \A j \in 1 .. i - 1 : \/ Named(us, <<uid, j>>) # {}
                                                       \/ \E q \in Procs : /\ login[q].step = "rows"
                                                                           /\ login[q].name = <<uid, j>>}}

\* Single sign-on looks rows up by the name as well as by the uid.
Keys(x)     == IF KindOf[x.auth] = "sso" THEN {x.name, x.uid} ELSE {x.uid}
Selected(x) == IF KindOf[x.auth] = "sso" THEN x.name ELSE x.uid

NoMergeUnchecked(us, rs, uid) == {Plain(uid)}

NoMerge(us, rs, uid) ==
  IF \E r \in rs : r.uid = uid \/ us[r.user].name = Plain(uid)
    THEN get_local_username(us, uid)
    ELSE {Plain(uid)}

EmailFallback(us, rs, x, email) ==
  LET matching == {u \in UserIds : us[u] # None /\ us[u].email = email} IN
  IF email = None \/ KindOf[x.auth] = "local" THEN NoMerge(us, rs, Selected(x))
  ELSE IF Cardinality(matching) > 1 THEN {None}
  ELSE IF matching # {} THEN {us[u].name : u \in matching}
  ELSE get_local_username(us, Selected(x))

\* The names the user may get, None standing for the exception that ends the login.
determine_username(us, rs, x, email) ==
  LET exact == {r \in rs : r.auth = x.auth /\ r.uid \in Keys(x)} IN
  IF Selected(x) = SystemUser THEN {None}
  ELSE IF exact # {} THEN {us[r.user].name : r \in exact}
  ELSE EmailFallback(us, rs, x, email)

-------------------------------------------------------------------------------
(* Migration: the rows of an authenticator that sends its users here *)

Migrating(x) ==
  {r \in rows : /\ r.uid \in {x.uid, "IdP:" \o x.uid, x.alt}
                /\ auths[r.auth].target = x.auth}

\* Whose account a row is.
PersonOf(r) == {x.person : x \in {y \in Accounts : y.auth = r.auth /\ y.uid = r.uid}}

\* The user they move to: the one who has signed in here before, or the one of
\* the authenticator that comes first.
MainUsers(x) ==
  LET own   == {r \in rows : r.auth = x.auth /\ r.uid = x.uid}
      first == {r \in Migrating(x) : \A q \in Migrating(x) : auths[r.auth].order <= auths[q.auth].order}
  IN  {r.user : r \in IF own # {} THEN own ELSE first}

RowsAfter(x)       == rows \ Migrating(x)
LeftBehind(x, main) == {r.user : r \in Migrating(x)} \ {main}
Rowless(x, main)    == {u \in LeftBehind(x, main) : ~ \E r \in RowsAfter(x) : r.user = u}

\* The things that are to move, and when: the rows are taken in the order of
\* their authenticators.
Carried(x, main) == {t \in Things : owner[t] \in LeftBehind(x, main)}
TurnOf(x, t)     == Min({auths[r.auth].order : r \in {q \in Migrating(x) : q.user = owner[t]}})

\* "In this case, all we can do is skip": things whose slot the main user has filled by then.
Skips(x, main) ==
  {S \in SUBSET Carried(x, main) :
     \A t \in Carried(x, main) :
       t \in S <=> /\ SlotOf[t] # None
                   /\ \E s \in Things \ {t} :
                        /\ SlotOf[s] = SlotOf[t]
                        /\ owner[s] = main \/ (s \in Carried(x, main) \ S /\ TurnOf(x, s) <= TurnOf(x, t))}

\* Where a thing is that does not move: lost with a user who is deleted.
Leaves(x, main, t) == IF owner[t] \in Rowless(x, main) THEN None ELSE owner[t]

OwnerStops(x, main, skipped) ==
  [t \in Things |-> IF t \notin Carried(x, main) THEN owner[t]
                    ELSE IF \E s \in skipped : owner[s] = owner[t] THEN Leaves(x, main, t) ELSE main]
OwnerAfter(x, main, skipped) ==
  [t \in Things |-> IF t \in skipped THEN Leaves(x, main, t)
                    ELSE IF t \in Carried(x, main) THEN main ELSE owner[t]]

UsersAfter(x, main) ==
  LET left == [u \in UserIds |-> IF u \in Rowless(x, main) THEN None ELSE users[u]]
  IN  IF Named(left, Plain(Selected(x))) = {} THEN [left EXCEPT ![main].name = Plain(Selected(x))] ELSE left

-------------------------------------------------------------------------------
(* The list of authenticators a password is tried against *)

Newest == Max({auths[a].modified : a \in Kept} \cup {0})

\* get_authentication_backends fills the cache from the database.
EnabledInOrder == SetToSortSeq({a \in Kept : auths[a].enabled}, LAMBDA a, b : auths[a].order < auths[b].order)

\* The accounts an authenticator finds for what was typed.  The local one looks
\* at the users.
Knows(a, cred) ==
  {x \in Accounts : /\ x.auth = a /\ KindOf[a] # "sso" /\ x.person = cred.person /\ x.uid = cred.name
                    /\ KindOf[a] = "local" => \E u \in Named(users, Plain(x.uid)) :
                                                 users[u].secret = cred.person /\ users[u].active}

Typed == {[person |-> x.person, name |-> x.uid] : x \in {y \in Accounts : KindOf[y.auth] # "sso"}}

\* What the authenticator says the e-mail is.  The local one says the user's.
EmailFrom(x) ==
  IF KindOf[x.auth] = "local" THEN users[CHOOSE u \in Named(users, Plain(x.uid)) : TRUE].email ELSE x.email

LoginUnchanged == UNCHANGED <<auths, clock, edit>>

\* AnsibleBaseAuth.authenticate reads when the authenticators last changed.
Type(p, cred) ==
  /\ login[p] = Idle /\ seen.logins > 0
  /\ login' = [login EXCEPT ![p] = [step |-> "key", cred |-> cred, key |-> Newest]]
  /\ seen' = [seen EXCEPT !.logins = @ - 1]
  /\ UNCHANGED <<users, rows, owner, cached, signed>> /\ LoginUnchanged

\* It takes the list kept for that time, or makes one.
Consult(p) ==
  /\ login[p].step = "key"
  /\ cached' = IF cached.key = login[p].key THEN cached
               ELSE [key |-> login[p].key, list |-> EnabledInOrder]
  /\ login' = [login EXCEPT ![p] = [step |-> "loop", cred |-> @.cred, queue |-> cached'.list]]
  /\ UNCHANGED <<users, rows, owner, signed, seen>> /\ LoginUnchanged

\* Nobody by that name and password, or none left: to the next authenticator.
Refused(p) ==
  /\ login[p].step = "loop"
  /\ \/ login[p].queue = <<>> /\ login' = [login EXCEPT ![p] = Idle]
     \/ /\ login[p].queue # <<>> /\ Knows(Head(login[p].queue), login[p].cred) = {}
        /\ login' = [login EXCEPT ![p].queue = Tail(@)]
  /\ UNCHANGED <<users, rows, owner, cached, signed, seen>> /\ LoginUnchanged

\* Single sign-on begins at an enabled authenticator.  What comes back later
\* comes from somebody the provider knows.
Begin(p, x) ==
  /\ login[p] = Idle /\ seen.logins > 0
  /\ KindOf[x.auth] = "sso" /\ x.auth \in Kept /\ auths[x.auth].enabled
  /\ login' = [login EXCEPT ![p] = [step |-> "away", x |-> x]]
  /\ seen' = [seen EXCEPT !.logins = @ - 1]
  /\ UNCHANGED <<users, rows, owner, cached, signed>> /\ LoginUnchanged

-------------------------------------------------------------------------------
(* The two phases of a login *)

\* The loop, or the wait, that a request in its second phase came from.
Before(l) == IF l.step = "rows" THEN l.from ELSE l

\* What happens to a request that fails: the loop goes on, single sign-on ends.
Fails(p) ==
  LET l == Before(login[p])
  IN  login' = [login EXCEPT ![p] = IF l.step = "loop" THEN [l EXCEPT !.queue = Tail(l.queue)] ELSE Idle]

\* The accounts whose rows are where they were.
SignedStill(us, rs) ==
  [x \in Accounts |-> IF /\ signed[x] # None /\ us[signed[x]] # None
                         /\ \E r \in rs : r.auth = x.auth /\ r.uid = x.uid
                        THEN signed[x] ELSE None]

\* The account this request is for.
Account(p) == IF login[p].step = "loop"
                THEN IF login[p].queue = <<>> THEN {} ELSE Knows(Head(login[p].queue), login[p].cred)
                ELSE IF login[p].step = "away" THEN {login[p].x} ELSE {}

\* Another request is between its two phases: neither has seen what the other wrote.
Overlaps(p) == \E q \in Procs \ {p} : login[q].step = "rows"

\* social_user: the user single sign-on has for the account already.
SocialUser(x) ==
  LET own == {r \in rows : r.auth = x.auth /\ r.uid = x.uid}
  IN  IF KindOf[x.auth] = "sso" /\ own # {} THEN (CHOOSE r \in own : TRUE).user ELSE None

ToRows(p, x, name) ==
  login' = [login EXCEPT ![p] = [step |-> "rows", x |-> x, name |-> name, social |-> SocialUser(x), from |-> login[p]]]

\* check_system_username before anything else.  Single sign-on has it only in
\* determine_username_from_uid, after the migration and of the name.
check_system_username(x) == KindOf[x.auth] # "sso" /\ x.uid = SystemUser

\* The accounts of another authenticator move here first, and give the name.
Migrate(p, x) ==
  /\ ~check_system_username(x) /\ Migrating(x) # {}
  /\ \E main \in MainUsers(x) : \E skipped \in Skips(x, main) :
       /\ users' = UsersAfter(x, main)
       /\ rows' = RowsAfter(x)
       /\ owner' = OwnerAfter(x, main, skipped)
       /\ ToRows(p, x, users'[main].name)
       /\ signed' = SignedStill(users', rows')
       /\ seen' = [seen EXCEPT !.raced = @ \/ Overlaps(p),
                               !.misled = @ \/ \E r \in Migrating(x) : PersonOf(r) # {x.person}]
  /\ UNCHANGED cached /\ LoginUnchanged

\* Nothing to move: determine_username_from_uid gives the name or raises.
ChooseName(p, x) ==
  /\ check_system_username(x) \/ Migrating(x) = {}
  /\ \E name \in determine_username(users, rows, x, EmailFrom(x)) :
       IF name = None THEN Fails(p) /\ UNCHANGED seen
       ELSE /\ ToRows(p, x, name)
            /\ seen' = [seen EXCEPT !.raced = @ \/ Overlaps(p)]
  /\ UNCHANGED <<users, rows, owner, cached, signed>> /\ LoginUnchanged

\* The user of that name, made if there is none: (the users, the user, the rows).
CreateUser(name, email) ==
  LET free == UserIds \ Live IN
  {[us |-> [users EXCEPT ![u] = [name |-> name, email |-> email, active |-> TRUE, secret |-> None]], u |-> u] :
     u \in {v \in free : \A w \in free : v <= w}}

GetOrCreateUser(name, email) ==
  IF Named(users, name) # {} THEN {[us |-> users, u |-> u] : u \in Named(users, name)}
  ELSE CreateUser(name, email)

RowOf(x)          == {r \in rows : r.auth = x.auth /\ r.uid = x.uid}
NewRow(x, u, email) == [auth |-> x.auth, uid |-> x.uid, user |-> u, email |-> email]

\* What the libraries do to the user: django_auth_ldap and social_core's
\* user_details give it the e-mail the directory or the provider sends.
Filled(us, u, x) == IF KindOf[x.auth] \in {"ldap", "sso"} /\ x.email # None
                      THEN [us EXCEPT ![u].email = x.email] ELSE us

\* The user is in, or is inactive, or the maps deny access.
SignedIn(p, x, us, u) ==
  \/ /\ us[u].active
     /\ login' = [login EXCEPT ![p] = Idle]
     /\ signed' = [signed EXCEPT ![x] = u]
  \/ /\ ~us[u].active
     /\ login' = [login EXCEPT ![p] = Idle] /\ UNCHANGED signed
  \/ Fails(p) /\ UNCHANGED signed

\* "The returned user object is the one linked to the auth_user."
FinalNamed(row, u) == u
FinalUser(row, u)  == row.user

\* get_or_create_authenticator_user: a password was accepted.  The maps are
\* evaluated for the user the local authenticator found, who has no row when
\* the row was made for another user: that is an exception.
WriteRows(p) ==
  /\ login[p].step = "rows" /\ KindOf[login[p].x.auth] # "sso"
  /\ LET x == login[p].x IN
     \E c \in GetOrCreateUser(login[p].name, None) :
       LET row   == IF RowOf(x) # {} THEN CHOOSE r \in RowOf(x) : TRUE ELSE NewRow(x, c.u, None)
           email == IF KindOf[x.auth] = "local"
                      THEN IF Named(users, Plain(x.uid)) = {} THEN None ELSE EmailFrom(x)
                      ELSE x.email
       IN IF x.auth \notin Kept
            THEN users' = c.us /\ Fails(p) /\ UNCHANGED <<rows, signed>>
            ELSE /\ rows' = (rows \ RowOf(x)) \cup {[row EXCEPT !.email = email]}
                 /\ users' = Filled(c.us, FinalUser(row, c.u), x)
                 /\ IF KindOf[x.auth] = "local" /\ row.user \notin Named(users, Plain(x.uid))
                      THEN Fails(p) /\ UNCHANGED signed
                      ELSE SignedIn(p, x, users', FinalUser(row, c.u))
  /\ seen' = [seen EXCEPT !.strayed = @ \/ \E r \in rows' : KindOf[r.auth] = "local" /\ users'[r.user].name # Plain(r.uid)]
  /\ UNCHANGED <<owner, cached>> /\ LoginUnchanged

\* capture_oauth_email_pipeline writes the e-mail of the account's row.
capture_oauth_email(x) == {IF r \in RowOf(x) /\ x.email # None THEN [r EXCEPT !.email = x.email] ELSE r : r \in rows}

\* create_user, associate_user, the e-mail and the details of the user.
Associate(p) ==
  /\ login[p].step = "rows" /\ KindOf[login[p].x.auth] = "sso"
  /\ LET x == login[p].x
         s == login[p].social IN
     \E c \in IF s # None THEN {[us |-> users, u |-> s]} ELSE GetOrCreateUser(login[p].name, x.email) :
       IF c.us[c.u] = None \/ x.auth \notin Kept \/ (RowOf(x) # {} /\ \A r \in RowOf(x) : r.user # c.u)
         THEN users' = c.us /\ Fails(p) /\ UNCHANGED <<rows, signed>>
         ELSE /\ rows' = IF RowOf(x) = {} THEN rows \cup {NewRow(x, c.u, x.email)}
                         ELSE capture_oauth_email(x)
              /\ users' = Filled(c.us, c.u, x)
              /\ SignedIn(p, x, users', c.u)
  /\ UNCHANGED <<owner, cached, seen>> /\ LoginUnchanged

\* The request dies between the two phases.
Dies(p) ==
  /\ login[p].step = "rows"
  /\ login' = [login EXCEPT ![p] = Idle]
  /\ seen' = [seen EXCEPT !.died = TRUE]
  /\ UNCHANGED <<users, rows, owner, cached, signed>> /\ LoginUnchanged

-------------------------------------------------------------------------------
(* Editing the authenticators *)

is_last_enabled(a) == auths[a].enabled /\ \A b \in Kept \ {a} : ~auths[b].enabled
HasUsers(a)        == \E r \in rows : r.auth = a

EditUnchanged == UNCHANGED <<users, rows, owner, cached, login, signed>>

\* The serializer looks at the authenticators ...
Validated(a, change) ==
  /\ change.enabled = FALSE => ~is_last_enabled(a)
  /\ change.target # None => change.target \in Kept /\ auths[change.target].target = None

Changes(a) == [enabled : {TRUE, FALSE}, target : ({None} \cup Kept) \ {a}]

Patch(d, a, change) ==
  /\ edit[d] = Idle /\ seen.edits > 0 /\ a \in Kept
  /\ [enabled |-> auths[a].enabled, target |-> auths[a].target] # change
  /\ Validated(a, change)
  /\ edit' = [edit EXCEPT ![d] = [step |-> "save", auth |-> a, change |-> change, order |-> auths[a].order]]
  /\ seen' = [seen EXCEPT !.edits = @ - 1, !.together = @ \/ \E e \in Admins \ {d} : edit[e] # Idle]
  /\ UNCHANGED <<auths, clock>> /\ EditUnchanged

\* ... and saves what the request says over what it read, which makes the row
\* again when it has been deleted since.
Unstamped(e, now) ==
  [enabled |-> e.change.enabled, order |-> e.order, target |-> e.change.target,
   modified |-> IF e.auth \in Kept THEN auths[e.auth].modified ELSE now]
Saved(e, now) == [enabled |-> e.change.enabled, order |-> e.order, target |-> e.change.target, modified |-> now]

\* The database refuses a target that is gone.
Save(d) ==
  /\ edit[d].step = "save"
  /\ IF edit[d].change.target \in {None} \cup Kept
       THEN /\ clock' = clock + 1
            /\ auths' = [auths EXCEPT ![edit[d].auth] = Saved(edit[d], clock')]
       ELSE UNCHANGED <<auths, clock>>
  /\ edit' = [edit EXCEPT ![d] = Idle]
  /\ UNCHANGED seen /\ EditUnchanged

Destroy(d, a) ==
  /\ edit[d] = Idle /\ seen.edits > 0 /\ a \in Kept
  /\ ~is_last_enabled(a) /\ ~HasUsers(a)
  /\ edit' = [edit EXCEPT ![d] = [step |-> "delete", auth |-> a]]
  /\ seen' = [seen EXCEPT !.edits = @ - 1, !.together = @ \/ \E e \in Admins \ {d} : edit[e] # Idle]
  /\ UNCHANGED <<auths, clock>> /\ EditUnchanged

\* Rows protect their authenticator; what sent its users to it sends them nowhere.
\* A login to it that is between its two phases has no row there yet.
Delete(d) ==
  /\ edit[d].step = "delete"
  /\ LET a == edit[d].auth
         unused == a \in Kept /\ ~HasUsers(a)
         awaited == \E p \in Procs : login[p].step = "rows" /\ login[p].x.auth = a IN
     /\ auths' = IF ~unused THEN auths
                 ELSE [b \in Auths |-> IF b = a \/ b \notin Kept THEN None
                                       ELSE IF auths[b].target = a THEN [auths[b] EXCEPT !.target = None] ELSE auths[b]]
     /\ seen' = [seen EXCEPT !.removed = @ \/ (unused /\ awaited)]
  /\ edit' = [edit EXCEPT ![d] = Idle]
  /\ UNCHANGED clock /\ EditUnchanged

-------------------------------------------------------------------------------
Init ==
  /\ \E start \in Starts :
       /\ users = start.users /\ rows = start.rows /\ owner = start.owner
       /\ auths = start.auths
       /\ seen = [logins |-> start.logins, edits |-> start.edits, raced |-> FALSE,
                  died |-> FALSE, removed |-> FALSE, misled |-> FALSE, together |-> FALSE, strayed |-> FALSE, who |-> start.who,
                  had |-> {t \in Things : start.owner[t] # None}]
  /\ cached = [key |-> -1, list |-> <<>>]
  /\ clock = Newest
  /\ login = [p \in Procs |-> Idle]
  /\ edit = [d \in Admins |-> Idle]
  /\ signed = [x \in Accounts |-> None]

SignIn(p) ==
  \/ \E cred \in Typed : cred.person \in seen.who /\ Type(p, cred)
  \/ Consult(p) \/ Refused(p)
  \/ \E x \in Accounts : x.person \in seen.who /\ Begin(p, x)
  \/ \E x \in Account(p) : Migrate(p, x) \/ ChooseName(p, x)
  \/ WriteRows(p) \/ Associate(p) \/ Dies(p)

Administer(d) ==
  \/ \E a \in Kept : \E change \in Changes(a) : Patch(d, a, change)
  \/ \E a \in Auths : Destroy(d, a)
  \/ Save(d) \/ Delete(d)

Next == (\E p \in Procs : SignIn(p)) \/ (\E d \in Admins : Administer(d))

Spec == Init /\ [][Next]_vars

-------------------------------------------------------------------------------
(* Properties *)

Quiet == \A p \in Procs : login[p].step # "rows"

\* Users, rows and authenticators are what the database allows, in every state.
TypeOK ==
  /\ Sound(users, rows, auths)
  /\ \A x \in Accounts : signed[x] # None => signed[x] \in Live

\* Whoever has signed in with an account signs in as the same user from then on,
\* whatever other requests, edits of the authenticators and failed requests do
\* in between, unless the account was moved to another authenticator.
SameUserAgain ==
  [][\A x \in Accounts : signed[x] # None /\ signed'[x] # None => signed'[x] = signed[x]]_vars

\* Accounts of different people are never rows of one user, unless two first
\* logins overlapped: the uid alone, which two authenticators may both know,
\* attaches nobody to the user another person's account made, unless an
\* administrator sent an authenticator's users where their uid is another's.
NobodyElse ==
  ~seen.raced /\ ~seen.misled => \A r, q \in rows : r.user = q.user => PersonOf(r) = PersonOf(q)

\* The accounts of one person that give the same e-mail are one user's, whatever
\* the order of the first logins, unless two overlapped or the local
\* authenticator wrote a row for a user it does not name.
OneUserByEmail ==
  ~seen.raced /\ ~seen.strayed => \A r, q \in rows : r.email # None /\ r.email = q.email
                                    /\ KindOf[r.auth] # "local" /\ KindOf[q.auth] # "local" => r.user = q.user

\* Users are kept apart and together as their accounts say (utils/authentication.py).
IdentitiesKept == TypeOK /\ NobodyElse /\ OneUserByEmail

\* A thing that is lost clashed with another of its slot: that one, or the one it
\* was lost to in turn, still belongs to a user.
LostByClashOnly ==
  \A t \in seen.had : owner[t] = None =>
    SlotOf[t] # None /\ \E s \in Things \ {t} : SlotOf[s] = SlotOf[t] /\ owner[s] # None

\* What somebody has belongs to a user who exists, one thing of a slot to each, and,
\* between two logins, to a user whom an account's row names, so that somebody
\* signs in as it.  The exceptions: a request died half-way, two overlapped, or the
\* authenticator the account was moving to was deleted under the login, its old row
\* gone and the new one not written (authenticator_plugins/base.py:159-160,
\* views/authenticator.py:51-62).  A migration loses a thing only when the user it
\* would move to has one of the same slot: base.py:174-183 skips what the
\* database refuses, and utils/authentication.py:85-86 deletes the user it stayed with.
ThingsStayWithPerson ==
  /\ \A t \in Things : owner[t] # None => owner[t] \in Live
  /\ OneOfSlot(owner)
  /\ LostByClashOnly
  /\ Quiet /\ ~seen.raced /\ ~seen.died /\ ~seen.removed =>
       \A t \in Things : owner[t] # None => \E r \in rows : r.user = owner[t]

\* A list kept for the last time of modification names, in order, the enabled
\* authenticators; what else it names has been deleted since.
ListCurrent ==
  cached.key = Newest => SelectSeq(cached.list, LAMBDA a : a \in Kept) = EnabledInOrder

\* However many edits were made one after the other, one authenticator is enabled.
OneEnabled == ~seen.together => \E a \in Kept : auths[a].enabled

\* The authenticators that a login asks are the enabled ones, and there is one to
\* ask (backend.py:14-40, models/authenticator.py:114-130).
AuthenticatorsServe == ListCurrent /\ OneEnabled
===============================================================================

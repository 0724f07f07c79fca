------------------------------- MODULE ClaimsLogin -------------------------------
(***************************************************************************)
(* Logins of one person through one authenticator, in several processes at  *)
(* once, and what they make of the person's superuser flag and roles.       *)
(*                                                                          *)
(* A step ends at a transaction of the code: the user and the               *)
(* AuthenticatorUser are read, the claims are saved, organizations and      *)
(* teams are created, the assignments are read, and each change of an       *)
(* assignment is made, in any order.                                        *)
(***************************************************************************)
EXTENDS AuthenticatorMaps

CONSTANTS Worker,
          Configs,     \* authenticators: [maps, create, remove]
          Persons,     \* what the provider may say of the person: [groups, attrs]
          Elsewhere,   \* other objects that a role can be held on
          Remote,      \* those of them that belong to another service
          Unkeyed,     \* those of them whose primary key is no integer, but a UUID
          InitialDbs,
          MaxChanges, MaxFailures

VARIABLES conf,      \* maps in order, create_objects, remove_users
          person,    \* [groups, attrs] the provider sends now
          db,        \* [superuser, roles, orgs, teams]; roles is a set of keys
          stored,    \* the AuthenticatorUser: the last results that were saved
          login, changes, failures

vars == <<conf, person, db, stored, login, changes, failures>>

AnyKey == Role \X (Target \cup {<<x>> : x \in Elsewhere})

ASSUME LoginAssumption ==
    /\ Remote \cup Unkeyed \subseteq Elsewhere /\ Elsewhere \cap Org = {}
    /\ \A d \in InitialDbs : d.superuser \in BOOLEAN /\ d.roles \subseteq AnyKey
    /\ MaxChanges \in Nat /\ MaxFailures \in Nat

\* Every answer of create_claims that a login can get, tabulated.
Answer == [m \in {c.maps : c \in Configs}, p \in Persons |-> CreateClaims(m, p)]
ClaimsNow == Answer[conf.maps, person]

\* A login that is not under way; "calm" and "before" are there for the properties.
Idle == [phase |-> "idle", person |-> None, superuser |-> FALSE, seen |-> NoClaims,
         claims |-> NoClaims, give |-> {}, remove |-> {}, before |-> {}, calm |-> FALSE]

TypeOK ==
    /\ db.superuser \in BOOLEAN /\ db.roles \subseteq AnyKey
    /\ db.orgs \subseteq Org /\ db.teams \subseteq Org \X Team
    /\ \A t \in db.teams : t[1] \in db.orgs
    /\ changes \in 0..MaxChanges /\ failures \in 0..MaxFailures
    /\ \A w \in Worker :
          /\ DOMAIN login[w] = DOMAIN Idle
          /\ login[w].phase \in {"idle", "begun", "saved", "created", "planned", "done"}
          /\ DOMAIN login[w].claims.roles \subseteq Key
          /\ login[w].give \subseteq Key /\ login[w].remove \subseteq AnyKey
          /\ login[w].give \cap login[w].remove = {}

Init ==
    /\ conf \in Configs /\ person \in Persons /\ db \in InitialDbs
    /\ stored = NoClaims /\ login = [w \in Worker |-> Idle]
    /\ changes = 0 /\ failures = 0

-----------------------------------------------------------------------------
Active(w) == login[w].phase \notin {"idle", "done"}

Disturbed == [w \in Worker |-> IF Active(w) THEN [login[w] EXCEPT !.calm = FALSE, !.before = {}]
                                             ELSE Idle]

Goto(w, phase) == login' = [login EXCEPT ![w].phase = phase]

\* The user and its AuthenticatorUser are loaded, the provider has answered.
StartLogin(w) ==
    LET calm == \A v \in Worker : ~Active(v) IN
    /\ ~Active(w)
    /\ login' = [Disturbed EXCEPT ![w] =
                    [Idle EXCEPT !.phase = "begun", !.person = person,
                                 !.superuser = db.superuser, !.seen = stored,
                                 !.calm = calm, !.before = IF calm THEN db.roles ELSE {}]]
    /\ UNCHANGED <<conf, person, db, stored, changes, failures>>

\* create_claims and _apply_claim_attributes: the AuthenticatorUser gets the
\* claims, the user the superuser flag if a map decided it.  Both rows are saved
\* whole if anything changed, the flag that was loaded included.  The login ends
\* here if an allow map says so.
SaveClaims(w) ==
    LET l    == login[w]
        c    == Answer[conf.maps, l.person]
        saved == [c EXCEPT !.superuser = None]
        flag == IF c.superuser = None THEN l.superuser ELSE c.superuser
        needs_save == saved # l.seen \/ flag # l.superuser
    IN  /\ l.phase = "begun"
        /\ stored' = IF needs_save THEN saved ELSE stored
        /\ db' = IF needs_save THEN [db EXCEPT !.superuser = flag] ELSE db
        /\ login' = [login EXCEPT ![w] =
                        IF c.allowed THEN [l EXCEPT !.phase = "saved", !.claims = c,
                                                    !.person = None, !.seen = NoClaims]
                                     ELSE Idle]
        /\ UNCHANGED <<conf, person, changes, failures>>

\* The organizations to create: those claimed, and those of the teams claimed.
MemberOrgs(members) == {t[1] : t \in members}

\* create_organizations_and_teams: an object that somebody else created in the
\* meantime is taken as it is.
CreateObjects(w) ==
    LET members == {t \in DOMAIN login[w].claims.members : login[w].claims.members[t]}
        teams   == {t \in members : Len(t) = 2}
    IN  /\ login[w].phase = "saved"
        /\ db' = IF conf.create
                 THEN [db EXCEPT !.orgs = @ \cup MemberOrgs(members), !.teams = @ \cup teams]
                 ELSE db
        /\ Goto(w, "created")
        /\ UNCHANGED <<conf, person, stored, changes, failures>>

-----------------------------------------------------------------------------
(* The reconciliation of roles *)

\* Assignments that the reconciliation never sees: on an object of another
\* service, and on one whose key cannot be cast to an integer, which is only
\* logged ("Unable to cache object_id").
Uncached(roles) == {k \in roles : \E x \in Remote \cup Unkeyed : k[2] = <<x>>}

\* Fault: an assignment on such an object is cached too.
CachedAll(roles) == roles

\* The assignments that cache_existing keeps.
Cached(roles) == roles \ Uncached(roles)

\* The object of a target is in the database.
Exists(target) ==
    \/ target = System
    \/ Len(target) = 1 /\ target[1] \in db.orgs
    \/ Len(target) = 2 /\ target \in db.teams

Claimed(c, has) == {k \in DOMAIN c.roles : c.roles[k] = has /\ Exists(k[2])}

\* The statuses "add" and "remove", "existing" when remove_users is set.
ToGive(c) == Claimed(c, TRUE) \ Cached(db.roles)

\* Fault: only what is claimed is removed.
ToRemoveClaimed(c) == Claimed(c, FALSE) \cap Cached(db.roles)

ToRemove(c) ==
    (Claimed(c, FALSE) \cap Cached(db.roles))
        \cup IF conf.remove THEN Cached(db.roles) \ Claimed(c, TRUE) ELSE {}

PlanChanges(w) ==
    LET c == login[w].claims IN
    /\ login[w].phase = "created"
    /\ login' = [login EXCEPT ![w].phase = "planned", ![w].give = ToGive(c),
                              ![w].remove = ToRemove(c)]
    /\ UNCHANGED <<conf, person, db, stored, changes, failures>>

\* validate_assignment and give_global_permission
Assignable(k) ==
    CASE k[2] = System -> RoleKind[k[1]] = "system"
      [] Len(k[2]) = 1 -> RoleKind[k[1]] = "org"
      [] OTHER -> RoleKind[k[1]] = "team"

Give(w, k) ==
    /\ login[w].phase = "planned" /\ k \in login[w].give /\ Assignable(k)
    /\ db' = [db EXCEPT !.roles = @ \cup {k}]
    /\ login' = [login EXCEPT ![w].give = @ \ {k}]
    /\ UNCHANGED <<conf, person, stored, changes, failures>>

Withdraw(w, k) ==
    /\ login[w].phase = "planned" /\ k \in login[w].remove
    /\ db' = [db EXCEPT !.roles = @ \ {k}]
    /\ login' = [login EXCEPT ![w].remove = @ \ {k}]
    /\ UNCHANGED <<conf, person, stored, changes, failures>>

\* The rest of the changes is dropped, and the user is logged in all the same:
\* an assignment is refused, or the database fails.
ReconcileFails(w) ==
    /\ \/ /\ login[w].phase = "planned" /\ \E k \in login[w].give : ~Assignable(k)
          /\ UNCHANGED failures
       \/ /\ login[w].phase \in {"created", "planned"} /\ failures < MaxFailures
          /\ failures' = failures + 1
    /\ login' = [login EXCEPT ![w] = Idle]
    /\ UNCHANGED <<conf, person, db, stored, changes>>

EndLogin(w) ==
    /\ login[w].phase = "planned" /\ login[w].give \cup login[w].remove = {}
    /\ IF login[w].calm THEN Goto(w, "done") ELSE login' = [login EXCEPT ![w] = Idle]
    /\ UNCHANGED <<conf, person, db, stored, changes, failures>>

-----------------------------------------------------------------------------
(* Changes from outside *)

Change ==
    /\ changes < MaxChanges /\ changes' = changes + 1
    /\ login' = Disturbed
    /\ UNCHANGED <<conf, stored, failures>>

ProviderChanges == Change /\ person' \in Persons \ {person} /\ UNCHANGED db

AdministratorChanges ==
    /\ Change /\ UNCHANGED person
    /\ \/ db' = [db EXCEPT !.superuser = ~@]
       \/ \E d \in InitialDbs, k \in AnyKey :
             \/ k \in d.roles /\ Exists(k[2]) /\ db' = [db EXCEPT !.roles = @ \cup {k}]
             \/ k \in db.roles /\ db' = [db EXCEPT !.roles = @ \ {k}]

\* Only between logins: what becomes of a login whose team is deleted under it
\* is left out.
TeamDeleted ==
    /\ Change /\ UNCHANGED person
    /\ \A w \in Worker : ~Active(w)
    /\ \E t \in db.teams :
          db' = [db EXCEPT !.teams = @ \ {t}, !.roles = {k \in @ : k[2] # t}]

LoginStep(w) ==
    \/ StartLogin(w) \/ SaveClaims(w) \/ CreateObjects(w) \/ PlanChanges(w)
    \/ (\E k \in login[w].give : Give(w, k))
    \/ (\E k \in login[w].remove : Withdraw(w, k))
    \/ EndLogin(w) \/ ReconcileFails(w)

Next ==
    \/ \E w \in Worker : LoginStep(w)
    \/ ProviderChanges \/ AdministratorChanges \/ TeamDeleted

Fairness == \A w \in Worker : WF_vars(LoginStep(w))

Spec == Init /\ [][Next]_vars /\ Fairness

-----------------------------------------------------------------------------
(* Properties *)

\* What an attribute trigger says, without an order of evaluation: a condition
\* counts unless it can say nothing of this user; with "or" one of those that
\* count is met, by one value; with "and" all are, by every value.
Meets(c, v) == \E op \in DOMAIN c :
    /\ \E i \in DOMAIN Operators :
          Operators[i] = op /\ \A j \in 1..(i - 1) : Operators[j] \notin DOMAIN c
    /\ IF op = "in" THEN v \in c[op] ELSE <<op, c[op], v>> \in Hits

Counts(a, c, attrs, join) ==
    /\ ~("in" \in DOMAIN c /\ c["in"] = None)
    /\ \/ DOMAIN c = {}
       \/ a \in DOMAIN attrs /\ attrs[a] # <<>>
       \/ a \notin DOMAIN attrs /\ join = "and"

IsMet(a, c, attrs, join) ==
    /\ a \in DOMAIN attrs
    /\ \/ DOMAIN c = {}
       \/ join = "or" /\ \E v \in ToSet(attrs[a]) : Meets(c, v)
       \/ join = "and" /\ \A v \in ToSet(attrs[a]) : Meets(c, v)

\* The loops of process_user_attributes, with their early exits and their third
\* value "not determined", decide exactly that.
TriggersMean ==
    \A i \in DOMAIN conf.maps : \A n \in DOMAIN conf.maps[i].triggers :
        LET trigger == conf.maps[i].triggers[n]
            conds   == ToSet(trigger.conds)
            counted == {x \in conds : Counts(x[1], x[2], person.attrs, trigger.join)}
            met     == {x \in counted : IsMet(x[1], x[2], person.attrs, trigger.join)}
        IN  trigger.kind = "attributes" =>
              (ProcessUserAttributes(trigger, person.attrs) = "allow"
                 <=> met # {} /\ (trigger.join = "and" => met = counted))

\* The last map that applies and names a role on a target decides whether the
\* user has it; the same for access and the superuser flag, and a flag no map
\* decides is left alone (create_claims).  That is the map with the greatest
\* "order": the opposite of what the help text of the field says, which is
\* SmallerOrderWins below and does not hold.
ClaimsMeanLastMap ==
    LET c       == ClaimsNow
        applied == {i \in DOMAIN conf.maps : Applies(conf.maps[i], person)}
        naming  == UNION {{i} \X KeysOf(conf.maps[i], person) : i \in applied}
        of(type) == {i \in applied : conf.maps[i].type = type}
        last(S) == HasPermission(conf.maps[CHOOSE i \in S : \A j \in S : j <= i], person)
    IN  /\ c.roles = [k \in {n[2] : n \in naming} |->
                         last({n[1] : n \in {x \in naming : x[2] = k}})]
        /\ c.allowed = (of("allow") = {} \/ last(of("allow")))
        /\ c.superuser = IF of("is_superuser") = {} THEN None ELSE last(of("is_superuser"))

\* models/authenticator_map.py:82-88, the help text of AuthenticatorMap.order:
\* "smaller numbers are of higher precedence".  Of the maps that apply and name
\* a role on a target, the first would then decide.  It does not: create_claims
\* writes the answer of each later one over it.
SmallerOrderWins ==
    LET naming(k) == {i \in DOMAIN conf.maps :
                         Applies(conf.maps[i], person) /\ k \in KeysOf(conf.maps[i], person)}
    IN  \A k \in DOMAIN ClaimsNow.roles :
            ClaimsNow.roles[k] = HasPermission(conf.maps[Least(naming(k))], person)

\* What triggers and lists of maps say does not depend on an order of
\* evaluation that no administrator sees (claims.py).
ClaimsMean == TypeOK /\ TriggersMean /\ ClaimsMeanLastMap

\* Roles and flag are what claims c say.  Roles that are not cached are not
\* theirs: with remove_users too they outlive every login.
InStep(c) ==
    /\ \A k \in DOMAIN c.roles : Exists(k[2]) => (k \in db.roles <=> c.roles[k])
    /\ conf.remove => \A k \in db.roles \ Uncached(db.roles) :
                         k \in DOMAIN c.roles /\ c.roles[k]
    /\ c.superuser # None => db.superuser = c.superuser

\* A login that ran to its end, with no other and no change meanwhile, leaves
\* the roles that the claims say, and touches no other: none on a remote object
\* or one without an integer key, and without remove_users none that the claims
\* do not name (RoleUserAssignmentsCache).
ReconciledRoles ==
    \A w \in Worker : login[w].phase = "done" /\ login[w].calm =>
        LET c == login[w].claims IN
        /\ InStep(c)
        /\ Uncached(db.roles) = Uncached(login[w].before)
        /\ ~conf.remove => db.roles \ DOMAIN c.roles = login[w].before \ DOMAIN c.roles

\* No map denies access or gives a role that cannot be assigned.
Reconcilable ==
    /\ ClaimsNow.allowed
    /\ \A k \in DOMAIN ClaimsNow.roles : ClaimsNow.roles[k] => Assignable(k)

\* Two logins of one person at once may mix what they read before a change with
\* what they read after, and a failure may stop one half way; a later login
\* repairs it, unless the claims forbid; only what is not cached stays as it is
\* for good (update_user_claims, InStep).
EventuallyReconciled == <>[](Reconcilable => InStep(ClaimsNow))
=============================================================================

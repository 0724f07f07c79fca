------------------------------ MODULE MCClaimsLogin ------------------------------
(* Instance of ClaimsLogin: every attribute trigger and every short list of    *)
(* maps, for one login; and a few lists for logins that overlap and change.    *)
EXTENDS ClaimsLogin

CONSTANTS g, a, b, v, w, sys, orgAdmin, orgMember, teamMember, objAdmin,
          o, q, t, inventory, remoteJob, byUuid, one, two

Kinds == [r \in Role |-> CASE r = sys -> "system" [] r \in {orgAdmin, orgMember} -> "org"
                           [] r = teamMember -> "team" [] OTHER -> "object"]
Equal == {<<"equals", x, x>> : x \in Value}

-----------------------------------------------------------------------------
(* Triggers and maps *)
Always == [kind |-> "always"]
Never == [kind |-> "never"]
Misspelt == [kind |-> "group"]
InGroup == [kind |-> "groups", cond |-> ("has_or" :> {g})]
Conditions == {<<>>, "equals" :> v, "in" :> {v}, "in" :> {v, w}, "in" :> None,
               "equals" :> w @@ "in" :> {v}}
AttributeTriggers ==
    [kind : {"attributes"}, join : {"or", "and"},
     conds : {<<<<a, c>>, <<b, d>>>> : c \in Conditions, d \in Conditions}]

Nothing == [kind |-> "none"]
Named(x) == [kind |-> "name", name |-> x]
PerValue == [kind |-> "attr", attr |-> a, names |-> (v :> o @@ w :> q)]

Map(type, role, org, team, triggers, revoke) ==
    [type |-> type, role |-> role, org |-> org, team |-> team,
     triggers |-> triggers, revoke |-> revoke, enabled |-> TRUE]
Plain(type, triggers, revoke) == Map(type, Nothing, Nothing, Nothing, triggers, revoke)

OrgRole(r, org, triggers) == Map("organization", Named(r), org, Nothing, triggers, FALSE)
TeamRole(triggers, revoke) == Map("team", Named(teamMember), Named(o), Named(t), triggers, revoke)
Misfit == Map("role", Named(orgAdmin), Named(o), Named(t), <<Always>>, FALSE)

Maps == {Plain("allow", <<InGroup>>, TRUE), Plain("is_superuser", <<InGroup>>, FALSE),
         Plain("is_superuser", <<Never, InGroup>>, TRUE),
         OrgRole(orgAdmin, Named(o), <<Always>>), OrgRole(orgAdmin, PerValue, <<InGroup>>),
         OrgRole(orgMember, Named(o), <<Never>>), OrgRole(teamMember, Named(o), <<Always>>),
         [OrgRole(orgAdmin, Named(o), <<Never>>) EXCEPT !.enabled = FALSE],
         OrgRole(orgAdmin, Named(o), <<Misspelt, Never>>),
         TeamRole(<<InGroup>>, TRUE), TeamRole(<<Always>>, FALSE),
         Map("role", Named(sys), Nothing, Nothing, <<InGroup>>, TRUE),
         Map("role", Named(objAdmin), Named(o), Nothing, <<Always>>, FALSE), Misfit}

-----------------------------------------------------------------------------
(* Configurations *)
Config(maps, create, remove) == [maps |-> maps, create |-> create, remove |-> remove]

TriggerConfigs == {Config(<<Map("role", Named(sys), Nothing, Nothing, <<x>>, FALSE)>>, FALSE, FALSE) :
                      x \in AttributeTriggers}
ListConfigs == {Config(<<m, n>>, c, r) : m \in Maps, n \in Maps, c \in BOOLEAN, r \in BOOLEAN}
LongLists == {<<Plain("allow", <<InGroup>>, TRUE), OrgRole(orgAdmin, PerValue, <<Always>>)>>,
              <<Plain("is_superuser", <<InGroup>>, TRUE), TeamRole(<<InGroup>>, TRUE)>>,
              <<Misfit>>}
OverlapConfigs == {Config(m, TRUE, TRUE) : m \in LongLists}
MCConfigs == TriggerConfigs \cup ListConfigs \cup OverlapConfigs

Person(groups, attrs) == [groups |-> groups, attrs |-> attrs]
ValueLists == {<<>>, <<v>>, <<w>>, <<w, v>>}
AttributePersons ==
    {Person({}, <<>>)} \cup {Person({}, a :> x) : x \in ValueLists}
        \cup {Person({}, a :> x @@ b :> y) : x \in ValueLists, y \in ValueLists}
FewPersons == {Person({}, <<>>), Person({g}, a :> <<w>>), Person({g}, a :> <<v, w>>)}
MCPersons == AttributePersons \cup FewPersons

Database(superuser, roles, orgs, teams) ==
    [superuser |-> superuser, roles |-> roles, orgs |-> orgs, teams |-> teams]
EmptyDb == Database(FALSE, {}, {}, {})
FullDb == Database(TRUE, {<<orgMember, <<o>>>>, <<teamMember, <<o, t>>>>, <<sys, System>>,
                          <<objAdmin, <<inventory>>>>, <<objAdmin, <<remoteJob>>>>, <<objAdmin, <<byUuid>>>>},
                   {o}, {<<o, t>>})
SmallDb == Database(TRUE, {<<orgMember, <<o>>>>, <<teamMember, <<o, t>>>>}, {o}, {<<o, t>>})
MCDbs == {EmptyDb, SmallDb, FullDb}
TwoPersons == {Person({}, a :> <<w>>), Person({g}, a :> <<v, w>>)}

QuietInit(configs, persons, dbs) ==
    /\ conf \in configs /\ person \in persons /\ db \in dbs
    /\ stored = NoClaims /\ login = [x \in Worker |-> Idle]
    /\ changes = MaxChanges /\ failures = MaxFailures

MCInit ==
    \/ QuietInit(TriggerConfigs, AttributePersons, {EmptyDb})
    \/ /\ QuietInit(ListConfigs, FewPersons, {EmptyDb, FullDb})
       /\ db = EmptyDb <=> conf.create
    \/ /\ conf \in OverlapConfigs /\ person \in TwoPersons /\ db \in {EmptyDb, SmallDb}
       /\ stored = NoClaims /\ login = [x \in Worker |-> Idle]
       /\ \/ changes = 0 /\ failures = MaxFailures
          \/ changes = MaxChanges /\ failures = 0

\* A quiet behaviour has one process.
Overlapping == conf \in OverlapConfigs
MCStep(x) == (x = one \/ Overlapping) /\ LoginStep(x)
MCNext ==
    \/ \E x \in Worker : MCStep(x)
    \/ (ProviderChanges /\ person' \in TwoPersons) \/ AdministratorChanges \/ TeamDeleted
MCSpec == MCInit /\ [][MCNext]_vars /\ \A x \in Worker : WF_vars(MCStep(x))
=============================================================================

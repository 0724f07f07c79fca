---------------------------- MODULE AuthenticatorMaps ----------------------------
(***************************************************************************)
(* What the maps of an authenticator say of a user: the triggers of a map   *)
(* are evaluated against the groups and attributes the provider sent, and   *)
(* create_claims folds the maps, in their order, into claims.               *)
(*                                                                          *)
(* Names, groups and values stand for their case-folded forms.  A dict is a *)
(* function, or a sequence of pairs where its order matters.                *)
(***************************************************************************)
EXTENDS Naturals, FiniteSets, SequencesExt

CONSTANTS Group, Attr, Value,
          Hits,        \* <<operator, trigger value, user value>> that compare true
          Role, RoleKind,  \* role definitions; "system", "org", "team" or "object"
          Org, Team,   \* names; a team is identified by organization and name
          None

Scalar == {"equals", "matches", "contains", "ends_with"}
Operators == <<"equals", "matches", "contains", "ends_with", "in">>

ASSUME MapsAssumption ==
    /\ Hits \subseteq Scalar \X Value \X Value
    /\ RoleKind \in [Role -> {"system", "org", "team", "object"}]
    /\ None \notin BOOLEAN \cup Role \cup Org \cup Team

\* The key of a role claim, and of an assignment that claims can name.
System == <<>>
Target == {System} \cup {<<o>> : o \in Org} \cup Org \X Team
Key == Role \X Target

\* What a partial function f becomes when all of K are set to v.
SetAll(f, K, v) == [x \in DOMAIN f \cup K |-> IF x \in K THEN v ELSE f[x]]
Least(S) == CHOOSE i \in S : \A j \in S : i <= j

-----------------------------------------------------------------------------
(* Triggers *)

\* has_or, has_and, has_not: only the first of them that is there counts.
ProcessGroups(c, groups) ==
    IF \/ "has_or" \in DOMAIN c /\ c["has_or"] \cap groups # {}
       \/ /\ "has_or" \notin DOMAIN c /\ "has_and" \in DOMAIN c
          /\ c["has_and"] \subseteq groups
       \/ /\ DOMAIN c \cap {"has_or", "has_and"} = {} /\ "has_not" \in DOMAIN c
          /\ c["has_not"] \cap groups = {}
    THEN "allow" ELSE "skip"

\* has_access_with_join; None is "not determined yet".
HasAccessWithJoin(access, new, join) ==
    IF access = None THEN new
    ELSE IF join = "or" THEN access \/ new ELSE access /\ new

Decided(access, join) == access = (join = "or")

\* _process_scalar_operator: one value after the other, with an early exit.
ProcessScalar(access, op, arg, values, join) ==
    LET hit(v) == <<op, arg, v>> \in Hits
        next(s, v) == IF s.stop THEN s
                      ELSE [access |-> HasAccessWithJoin(s.access, hit(v), join),
                            stop   |-> Decided(hit(v), join)]
    IN  FoldLeft(next, [access |-> access, stop |-> FALSE], values).access

\* _process_in_operator
ProcessIn(access, arg, values, join) ==
    HasAccessWithJoin(access, IF join = "or" THEN ToSet(values) \cap arg # {}
                                             ELSE ToSet(values) \subseteq arg, join)

\* _process_user_value: the operator is the first of Operators in the condition.
ProcessUserValue(access, c, values, join) ==
    LET present == {i \in DOMAIN Operators : Operators[i] \in DOMAIN c}
        op      == Operators[Least(present)]
    IN  CASE present = {} \/ values = <<>> -> access
          [] present # {} /\ values # <<>> /\ op = "in" -> ProcessIn(access, c[op], values, join)
          [] OTHER -> ProcessScalar(access, op, c[op], values, join)

\* One attribute of the trigger; an "in" that is no list is None.
ProcessAttribute(access, a, c, attrs, join) ==
    CASE "in" \in DOMAIN c /\ c["in"] = None -> access
      [] DOMAIN c = {} -> HasAccessWithJoin(access, a \in DOMAIN attrs, join)
      [] DOMAIN c # {} /\ a \notin DOMAIN attrs ->
            IF join = "and" THEN HasAccessWithJoin(access, FALSE, join) ELSE access
      [] OTHER -> ProcessUserValue(access, c, attrs[a], join)

ProcessUserAttributes(t, attrs) ==
    LET next(access, ac) == IF Decided(access, t.join) THEN access
                            ELSE ProcessAttribute(access, ac[1], ac[2], attrs, t.join)
    IN  IF FoldLeft(next, None, t.conds) = TRUE THEN "allow" ELSE "skip"

TriggerKinds == {"groups", "attributes", "always", "never"}

Evaluate(t, p) ==
    CASE t.kind = "groups" -> ProcessGroups(t.cond, p.groups)
      [] t.kind = "attributes" -> ProcessUserAttributes(t, p.attrs)
      [] t.kind = "always" -> "allow"
      [] OTHER -> "deny"

\* Each trigger of a map overwrites the result of the one before.
MapResult(m, p) ==
    LET result == IF m.triggers = <<>> THEN "skip" ELSE Evaluate(Last(m.triggers), p)
    IN  IF result = "skip" /\ m.revoke THEN "deny" ELSE result

\* A trigger of no known kind makes the whole map void, one that would revoke too.
InvalidKeys(m) == \E i \in DOMAIN m.triggers : m.triggers[i].kind \notin TriggerKinds

\* What last_login_map_results has of a map.
Response(m, p) == CASE ~m.enabled -> "disabled"
                    [] m.enabled /\ InvalidKeys(m) -> "invalid"
                    [] OTHER -> MapResult(m, p)

Applies(m, p) == Response(m, p) \in {"allow", "deny"}
HasPermission(m, p) == MapResult(m, p) = "allow"

-----------------------------------------------------------------------------
(* The claims of a map *)

\* expand_syntax of a field: a name, or a name for each value of an attribute;
\* a field that cannot be expanded is missing.
ExpandField(f, attrs) ==
    CASE f.kind = "none" -> {None}
      [] f.kind = "name" -> {f.name}
      [] f.kind = "attr" /\ f.attr \in DOMAIN attrs /\ attrs[f.attr] # <<>> ->
            {f.names[v] : v \in ToSet(attrs[f.attr])}
      [] OTHER -> {None}

Expanded(m, p) ==
    ExpandField(m.role, p.attrs) \X ExpandField(m.org, p.attrs) \X ExpandField(m.team, p.attrs)

\* check_role_type returns no error.
RoleTypeFits(type, role, org, team) ==
    /\ role \in Role
    /\ IF RoleKind[role] = "system" /\ type = "role" THEN org = None /\ team = None
       ELSE /\ type = "organization" => RoleKind[role] = "org"
            /\ type = "team" => RoleKind[role] = "team"
            /\ type = "role" => RoleKind[role] # "object"
            /\ RoleKind[role] \in {"org", "team"} => org # None
            /\ RoleKind[role] = "team" => team # None

\* The key that an expansion <<role, org, team>> of a map is about.
KeyOf(type, x) ==
    CASE type \in {"team", "role"} /\ x[2] # None /\ x[3] # None -> <<x[1], <<x[2], x[3]>>>>
      [] type \in {"organization", "role"} /\ x[2] # None
            /\ (type = "organization" \/ x[3] = None) -> <<x[1], <<x[2]>>>>
      [] OTHER -> <<x[1], System>>

\* The keys a map claims, of the types that have any.
KeysOf(m, p) ==
    IF m.type \notin {"team", "organization", "role"} THEN {}
    ELSE {KeyOf(m.type, x) : x \in {y \in Expanded(m, p) : RoleTypeFits(m.type, y[1], y[2], y[3])}}

TargetsOf(m, p) == {k[2] : k \in KeysOf(m, p)}

-----------------------------------------------------------------------------
(* create_claims *)

NoClaims == [allowed |-> TRUE, superuser |-> None, roles |-> <<>>, members |-> <<>>,
             results |-> <<>>]

\* "members" has organization_membership and team_membership, "results" is
\* last_login_map_results.
ApplyMap(c, m, p) ==
    LET has == HasPermission(m, p)
        d   == [c EXCEPT !.results = Append(@, Response(m, p))]
    IN  CASE ~Applies(m, p) -> d
          [] Applies(m, p) /\ m.type = "allow" -> [d EXCEPT !.allowed = has]
          [] Applies(m, p) /\ m.type = "is_superuser" -> [d EXCEPT !.superuser = has]
          [] OTHER -> [d EXCEPT !.roles = SetAll(@, KeysOf(m, p), has),
                                !.members = SetAll(@, TargetsOf(m, p) \ {System}, has)]

\* Fault: a claim that is there is not overwritten.
CreateClaimsFirstWins(maps, p) ==
    LET c == FoldLeft(LAMBDA x, m : ApplyMap(x, m, p), NoClaims, maps)
        d == FoldLeft(LAMBDA x, m : ApplyMap(x, m, p), NoClaims, Reverse(maps))
    IN  [c EXCEPT !.roles = d.roles]

CreateClaims(maps, p) == FoldLeft(LAMBDA c, m : ApplyMap(c, m, p), NoClaims, maps)
=============================================================================

------------------------------ MODULE MCAccounts ------------------------------
(* Instances of Accounts for TLC. *)
EXTENDS Accounts

CONSTANTS N,   \* None
          avatar1, avatar2, note   \* what somebody has

MCAuths == {"local", "ldap", "radius", "sso"}
MCKindOf == [a \in MCAuths |-> IF a = "radius" THEN "bare" ELSE a]

Account4(a, person, uid, name, email, alt) ==
  [auth |-> a, person |-> person, uid |-> uid, name |-> name, email |-> email, alt |-> alt]

\* Two people have the uid ann; bob's directory has no e-mail.
MCAccounts ==
  {Account4("local", "ann", "ann", "ann", N, N),
   Account4("ldap", "ann", "ann", "ann", "ann@", N),
   Account4("ldap", "bob", "bob", "bob", N, N),
   Account4("radius", "anna", "ann", "ann", N, N),
   Account4("sso", "ann", "17", "ann", "ann@", "ann"),
   Account4("sso", "bob", "18", "bob", "bob@", "bob"),
   Account4("ldap", "system", "_system", "_system", N, N),
   Account4("sso", "system", "19", "_system", N, N)}

\* A user has one avatar and any number of notes.
MCSlotOf == [t \in Things |-> IF t = note THEN N ELSE "avatar"]

AuthAt(order, enabled, target) == [enabled |-> enabled, order |-> order, target |-> target, modified |-> order]
Order == [a \in MCAuths |-> CASE a = "local" -> 1 [] a = "ldap" -> 2 [] a = "radius" -> 3 [] a = "sso" -> 4]
TheAuths(on, off, target) ==
  [a \in MCAuths |-> IF a \in on \cup off THEN AuthAt(Order[a], a \in on, IF a \in DOMAIN target THEN target[a] ELSE N) ELSE N]

User(uid, email, active, secret) == [name |-> <<uid, 0>>, email |-> email, active |-> active, secret |-> secret]
TheUsers(us) == [u \in UserIds |-> IF u \in DOMAIN us THEN us[u] ELSE N]
Row(a, uid, u, email) == [auth |-> a, uid |-> uid, user |-> u, email |-> email]
NoOne == [u \in {} |-> N]
NoTarget == [a \in {} |-> N]

\* Nobody has signed in.
Fresh == [users |-> TheUsers(NoOne), rows |-> {}, owner |-> [t \in Things |-> N],
          auths |-> TheAuths({"ldap", "radius", "sso"}, {}, NoTarget),
          logins |-> 3, edits |-> 0, who |-> {"ann", "anna", "bob"}]
\* ann's directory may be sent to radius, where ann is somebody else.
Misled == [Fresh EXCEPT !.auths = TheAuths({"ldap", "radius"}, {}, NoTarget), !.edits = 1, !.who = {"ann", "anna"}]
\* ann is a local user who has a directory account too.
Mixed == [users |-> TheUsers([u \in {1} |-> User("ann", "ann@", TRUE, "ann")]), rows |-> {}, owner |-> [t \in Things |-> N],
          auths |-> TheAuths({"local", "ldap", "sso"}, {}, NoTarget),
          logins |-> 3, edits |-> 0, who |-> {"ann", "system"}]
Inactive == [Mixed EXCEPT !.users = TheUsers([u \in {1} |-> User("ann", "ann@", FALSE, "ann")]),
                          !.auths = TheAuths({"ldap", "sso", "local"}, {}, NoTarget), !.who = {"ann"}]
\* The directory sends its users to single sign-on; bob's user has things.
Moving == [users |-> TheUsers([u \in {1} |-> User("bob", N, TRUE, N)]),
           rows |-> {Row("ldap", "bob", 1, N)}, owner |-> [t \in Things |-> IF t = avatar2 THEN N ELSE 1],
           auths |-> TheAuths({"ldap", "sso"}, {}, "ldap" :> "sso"),
           logins |-> 2, edits |-> 2, who |-> {"ann", "bob"}]
\* bob has signed in with both before one sends its users to the other, and has
\* an avatar as either user: there is no room for both.
Merging == [Moving EXCEPT !.users = TheUsers([u \in {1, 2} |-> IF u = 1 THEN User("bob", N, TRUE, N)
                                                               ELSE [User("bob", "bob@", TRUE, N) EXCEPT !.name = <<"bob", 1>>]]),
                          !.rows = {Row("ldap", "bob", 1, N), Row("sso", "18", 2, "bob@")}, !.who = {"bob"},
                          !.owner = [t \in Things |-> IF t = avatar2 THEN 2 ELSE 1],
                          !.logins = 3, !.edits = 1]
\* Two directories that know ann as different people send their users to the third.
Gathering == [Moving EXCEPT !.users = TheUsers([u \in {1, 2} |-> IF u = 1 THEN User("ann", "ann@", TRUE, N)
                                                                 ELSE [User("ann", N, TRUE, N) EXCEPT !.name = <<"ann", 1>>]]),
                            !.rows = {Row("ldap", "ann", 1, "ann@"), Row("radius", "ann", 2, N)},
                            !.owner = [t \in Things |-> IF t = avatar1 THEN 1 ELSE 2],
                            !.auths = TheAuths({"ldap", "radius", "sso"}, {}, "ldap" :> "sso" @@ "radius" :> "sso"),
                            !.who = {"ann", "anna"}, !.edits = 0]
\* The authenticators are edited: twice around a login, or once among several.
EditedTwice == [Mixed EXCEPT !.auths = TheAuths({"local", "ldap"}, {"sso"}, NoTarget), !.who = {"ann"}, !.logins = 1, !.edits = 2]
EditedOnce  == [EditedTwice EXCEPT !.logins = 2, !.edits = 1]

Sym == {f @@ g : f \in Permutations(Procs), g \in Permutations(Admins)}

MCStarts == {Fresh, Misled, Mixed, Inactive, Moving, Merging, Gathering, EditedOnce, EditedTwice}
===============================================================================

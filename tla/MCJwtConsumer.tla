---------------------------- MODULE MCJwtConsumer ----------------------------
(* Two workers and one user with two role assignments, of which the service  *)
(* knows one or both, two names and two values of the other user fields.      *)
EXTENDS JwtConsumer

CONSTANTS w1, w2, c1, c2, n1, n2, m1, m2

MCWorker == {w1, w2}
MCClaim == {c1, c2}
MCName == {n1, n2}
MCMail == {m1, m2}
OneUnknown == {c2}
LocalRoles == {{}, {c1}}
OwnName == {n1, n2}

\* The user starts with the first name and fields and a known role.
MCInit == Init /\ gateway.user = [name |-> n1, mail |-> m1] /\ gateway.claims = {c1}
MCSpec == MCInit /\ [][Next]_vars /\ Fairness

=============================================================================

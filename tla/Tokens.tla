-------------------------------- MODULE Tokens --------------------------------
(***************************************************************************)
(* oauth2_provider: access tokens and refresh tokens from the request that *)
(* makes them, through refreshing, updating and using them, to revocation, *)
(* by a command or by the logout of a relying party, which take row after  *)
(* row while requests go on.  Tables hold hashes of the secrets; those of  *)
(* an earlier release are hashed by migration 0005.                        *)
(*                                                                         *)
(* django-oauth-toolkit is external; grants of it are modelled as far as   *)
(* TokenView and the models' save() decide what they leave.  A secret is a *)
(* number; its row is known by it.  A "chain" is what refreshing makes out *)
(* of one token.                                                           *)
(***************************************************************************)
EXTENDS Naturals, FiniteSets

CONSTANTS Nothing,
          Users, Superusers, Auditors,
          External,      \* users with an account of another authenticator than the local one
          Applications, ApplicationUser, Organizations,
          OrgAdmins,     \* of each organization: those with "change" on it
          Creators,      \* users who ask for tokens
          Scopes,        \* sets of words, {} among them
          OldTables,     \* what an earlier release left: [access, refresh, home]
          OldSecrets, MaxSecrets, MaxFlight,
          MaxWork        \* requests, revocations and the like from then on

VARIABLES access, refresh,   \* the tables
          home,              \* the organization of each application
          allowExternal,     \* ALLOW_OAUTH2_FOR_EXTERNAL_USERS
          migrated,
          generated,         \* secrets generated so far
          flight,            \* requests under way: what they are about to write
          job,               \* a revocation under way
          blurred,           \* chains that two requests, or one and a revocation, changed at once
          work,
          gone               \* <<chain, user>>: the chain may not act as the user again

tokenVars == <<access, refresh, home, allowExternal, migrated, generated, flight, job, blurred, work, gone>>

Access == [secret : 1 .. MaxSecrets, hashed : 0 .. 2, user : Users, app : Applications \cup {Nothing},
           scope : Scopes, expired : BOOLEAN, source : 0 .. MaxSecrets, chain : 1 .. MaxSecrets]
Refresh == [secret : 1 .. MaxSecrets, hashed : 0 .. 2, user : Users, app : Applications,
            access : 0 .. MaxSecrets, revoked : BOOLEAN, expired : BOOLEAN, chain : 1 .. MaxSecrets]
(***************************************************************************)
(* An earlier release left at most one access token of each chain, and one *)
(* refresh token that can still be used, which refreshes that one.  A      *)
(* token has one row.                                                      *)
(***************************************************************************)
LeftByRelease(t) ==
  /\ t.access \subseteq Access /\ t.refresh \subseteq Refresh /\ t.home \in [Applications -> Organizations]
  /\ \A r \in t.access \cup t.refresh : r.hashed \in {0, 1} /\ r.secret <= OldSecrets /\ r.chain <= OldSecrets
  /\ \A a, b \in t.access : a.secret = b.secret \/ a.chain = b.chain => a = b
  /\ \A r, q \in t.refresh : r.secret = q.secret \/ (r.chain = q.chain /\ ~r.revoked /\ ~q.revoked) => r = q
  /\ \A r \in t.refresh : r.access <= OldSecrets
  /\ \A r \in t.refresh, a \in t.access :
       /\ r.access = a.secret => r.chain = a.chain
       /\ r.chain = a.chain /\ ~r.revoked => r.access = a.secret

ASSUME TokensAssumption ==
  /\ Nothing \notin Users \cup Applications
  /\ {Superusers, Auditors, External, Creators} \subseteq SUBSET Users
  /\ ApplicationUser \in [Applications -> Users \cup {Nothing}]
  /\ OrgAdmins \in [Organizations -> SUBSET Users]
  /\ {} \in Scopes
  /\ {OldSecrets, MaxSecrets, MaxFlight, MaxWork} \subseteq Nat /\ OldSecrets <= MaxSecrets
  /\ \A t \in OldTables : LeftByRelease(t)

NoJob == [kind |-> "none", user |-> Nothing, app |-> Nothing, refresh |-> {}, access |-> {},
          chains |-> {}]
NoSource == 0

TokensInit ==
  /\ \E t \in OldTables : access = t.access /\ refresh = t.refresh /\ home = t.home
  /\ allowExternal \in BOOLEAN
  /\ migrated = FALSE
  /\ generated = OldSecrets
  /\ flight = {} /\ job = NoJob /\ blurred = {} /\ work = 0 /\ gone = {}

Chains(rows) == {r.chain : r \in rows}
(* Requests that change a chain; one that only uses a token must disturb nothing. *)
InFlight(chain) == \E f \in flight : f.row.chain = chain /\ f.kind # "use"
(* ... and one of them while another or a revocation may be after the chain. *)
Overlaps(kind, chain) ==
  blurred' = blurred \cup {c \in {chain} : kind # "use" /\ (job.kind # "none" \/ InFlight(c))}
Disturbs(chains) == blurred' = blurred \cup {c \in chains : InFlight(c) \/ job.kind # "none"}

Budget == work < MaxWork /\ work' = work + 1

-----------------------------------------------------------------------------
(* Who may                                                                 *)

get_queryset(u, safe) ==
  IF u \in Superusers \/ (safe /\ u \in Auditors) THEN access
  ELSE {t \in access : t.user = u \/ (t.app # Nothing /\ u \in OrgAdmins[home[t.app]])}
(* The organization of the application is asked for any organization that u may change. *)
has_object_permission(u, t, safe) ==
  \/ safe /\ u \in Auditors
  \/ u \in Superusers
  \/ t.app # Nothing /\ \E o \in Organizations : u \in OrgAdmins[o]
  \/ u = t.user
Reaches(u, t, safe) == t \in get_queryset(u, safe) /\ has_object_permission(u, t, safe)
MayCreate(u, app) == app # Nothing => u \in Superusers
is_external_account(u) == u \in External
validate_external_users(u) == allowExternal \/ ~is_external_account(u)

-----------------------------------------------------------------------------
(* Making tokens                                                           *)

(* save() hashes what is new. *)
NewAccess(s, u, app, scope, source, chain) ==
  [secret |-> s, hashed |-> 1, user |-> u, app |-> app, scope |-> scope, expired |-> FALSE,
   source |-> source, chain |-> chain]
NewRefresh(s, u, app, of, chain) ==
  [secret |-> s, hashed |-> 1, user |-> u, app |-> app, access |-> of, revoked |-> FALSE,
   expired |-> FALSE, chain |-> chain]
Generates(n) == generated + n <= MaxSecrets /\ generated' = generated + n

(* An application's token is its user's, once validated for the requesting user; the refresh token is the latter's. *)
Create(u) ==
  \E app \in Applications \cup {Nothing}, scope \in Scopes \ {{}} :
    LET owner == IF app # Nothing /\ ApplicationUser[app] # Nothing THEN ApplicationUser[app] ELSE u
        s == generated + 1
    IN /\ MayCreate(u, app) /\ validate_external_users(u)
       /\ Generates(IF app = Nothing THEN 1 ELSE 2)
       /\ access' = access \cup {NewAccess(s, owner, app, scope, NoSource, s)}
       /\ refresh' = refresh \cup (IF app = Nothing THEN {} ELSE {NewRefresh(s + 1, u, app, s, s)})
       /\ Budget /\ UNCHANGED <<home, allowExternal, migrated, flight, job, blurred, gone>>
(* An authorization code or a password for tokens; AccessDeniedError becomes a 403. *)
Grant(u) ==
  \E app \in Applications, scope \in Scopes \ {{}} :
    /\ validate_external_users(u)
    /\ Generates(2)
    /\ access' = access \cup {NewAccess(generated + 1, u, app, scope, NoSource, generated + 1)}
    /\ refresh' = refresh \cup {NewRefresh(generated + 2, u, app, generated + 1, generated + 1)}
    /\ Budget /\ UNCHANGED <<home, allowExternal, migrated, flight, job, blurred, gone>>

-----------------------------------------------------------------------------
(* Requests with tokens                                                    *)

Starts(kind, row) ==
  /\ Cardinality(flight) < MaxFlight
  /\ flight' = flight \cup {[kind |-> kind, row |-> row]}
  /\ Overlaps(kind, row.chain)
  /\ Budget /\ UNCHANGED <<access, refresh, home, allowExternal, migrated, generated, job, gone>>
Ends(f) == flight' = flight \ {f}

(* TokenView looks up the hash, refuses an expired token, and so does the toolkit a revoked one. *)
RefreshBegin == \E r \in refresh : r.hashed = 1 /\ ~r.expired /\ ~r.revoked /\ Starts("refresh", r)
Revoked(rows, r) == {IF x.secret = r THEN [x EXCEPT !.access = 0, !.revoked = TRUE] ELSE x : x \in rows}
(***************************************************************************)
(* Under a lock the refresh token is read again and revoked, with its      *)
(* access token, unless it is already; who comes second is given what the  *)
(* first one got; otherwise new tokens with the scope of the old.          *)
(***************************************************************************)
RefreshEnd(f) ==
  /\ f.kind = "refresh" /\ Ends(f)
  /\ \E r \in refresh :
       LET previous == {a \in access : a.source = r.secret}
           old == {a \in access : a.secret = r.access}
           kept == IF r.revoked THEN access ELSE access \ old
           scope == UNION {a.scope : a \in IF old = {} THEN previous ELSE old}
       IN /\ r.secret = f.row.secret
          /\ IF previous # {} THEN access' = kept /\ refresh' = Revoked(refresh, r.secret) /\ generated' = generated
             ELSE IF ~validate_external_users(r.user) THEN UNCHANGED <<access, refresh, generated>>
             ELSE /\ Generates(2)
                  /\ access' = kept \cup {NewAccess(generated + 1, r.user, r.app, scope, r.secret, r.chain)}
                  /\ refresh' = Revoked(refresh, r.secret)
                                \cup {NewRefresh(generated + 2, r.user, r.app, generated + 1, r.chain)}
  /\ UNCHANGED <<home, allowExternal, migrated, job, blurred, gone, work>>
RefreshFails(f) ==
  /\ f.kind = "refresh" /\ Ends(f)
  /\ \A r \in refresh : r.secret # f.row.secret
  /\ UNCHANGED <<access, refresh, home, allowExternal, migrated, generated, job, blurred, gone, work>>

(* An update loads the row and saves all of it, and inserts it when it is gone. *)
UpdateBegin(u) == \E t \in access : Reaches(u, t, FALSE) /\ Starts("update", t)
UpdateEnd(f) ==
  /\ f.kind = "update" /\ Ends(f)
  /\ \E app \in Applications \cup {Nothing}, scope \in Scopes \ {{}} :
       access' = {a \in access : a.secret # f.row.secret}
                 \cup {[f.row EXCEPT !.app = app, !.scope = scope,
                                     !.source = IF \E r \in refresh : r.secret = @ THEN @ ELSE NoSource]}
  /\ UNCHANGED <<refresh, home, allowExternal, migrated, generated, job, blurred, gone, work>>

(* is_valid: whose last use is saved is looked for first, and only that field is saved. *)
Authenticates(t) == t.hashed = 1 /\ ~t.expired
UseBegin == \E t \in access : Authenticates(t) /\ Starts("use", t)
SavesAll(t) == {a \in access : a.secret # t.secret} \cup {t}
LastUsed(t) == access
UseEnd(f) ==
  /\ f.kind = "use" /\ Ends(f)
  /\ access' = LastUsed(f.row)
  /\ UNCHANGED <<refresh, home, allowExternal, migrated, generated, job, blurred, gone, work>>

-----------------------------------------------------------------------------
(* Deleting and revoking                                                   *)

Deletes(rows) ==
  /\ access' = access \ rows
  /\ refresh' = {IF \E a \in rows : a.secret = r.access THEN [r EXCEPT !.access = 0] ELSE r : r \in refresh}
Delete(u) ==
  /\ \E t \in access : Reaches(u, t, FALSE) /\ Deletes({t}) /\ Disturbs({t.chain})
  /\ Budget /\ UNCHANGED <<home, allowExternal, migrated, generated, flight, job, gone>>
(* /o/revoke_token/ is the toolkit's own view: it looks for the secret, not for its hash. *)
RevokeByValue ==
  /\ \/ \E t \in access : t.hashed = 0 /\ Deletes({t}) /\ Disturbs({t.chain})
     \/ \E r \in refresh :
          /\ r.hashed = 0 /\ ~r.revoked
          /\ access' = {a \in access : a.secret # r.access} /\ refresh' = Revoked(refresh, r.secret)
          /\ Disturbs({r.chain})
  /\ Budget /\ UNCHANGED <<home, allowExternal, migrated, generated, flight, job, gone>>

JobStarts(kind, u, app, r, a, chains) ==
  /\ job.kind = "none"
  /\ job' = [kind |-> kind, user |-> u, app |-> app, refresh |-> r, access |-> a, chains |-> chains]
  /\ Disturbs(Chains(access \cup refresh))
  /\ Budget /\ UNCHANGED <<access, refresh, home, allowExternal, migrated, generated, flight, gone>>
(***************************************************************************)
(* revoke_oauth2_tokens, for a user or for all: with --all the refresh     *)
(* tokens are listed and revoked first; then the access tokens.            *)
(***************************************************************************)
Of(rows, u) == {r \in rows : u # Nothing => r.user = u}
Secrets(rows) == {r.secret : r \in rows}
CommandStarts(u, all) ==
  IF all THEN JobStarts("refresh", u, Nothing, Secrets({r \in Of(refresh, u) : ~r.revoked}), {}, Chains(access \cup refresh))
  ELSE JobStarts("access", u, Nothing, {}, Secrets(Of(access, u)), {})
(* do_logout: the user's tokens with openid, of one application or of all. *)
Openid(u, app) == {a \in access : a.user = u /\ "openid" \in a.scope /\ (app # Nothing => a.app = app)}
LogoutStarts(u, app) ==
  JobStarts("logout", u, app, {}, Secrets(Openid(u, app)), Chains(Openid(u, app)))

Least(S) == CHOOSE x \in S : \A y \in S : x <= y
RevokeRefresh ==
  /\ job.kind = "refresh" /\ job.refresh # {}
  /\ LET s == Least(job.refresh)
         r == {x \in refresh : x.secret = s /\ ~x.revoked}
     IN /\ job' = [job EXCEPT !.refresh = @ \ {s}]
        /\ access' = {a \in access : \A x \in r : a.secret # x.access}
        /\ refresh' = IF r = {} THEN refresh ELSE Revoked(refresh, s)
  /\ UNCHANGED <<home, allowExternal, migrated, generated, flight, blurred, gone, work>>
ListAccess ==
  /\ job.kind = "refresh" /\ job.refresh = {}
  /\ job' = [job EXCEPT !.kind = "access", !.access = Secrets(Of(access, job.user))]
  /\ UNCHANGED <<access, refresh, home, allowExternal, migrated, generated, flight, blurred, gone, work>>
(* Logging out revokes the refresh token of each access token too. *)
Linked(s) == {r.secret : r \in {r \in refresh : r.access = s /\ job.kind = "logout"}}
RevokeAccess ==
  /\ job.kind \in {"access", "logout"} /\ job.access # {}
  /\ LET s == Least(job.access)
     IN /\ job' = [job EXCEPT !.access = @ \ {s}]
        /\ access' = {a \in access : a.secret # s}
        /\ refresh' = {IF r.secret \in Linked(s) THEN [r EXCEPT !.access = 0, !.revoked = TRUE]
                       ELSE IF r.access = s THEN [r EXCEPT !.access = 0] ELSE r : r \in refresh}
  /\ UNCHANGED <<home, allowExternal, migrated, generated, flight, blurred, gone, work>>
JobEnds ==
  /\ job.kind \in {"access", "logout"} /\ job.access = {}
  /\ job' = NoJob
  /\ gone' = gone \cup ((job.chains \ blurred) \X {u \in Users : job.user \in {Nothing, u}})
  /\ UNCHANGED <<access, refresh, home, allowExternal, migrated, generated, flight, blurred, work>>

-----------------------------------------------------------------------------
(* Time and the administrator                                              *)

Expired(rows, s) == {IF r.secret = s THEN [r EXCEPT !.expired = TRUE] ELSE r : r \in rows}
TokenExpires ==
  /\ \E r \in access \cup refresh :
       /\ ~r.expired
       /\ access' = Expired(access, r.secret) /\ refresh' = Expired(refresh, r.secret)
       /\ flight' = {[f EXCEPT !.row.expired = @ \/ f.row.secret = r.secret] : f \in flight}
  /\ Budget /\ UNCHANGED <<home, allowExternal, migrated, generated, job, blurred, gone>>
(* cleanup_tokens: refresh tokens that are past, then the expired access tokens that nothing refreshes. *)
CleanupTokens ==
  LET past == {r \in refresh : r.expired /\ (r.revoked \/ \E a \in access : a.secret = r.access /\ a.expired)}
      left == refresh \ past
  IN /\ refresh' = left
     /\ access' = {[a EXCEPT !.source = IF \E r \in left : r.secret = @ THEN @ ELSE NoSource] :
                     a \in {a \in access : a.expired => \E r \in left : r.access = a.secret}}
     /\ Budget /\ UNCHANGED <<home, allowExternal, migrated, generated, flight, job, blurred, gone>>
MoveApplication ==
  /\ \E app \in Applications, o \in Organizations : o # home[app] /\ home' = [home EXCEPT ![app] = o]
  /\ Budget /\ UNCHANGED <<access, refresh, allowExternal, migrated, generated, flight, job, blurred, gone>>
(* A token that starts with "$" is hashed already.  Requests wait for migrations. *)
Hashed(r) == IF r.hashed > 0 THEN r ELSE [r EXCEPT !.hashed = @ + 1]
hash_tokens ==
  /\ flight = {} /\ job = NoJob /\ ~migrated /\ migrated' = TRUE
  /\ access' = {Hashed(t) : t \in access} /\ refresh' = {Hashed(r) : r \in refresh}
  /\ UNCHANGED <<home, allowExternal, generated, flight, job, blurred, gone, work>>

TokensNext ==
  \/ \E u \in Creators : Create(u) \/ Grant(u)
  \/ RefreshBegin \/ UseBegin
  \/ \E u \in Users : UpdateBegin(u) \/ Delete(u)
  \/ \E u \in Users \cup {Nothing}, all \in BOOLEAN : CommandStarts(u, all)
  \/ \E u \in Users, app \in Applications \cup {Nothing} : LogoutStarts(u, app)
  \/ \E f \in flight : RefreshEnd(f) \/ RefreshFails(f) \/ UpdateEnd(f) \/ UseEnd(f)
  \/ RevokeByValue \/ RevokeRefresh \/ ListAccess \/ RevokeAccess \/ JobEnds
  \/ TokenExpires \/ CleanupTokens \/ MoveApplication \/ hash_tokens
TokensSpec == TokensInit /\ [][TokensNext]_tokenVars

-----------------------------------------------------------------------------
TokensTypeOK ==
  /\ access \subseteq Access /\ refresh \subseteq Refresh
  /\ generated \in 0 .. MaxSecrets
  /\ home \in [Applications -> Organizations]
  /\ gone \subseteq (1 .. MaxSecrets) \X Users

(* migrations/_utils.py:12: after the migration every secret is found by its hash, once hashed. *)
HashedOnce == migrated => \A r \in access \cup refresh : r.hashed = 1

(***************************************************************************)
(* revoke_oauth2_tokens.py:21-38, views/oidc.py:64-88: what the command or *)
(* a logout revoked for a user stays so: no later refresh, update or use   *)
(* of a token of the same chain makes something that acts as that user,    *)
(* unless it, or another request or a deletion before it, overlapped with  *)
(* a request about the chain.                                              *)
(***************************************************************************)
RevokedStaysRevoked ==
  \A g \in gone :
    /\ \A a \in access : <<a.chain, a.user>> # g
    /\ \A r \in refresh : <<r.chain, r.user>> # g \/ r.revoked

(* views/permissions.py:6-21: who can read, and who can change or delete a token. *)
ReachedAsDocumented ==
  \A u \in Users, t \in access, safe \in BOOLEAN :
    Reaches(u, t, safe) <=>
      \/ u \in Superusers \/ u = t.user
      \/ safe /\ u \in Auditors
      \/ t.app # Nothing /\ u \in OrgAdmins[home[t.app]]

(* Whatever requests, commands and the migration overlap, a token is kept    *)
(* hashed once, what was revoked stays revoked, and a token is reached by    *)
(* those the permission class names and nobody else.                         *)
TokensKeepTheirWord ==
  TokensTypeOK /\ HashedOnce /\ RevokedStaysRevoked /\ ReachedAsDocumented
=============================================================================

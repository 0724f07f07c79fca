------------------------------- MODULE JwtConsumer -------------------------------
(***************************************************************************)
(* A service that trusts the gateway's tokens: RbacAwareJWTAuthentication  *)
(* and save_user_claims.  The gateway signs a token for each request it    *)
(* passes on; the token names the user and carries a hash of the user's    *)
(* roles.  The worker that gets the request verifies the signature with a  *)
(* cached key, finds or creates the local account, and, unless the hash is *)
(* the cached one or that of the local roles, fetches the roles from the   *)
(* gateway and stores them.  The database and the cache are shared by the  *)
(* workers, and nothing locks a user: one action is one query, one cache   *)
(* access or one transaction.                                              *)
(*                                                                         *)
(* There is one gateway user.  Claims are sets of role assignments, and    *)
(* the hash of a set of claims is the set itself.                          *)
(***************************************************************************)
EXTENDS Naturals, FiniteSets

CONSTANTS Worker,        \* worker processes of the service
          Claim,         \* role assignments: a JWT managed role on an object, or globally
          Unknown,       \* those whose role definition the service cannot find or make
          Name,          \* user names
          Mail,          \* values of the other user fields in a token
          None,          \* no account, no cache entry
          InitOwn,       \* names that accounts of the service's own may have, without roles
          Superuser,     \* is the user a superuser
          LocalGrant,    \* sets of roles that the service itself may give the user
          MaxChanges,    \* bound on changes by people and on rotations of the key
          MaxFailures    \* bound on failing calls

UserData == [name : Name, mail : Mail]

ASSUME JwtAssumption ==
    /\ Unknown \subseteq Claim
    /\ InitOwn \subseteq Name
    /\ None \notin Nat \cup UserData
    /\ \A C \in SUBSET Claim : C # None
    /\ LocalGrant \subseteq SUBSET (Claim \ Unknown)
    /\ Superuser \in BOOLEAN
    /\ {MaxChanges, MaxFailures} \subseteq Nat

VARIABLES gateway,    \* the user, the names it has had, its claims, and the signing key
          db,         \* the user's account and roles, other accounts
          cache,      \* ansible_base_jwt_public_key and claims_hash_<user>
          req,        \* the request each worker is busy with
          changes, failures

vars == <<gateway, db, cache, req, changes, failures>>

\* key, user, claims: the token's; using, cached: the key to decode it with and
\* whether it came from the cache; seen: the account as the worker loaded it;
\* given: what save_user_claims assigns; alone serves the properties: nobody
\* else has written the user's roles since.  A field that is no longer read is
\* reset.
NoRequest == [phase |-> "idle", key |-> None, user |-> None, claims |-> {}, using |-> None,
              cached |-> FALSE, seen |-> None, fetched |-> None, given |-> {}, alone |-> TRUE]

Init == /\ gateway \in [user : UserData, names : SUBSET Name, claims : SUBSET Claim, key : {0}]
        /\ gateway.names = {gateway.user.name}
        /\ db \in [account : {None}, own : SUBSET InitOwn, roles : {{}}]
        /\ cache = [key |-> None, hash |-> None]
        /\ req = [w \in Worker |-> NoRequest]
        /\ changes = 0 /\ failures = 0

Failed == failures < MaxFailures /\ failures' = failures + 1
At(w, p) == req[w].phase = p
Becomes(w, r) == req' = [req EXCEPT ![w] = r]
Goto(w, p) == Becomes(w, [req[w] EXCEPT !.phase = p])
End(w, outcome) == Becomes(w, [NoRequest EXCEPT !.phase = outcome])
\* The request of v, when somebody else writes the user's roles.
Disturbed(v) == IF req[v].phase \in {"stale", "hash"} THEN [req[v] EXCEPT !.alone = FALSE]
                ELSE req[v]
\* The request of w writes the user's roles and becomes r.
Writes(w, r) == req' = [v \in Worker |-> IF v = w THEN r ELSE Disturbed(v)]

-----------------------------------------------------------------------------
(* Changes by people, and the expiry of cache entries *)

Changed == changes < MaxChanges /\ changes' = changes + 1

GatewayGrants(C) ==
    /\ C # gateway.claims
    /\ Changed
    /\ gateway' = [gateway EXCEPT !.claims = C]
    /\ UNCHANGED <<db, cache, req, failures>>

GatewayEdits(u) ==
    /\ u # gateway.user
    /\ Changed
    /\ gateway' = [gateway EXCEPT !.user = u, !.names = @ \cup {u.name}]
    /\ UNCHANGED <<db, cache, req, failures>>

\* Keys are numbered in the order the gateway uses them.
GatewayRotates ==
    /\ Changed
    /\ gateway' = [gateway EXCEPT !.key = @ + 1]
    /\ UNCHANGED <<db, cache, req, failures>>

\* An administrator of the service, or its sync task, changes the user's roles.
ServiceGrants(C) ==
    /\ db.account # None /\ C # db.roles /\ C \in LocalGrant
    /\ Changed
    /\ db' = [db EXCEPT !.roles = C]
    /\ req' = [v \in Worker |-> Disturbed(v)]
    /\ UNCHANGED <<gateway, cache, failures>>

ExpireKey == cache.key # None /\ cache' = [cache EXCEPT !.key = None]
             /\ UNCHANGED <<gateway, db, req, changes, failures>>
ExpireHash == cache.hash # None /\ cache' = [cache EXCEPT !.hash = None]
              /\ UNCHANGED <<gateway, db, req, changes, failures>>

-----------------------------------------------------------------------------
(* The signature (parse_jwt_token, JWTCert.get_decryption_key) *)

StartRequest(w) ==
    /\ At(w, "idle")
    /\ Becomes(w, [NoRequest EXCEPT !.phase = "key", !.key = gateway.key, !.user = gateway.user,
                                    !.claims = gateway.claims])
    /\ UNCHANGED <<gateway, db, cache, changes, failures>>

\* The key is loaded from the gateway and cached.
LoadKey(w) ==
    /\ Becomes(w, [req[w] EXCEPT !.phase = "decode", !.using = gateway.key, !.cached = FALSE])
    /\ cache' = [cache EXCEPT !.key = gateway.key]

GetKey(w) ==
    /\ At(w, "key")
    /\ IF cache.key # None
       THEN /\ Becomes(w, [req[w] EXCEPT !.phase = "decode", !.using = cache.key, !.cached = TRUE])
            /\ UNCHANGED cache
       ELSE LoadKey(w)
    /\ UNCHANGED <<gateway, db, changes, failures>>

Authentic(w) == Becomes(w, [req[w] EXCEPT !.phase = "user", !.key = None, !.using = None,
                                          !.cached = FALSE])
Refuse(w) == Becomes(w, [NoRequest EXCEPT !.phase = "refused", !.key = req[w].key])

\* Fault: a cached key that does not fit is not loaded again.
DecodeOnce(w) ==
    /\ At(w, "decode")
    /\ IF req[w].key = req[w].using THEN Authentic(w) ELSE Refuse(w)
    /\ UNCHANGED <<gateway, db, cache, changes, failures>>

\* A cached key that does not fit is loaded again, and the new one tried once.
Decode(w) ==
    /\ At(w, "decode")
    /\ IF req[w].key = req[w].using THEN Authentic(w) /\ UNCHANGED cache
       ELSE IF req[w].cached /\ gateway.key # req[w].using THEN LoadKey(w)
       ELSE IF req[w].cached
            THEN Refuse(w) /\ cache' = [cache EXCEPT !.key = gateway.key]
            ELSE Refuse(w) /\ UNCHANGED cache
    /\ UNCHANGED <<gateway, db, changes, failures>>

KeyFails(w) ==
    /\ \/ At(w, "key") /\ cache.key = None
       \/ At(w, "decode") /\ req[w].cached /\ req[w].key # req[w].using
    /\ Failed
    /\ End(w, "denied")
    /\ UNCHANGED <<gateway, db, cache, changes>>

-----------------------------------------------------------------------------
(* The account (parse_jwt_token, Resource.create_resource, map_user_fields) *)

FindUser(w) ==
    /\ At(w, "user")
    /\ IF db.account # None
       THEN Becomes(w, [req[w] EXCEPT !.phase = "map", !.seen = db.account])
       ELSE Goto(w, "create")
    /\ UNCHANGED <<gateway, db, cache, changes, failures>>

\* The worker has stored the account as the token has it.
Stored(w) == Becomes(w, [req[w] EXCEPT !.phase = "map", !.seen = req[w].user])

\* One transaction: user names and ansible_ids are unique.
CreateUser(w) ==
    /\ At(w, "create")
    /\ IF db.account = None /\ req[w].user.name \notin db.own
       THEN /\ db' = [db EXCEPT !.account = req[w].user, !.roles = {}]
            /\ Stored(w)
       ELSE /\ Goto(w, "adopt")
            /\ UNCHANGED db
    /\ UNCHANGED <<gateway, cache, changes, failures>>

HasName(n) == db.account # None /\ db.account.name = n

\* Fault: the account is made again instead of being looked for.
AdoptCreating(w) ==
    /\ At(w, "adopt")
    /\ End(w, "error")
    /\ UNCHANGED <<gateway, db, cache, changes, failures>>

\* After an IntegrityError: the account of that name is updated or created and
\* given the token's ansible_id, which fails when another account has it.
AdoptUser(w) ==
    /\ At(w, "adopt")
    /\ \/ /\ HasName(req[w].user.name)
          /\ db' = [db EXCEPT !.account = req[w].user]
          /\ Stored(w)
       \/ /\ db.account = None
          /\ db' = [db EXCEPT !.account = req[w].user, !.roles = {}, !.own = @ \ {req[w].user.name}]
          /\ Stored(w)
       \/ /\ db.account # None /\ ~HasName(req[w].user.name)
          /\ db' = [db EXCEPT !.own = @ \cup {req[w].user.name}]
          /\ End(w, "error")
    /\ UNCHANGED <<gateway, cache, changes, failures>>

\* The loaded account with the token's fields; a new name that is taken, if only
\* because another worker has just stored it, is left for the sync task.
Mapped(w) ==
    IF req[w].user.name # req[w].seen.name /\ (req[w].user.name \in db.own \/ HasName(req[w].user.name))
    THEN [req[w].user EXCEPT !.name = req[w].seen.name]
    ELSE req[w].user

\* All columns are saved if one of the fields differs, which fails when the
\* name has become another account's.
MapUserFields(w) ==
    /\ At(w, "map")
    /\ \/ /\ Mapped(w) # req[w].seen /\ Mapped(w).name \in db.own
          /\ End(w, "error")
          /\ UNCHANGED db
       \/ /\ Mapped(w) = req[w].seen \/ Mapped(w).name \notin db.own
          /\ db' = IF Mapped(w) = req[w].seen THEN db ELSE [db EXCEPT !.account = Mapped(w)]
          /\ Becomes(w, [req[w] EXCEPT !.phase = "cached", !.user = None, !.seen = None])
    /\ UNCHANGED <<gateway, cache, changes, failures>>

-----------------------------------------------------------------------------
(* The roles (process_rbac_permissions, save_user_claims) *)

CheckCachedHash(w) ==
    /\ At(w, "cached")
    /\ IF cache.hash = req[w].claims THEN End(w, "accepted") ELSE Goto(w, "local")
    /\ UNCHANGED <<gateway, db, cache, changes, failures>>

\* Fault: a hash that is not that of the local roles is trusted as well.
TrustAnyHash(w) ==
    /\ At(w, "local")
    /\ Goto(w, "hash")
    /\ UNCHANGED <<gateway, db, cache, changes, failures>>

CheckLocalHash(w) ==
    /\ At(w, "local")
    /\ Goto(w, IF db.roles = req[w].claims THEN "hash" ELSE "fetch")
    /\ UNCHANGED <<gateway, db, cache, changes, failures>>

FetchClaims(w) ==
    /\ At(w, "fetch")
    /\ Becomes(w, [req[w] EXCEPT !.phase = "give", !.fetched = gateway.claims])
    /\ UNCHANGED <<gateway, db, cache, changes, failures>>

\* Locked (423) or failing: only a superuser gets past a locked gateway.
FetchFails(w) ==
    /\ At(w, "fetch")
    /\ Failed
    /\ \/ End(w, "denied")
       \/ Superuser /\ End(w, "accepted")
    /\ UNCHANGED <<gateway, db, cache, changes>>

\* Passes 1 and 2; the claim x is skipped when its object can neither be made
\* nor found, which get_or_create_resource reports as an IntegrityError.
GiveRoles(w) ==
    /\ At(w, "give")
    /\ \E skipped \in {{}} \cup {{x} : x \in req[w].fetched \ Unknown} :
         /\ IF skipped = {} THEN UNCHANGED failures ELSE Failed
         /\ LET given == req[w].fetched \ (Unknown \cup skipped)
            IN  /\ db' = [db EXCEPT !.roles = @ \cup given]
                /\ Writes(w, [req[w] EXCEPT !.phase = "stale", !.given = given])
    /\ UNCHANGED <<gateway, cache, changes>>

\* Fault: pass 3 is left out.
RemoveNothing(w) ==
    /\ At(w, "stale")
    /\ Goto(w, "hash")
    /\ UNCHANGED <<gateway, db, cache, changes, failures>>

\* Pass 3
RemoveStale(w) ==
    /\ At(w, "stale")
    /\ db' = [db EXCEPT !.roles = @ \cap req[w].given]
    /\ Writes(w, [req[w] EXCEPT !.phase = "hash"])
    /\ UNCHANGED <<gateway, cache, changes, failures>>

\* save_user_claims breaks off: what it has given stays.
SaveFails(w) ==
    /\ req[w].phase \in {"give", "stale"}
    /\ Failed
    /\ End(w, "denied")
    /\ UNCHANGED <<gateway, db, cache, changes>>

\* What is cached is the hash in the token, whatever was fetched.
CacheHash(w) ==
    /\ At(w, "hash")
    /\ cache' = [cache EXCEPT !.hash = req[w].claims]
    /\ End(w, "accepted")
    /\ UNCHANGED <<gateway, db, changes, failures>>

Done == {"accepted", "denied", "refused", "error"}
EndRequest(w) ==
    /\ req[w].phase \in Done
    /\ Becomes(w, NoRequest)
    /\ UNCHANGED <<gateway, db, cache, changes, failures>>

Step(w) == \/ GetKey(w) \/ Decode(w) \/ KeyFails(w)
           \/ FindUser(w) \/ CreateUser(w) \/ AdoptUser(w) \/ MapUserFields(w)
           \/ CheckCachedHash(w) \/ CheckLocalHash(w) \/ FetchClaims(w) \/ FetchFails(w)
           \/ GiveRoles(w) \/ RemoveStale(w) \/ SaveFails(w) \/ CacheHash(w) \/ EndRequest(w)

Next == \/ \E C \in SUBSET Claim : GatewayGrants(C) \/ ServiceGrants(C)
        \/ \E u \in UserData : GatewayEdits(u)
        \/ GatewayRotates \/ ExpireKey \/ ExpireHash
        \/ \E w \in Worker : StartRequest(w) \/ Step(w)

Spec == Init /\ [][Next]_vars

\* The user keeps sending requests, workers run, and a cached hash expires: it
\* is set with a timeout that a request which finds it there does not extend.
Fairness == /\ \A w \in Worker : WF_vars(StartRequest(w) \/ Step(w))
            /\ WF_vars(ExpireHash)
FairSpec == Spec /\ Fairness

-----------------------------------------------------------------------------
(* Properties *)

Phase == {"idle", "key", "decode", "user", "create", "adopt", "map", "cached", "local",
          "fetch", "give", "stale", "hash"} \cup Done
\* The phases before the name of the user is stored.
Named == {"key", "decode", "user", "create", "adopt", "map"}

Request == [phase : Phase, key : {None} \cup Nat, user : {None} \cup UserData,
            claims : SUBSET Claim, using : {None} \cup Nat, cached : BOOLEAN,
            seen : {None} \cup UserData, fetched : {None} \cup SUBSET Claim,
            given : SUBSET (Claim \ Unknown), alone : BOOLEAN]

\* The fields that the phase of a request reads are there.
Whole(r) == /\ r.phase \in Named => r.user \in UserData
            /\ r.phase = "map" => r.seen \in UserData

\* The account and the service's own accounts have different names (user names
\* are unique), and only roles that the service knows are ever given.
TypeOK ==
    /\ gateway \in [user : UserData, names : SUBSET Name, claims : SUBSET Claim, key : Nat]
    /\ db \in [account : {None} \cup UserData, own : SUBSET Name, roles : SUBSET (Claim \ Unknown)]
    /\ db.account # None => db.account.name \notin db.own
    /\ cache \in [key : {None} \cup Nat, hash : {None} \cup SUBSET Claim]
    /\ req \in [Worker -> Request]
    /\ \A w \in Worker : Whole(req[w])
    /\ changes \in 0 .. MaxChanges /\ failures \in 0 .. MaxFailures

\* A token is refused for its signature only when the gateway no longer signs
\* with its key: a rotated key is picked up by the request that meets it
\* (parse_jwt_token loads the key again when a cached one does not fit).
RefusedKeyWasRotated == \A w \in Worker : At(w, "refused") => req[w].key < gateway.key

\* Workers that meet a new user at the same time, or an account of that name
\* that the service already has, all authenticate (parse_jwt_token handles the
\* IntegrityError), unless the user got another name in the meantime.
NobodyFails == \A w \in Worker : At(w, "error") => gateway.names # {gateway.user.name}

\* A request that stored what it fetched, with nobody else writing the user's
\* roles meanwhile, leaves exactly the roles it gave: none of the earlier ones.
StoresOneAnswer ==
    \A w \in Worker : At(w, "hash") /\ req[w].alone /\ req[w].fetched # None =>
        db.roles = req[w].given

\* When people and failures stop, the user's roles and fields become those the
\* gateway has, and stay: what a stale hash or an overtaken request left behind
\* lasts no longer than the cache entry.
InStep == /\ db.roles = gateway.claims \ Unknown
          /\ db.account # None /\ db.account.mail = gateway.user.mail
          /\ HasName(gateway.user.name) \/ gateway.user.name \in db.own
EventuallyInStep == <>[]InStep
=============================================================================

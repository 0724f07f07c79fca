----------------------------- MODULE TokensProofs -----------------------------
(***************************************************************************)
(* Tokens keep their word for any users, applications and bounds: they are *)
(* hashed once, what was revoked stays revoked, and they are reached by    *)
(* those whom the permission class names (Tokens).  And of the gateway's   *)
(* own (JwtConsumer): the key that a refused one was signed with, the      *)
(* roles that a request leaves behind and the users it finds, for any      *)
(* workers, roles, names and bounds.                                       *)
(***************************************************************************)
EXTENDS Tokens, JwtConsumer, TLAPS

-------------------------------------------------------------------------------
(***************************************************************************)
(* The tokens of the gateway.                                              *)
(***************************************************************************)
\* Keys are only ever replaced by later ones, and one that a worker has just
\* loaded is no older than the key of the token it is for.
KeyOK(r, k) ==
    /\ r.phase \in {"key", "decode"} => r.key \in 0 .. k
    /\ r.phase = "refused" => r.key \in 0 .. (k - 1)
    /\ r.phase = "decode" => r.using \in 0 .. k /\ (r.cached \/ r.using >= r.key)
KeyInv == \A w \in Worker : KeyOK(req[w], gateway.key)
CachedKeyInv == cache.key = None \/ cache.key \in 0 .. gateway.key

\* The account that a worker is busy with exists, and what it has given is there
\* until somebody else writes the user's roles.
WithAccount == {"map", "cached", "local", "fetch", "give", "stale", "hash"}
Storing == {"give", "stale", "hash"}
StoreOK(r, d) ==
    /\ r.phase \in WithAccount => d.account # None
    /\ r.phase \in {"give", "stale"} => r.fetched # None
    /\ r.phase \notin Storing => r.fetched = None
    /\ r.phase = "stale" /\ r.alone => r.given \subseteq d.roles
    /\ r.phase = "hash" /\ r.alone /\ r.fetched # None => d.roles = r.given
StoreInv == \A w \in Worker : StoreOK(req[w], db)

IInv == TypeOK /\ KeyInv /\ CachedKeyInv /\ StoreInv

-----------------------------------------------------------------------------
(* Types *)

\* The record of an idle or finished request is a request.
LEMMA FreshRequest == ASSUME NEW p \in Phase PROVE [NoRequest EXCEPT !.phase = p] \in Request
BY DEF NoRequest, Request

\* A write by somebody else changes a request only by a flag.
LEMMA DisturbedType ==
    ASSUME req \in [Worker -> Request], NEW v \in Worker
    PROVE  /\ Disturbed(v) \in Request
           /\ Disturbed(v).phase = req[v].phase
           /\ Disturbed(v).user = req[v].user
           /\ Disturbed(v).seen = req[v].seen
BY DEF Disturbed, Request

LEMMA TypeInit == Init => TypeOK
BY JwtAssumption, FreshRequest DEF Init, TypeOK, NoRequest, Request, Phase, Named, Done, Whole, UserData

\* The part of TypeOK that is about requests.
ReqOK == /\ req \in [Worker -> Request]
         /\ \A w \in Worker : Whole(req[w])

LEMMA BecomesType ==
    ASSUME ReqOK, NEW w \in Worker, NEW r \in Request, Becomes(w, r),
           Whole(r)
    PROVE  ReqOK'
BY DEF ReqOK, Becomes

LEMMA GotoType ==
    ASSUME ReqOK, NEW w \in Worker, NEW p \in Phase, Goto(w, p),
           p \in Named => req[w].user \in UserData, p # "map"
    PROVE  ReqOK'
<1> DEFINE r == [req[w] EXCEPT !.phase = p]
<1>1. r \in Request /\ r.phase = p /\ r.user = req[w].user
      BY DEF ReqOK, Request
<1>2. Becomes(w, r)
      BY DEF Goto
<1> HIDE DEF r
<1> QED BY <1>1, <1>2, BecomesType DEF Whole

LEMMA StoredType ==
    ASSUME ReqOK, NEW w \in Worker, Stored(w), req[w].user \in UserData
    PROVE  ReqOK'
<1> DEFINE r == [req[w] EXCEPT !.phase = "map", !.seen = req[w].user]
<1>1. r \in Request /\ r.seen = req[w].user /\ r.user = req[w].user
      BY DEF ReqOK, Request, Phase
<1>2. Becomes(w, r)
      BY DEF Stored
<1> HIDE DEF r
<1> QED BY <1>1, <1>2, BecomesType DEF Whole

LEMMA EndType ==
    ASSUME ReqOK, NEW w \in Worker, NEW p \in Done, End(w, p)
    PROVE  ReqOK'
<1>1. p \in Phase /\ p \notin Named
      BY DEF Phase, Done, Named, Whole
<1>2. [NoRequest EXCEPT !.phase = p].phase = p
      BY DEF NoRequest
<1> QED BY <1>1, <1>2, FreshRequest, BecomesType DEF End, Whole, Named

LEMMA WritesType ==
    ASSUME ReqOK, NEW w \in Worker, NEW r \in Request, Writes(w, r),
           Whole(r)
    PROVE  ReqOK'
BY DisturbedType DEF ReqOK, Writes, Whole

LEMMA TypeNext == TypeOK /\ StoreInv /\ [Next]_vars => TypeOK'
<1> SUFFICES ASSUME TypeOK, StoreInv, [Next]_vars PROVE TypeOK'
    OBVIOUS
<1> USE JwtAssumption
<1>0. ReqOK
      BY DEF TypeOK, ReqOK
<1>a. ASSUME ReqOK', UNCHANGED <<gateway, db, cache, changes, failures>> PROVE TypeOK'
      BY <1>a DEF TypeOK, ReqOK
<1>b. ASSUME ReqOK', UNCHANGED <<gateway, db, cache, changes>>, Failed PROVE TypeOK'
      BY <1>b DEF TypeOK, ReqOK, Failed
<1>c. ASSUME Changed PROVE changes' \in 0 .. MaxChanges
      BY <1>c DEF TypeOK, Changed
<1>d. ASSUME UNCHANGED req PROVE ReqOK'
      BY <1>0, <1>d DEF ReqOK
<1>1. ASSUME NEW C \in SUBSET Claim, GatewayGrants(C) PROVE TypeOK'
      BY <1>1, <1>c DEF GatewayGrants, TypeOK
<1>2. ASSUME NEW C \in SUBSET Claim, ServiceGrants(C) PROVE TypeOK'
  <2>2. ReqOK'
        BY <1>0, <1>2, DisturbedType DEF ServiceGrants, ReqOK, Whole
  <2> QED BY <1>2, <1>c, <2>2 DEF ServiceGrants, TypeOK, ReqOK
<1>3. ASSUME NEW u \in UserData, GatewayEdits(u) PROVE TypeOK'
      BY <1>3, <1>c DEF GatewayEdits, TypeOK, UserData
<1>4. CASE GatewayRotates
      BY <1>4, <1>c DEF GatewayRotates, TypeOK
<1>5. CASE ExpireKey
      BY <1>5 DEF ExpireKey, TypeOK
<1>6. CASE ExpireHash
      BY <1>6 DEF ExpireHash, TypeOK
<1>7. ASSUME NEW w \in Worker, StartRequest(w) PROVE TypeOK'
  <2> DEFINE r == [NoRequest EXCEPT !.phase = "key", !.key = gateway.key,
                            !.user = gateway.user, !.claims = gateway.claims]
  <2>r. r \in Request /\ Whole(r)
        BY <1>0, <1>7 DEF TypeOK, NoRequest, ReqOK, Request, Phase, Named, Whole
  <2>b. Becomes(w, r)
        BY <1>7 DEF StartRequest
  <2> HIDE DEF r
  <2>1. ReqOK'
        BY <1>0, <2>r, <2>b, BecomesType
  <2> QED BY <1>7, <2>1, <1>a DEF StartRequest
<1>8. ASSUME NEW w \in Worker, Step(w) PROVE TypeOK'
  <2>1. CASE GetKey(w)
    <3>1. req[w] \in Request /\ req[w].user \in UserData
          BY <1>0, <2>1 DEF GetKey, At, ReqOK, Named, Whole
    <3>2. CASE cache.key # None
      <4> DEFINE r == [req[w] EXCEPT !.phase = "decode", !.using = cache.key, !.cached = TRUE]
      <4>r. r \in Request /\ Whole(r)
            BY <1>0, <2>1, <3>1, <3>2 DEF TypeOK, ReqOK, Request, Phase, Named, Whole
      <4>b. Becomes(w, r)
            BY <2>1, <3>1, <3>2 DEF GetKey
      <4> HIDE DEF r
      <4>1. ReqOK'
            BY <1>0, <4>r, <4>b, BecomesType
      <4> QED BY <2>1, <3>2, <4>1, <1>a DEF GetKey
    <3>3. CASE cache.key = None
      <4> DEFINE r == [req[w] EXCEPT !.phase = "decode", !.using = gateway.key, !.cached = FALSE]
      <4>r. r \in Request /\ Whole(r)
            BY <1>0, <2>1, <3>1, <3>3 DEF TypeOK, ReqOK, Request, Phase, Named, Whole
      <4>b. Becomes(w, r)
            BY <2>1, <3>1, <3>3 DEF GetKey, LoadKey
      <4> HIDE DEF r
      <4>1. ReqOK'
            BY <1>0, <4>r, <4>b, BecomesType
      <4> QED BY <2>1, <3>3, <4>1 DEF GetKey, LoadKey, TypeOK, ReqOK
    <3> QED BY <3>2, <3>3
  <2>2. CASE Decode(w)
    <3>0. req[w] \in Request /\ req[w].user \in UserData
          BY <1>0, <2>2 DEF Decode, At, ReqOK, Named, Whole
    <3>1. ReqOK'
      <4>1. CASE Authentic(w)
        <5> DEFINE r == [req[w] EXCEPT !.phase = "user", !.key = None, !.using = None, !.cached = FALSE]
        <5>r. r \in Request /\ Whole(r)
              BY <1>0, <3>0, <4>1 DEF ReqOK, Request, Phase, Named, Whole
        <5>b. Becomes(w, r)
              BY <3>0, <4>1 DEF Authentic
        <5> HIDE DEF r
        <5> QED BY <1>0, <5>r, <5>b, BecomesType
      <4>2. CASE LoadKey(w)
        <5> DEFINE r == [req[w] EXCEPT !.phase = "decode", !.using = gateway.key, !.cached = FALSE]
        <5>r. r \in Request /\ Whole(r)
              BY <1>0, <3>0, <4>2 DEF TypeOK, ReqOK, Request, Phase, Named, Whole
        <5>b. Becomes(w, r)
              BY <3>0, <4>2 DEF LoadKey
        <5> HIDE DEF r
        <5> QED BY <1>0, <5>r, <5>b, BecomesType
      <4>3. CASE Refuse(w)
        <5> DEFINE r == [NoRequest EXCEPT !.phase = "refused", !.key = req[w].key]
        <5>r. r \in Request /\ r.phase = "refused"
              BY <3>0 DEF NoRequest, Request, Phase, Done
        <5>b. Becomes(w, r)
              BY <4>3 DEF Refuse
        <5> HIDE DEF r
        <5> QED BY <1>0, <5>r, <5>b, BecomesType DEF Whole, Named
      <4> QED BY <2>2, <4>1, <4>2, <4>3 DEF Decode
    <3>2. cache' \in [key : {None} \cup Nat, hash : {None} \cup SUBSET Claim]
          BY <2>2 DEF Decode, LoadKey, TypeOK
    <3> QED BY <2>2, <3>1, <3>2 DEF Decode, TypeOK, ReqOK
  <2>3. CASE KeyFails(w)
    <3>1. ReqOK'
          BY <1>0, <2>3, EndType DEF KeyFails, Done
    <3> QED BY <2>3, <3>1, <1>b DEF KeyFails
  <2>4. CASE FindUser(w)
    <3>1. req[w] \in Request /\ req[w].user \in UserData
          BY <1>0, <2>4 DEF FindUser, ReqOK, At, Named, Whole
    <3>2. CASE db.account # None
      <4> DEFINE r == [req[w] EXCEPT !.phase = "map", !.seen = db.account]
      <4>0. db.account \in UserData
            BY <3>2 DEF TypeOK
      <4>r. r \in Request /\ r.seen = db.account /\ r.user = req[w].user
            BY <3>1, <4>0 DEF Request, Phase
      <4>b. Becomes(w, r)
            BY <2>4, <3>2 DEF FindUser
      <4> HIDE DEF r
      <4>1. ReqOK'
            BY <1>0, <3>1, <4>0, <4>r, <4>b, BecomesType DEF Whole
      <4> QED BY <2>4, <4>1, <1>a DEF FindUser
    <3>3. CASE Goto(w, "create")
          BY <1>0, <2>4, <3>1, <3>3, <1>a, GotoType DEF FindUser, Phase
    <3> QED BY <2>4, <3>2, <3>3 DEF FindUser
  <2>5. CASE CreateUser(w)
    <3>1. req[w].user \in UserData
          BY <1>0, <2>5 DEF CreateUser, ReqOK, At, Named, Whole
    <3>3. CASE Goto(w, "adopt") /\ UNCHANGED db
      <4>1. ReqOK'
            BY <1>0, <3>1, <3>3, GotoType DEF Phase
      <4> QED BY <2>5, <3>3, <4>1, <1>a DEF CreateUser
    <3>4. CASE /\ req[w].user.name \notin db.own
               /\ db' = [db EXCEPT !.account = req[w].user, !.roles = {}]
               /\ Stored(w)
      <4>1. ReqOK'
            BY <1>0, <3>1, <3>4, StoredType
      <4>2. /\ db' \in [account : {None} \cup UserData, own : SUBSET Name, roles : SUBSET (Claim \ Unknown)]
            /\ db'.account.name \notin db'.own
            BY <3>1, <3>4 DEF TypeOK
      <4> QED BY <2>5, <4>1, <4>2 DEF CreateUser, TypeOK, ReqOK
    <3> QED BY <2>5, <3>3, <3>4 DEF CreateUser
  <2>6. CASE AdoptUser(w)
    <3>1. req[w].user \in UserData /\ req[w].user.name \in Name
          BY <1>0, <2>6 DEF AdoptUser, ReqOK, At, Named, Whole, UserData
    <3>2. CASE HasName(req[w].user.name) /\ db' = [db EXCEPT !.account = req[w].user] /\ Stored(w)
      <4>1. ReqOK'
            BY <1>0, <3>1, <3>2, StoredType
      <4>2. /\ db' \in [account : {None} \cup UserData, own : SUBSET Name, roles : SUBSET (Claim \ Unknown)]
            /\ db'.account.name \notin db'.own
            BY <3>1, <3>2 DEF TypeOK, HasName
      <4> QED BY <2>6, <4>1, <4>2 DEF AdoptUser, TypeOK, ReqOK
    <3>3. CASE /\ db' = [db EXCEPT !.account = req[w].user, !.roles = {}, !.own = @ \ {req[w].user.name}]
               /\ Stored(w)
      <4>1. ReqOK'
            BY <1>0, <3>1, <3>3, StoredType
      <4>2. /\ db' \in [account : {None} \cup UserData, own : SUBSET Name, roles : SUBSET (Claim \ Unknown)]
            /\ db'.account.name \notin db'.own
            BY <3>1, <3>3 DEF TypeOK
      <4> QED BY <2>6, <4>1, <4>2 DEF AdoptUser, TypeOK, ReqOK
    <3>4. CASE /\ db.account # None /\ ~HasName(req[w].user.name)
               /\ db' = [db EXCEPT !.own = @ \cup {req[w].user.name}]
               /\ End(w, "error")
      <4>1. ReqOK'
            BY <1>0, <3>4, EndType DEF Done
      <4>2. /\ db' \in [account : {None} \cup UserData, own : SUBSET Name, roles : SUBSET (Claim \ Unknown)]
            /\ db'.account.name \notin db'.own
            BY <3>1, <3>4 DEF TypeOK, HasName
      <4> QED BY <2>6, <4>1, <4>2 DEF AdoptUser, TypeOK, ReqOK
    <3> QED BY <2>6, <3>2, <3>3, <3>4 DEF AdoptUser
  <2>7. CASE MapUserFields(w)
    <3>1. /\ req[w].user \in UserData /\ req[w].seen \in UserData
          /\ req[w] \in Request
          BY <1>0, <2>7 DEF MapUserFields, ReqOK, At, Named, Whole
    <3>2. Mapped(w) \in UserData
          BY <3>1 DEF Mapped, UserData
    <3>3. CASE End(w, "error") /\ UNCHANGED db
      <4>1. ReqOK'
            BY <1>0, <3>3, EndType DEF Done
      <4> QED BY <2>7, <3>3, <4>1, <1>a DEF MapUserFields
    <3>4. CASE /\ Mapped(w) = req[w].seen \/ Mapped(w).name \notin db.own
               /\ db' = IF Mapped(w) = req[w].seen THEN db ELSE [db EXCEPT !.account = Mapped(w)]
               /\ Becomes(w, [req[w] EXCEPT !.phase = "cached", !.user = None, !.seen = None])
      <4> DEFINE r == [req[w] EXCEPT !.phase = "cached", !.user = None, !.seen = None]
      <4>r. r \in Request /\ Whole(r)
            BY <3>1 DEF Request, Phase, Named, Whole
      <4>b. Becomes(w, r)
            BY <3>4
      <4> HIDE DEF r
      <4>1. ReqOK'
            BY <1>0, <4>r, <4>b, BecomesType
      <4>2. /\ db' \in [account : {None} \cup UserData, own : SUBSET Name, roles : SUBSET (Claim \ Unknown)]
            /\ db'.account # None => db'.account.name \notin db'.own
            BY <3>2, <3>4 DEF TypeOK
      <4> QED BY <2>7, <4>1, <4>2 DEF MapUserFields, TypeOK, ReqOK
    <3> QED BY <2>7, <3>3, <3>4 DEF MapUserFields
  <2>8. CASE CheckCachedHash(w)
    <3>1. ReqOK'
      <4>1. CASE End(w, "accepted")
            BY <1>0, <4>1, EndType DEF Done
      <4>2. CASE Goto(w, "local")
            BY <1>0, <4>2, GotoType DEF Phase, Named, Whole
      <4> QED BY <2>8, <4>1, <4>2 DEF CheckCachedHash
    <3> QED BY <2>8, <3>1, <1>a DEF CheckCachedHash
  <2>9. CASE CheckLocalHash(w)
    <3>1. ReqOK'
      <4>1. CASE Goto(w, "hash")
            BY <1>0, <4>1, GotoType DEF Phase, Named, Whole
      <4>2. CASE Goto(w, "fetch")
            BY <1>0, <4>2, GotoType DEF Phase, Named, Whole
      <4> QED BY <2>9, <4>1, <4>2 DEF CheckLocalHash
    <3> QED BY <2>9, <3>1, <1>a DEF CheckLocalHash
  <2>10. CASE FetchClaims(w)
    <3> DEFINE r == [req[w] EXCEPT !.phase = "give", !.fetched = gateway.claims]
    <3>0. req[w] \in Request /\ gateway.claims \in SUBSET Claim
          BY <1>0 DEF TypeOK, ReqOK
    <3>r. r \in Request /\ Whole(r)
          BY <3>0 DEF Request, Phase, Named, Whole
    <3>b. Becomes(w, r)
          BY <2>10 DEF FetchClaims
    <3> HIDE DEF r
    <3>1. ReqOK'
          BY <1>0, <3>r, <3>b, BecomesType
    <3> QED BY <2>10, <3>1, <1>a DEF FetchClaims
  <2>11. CASE FetchFails(w)
    <3>1. ReqOK'
          BY <1>0, <2>11, EndType DEF FetchFails, Done
    <3> QED BY <2>11, <3>1, <1>b DEF FetchFails
  <2>12. CASE GiveRoles(w)
    <3>0. /\ req[w] \in Request
          /\ req[w].fetched \in SUBSET Claim
          BY <1>0, <2>12 DEF GiveRoles, At, ReqOK, StoreInv, StoreOK, Request
    <3>1. PICK G \in SUBSET (Claim \ Unknown) :
             /\ db' = [db EXCEPT !.roles = @ \cup G]
             /\ Writes(w, [req[w] EXCEPT !.phase = "stale", !.given = G])
          BY <2>12, <3>0 DEF GiveRoles
    <3> DEFINE r == [req[w] EXCEPT !.phase = "stale", !.given = G]
    <3>r. r \in Request /\ Whole(r)
          BY <1>0, <3>0, <3>1 DEF ReqOK, Request, Phase, Named, Whole
    <3>b. Writes(w, r)
          BY <3>0, <3>1 DEF Writes
    <3> HIDE DEF r
    <3>2. ReqOK'
          BY <1>0, <3>r, <3>b, WritesType
    <3>3. failures' \in 0 .. MaxFailures
          BY <2>12 DEF GiveRoles, Failed, TypeOK
    <3> QED BY <2>12, <3>1, <3>2, <3>3 DEF GiveRoles, TypeOK, ReqOK
  <2>13. CASE RemoveStale(w)
    <3> DEFINE r == [req[w] EXCEPT !.phase = "hash"]
    <3>r. r \in Request /\ Whole(r)
          BY <1>0, <2>13 DEF ReqOK, Request, Phase, Named, Whole
    <3>b. Writes(w, r)
          BY <2>13 DEF RemoveStale
    <3> HIDE DEF r
    <3>1. ReqOK'
          BY <1>0, <3>r, <3>b, WritesType
    <3> QED BY <2>13, <3>1 DEF RemoveStale, TypeOK, ReqOK
  <2>14. CASE SaveFails(w)
    <3>1. ReqOK'
          BY <1>0, <2>14, EndType DEF SaveFails, Done
    <3> QED BY <2>14, <3>1, <1>b DEF SaveFails
  <2>15. CASE CacheHash(w)
    <3>1. ReqOK'
          BY <1>0, <2>15, EndType DEF CacheHash, Done
    <3>2. req[w].claims \in SUBSET Claim
          BY <1>0 DEF ReqOK, Request
    <3> QED BY <2>15, <3>1, <3>2 DEF CacheHash, TypeOK, ReqOK
  <2>16. CASE EndRequest(w)
    <3>0. NoRequest \in Request /\ Whole(NoRequest)
          BY DEF NoRequest, Request, Phase, Named, Whole
    <3>1. ReqOK'
          BY <1>0, <2>16, <3>0, BecomesType DEF EndRequest
    <3> QED BY <2>16, <3>1, <1>a DEF EndRequest
  <2> QED BY <1>8, <2>1, <2>2, <2>3, <2>4, <2>5, <2>6, <2>7, <2>8, <2>9, <2>10, <2>11,
             <2>12, <2>13, <2>14, <2>15, <2>16 DEF Step
<1>9. CASE UNCHANGED vars
      BY <1>9 DEF vars, TypeOK
<1> QED BY <1>1, <1>2, <1>3, <1>4, <1>5, <1>6, <1>7, <1>8, <1>9 DEF Next

-----------------------------------------------------------------------------
(* Keys *)

LEMMA BecomesKey ==
    ASSUME ReqOK, KeyInv, NEW w \in Worker, NEW r, Becomes(w, r),
           KeyOK(r, gateway.key), UNCHANGED gateway
    PROVE  KeyInv'
BY DEF ReqOK, KeyInv, Becomes, KeyOK

LEMMA GotoKey ==
    ASSUME ReqOK, KeyInv, NEW w \in Worker, NEW p, p \notin {"key", "decode", "refused"},
           Goto(w, p), UNCHANGED gateway
    PROVE  KeyInv'
<1> DEFINE r == [req[w] EXCEPT !.phase = p]
<1>1. r.phase = p
      BY DEF ReqOK, Request
<1>2. KeyOK(r, gateway.key)
      BY <1>1 DEF KeyOK
<1>3. Becomes(w, r)
      BY DEF Goto
<1> HIDE DEF r
<1> QED BY <1>2, <1>3, BecomesKey

LEMMA EndKey ==
    ASSUME ReqOK, KeyInv, NEW w \in Worker, NEW p \in Done \ {"refused"}, End(w, p),
           UNCHANGED gateway
    PROVE  KeyInv'
<1>1. KeyOK([NoRequest EXCEPT !.phase = p], gateway.key)
      BY DEF KeyOK, NoRequest, Done
<1> QED BY <1>1, BecomesKey DEF End

LEMMA StoredKey ==
    ASSUME ReqOK, KeyInv, NEW w \in Worker, Stored(w), UNCHANGED gateway
    PROVE  KeyInv'
<1> DEFINE r == [req[w] EXCEPT !.phase = "map", !.seen = req[w].user]
<1>1. r.phase = "map"
      BY DEF ReqOK, Request
<1>2. KeyOK(r, gateway.key)
      BY <1>1 DEF KeyOK
<1>3. Becomes(w, r)
      BY DEF Stored
<1> HIDE DEF r
<1> QED BY <1>2, <1>3, BecomesKey

LEMMA WritesKey ==
    ASSUME ReqOK, KeyInv, NEW w \in Worker, NEW r, Writes(w, r),
           r.phase \notin {"key", "decode", "refused"}, UNCHANGED gateway
    PROVE  KeyInv'
<1>1. ASSUME NEW v \in Worker PROVE KeyOK(Disturbed(v), gateway.key)
      BY <1>1 DEF ReqOK, Request, Disturbed, KeyInv, KeyOK
<1> QED BY <1>1 DEF Writes, KeyInv, KeyOK

LEMMA KeyNext == TypeOK /\ KeyInv /\ CachedKeyInv /\ [Next]_vars => KeyInv' /\ CachedKeyInv'
<1> SUFFICES ASSUME TypeOK, KeyInv, CachedKeyInv, [Next]_vars PROVE KeyInv' /\ CachedKeyInv'
    OBVIOUS
<1>0. ReqOK /\ gateway.key \in Nat
      BY DEF TypeOK, ReqOK
<1>a. ASSUME UNCHANGED cache, gateway'.key = gateway.key PROVE CachedKeyInv'
      BY <1>a DEF CachedKeyInv
<1>b. ASSUME UNCHANGED req, gateway'.key = gateway.key PROVE KeyInv'
      BY <1>b DEF KeyInv
<1>1. ASSUME NEW C \in SUBSET Claim, GatewayGrants(C) PROVE KeyInv' /\ CachedKeyInv'
      BY <1>1, <1>a, <1>b DEF GatewayGrants, TypeOK
<1>2. ASSUME NEW C \in SUBSET Claim, ServiceGrants(C) PROVE KeyInv' /\ CachedKeyInv'
  <2>1. ASSUME NEW v \in Worker PROVE KeyOK(Disturbed(v), gateway.key)
        BY <1>0, <2>1 DEF ReqOK, Request, Disturbed, KeyInv, KeyOK
  <2> QED BY <1>2, <1>a, <2>1 DEF ServiceGrants, KeyInv
<1>3. ASSUME NEW u \in UserData, GatewayEdits(u) PROVE KeyInv' /\ CachedKeyInv'
      BY <1>3, <1>a, <1>b DEF GatewayEdits, TypeOK
<1>4. CASE GatewayRotates
  <2>1. gateway'.key = gateway.key + 1 /\ UNCHANGED <<cache, req>>
        BY <1>4 DEF GatewayRotates, TypeOK
  <2> QED BY <1>0, <2>1 DEF KeyInv, KeyOK, CachedKeyInv
<1>5. CASE ExpireKey
      BY <1>5, <1>b DEF ExpireKey, CachedKeyInv, TypeOK
<1>6. CASE ExpireHash
      BY <1>6, <1>b DEF ExpireHash, CachedKeyInv, TypeOK
<1>7. ASSUME NEW w \in Worker, StartRequest(w) PROVE KeyInv' /\ CachedKeyInv'
  <2> DEFINE r == [NoRequest EXCEPT !.phase = "key", !.key = gateway.key,
                            !.user = gateway.user, !.claims = gateway.claims]
  <2>1. KeyOK(r, gateway.key)
        BY <1>0 DEF NoRequest, KeyOK
  <2>2. Becomes(w, r)
        BY <1>7 DEF StartRequest
  <2> HIDE DEF r
  <2> QED BY <1>0, <1>7, <1>a, <2>1, <2>2, BecomesKey DEF StartRequest
<1>8. ASSUME NEW w \in Worker, Step(w) PROVE KeyInv' /\ CachedKeyInv'
  <2>w. req[w] \in Request
        BY <1>0 DEF ReqOK
  <2>l. ASSUME LoadKey(w), UNCHANGED gateway, req[w].key \in 0 .. gateway.key
        PROVE  KeyInv' /\ CachedKeyInv'
    <3> DEFINE r == [req[w] EXCEPT !.phase = "decode", !.using = gateway.key, !.cached = FALSE]
    <3>1. KeyOK(r, gateway.key)
          BY <1>0, <2>w, <2>l DEF Request, KeyOK
    <3>2. Becomes(w, r)
          BY <2>l DEF LoadKey
    <3>3. CachedKeyInv'
          BY <1>0, <2>l DEF LoadKey, CachedKeyInv, TypeOK
    <3> HIDE DEF r
    <3> QED BY <1>0, <2>l, <3>1, <3>2, <3>3, BecomesKey
  <2>1. CASE GetKey(w)
    <3>1. req[w].key \in 0 .. gateway.key
          BY <2>1 DEF GetKey, At, KeyInv, KeyOK
    <3>2. CASE cache.key # None
      <4> DEFINE r == [req[w] EXCEPT !.phase = "decode", !.using = cache.key, !.cached = TRUE]
      <4>1. KeyOK(r, gateway.key)
            BY <2>w, <3>1, <3>2 DEF Request, KeyOK, CachedKeyInv
      <4>2. Becomes(w, r)
            BY <2>1, <3>2 DEF GetKey
      <4> HIDE DEF r
      <4> QED BY <1>0, <1>a, <2>1, <3>2, <4>1, <4>2, BecomesKey DEF GetKey
    <3>3. CASE cache.key = None
          BY <2>1, <2>l, <3>1, <3>3 DEF GetKey
    <3> QED BY <3>2, <3>3
  <2>2. CASE Decode(w)
    <3>1. req[w].key \in 0 .. gateway.key
          BY <2>2 DEF Decode, At, KeyInv, KeyOK
    <3>2. CASE Authentic(w) /\ UNCHANGED cache
      <4> DEFINE r == [req[w] EXCEPT !.phase = "user", !.key = None, !.using = None, !.cached = FALSE]
      <4>1. KeyOK(r, gateway.key)
            BY <2>w DEF Request, KeyOK
      <4>2. Becomes(w, r)
            BY <3>2 DEF Authentic
      <4> HIDE DEF r
      <4> QED BY <1>0, <1>a, <2>2, <3>2, <4>1, <4>2, BecomesKey DEF Decode
    <3>3. CASE LoadKey(w)
          BY <2>2, <2>l, <3>1, <3>3 DEF Decode
    <3>4. CASE /\ Refuse(w)
               /\ UNCHANGED cache \/ cache' = [cache EXCEPT !.key = gateway.key]
               /\ req[w].key # req[w].using
               /\ req[w].cached => gateway.key = req[w].using
      <4> DEFINE r == [NoRequest EXCEPT !.phase = "refused", !.key = req[w].key]
      <4>1. CachedKeyInv'
            BY <1>0, <1>a, <2>2, <3>4 DEF Decode, CachedKeyInv, TypeOK
      <4>2. req[w].using \in 0 .. gateway.key /\ (req[w].cached \/ req[w].using >= req[w].key)
            BY <2>2 DEF Decode, At, KeyInv, KeyOK
      <4>3. req[w].key \in 0 .. (gateway.key - 1)
            BY <1>0, <3>1, <3>4, <4>2
      <4>4. KeyOK(r, gateway.key)
            BY <4>3 DEF NoRequest, KeyOK
      <4>5. Becomes(w, r)
            BY <3>4 DEF Refuse
      <4> HIDE DEF r
      <4> QED BY <1>0, <2>2, <4>1, <4>4, <4>5, BecomesKey DEF Decode
    <3> QED BY <2>2, <3>2, <3>3, <3>4 DEF Decode
  <2>3. CASE KeyFails(w)
        BY <1>0, <1>a, <2>3, EndKey DEF KeyFails, Done
  <2>4. CASE FindUser(w)
    <3>1. CASE db.account # None
      <4> DEFINE r == [req[w] EXCEPT !.phase = "map", !.seen = db.account]
      <4>1. KeyOK(r, gateway.key)
            BY <2>w DEF Request, KeyOK
      <4>2. Becomes(w, r)
            BY <2>4, <3>1 DEF FindUser
      <4> HIDE DEF r
      <4> QED BY <1>0, <1>a, <2>4, <4>1, <4>2, BecomesKey DEF FindUser
    <3>2. CASE Goto(w, "create")
          BY <1>0, <1>a, <2>4, <3>2, GotoKey DEF FindUser
    <3> QED BY <2>4, <3>1, <3>2 DEF FindUser
  <2>5. CASE CreateUser(w)
    <3>1. CASE Stored(w)
          BY <1>0, <1>a, <2>5, <3>1, StoredKey DEF CreateUser
    <3>2. CASE Goto(w, "adopt")
          BY <1>0, <1>a, <2>5, <3>2, GotoKey DEF CreateUser
    <3> QED BY <2>5, <3>1, <3>2 DEF CreateUser
  <2>6. CASE AdoptUser(w)
    <3>1. CASE Stored(w)
          BY <1>0, <1>a, <2>6, <3>1, StoredKey DEF AdoptUser
    <3>2. CASE End(w, "error")
          BY <1>0, <1>a, <2>6, <3>2, EndKey DEF AdoptUser, Done
    <3> QED BY <2>6, <3>1, <3>2 DEF AdoptUser
  <2>7. CASE MapUserFields(w)
    <3> DEFINE r == [req[w] EXCEPT !.phase = "cached", !.user = None, !.seen = None]
    <3>0. CASE End(w, "error")
          BY <1>0, <1>a, <2>7, <3>0, EndKey DEF MapUserFields, Done
    <3>1. KeyOK(r, gateway.key)
          BY <2>w DEF Request, KeyOK
    <3>2. CASE Becomes(w, r)
      <4> HIDE DEF r
      <4> QED BY <1>0, <1>a, <2>7, <3>1, <3>2, BecomesKey DEF MapUserFields
    <3> QED BY <2>7, <3>0, <3>2 DEF MapUserFields
  <2>8. CASE CheckCachedHash(w)
    <3>1. CASE End(w, "accepted")
          BY <1>0, <1>a, <2>8, <3>1, EndKey DEF CheckCachedHash, Done
    <3>2. CASE Goto(w, "local")
          BY <1>0, <1>a, <2>8, <3>2, GotoKey DEF CheckCachedHash
    <3> QED BY <2>8, <3>1, <3>2 DEF CheckCachedHash
  <2>9. CASE CheckLocalHash(w)
    <3>1. CASE Goto(w, "hash")
          BY <1>0, <1>a, <2>9, <3>1, GotoKey DEF CheckLocalHash
    <3>2. CASE Goto(w, "fetch")
          BY <1>0, <1>a, <2>9, <3>2, GotoKey DEF CheckLocalHash
    <3> QED BY <2>9, <3>1, <3>2 DEF CheckLocalHash
  <2>10. CASE FetchClaims(w)
    <3> DEFINE r == [req[w] EXCEPT !.phase = "give", !.fetched = gateway.claims]
    <3>1. KeyOK(r, gateway.key)
          BY <2>w DEF Request, KeyOK
    <3>2. Becomes(w, r)
          BY <2>10 DEF FetchClaims
    <3> HIDE DEF r
    <3> QED BY <1>0, <1>a, <2>10, <3>1, <3>2, BecomesKey DEF FetchClaims
  <2>11. CASE FetchFails(w)
        BY <1>0, <1>a, <2>11, EndKey DEF FetchFails, Done
  <2>12. CASE GiveRoles(w)
    <3>1. PICK G : Writes(w, [req[w] EXCEPT !.phase = "stale", !.given = G])
          BY <2>12 DEF GiveRoles
    <3> DEFINE r == [req[w] EXCEPT !.phase = "stale", !.given = G]
    <3>2. r.phase = "stale"
          BY <2>w DEF Request
    <3>3. Writes(w, r)
          BY <3>1
    <3> HIDE DEF r
    <3> QED BY <1>0, <1>a, <2>12, <3>2, <3>3, WritesKey DEF GiveRoles
  <2>13. CASE RemoveStale(w)
    <3> DEFINE r == [req[w] EXCEPT !.phase = "hash"]
    <3>2. r.phase = "hash"
          BY <2>w DEF Request
    <3>3. Writes(w, r)
          BY <2>13 DEF RemoveStale
    <3> HIDE DEF r
    <3> QED BY <1>0, <1>a, <2>13, <3>2, <3>3, WritesKey DEF RemoveStale
  <2>14. CASE SaveFails(w)
        BY <1>0, <1>a, <2>14, EndKey DEF SaveFails, Done
  <2>15. CASE CacheHash(w)
    <3>1. CachedKeyInv'
          BY <2>15 DEF CacheHash, CachedKeyInv, TypeOK
    <3> QED BY <1>0, <2>15, <3>1, EndKey DEF CacheHash, Done
  <2>16. CASE EndRequest(w)
    <3>1. KeyOK(NoRequest, gateway.key)
          BY DEF NoRequest, KeyOK
    <3> QED BY <1>0, <1>a, <2>16, <3>1, BecomesKey DEF EndRequest
  <2> QED BY <1>8, <2>1, <2>2, <2>3, <2>4, <2>5, <2>6, <2>7, <2>8, <2>9, <2>10, <2>11,
             <2>12, <2>13, <2>14, <2>15, <2>16 DEF Step
<1>9. CASE UNCHANGED vars
      BY <1>9 DEF vars, KeyInv, CachedKeyInv
<1> QED BY <1>1, <1>2, <1>3, <1>4, <1>5, <1>6, <1>7, <1>8, <1>9 DEF Next

-----------------------------------------------------------------------------
(* The roles that a request leaves behind *)

LEMMA BecomesStore ==
    ASSUME ReqOK, StoreInv, NEW w \in Worker, NEW r, Becomes(w, r),
           StoreOK(r, db), UNCHANGED db
    PROVE  StoreInv'
BY DEF ReqOK, StoreInv, Becomes, StoreOK

LEMMA EndStore ==
    ASSUME ReqOK, StoreInv, NEW w \in Worker, NEW p \in Done, End(w, p), UNCHANGED db
    PROVE  StoreInv'
<1>1. StoreOK([NoRequest EXCEPT !.phase = p], db)
      BY DEF StoreOK, NoRequest, Done, WithAccount, Storing
<1> QED BY <1>1, BecomesStore DEF End

\* A phase in which nothing has been fetched and the account exists.
LEMMA GotoStore ==
    ASSUME ReqOK, StoreInv, NEW w \in Worker, NEW p, Goto(w, p), UNCHANGED db,
           p \notin Storing, req[w].phase \notin Storing,
           p \in WithAccount => db.account # None
    PROVE  StoreInv'
<1> DEFINE r == [req[w] EXCEPT !.phase = p]
<1>1. r.phase = p /\ r.fetched = None
      BY DEF ReqOK, Request, StoreInv, StoreOK
<1>2. StoreOK(r, db)
      BY <1>1 DEF StoreOK, Storing
<1>3. Becomes(w, r)
      BY DEF Goto
<1> HIDE DEF r
<1> QED BY <1>2, <1>3, BecomesStore

\* The account is made when nobody is busy with it.
LEMMA StoredStore ==
    ASSUME ReqOK, StoreInv, NEW w \in Worker, Stored(w), req[w].phase \notin Storing,
           db'.account # None, db.account = None \/ db'.roles = db.roles
    PROVE  StoreInv'
<1> DEFINE r == [req[w] EXCEPT !.phase = "map", !.seen = req[w].user]
<1>1. r.phase = "map" /\ r.fetched = None
      BY DEF ReqOK, Request, StoreInv, StoreOK
<1>2. StoreOK(r, db')
      BY <1>1 DEF StoreOK, Storing
<1>3. Becomes(w, r)
      BY DEF Stored
<1>4. \A v \in Worker : StoreOK(req[v], db')
  <2>1. CASE db.account = None
    <3>1. \A v \in Worker : req[v].phase \notin WithAccount
          BY <2>1 DEF StoreInv, StoreOK
    <3> QED BY <3>1 DEF StoreOK, StoreInv, WithAccount, Storing
  <2>2. CASE db'.roles = db.roles
        BY <2>2 DEF StoreOK, StoreInv
  <2> QED BY <2>1, <2>2
<1> HIDE DEF r
<1> QED BY <1>2, <1>3, <1>4 DEF ReqOK, StoreInv, Becomes

\* The roles are written by somebody else.
LEMMA DisturbedStore ==
    ASSUME ReqOK, StoreInv, NEW v \in Worker, NEW d, d.account = db.account
    PROVE  StoreOK(Disturbed(v), d)
BY DEF ReqOK, StoreInv, StoreOK, Disturbed, Request, WithAccount, Storing

LEMMA WritesStore ==
    ASSUME ReqOK, StoreInv, NEW w \in Worker, NEW r, Writes(w, r),
           db'.account = db.account, StoreOK(r, db')
    PROVE  StoreInv'
<1>1. ASSUME NEW v \in Worker PROVE StoreOK(Disturbed(v), db')
      BY <1>1, DisturbedStore
<1> QED BY <1>1 DEF Writes, StoreInv, StoreOK

LEMMA StoreNext == TypeOK /\ StoreInv /\ [Next]_vars => StoreInv'
<1> SUFFICES ASSUME TypeOK, StoreInv, [Next]_vars PROVE StoreInv'
    OBVIOUS
<1>0. ReqOK
      BY DEF TypeOK, ReqOK
<1>b. ASSUME UNCHANGED <<req, db>> PROVE StoreInv'
      BY <1>b DEF StoreInv
<1>1. ASSUME NEW C \in SUBSET Claim, GatewayGrants(C) PROVE StoreInv'
      BY <1>1, <1>b DEF GatewayGrants
<1>2. ASSUME NEW C \in SUBSET Claim, ServiceGrants(C) PROVE StoreInv'
  <2>1. db'.account = db.account
        BY <1>2 DEF ServiceGrants, TypeOK
  <2>2. ASSUME NEW v \in Worker PROVE StoreOK(Disturbed(v), db')
        BY <1>0, <2>1, <2>2, DisturbedStore
  <2> QED BY <1>2, <2>2 DEF ServiceGrants, StoreInv
<1>3. ASSUME NEW u \in UserData, GatewayEdits(u) PROVE StoreInv'
      BY <1>3, <1>b DEF GatewayEdits
<1>4. CASE GatewayRotates
      BY <1>4, <1>b DEF GatewayRotates
<1>5. CASE ExpireKey
      BY <1>5, <1>b DEF ExpireKey
<1>6. CASE ExpireHash
      BY <1>6, <1>b DEF ExpireHash
<1>7. ASSUME NEW w \in Worker, StartRequest(w) PROVE StoreInv'
  <2> DEFINE r == [NoRequest EXCEPT !.phase = "key", !.key = gateway.key,
                            !.user = gateway.user, !.claims = gateway.claims]
  <2>1. StoreOK(r, db)
        BY DEF NoRequest, StoreOK, WithAccount, Storing
  <2>2. Becomes(w, r)
        BY <1>7 DEF StartRequest
  <2> HIDE DEF r
  <2> QED BY <1>0, <1>7, <2>1, <2>2, BecomesStore DEF StartRequest
<1>8. ASSUME NEW w \in Worker, Step(w) PROVE StoreInv'
  <2>w. req[w] \in Request /\ (req[w].phase \in Named => req[w].user \in UserData /\ req[w].user # None)
        BY <1>0, JwtAssumption DEF ReqOK, Whole
  <2>s. StoreOK(req[w], db)
        BY DEF StoreInv
  <2>l. ASSUME LoadKey(w), UNCHANGED db, req[w].phase \notin Storing PROVE StoreInv'
    <3> DEFINE r == [req[w] EXCEPT !.phase = "decode", !.using = gateway.key, !.cached = FALSE]
    <3>1. StoreOK(r, db)
          BY <2>w, <2>s, <2>l DEF Request, StoreOK, WithAccount, Storing
    <3>2. Becomes(w, r)
          BY <2>l DEF LoadKey
    <3> HIDE DEF r
    <3> QED BY <1>0, <2>l, <3>1, <3>2, BecomesStore
  <2>1. CASE GetKey(w)
    <3>1. CASE cache.key # None
      <4> DEFINE r == [req[w] EXCEPT !.phase = "decode", !.using = cache.key, !.cached = TRUE]
      <4>1. StoreOK(r, db)
            BY <2>w, <2>s, <2>1 DEF GetKey, At, Request, StoreOK, WithAccount, Storing
      <4>2. Becomes(w, r)
            BY <2>1, <3>1 DEF GetKey
      <4> HIDE DEF r
      <4> QED BY <1>0, <2>1, <4>1, <4>2, BecomesStore DEF GetKey
    <3>2. CASE cache.key = None
          BY <2>1, <2>l, <3>2 DEF GetKey, At, Storing
    <3> QED BY <3>1, <3>2
  <2>2. CASE Decode(w)
    <3>1. CASE Authentic(w)
      <4> DEFINE r == [req[w] EXCEPT !.phase = "user", !.key = None, !.using = None, !.cached = FALSE]
      <4>1. StoreOK(r, db)
            BY <2>w, <2>s, <2>2 DEF Decode, At, Request, StoreOK, WithAccount, Storing
      <4>2. Becomes(w, r)
            BY <3>1 DEF Authentic
      <4> HIDE DEF r
      <4> QED BY <1>0, <2>2, <4>1, <4>2, BecomesStore DEF Decode
    <3>2. CASE LoadKey(w)
          BY <2>2, <2>l, <3>2 DEF Decode, At, Storing
    <3>3. CASE Refuse(w)
      <4> DEFINE r == [NoRequest EXCEPT !.phase = "refused", !.key = req[w].key]
      <4>1. StoreOK(r, db)
            BY DEF NoRequest, StoreOK, WithAccount, Storing
      <4>2. Becomes(w, r)
            BY <3>3 DEF Refuse
      <4> HIDE DEF r
      <4> QED BY <1>0, <2>2, <4>1, <4>2, BecomesStore DEF Decode
    <3> QED BY <2>2, <3>1, <3>2, <3>3 DEF Decode
  <2>3. CASE KeyFails(w)
        BY <1>0, <2>3, EndStore DEF KeyFails, Done
  <2>4. CASE FindUser(w)
    <3>1. CASE db.account # None
      <4> DEFINE r == [req[w] EXCEPT !.phase = "map", !.seen = db.account]
      <4>1. StoreOK(r, db)
            BY <2>w, <2>s, <2>4, <3>1 DEF FindUser, At, Request, StoreOK, Storing
      <4>2. Becomes(w, r)
            BY <2>4, <3>1 DEF FindUser
      <4> HIDE DEF r
      <4> QED BY <1>0, <2>4, <4>1, <4>2, BecomesStore DEF FindUser
    <3>2. CASE db.account = None
          BY <1>0, <2>4, <3>2, GotoStore DEF FindUser, At, WithAccount, Storing
    <3> QED BY <3>1, <3>2
  <2>5. CASE CreateUser(w)
    <3>0. req[w].phase \notin Storing
          BY <2>5 DEF CreateUser, At, Storing
    <3>1. req[w].user # None
          BY <2>w, <2>5 DEF CreateUser, At, Named
    <3>2. CASE /\ db.account = None /\ Stored(w)
               /\ db' = [db EXCEPT !.account = req[w].user, !.roles = {}]
      <4>1. db'.account # None
            BY <3>1, <3>2 DEF TypeOK
      <4> QED BY <1>0, <3>0, <3>2, <4>1, StoredStore
    <3>3. CASE Goto(w, "adopt") /\ UNCHANGED db
          BY <1>0, <3>0, <3>3, GotoStore DEF WithAccount, Storing
    <3> QED BY <2>5, <3>2, <3>3 DEF CreateUser
  <2>6. CASE AdoptUser(w)
    <3>0. req[w].phase \notin Storing
          BY <2>6 DEF AdoptUser, At, Storing
    <3>1. req[w].user # None
          BY <2>w, <2>6 DEF AdoptUser, At, Named
    <3>2. CASE db' = [db EXCEPT !.account = req[w].user] /\ Stored(w)
      <4>1. db'.account # None /\ db'.roles = db.roles
            BY <3>1, <3>2 DEF TypeOK
      <4> QED BY <1>0, <3>0, <3>2, <4>1, StoredStore
    <3>3. CASE /\ db.account = None /\ Stored(w)
               /\ db' = [db EXCEPT !.account = req[w].user, !.roles = {}, !.own = @ \ {req[w].user.name}]
      <4>1. db'.account # None
            BY <3>1, <3>3 DEF TypeOK
      <4> QED BY <1>0, <3>0, <3>3, <4>1, StoredStore
    <3>4. CASE /\ db' = [db EXCEPT !.own = @ \cup {req[w].user.name}]
               /\ End(w, "error")
      <4> DEFINE r == [NoRequest EXCEPT !.phase = "error"]
      <4>1. \A v \in Worker : StoreOK(req[v], db')
            BY <3>4 DEF TypeOK, StoreInv, StoreOK
      <4>2. StoreOK(r, db')
            BY DEF NoRequest, StoreOK, WithAccount, Storing
      <4>3. Becomes(w, r)
            BY <3>4 DEF End
      <4> HIDE DEF r
      <4> QED BY <1>0, <4>1, <4>2, <4>3 DEF Becomes, ReqOK, StoreInv
    <3> QED BY <2>6, <3>2, <3>3, <3>4 DEF AdoptUser
  <2>7. CASE MapUserFields(w)
    <3>0. CASE End(w, "error") /\ UNCHANGED db
          BY <1>0, <3>0, EndStore DEF Done
    <3>1. CASE /\ db' = IF Mapped(w) = req[w].seen THEN db ELSE [db EXCEPT !.account = Mapped(w)]
               /\ Becomes(w, [req[w] EXCEPT !.phase = "cached", !.user = None, !.seen = None])
      <4> DEFINE r == [req[w] EXCEPT !.phase = "cached", !.user = None, !.seen = None]
      <4>1. Mapped(w) \in UserData /\ Mapped(w) # None
            BY <1>0, <2>7, JwtAssumption DEF MapUserFields, ReqOK, At, Named, Whole, Mapped, UserData
      <4>2. db'.account # None /\ db'.roles = db.roles
            BY <2>7, <2>s, <3>1, <4>1 DEF MapUserFields, At, StoreOK, WithAccount, TypeOK
      <4>3. \A v \in Worker : StoreOK(req[v], db')
            BY <4>2 DEF StoreInv, StoreOK
      <4>4. StoreOK(r, db')
            BY <4>2, <2>w, <2>s, <2>7 DEF MapUserFields, At, Request, StoreOK, Storing
      <4>5. Becomes(w, r)
            BY <3>1
      <4> HIDE DEF r
      <4> QED BY <1>0, <4>3, <4>4, <4>5 DEF Becomes, ReqOK, StoreInv
    <3> QED BY <2>7, <3>0, <3>1 DEF MapUserFields
  <2>8. CASE CheckCachedHash(w)
    <3>1. CASE End(w, "accepted")
          BY <1>0, <2>8, <3>1, EndStore DEF CheckCachedHash, Done
    <3>2. CASE Goto(w, "local")
          BY <1>0, <2>s, <2>8, <3>2, GotoStore DEF CheckCachedHash, At, StoreOK, WithAccount, Storing
    <3> QED BY <2>8, <3>1, <3>2 DEF CheckCachedHash
  <2>9. CASE CheckLocalHash(w)
    <3>1. CASE Goto(w, "hash")
      <4> DEFINE r == [req[w] EXCEPT !.phase = "hash"]
      <4>1. /\ r.phase = "hash" /\ r.fetched = None
            /\ db.account # None
            BY <2>w, <2>s, <2>9 DEF CheckLocalHash, At, Request, StoreOK, WithAccount, Storing
      <4>2. Becomes(w, r)
            BY <3>1 DEF Goto
      <4> HIDE DEF r
      <4>3. StoreOK(r, db)
            BY <4>1 DEF StoreOK, Storing
      <4> QED BY <1>0, <2>9, <4>2, <4>3, BecomesStore DEF CheckLocalHash
    <3>2. CASE Goto(w, "fetch")
          BY <1>0, <2>s, <2>9, <3>2, GotoStore DEF CheckLocalHash, At, StoreOK, WithAccount, Storing
    <3> QED BY <2>9, <3>1, <3>2 DEF CheckLocalHash
  <2>10. CASE FetchClaims(w)
    <3> DEFINE r == [req[w] EXCEPT !.phase = "give", !.fetched = gateway.claims]
    <3>0. gateway.claims # None
          BY JwtAssumption DEF TypeOK
    <3>1. StoreOK(r, db)
          BY <2>w, <2>s, <2>10, <3>0 DEF FetchClaims, At, Request, StoreOK, WithAccount, Storing
    <3>2. Becomes(w, r)
          BY <2>10 DEF FetchClaims
    <3> HIDE DEF r
    <3> QED BY <1>0, <2>10, <3>1, <3>2, BecomesStore DEF FetchClaims
  <2>11. CASE FetchFails(w)
        BY <1>0, <2>11, EndStore DEF FetchFails, Done
  <2>12. CASE GiveRoles(w)
    <3>1. PICK G : /\ db' = [db EXCEPT !.roles = @ \cup G]
                   /\ Writes(w, [req[w] EXCEPT !.phase = "stale", !.given = G])
          BY <2>12 DEF GiveRoles
    <3> DEFINE r == [req[w] EXCEPT !.phase = "stale", !.given = G]
    <3>2. db'.account = db.account /\ db'.roles = db.roles \cup G
          BY <3>1 DEF TypeOK
    <3>3. db.account # None /\ req[w].fetched # None
          BY <2>s, <2>12 DEF GiveRoles, At, StoreOK, WithAccount, Storing
    <3>4. r.phase = "stale" /\ r.given = G /\ r.fetched = req[w].fetched
          BY <2>w DEF Request
    <3>5. Writes(w, r)
          BY <3>1
    <3> HIDE DEF r
    <3>6. StoreOK(r, db')
          BY <3>2, <3>3, <3>4 DEF StoreOK, Storing
    <3> QED BY <1>0, <3>2, <3>5, <3>6, WritesStore
  <2>13. CASE RemoveStale(w)
    <3> DEFINE r == [req[w] EXCEPT !.phase = "hash"]
    <3>1. db'.account = db.account /\ db'.roles = db.roles \cap req[w].given
          BY <2>13 DEF RemoveStale, TypeOK
    <3>2. db.account # None /\ (req[w].alone => req[w].given \subseteq db.roles)
          BY <2>s, <2>13 DEF RemoveStale, At, StoreOK, WithAccount, Storing
    <3>3. r.phase = "hash" /\ r.given = req[w].given /\ r.alone = req[w].alone
          BY <2>w DEF Request
    <3>4. Writes(w, r)
          BY <2>13 DEF RemoveStale
    <3> HIDE DEF r
    <3>5. r.alone => db'.roles = r.given
          BY <3>1, <3>2, <3>3
    <3>6. StoreOK(r, db')
          BY <3>1, <3>2, <3>3, <3>5 DEF StoreOK, Storing
    <3> QED BY <1>0, <3>1, <3>4, <3>6, WritesStore
  <2>14. CASE SaveFails(w)
        BY <1>0, <2>14, EndStore DEF SaveFails, Done
  <2>15. CASE CacheHash(w)
        BY <1>0, <2>15, EndStore DEF CacheHash, Done
  <2>16. CASE EndRequest(w)
    <3>1. StoreOK(NoRequest, db)
          BY DEF NoRequest, StoreOK, WithAccount, Storing
    <3> QED BY <1>0, <2>16, <3>1, BecomesStore DEF EndRequest
  <2> QED BY <1>8, <2>1, <2>2, <2>3, <2>4, <2>5, <2>6, <2>7, <2>8, <2>9, <2>10, <2>11,
             <2>12, <2>13, <2>14, <2>15, <2>16 DEF Step
<1>9. CASE UNCHANGED vars
      BY <1>9, <1>b DEF vars
<1> QED BY <1>1, <1>2, <1>3, <1>4, <1>5, <1>6, <1>7, <1>8, <1>9 DEF Next

-----------------------------------------------------------------------------
(* Names *)

\* The names that a request is going to store are names the user has had, and
\* a failing request takes a user that has been renamed.
NameOK(r, N) == /\ r.phase \in Named => r.user.name \in N
                /\ r.phase = "map" => r.seen.name \in N
NameInv ==
    /\ gateway.user.name \in gateway.names
    /\ db.account # None => db.account.name \in gateway.names
    /\ \A w \in Worker : NameOK(req[w], gateway.names)
    /\ gateway.names = {gateway.user.name} => \A w \in Worker : ~At(w, "error")

\* A step of a worker changes the requests of others at most by a flag.
LEMMA StepFrame ==
    ASSUME ReqOK, NEW w \in Worker, Step(w)
    PROVE  /\ gateway' = gateway
           /\ \E r : req'[w] = r /\ (Becomes(w, r) \/ Writes(w, r))
           /\ \A v \in Worker \ {w} : /\ req'[v].phase = req[v].phase
                                      /\ req'[v].user = req[v].user
                                      /\ req'[v].seen = req[v].seen
<1>1. ASSUME NEW r, Becomes(w, r)
      PROVE  /\ req'[w] = r
             /\ \A v \in Worker \ {w} : req'[v] = req[v]
      BY <1>1 DEF Becomes, ReqOK
<1>2. ASSUME NEW r, Writes(w, r)
      PROVE  /\ req'[w] = r
             /\ \A v \in Worker \ {w} : req'[v] = Disturbed(v)
      BY <1>2 DEF Writes
<1>3. gateway' = gateway
      BY DEF Step, GetKey, Decode, KeyFails, FindUser, CreateUser, AdoptUser, MapUserFields,
             CheckCachedHash, CheckLocalHash, FetchClaims, FetchFails, GiveRoles, RemoveStale,
             SaveFails, CacheHash, EndRequest
<1>4. \E r : Becomes(w, r) \/ Writes(w, r)
  <2>1. CASE GetKey(w)
        BY <2>1 DEF GetKey, LoadKey
  <2>2. CASE Decode(w)
        BY <2>2 DEF Decode, LoadKey, Authentic, Refuse
  <2>3. CASE KeyFails(w) \/ FetchFails(w) \/ SaveFails(w) \/ CacheHash(w) \/ EndRequest(w)
        BY <2>3 DEF KeyFails, FetchFails, SaveFails, CacheHash, EndRequest, End
  <2>4. CASE FindUser(w) \/ CreateUser(w) \/ AdoptUser(w) \/ MapUserFields(w)
        BY <2>4 DEF FindUser, CreateUser, AdoptUser, MapUserFields, Goto, Stored, End
  <2>5. CASE CheckCachedHash(w) \/ CheckLocalHash(w) \/ FetchClaims(w)
        BY <2>5 DEF CheckCachedHash, CheckLocalHash, FetchClaims, Goto, End
  <2>6. CASE GiveRoles(w) \/ RemoveStale(w)
        BY <2>6 DEF GiveRoles, RemoveStale
  <2> QED BY <2>1, <2>2, <2>3, <2>4, <2>5, <2>6 DEF Step
<1>5. PICK r : Becomes(w, r) \/ Writes(w, r)
      BY <1>4
<1>6. req'[w] = r
      BY <1>1, <1>2, <1>5
<1>7. \A v \in Worker \ {w} : /\ req'[v].phase = req[v].phase
                              /\ req'[v].user = req[v].user
                              /\ req'[v].seen = req[v].seen
      BY <1>1, <1>2, <1>5, DisturbedType DEF ReqOK
<1> QED BY <1>3, <1>5, <1>6, <1>7

\* What a step of a worker does to its own request and to the accounts.
LEMMA NameStep ==
    ASSUME TypeOK, StoreInv, NameInv, NEW w \in Worker, Step(w)
    PROVE  /\ NameOK(req'[w], gateway.names)
           /\ db'.account # None => db'.account.name \in gateway.names
           /\ gateway.names = {gateway.user.name} => req'[w].phase # "error"
<1> DEFINE N == gateway.names
           Goal == /\ NameOK(req'[w], N)
                   /\ db'.account # None => db'.account.name \in N
                   /\ N = {gateway.user.name} => req'[w].phase # "error"
<1>0. /\ req \in [Worker -> Request] /\ req[w] \in Request
      /\ NameOK(req[w], N)
      /\ db.account # None => db.account.name \in N
      /\ db.account # None => db.account.name \notin db.own
      /\ db \in [account : {None} \cup UserData, own : SUBSET Name, roles : SUBSET (Claim \ Unknown)]
      BY DEF TypeOK, NameInv
\* A step that leaves names alone.
<1>a. ASSUME db'.account = db.account,
             req'[w].phase \notin Named \cup {"error"} PROVE Goal
      BY <1>0, <1>a DEF NameOK, Named
<1>n. ASSUME db' = db, req[w].phase \in Named, req'[w].phase # "map",
             req'[w].phase # "error", req'[w].user = req[w].user PROVE Goal
      BY <1>0, <1>n DEF NameOK
<1>e. ASSUME NEW p \in {"accepted", "denied"}, End(w, p), UNCHANGED db PROVE Goal
  <2>1. req'[w].phase = p
        BY <1>0, <1>e DEF End, NoRequest, Becomes
  <2> QED BY <1>a, <1>e, <2>1 DEF Named
<1>l. ASSUME LoadKey(w), UNCHANGED db, req[w].phase \in Named PROVE Goal
  <2>1. req'[w].phase = "decode" /\ req'[w].user = req[w].user
        BY <1>0, <1>l DEF LoadKey, Request, Becomes
  <2> HIDE DEF Goal
  <2> QED BY <1>n, <1>l, <2>1
<1>s. ASSUME Stored(w), req[w].phase \in Named, db'.account = req[w].user PROVE Goal
  <2>1. req'[w].phase = "map" /\ req'[w].user = req[w].user /\ req'[w].seen = req[w].user
        BY <1>0, <1>s DEF Stored, Request, Becomes
  <2>2. req[w].user.name \in N
        BY <1>0, <1>s DEF NameOK
  <2> QED BY <1>0, <1>s, <2>1, <2>2 DEF NameOK
<1> SUFFICES Goal
    OBVIOUS
<1> HIDE DEF Goal
<1>1. CASE GetKey(w)
  <2>1. CASE cache.key # None
    <3>0. Becomes(w, [req[w] EXCEPT !.phase = "decode", !.using = cache.key, !.cached = TRUE])
          BY <1>1, <2>1 DEF GetKey
    <3>1. req'[w].phase = "decode" /\ req'[w].user = req[w].user
          BY <1>0, <3>0 DEF Request, Becomes
    <3>2. req[w].phase \in Named /\ db' = db
          BY <1>1 DEF GetKey, At, Named
    <3> QED BY <1>n, <3>1, <3>2
  <2>2. CASE cache.key = None
        BY <1>1, <1>l, <2>2 DEF GetKey, At, Named
  <2> QED BY <2>1, <2>2
<1>2. CASE Decode(w)
  <2>1. CASE Authentic(w)
    <3>1. req'[w].phase = "user" /\ req'[w].user = req[w].user
          BY <1>0, <2>1 DEF Authentic, Request, Becomes
    <3> QED BY <1>2, <1>n, <3>1 DEF Decode, At, Named
  <2>2. CASE LoadKey(w)
        BY <1>2, <1>l, <2>2 DEF Decode, At, Named
  <2>3. CASE Refuse(w)
    <3>1. req'[w].phase = "refused"
          BY <1>0, <2>3 DEF Refuse, NoRequest, Becomes
    <3> QED BY <1>2, <1>a, <3>1 DEF Decode, Named
  <2> QED BY <1>2, <2>1, <2>2, <2>3 DEF Decode
<1>3. CASE KeyFails(w)
      BY <1>3, <1>e DEF KeyFails
<1>4. CASE FindUser(w)
  <2>1. CASE db.account # None
    <3>0. Becomes(w, [req[w] EXCEPT !.phase = "map", !.seen = db.account])
          BY <1>4, <2>1 DEF FindUser
    <3>1. req'[w].phase = "map" /\ req'[w].user = req[w].user /\ req'[w].seen = db.account
          BY <1>0, <3>0 DEF Request, Becomes
    <3>2. req[w].phase \in Named /\ db' = db
          BY <1>4 DEF FindUser, At, Named
    <3> QED BY <1>0, <2>1, <3>1, <3>2 DEF NameOK, Goal
  <2>2. CASE db.account = None
    <3>1. req'[w].phase = "create" /\ req'[w].user = req[w].user
          BY <1>0, <1>4, <2>2 DEF FindUser, Goto, Request, Becomes
    <3> QED BY <1>4, <1>n, <3>1 DEF FindUser, At, Named
  <2> QED BY <2>1, <2>2
<1>5. CASE CreateUser(w)
  <2>1. CASE Stored(w) /\ db' = [db EXCEPT !.account = req[w].user, !.roles = {}]
    <3>1. db'.account = req[w].user
          BY <1>0, <2>1
    <3> QED BY <1>5, <1>s, <2>1, <3>1 DEF CreateUser, At, Named
  <2>2. CASE Goto(w, "adopt") /\ UNCHANGED db
    <3>1. req'[w].phase = "adopt" /\ req'[w].user = req[w].user
          BY <1>0, <2>2 DEF Goto, Request, Becomes
    <3> QED BY <1>5, <1>n, <2>2, <3>1 DEF CreateUser, At, Named
  <2> QED BY <1>5, <2>1, <2>2 DEF CreateUser
<1>6. CASE AdoptUser(w)
  <2>0. req[w].phase \in Named
        BY <1>6 DEF AdoptUser, At, Named
  <2>1. CASE Stored(w) /\ db' = [db EXCEPT !.account = req[w].user]
    <3>1. db'.account = req[w].user
          BY <1>0, <2>1
    <3> QED BY <1>s, <2>0, <2>1, <3>1
  <2>2. CASE /\ Stored(w)
             /\ db' = [db EXCEPT !.account = req[w].user, !.roles = {}, !.own = @ \ {req[w].user.name}]
    <3>1. db'.account = req[w].user
          BY <1>0, <2>2
    <3> QED BY <1>s, <2>0, <2>2, <3>1
  \* Two names: the user has been renamed.
  <2>3. CASE /\ db.account # None /\ ~HasName(req[w].user.name)
             /\ db' = [db EXCEPT !.own = @ \cup {req[w].user.name}]
             /\ End(w, "error")
    <3>1. db.account.name # req[w].user.name
          BY <2>3 DEF HasName
    <3>2. N # {gateway.user.name}
          BY <1>0, <2>0, <2>3, <3>1 DEF NameOK
    <3>3. req'[w].phase = "error" /\ db'.account = db.account
          BY <1>0, <2>3 DEF End, NoRequest, Becomes
    <3> QED BY <1>0, <3>2, <3>3 DEF NameOK, Named, Goal
  <2> QED BY <1>6, <2>1, <2>2, <2>3 DEF AdoptUser
<1>7. CASE MapUserFields(w)
  <2>1. Mapped(w).name \in N
    <3>1. req[w].user.name \in N /\ req[w].seen.name \in N /\ req[w].user \in UserData
          BY <1>0, <1>7 DEF MapUserFields, At, NameOK, Named, TypeOK, Whole
    <3> QED BY <3>1 DEF Mapped, UserData
  \* The account has another name, for its own is no other account's.
  <2>2. CASE End(w, "error") /\ UNCHANGED db /\ Mapped(w).name \in db.own
    <3>0. db.account # None
          BY <1>7 DEF MapUserFields, At, StoreInv, StoreOK, WithAccount
    <3>1. N # {gateway.user.name}
          BY <1>0, <2>1, <2>2, <3>0
    <3>2. req'[w].phase = "error"
          BY <1>0, <2>2 DEF End, NoRequest, Becomes
    <3> QED BY <1>0, <2>2, <3>1, <3>2 DEF NameOK, Named, Goal
  <2>3. CASE /\ db' = IF Mapped(w) = req[w].seen THEN db ELSE [db EXCEPT !.account = Mapped(w)]
             /\ Becomes(w, [req[w] EXCEPT !.phase = "cached", !.user = None, !.seen = None])
    <3>1. req'[w].phase = "cached"
          BY <1>0, <2>3 DEF Request, Becomes
    <3>2. db'.account # None => db'.account.name \in N
          BY <1>0, <2>1, <2>3
    <3> QED BY <1>0, <3>1, <3>2 DEF NameOK, Named, Goal
  <2> QED BY <1>7, <2>2, <2>3 DEF MapUserFields
<1>8. CASE CheckCachedHash(w)
  <2>1. CASE Goto(w, "local")
    <3>1. req'[w].phase = "local"
          BY <1>0, <2>1 DEF Goto, Request, Becomes
    <3> QED BY <1>8, <1>a, <3>1 DEF CheckCachedHash, Named
  <2> QED BY <1>8, <1>e, <2>1 DEF CheckCachedHash
<1>9. CASE CheckLocalHash(w)
  <2>1. req'[w].phase \in {"hash", "fetch"}
        BY <1>0, <1>9 DEF CheckLocalHash, Goto, Request, Becomes
  <2> QED BY <1>9, <1>a, <2>1 DEF CheckLocalHash, Named
<1>10. CASE FetchClaims(w)
  <2>1. req'[w].phase = "give"
        BY <1>0, <1>10 DEF FetchClaims, Request, Becomes
  <2> QED BY <1>10, <1>a, <2>1 DEF FetchClaims, Named
<1>11. CASE FetchFails(w)
      BY <1>11, <1>e DEF FetchFails
<1>12. CASE GiveRoles(w)
  <2>1. PICK G : /\ db' = [db EXCEPT !.roles = @ \cup G]
                 /\ Writes(w, [req[w] EXCEPT !.phase = "stale", !.given = G])
        BY <1>12 DEF GiveRoles
  <2>2. req'[w].phase = "stale" /\ db'.account = db.account
        BY <1>0, <2>1 DEF Request, Writes
  <2> QED BY <1>a, <2>2 DEF Named
<1>13. CASE RemoveStale(w)
  <2>1. req'[w].phase = "hash" /\ db'.account = db.account
        BY <1>0, <1>13 DEF RemoveStale, Request, Writes
  <2> QED BY <1>a, <2>1 DEF Named
<1>14. CASE SaveFails(w)
      BY <1>14, <1>e DEF SaveFails
<1>15. CASE CacheHash(w)
      BY <1>15, <1>e DEF CacheHash
<1>16. CASE EndRequest(w)
  <2>1. req'[w].phase = "idle"
        BY <1>0, <1>16 DEF EndRequest, NoRequest, Becomes
  <2> QED BY <1>16, <1>a, <2>1 DEF EndRequest, Named
<1> QED BY <1>1, <1>2, <1>3, <1>4, <1>5, <1>6, <1>7, <1>8, <1>9, <1>10, <1>11, <1>12, <1>13,
           <1>14, <1>15, <1>16 DEF Step

LEMMA NameNext == TypeOK /\ StoreInv /\ NameInv /\ [Next]_vars => NameInv'
<1> SUFFICES ASSUME TypeOK, StoreInv, NameInv, [Next]_vars PROVE NameInv'
    OBVIOUS
<1>0. ReqOK
      BY DEF TypeOK, ReqOK
<1>b. ASSUME gateway'.user = gateway.user, gateway'.names = gateway.names, UNCHANGED <<req, db>>
      PROVE  NameInv'
      BY <1>b DEF NameInv, At
<1>1. ASSUME NEW C \in SUBSET Claim, GatewayGrants(C) PROVE NameInv'
      BY <1>1, <1>b DEF GatewayGrants, TypeOK
<1>2. ASSUME NEW C \in SUBSET Claim, ServiceGrants(C) PROVE NameInv'
  <2>1. gateway' = gateway /\ db'.account = db.account
        BY <1>2 DEF ServiceGrants, TypeOK
  <2>2. \A v \in Worker : /\ req'[v].phase = req[v].phase
                          /\ req'[v].user = req[v].user
                          /\ req'[v].seen = req[v].seen
        BY <1>0, <1>2, DisturbedType DEF ServiceGrants, ReqOK
  <2> QED BY <2>1, <2>2 DEF NameInv, NameOK, At
\* The only name the user has had is the new one as well.
<1>3. ASSUME NEW u \in UserData, GatewayEdits(u) PROVE NameInv'
  <2>1. /\ gateway'.user = u /\ gateway'.names = gateway.names \cup {u.name}
        /\ db' = db /\ req' = req
        BY <1>3 DEF GatewayEdits, TypeOK
  <2>2. gateway'.names = {gateway'.user.name} =>
            gateway.names = {gateway.user.name} /\ gateway.user.name = gateway'.user.name
        BY <2>1 DEF NameInv
  <2> QED BY <2>1, <2>2 DEF NameInv, NameOK, At
<1>4. CASE GatewayRotates
      BY <1>4, <1>b DEF GatewayRotates, TypeOK
<1>5. CASE ExpireKey
      BY <1>5, <1>b DEF ExpireKey
<1>6. CASE ExpireHash
      BY <1>6, <1>b DEF ExpireHash
<1>7. ASSUME NEW w \in Worker, StartRequest(w) PROVE NameInv'
  <2>1. /\ req'[w].phase = "key" /\ req'[w].user = gateway.user
        /\ \A v \in Worker \ {w} : req'[v] = req[v]
        BY <1>0, <1>7 DEF StartRequest, Becomes, NoRequest, ReqOK
  <2> QED BY <1>7, <2>1 DEF StartRequest, NameInv, NameOK, At
<1>8. ASSUME NEW w \in Worker, Step(w) PROVE NameInv'
      BY <1>0, <1>8, StepFrame, NameStep DEF NameInv, NameOK, At
<1>9. CASE UNCHANGED vars
      BY <1>9, <1>b DEF vars
<1> QED BY <1>1, <1>2, <1>3, <1>4, <1>5, <1>6, <1>7, <1>8, <1>9 DEF Next

-----------------------------------------------------------------------------
(* Theorems *)

LEMMA InvInit == Init => IInv
<1> SUFFICES ASSUME Init PROVE IInv
    OBVIOUS
<1>1. TypeOK
      BY TypeInit
<1>2. \A w \in Worker : req[w] = NoRequest
      BY DEF Init
<1>3. KeyInv /\ CachedKeyInv
      BY <1>2 DEF Init, NoRequest, KeyInv, KeyOK, CachedKeyInv
<1>4. StoreInv
      BY <1>2 DEF NoRequest, StoreInv, StoreOK, WithAccount, Storing
<1> QED BY <1>1, <1>3, <1>4 DEF IInv

LEMMA InvNext == IInv /\ [Next]_vars => IInv'
BY TypeNext, KeyNext, StoreNext DEF IInv

LEMMA Invariance == Spec => []IInv
BY InvInit, InvNext, PTL DEF Spec

\* In every reachable state requests, accounts and cache entries have their
\* types, and the user has only roles the service knows, whatever
\* save_user_claims was given.
THEOREM TypeCorrect == Spec => []TypeOK
BY Invariance, PTL DEF IInv

\* Whatever other workers do, a request that nobody disturbed while it stored
\* the fetched roles (save_user_claims) leaves exactly those it gave.
THEOREM StoresWhatItGives == Spec => []StoresOneAnswer
<1>1. IInv => StoresOneAnswer
      BY DEF IInv, StoreInv, StoreOK, StoresOneAnswer, At
<1> QED BY <1>1, Invariance, PTL

\* However often the key rotates, and whichever worker loads it, parse_jwt_token
\* refuses a signature only if the gateway has a newer key than the token's.
THEOREM RefusedKeysAreOld == Spec => []RefusedKeyWasRotated
<1>1. IInv => RefusedKeyWasRotated
      BY DEF IInv, TypeOK, KeyInv, KeyOK, RefusedKeyWasRotated, At
<1> QED BY <1>1, Invariance, PTL

\* Workers that meet a new user at the same time, or an account of that name
\* that the service already has, all authenticate: parse_jwt_token fails only
\* for a user that has been renamed.
THEOREM OnlyRenamedUsersFail == Spec => []NobodyFails
<1>1. Init => NameInv
      BY DEF Init, NameInv, NameOK, NoRequest, Named, At
<1>2. IInv /\ NameInv /\ [Next]_vars => NameInv'
      BY NameNext DEF IInv
<1>3. NameInv => NobodyFails
      BY DEF NameInv, NobodyFails
<1> QED BY <1>1, <1>2, <1>3, Invariance, PTL DEF Spec

-----------------------------------------------------------------------------
(***************************************************************************)
(* The inductive invariant.  A step that puts rows in place of others is   *)
(* taken in two: first the old rows go, then the new ones come.  So the    *)
(* parts of the invariant are about a record s of the variables.           *)
(***************************************************************************)
Now == [access |-> access, refresh |-> refresh, flight |-> flight, job |-> job,
        blurred |-> blurred, generated |-> generated, gone |-> gone]

Changing(f) == f.kind # "use"
Busy(s, c) == \E f \in s.flight : Changing(f) /\ f.row.chain = c

\* A secret, like the chain named after the first of them, is generated before it is used.
Made(s, r) == r.secret \in 1 .. s.generated /\ r.chain \in 1 .. s.generated
Issued(s) ==
  /\ s.generated \in Nat
  /\ \A a \in s.access : Made(s, a)
  /\ \A r \in s.refresh : Made(s, r) /\ r.access \in 0 .. s.generated
  /\ \A f \in s.flight : Made(s, f.row)
  /\ s.job.chains \cup s.blurred \subseteq 1 .. s.generated
  /\ \A g \in s.gone : g[1] \in 1 .. s.generated

\* A secret has one row; a request for it knows whose it is; a refresh token and its
\* access token are of one chain.
RefreshRow(s, r) ==
  /\ \A q \in s.refresh : r.secret = q.secret => r = q
  /\ \A f \in s.flight : f.kind = "refresh" /\ r.secret = f.row.secret => r.chain = f.row.chain /\ r.user = f.row.user
  /\ \A a \in s.access : r.access = a.secret => r.chain = a.chain
  /\ \A f \in s.flight : f.kind = "update" /\ r.access = f.row.secret => r.chain = f.row.chain
Rows(s) ==
  /\ \A a, b \in s.access : a.secret = b.secret => a = b
  /\ \A r \in s.refresh : RefreshRow(s, r)

\* A chain of which one request at a time took care has one access token, one refresh
\* token that can be used, which refreshes that one, and one request at a time.
Usable(s, c, r) ==
  /\ \A q \in s.refresh : q.chain = c /\ ~q.revoked => r.secret = q.secret
  /\ \A a \in s.access : a.chain = c => r.access = a.secret
  /\ \A f \in s.flight : f.kind = "update" /\ f.row.chain = c => r.access = f.row.secret
Tidy(s, c) ==
  /\ \A a, b \in s.access : a.chain = c /\ b.chain = c => a.secret = b.secret
  /\ \A f, g \in s.flight : Changing(f) /\ Changing(g) /\ f.row.chain = c /\ g.row.chain = c => f = g
  /\ \A a \in s.access, f \in s.flight :
       f.kind = "update" /\ f.row.chain = c /\ a.chain = c => a.secret = f.row.secret
  /\ \A r \in s.refresh : r.chain = c /\ ~r.revoked => Usable(s, c, r)
  /\ \A r \in s.refresh, f \in s.flight :
       f.kind = "refresh" /\ f.row.chain = c /\ r.secret = f.row.secret => ~r.revoked
AllTidy(s) == \A c : c \notin s.blurred => Tidy(s, c)

\* RevokedStaysRevoked, and nothing is about to act for a user for whom the chain was revoked.
StaysGone(s) ==
  /\ \A a \in s.access : <<a.chain, a.user>> \notin s.gone
  /\ \A r \in s.refresh : <<r.chain, r.user>> \notin s.gone \/ r.revoked
  /\ \A f \in s.flight : Changing(f) => <<f.row.chain, f.row.user>> \notin s.gone

\* What a revocation has still to do on the chains that nobody else is after.
Mine(s, r) == r.chain \in s.job.chains /\ r.chain \notin s.blurred /\ s.job.user \in {Nothing, r.user}
ToDo(s) ==
  /\ \A r \in s.refresh : Mine(s, r) /\ ~r.revoked =>
       /\ s.job.kind = "refresh" => r.secret \in s.job.refresh
       /\ s.job.kind = "logout" => r.access \in s.job.access
       /\ s.job.kind # "access"
  /\ s.job.kind # "refresh" => \A a \in s.access : Mine(s, a) => a.secret \in s.job.access
Alone(s) ==
  /\ \A c \in s.job.chains : c \notin s.blurred => ~Busy(s, c)
  /\ \A c : c \notin s.blurred /\ Busy(s, c) =>
       (\A a \in s.access : a.chain # c) /\ (\A r \in s.refresh : r.chain # c)
Job(s) == s.job.kind # "none" => ToDo(s) /\ Alone(s)

Good(s) == Issued(s) /\ Rows(s) /\ AllTidy(s) /\ StaysGone(s) /\ Job(s)

\* Before the migration nothing of an earlier release is hashed, after it everything.
HashOK(r) == r.hashed \in {0, 1} /\ (migrated => r.hashed = 1)
Hashing == /\ \A r \in access \cup refresh : HashOK(r)
           /\ \A f \in flight : HashOK(f.row)

Flight == [kind : {"refresh"}, row : Refresh] \cup [kind : {"update", "use"}, row : Access]
JobType == [kind : {"none", "refresh", "access", "logout"}, user : Users \cup {Nothing},
            app : Applications \cup {Nothing}, refresh : SUBSET Nat, access : SUBSET Nat, chains : SUBSET Nat]
TypeInv ==
  /\ TokensTypeOK
  /\ flight \subseteq Flight
  /\ job \in JobType

TokensInv == TypeInv /\ Hashing /\ Good(Now)

-----------------------------------------------------------------------------
(***************************************************************************)
(* Rows that go or are revoked                                             *)
(***************************************************************************)
Same(a, x) == a.secret = x.secret /\ a.chain = x.chain /\ a.user = x.user

\* r became x: it still refreshes the same token, or nothing that matters does so.
Fades(s, t, r, x) ==
  /\ Same(r, x) /\ (r.revoked => x.revoked)
  /\ x.access = r.access \/ /\ x.access = 0
                            /\ \/ x.revoked \/ x.chain \in t.blurred
                               \/ /\ \A a \in t.access : a.chain # x.chain
                                  /\ ~Busy(t, x.chain) /\ t.job.kind # "logout"
  /\ x.revoked /\ ~r.revoked => x.chain \in t.blurred \/ ~Busy(t, x.chain)

Fewer(s, t) ==
  /\ t.generated = s.generated /\ t.gone = s.gone
  /\ s.blurred \subseteq t.blurred /\ t.blurred \subseteq 1 .. t.generated
  /\ \A x \in t.access : \E a \in s.access : Same(a, x)
  /\ \A x, y \in t.access : x.secret = y.secret => x = y
  /\ \A x, y \in t.refresh : x.secret = y.secret => x = y
  /\ \A x \in t.refresh : \E r \in s.refresh : Fades(s, t, r, x)
  /\ \A g \in t.flight : \E f \in s.flight : f.kind = g.kind /\ Same(f.row, g.row)
  /\ \A c : c \notin t.blurred => \A f, g \in t.flight :
       Changing(f) /\ Changing(g) /\ f.row.chain = c /\ g.row.chain = c => f = g

\* The revocation goes on: what it has done is done.
GoesOn(s, t) ==
  /\ t.job.kind = s.job.kind /\ t.job.chains = s.job.chains /\ t.job.user = s.job.user
  /\ \A x \in t.refresh : ~x.revoked =>
       /\ s.job.kind = "refresh" /\ x.secret \in s.job.refresh => x.secret \in t.job.refresh
       /\ s.job.kind = "logout" /\ x.access \in s.job.access => x.access \in t.job.access
  /\ \A x \in t.access : x.secret \in s.job.access => x.secret \in t.job.access

LEMMA FewerIssued == ASSUME NEW s, NEW t, Good(s), Fewer(s, t), t.job.chains \subseteq 1 .. t.generated PROVE Issued(t)
  BY DEF Good, Issued, Fewer, Fades, Same, Made

LEMMA FewerRows == ASSUME NEW s, NEW t, Good(s), Fewer(s, t) PROVE Rows(t)
  <1> SUFFICES ASSUME NEW x \in t.refresh PROVE RefreshRow(t, x)
    BY DEF Rows, Fewer
  <1>1. PICK r \in s.refresh : Fades(s, t, r, x)
    BY DEF Fewer
  <1>2. RefreshRow(s, r)
    BY DEF Good, Rows
  <1>3. \A q \in t.refresh : x.secret = q.secret => x = q
    BY DEF Fewer
  <1>4. \A f \in t.flight : /\ f.kind = "refresh" /\ x.secret = f.row.secret => x.chain = f.row.chain /\ x.user = f.row.user
                            /\ f.kind = "update" /\ x.access = f.row.secret => x.chain = f.row.chain
    <2> SUFFICES ASSUME NEW g \in t.flight
                 PROVE  /\ g.kind = "refresh" /\ x.secret = g.row.secret => x.chain = g.row.chain /\ x.user = g.row.user
                        /\ g.kind = "update" /\ x.access = g.row.secret => x.chain = g.row.chain
      OBVIOUS
    <2>1. PICK f \in s.flight : f.kind = g.kind /\ Same(f.row, g.row)
      BY DEF Fewer
    <2>2. f.row.secret # 0
      BY DEF Good, Issued, Made
    <2> QED BY <1>1, <1>2, <2>1, <2>2 DEF RefreshRow, Fades, Same
  <1>5. \A y \in t.access : x.access = y.secret => x.chain = y.chain
    <2> SUFFICES ASSUME NEW y \in t.access, x.access = y.secret PROVE x.chain = y.chain
      OBVIOUS
    <2>1. PICK a \in s.access : Same(a, y)
      BY DEF Fewer
    <2>2. a.secret # 0
      BY DEF Good, Issued, Made
    <2> QED BY <1>1, <1>2, <2>1, <2>2 DEF RefreshRow, Fades, Same
  <1> QED BY <1>3, <1>4, <1>5 DEF RefreshRow

LEMMA FewerTidy == ASSUME NEW s, NEW t, Good(s), Fewer(s, t) PROVE AllTidy(t)
  <1> SUFFICES ASSUME NEW c, c \notin t.blurred PROVE Tidy(t, c)
    BY DEF AllTidy
  <1>0. Tidy(s, c)
    BY DEF Good, AllTidy, Fewer
  <1>1. \A x \in t.access : \E a \in s.access : Same(a, x)
    BY DEF Fewer
  <1>2. \A g \in t.flight : \E f \in s.flight : f.kind = g.kind /\ Same(f.row, g.row)
    BY DEF Fewer
  <1>3. \A x, y \in t.access : x.chain = c /\ y.chain = c => x.secret = y.secret
    BY <1>0, <1>1 DEF Tidy, Same
  <1>4. \A a \in t.access, f \in t.flight : f.kind = "update" /\ f.row.chain = c /\ a.chain = c => a.secret = f.row.secret
    BY <1>0, <1>1, <1>2 DEF Tidy, Same
  <1>5. ASSUME NEW x \in t.refresh, x.chain = c, ~x.revoked PROVE Usable(t, c, x)
    <2>1. PICK r \in s.refresh : Fades(s, t, r, x)
      BY DEF Fewer
    <2>2. Usable(s, c, r)
      BY <1>0, <1>5, <2>1 DEF Tidy, Fades, Same
    <2>3. \A q \in t.refresh : q.chain = c /\ ~q.revoked => x.secret = q.secret
      BY <2>1, <2>2 DEF Usable, Fewer, Fades, Same
    <2>4. CASE x.access = r.access
      BY <1>1, <1>2, <2>2, <2>3, <2>4 DEF Usable, Same
    <2>5. CASE x.access # r.access
      <3>1. ~Busy(t, c) /\ \A a \in t.access : a.chain # c
        BY <1>5, <2>1, <2>5 DEF Fades
      <3> QED BY <2>3, <3>1 DEF Usable, Busy, Changing
    <2> QED BY <2>4, <2>5
  <1>6. ASSUME NEW x \in t.refresh, NEW g \in t.flight, g.kind = "refresh", g.row.chain = c, x.secret = g.row.secret
        PROVE  ~x.revoked
    <2>1. PICK r \in s.refresh : Fades(s, t, r, x)
      BY DEF Fewer
    <2>2. PICK f \in s.flight : f.kind = g.kind /\ Same(f.row, g.row)
      BY DEF Fewer
    <2>3. ~r.revoked /\ r.chain = c
      BY <1>0, <1>6, <2>1, <2>2 DEF Tidy, Same, Fades, Good, Rows, RefreshRow
    <2>4. Busy(t, c)
      BY <1>6 DEF Busy, Changing
    <2> QED BY <2>1, <2>3, <2>4 DEF Fades, Same
  <1>7. \A f, g \in t.flight : Changing(f) /\ Changing(g) /\ f.row.chain = c /\ g.row.chain = c => f = g
    BY DEF Fewer
  <1> QED BY <1>3, <1>4, <1>5, <1>6, <1>7 DEF Tidy

LEMMA FewerBusy == ASSUME NEW s, NEW t, Fewer(s, t), NEW c, Busy(t, c) PROVE Busy(s, c)
  BY DEF Fewer, Busy, Changing, Same

LEMMA FewerGone == ASSUME NEW s, NEW t, Good(s), Fewer(s, t) PROVE StaysGone(t)
  <1>1. \A x \in t.access : <<x.chain, x.user>> \notin t.gone
    BY DEF Good, StaysGone, Fewer, Same
  <1>2. \A x \in t.refresh : <<x.chain, x.user>> \notin t.gone \/ x.revoked
    BY DEF Good, StaysGone, Fewer, Fades, Same
  <1>3. \A g \in t.flight : Changing(g) => <<g.row.chain, g.row.user>> \notin t.gone
    BY DEF Good, StaysGone, Fewer, Same, Changing
  <1> QED BY <1>1, <1>2, <1>3 DEF StaysGone

LEMMA FewerJob == ASSUME NEW s, NEW t, Good(s), Fewer(s, t), GoesOn(s, t) PROVE Job(t)
  <1> SUFFICES ASSUME t.job.kind # "none" PROVE ToDo(t) /\ Alone(t)
    BY DEF Job
  <1>0. ToDo(s) /\ Alone(s)
    BY DEF Good, Job, GoesOn
  <1>1. Alone(t)
    <2>1. \A c \in t.job.chains : c \notin t.blurred => ~Busy(t, c)
      BY <1>0, FewerBusy DEF Alone, GoesOn, Fewer
    <2>2. ASSUME NEW c, c \notin t.blurred, Busy(t, c)
          PROVE  (\A a \in t.access : a.chain # c) /\ (\A r \in t.refresh : r.chain # c)
      <3>1. c \notin s.blurred /\ Busy(s, c)
        BY <2>2, FewerBusy DEF Fewer
      <3>2. (\A a \in s.access : a.chain # c) /\ (\A r \in s.refresh : r.chain # c)
        BY <1>0, <3>1 DEF Alone
      <3> QED BY <3>2 DEF Fewer, Fades, Same
    <2> QED BY <2>1, <2>2 DEF Alone
  <1>2. \A r, x : Same(r, x) /\ Mine(t, x) => Mine(s, r)
    BY DEF Same, Mine, Fewer, GoesOn
  <1>3. ASSUME NEW x \in t.refresh, Mine(t, x), ~x.revoked
        PROVE  /\ t.job.kind = "refresh" => x.secret \in t.job.refresh
               /\ t.job.kind = "logout" => x.access \in t.job.access
               /\ t.job.kind # "access"
    <2>1. PICK r \in s.refresh : Fades(s, t, r, x)
      BY DEF Fewer
    <2>2. Mine(s, r) /\ ~r.revoked /\ x.secret = r.secret
      BY <1>2, <1>3, <2>1 DEF Fades, Same
    <2>3. t.job.kind = "logout" => x.access = r.access
      BY <1>3, <2>1 DEF Fades, Mine
    <2> QED BY <1>0, <1>3, <2>2, <2>3 DEF ToDo, GoesOn
  <1>4. ASSUME t.job.kind # "refresh", NEW x \in t.access, Mine(t, x) PROVE x.secret \in t.job.access
    <2>1. PICK a \in s.access : Same(a, x)
      BY DEF Fewer
    <2>2. Mine(s, a) /\ x.secret = a.secret
      BY <1>2, <1>4, <2>1 DEF Same
    <2> QED BY <1>0, <1>4, <2>2 DEF ToDo, GoesOn
  <1> QED BY <1>1, <1>3, <1>4 DEF ToDo

\* Losing rows, revoking them and getting on with a revocation keeps the invariant.
LEMMA FewerGood == ASSUME NEW s, NEW t, Good(s), Fewer(s, t), GoesOn(s, t) PROVE Good(t)
  <1>1. t.job.chains \subseteq 1 .. t.generated
    BY DEF Good, Issued, Fewer, GoesOn
  <1> QED BY <1>1, FewerIssued, FewerRows, FewerTidy, FewerGone, FewerJob DEF Good

-----------------------------------------------------------------------------
(***************************************************************************)
(* Rows that come                                                          *)
(***************************************************************************)
\* The access token a, and its refresh token when there is one, come into a chain
\* that has, unless it is blurred, no access token and nobody else after it.
ComesWith(s, t, a, q) ==
  /\ Made(t, q) /\ q.chain = a.chain /\ q.access = a.secret /\ <<q.chain, q.user>> \notin s.gone
  /\ \A r \in s.refresh : r.secret # q.secret
  /\ \A f \in s.flight : f.row.secret # q.secret /\ f.row.secret # q.access
Comes(s, t, a, Q) ==
  /\ t.access = s.access \cup {a} /\ t.refresh = s.refresh \cup Q
  /\ t.flight = s.flight /\ t.job = s.job /\ t.blurred = s.blurred /\ t.gone = s.gone
  /\ t.generated \in Nat /\ t.generated >= s.generated
  /\ Made(t, a) /\ <<a.chain, a.user>> \notin s.gone
  /\ \A b \in s.access : b.secret # a.secret
  /\ \A r \in s.refresh : r.access = a.secret => r.chain = a.chain
  /\ (\A p, q \in Q : p = q) /\ \A q \in Q : ComesWith(s, t, a, q)
  /\ a.chain \notin s.blurred =>
       /\ ~Busy(s, a.chain) /\ (s.job.kind # "none" => a.chain \notin s.job.chains)
       /\ \A b \in s.access : b.chain # a.chain
       /\ \A r \in s.refresh : r.chain = a.chain /\ ~r.revoked => Q = {} /\ r.access = a.secret

LEMMA ComesGood == ASSUME NEW s, NEW t, NEW a, NEW Q, Good(s), Comes(s, t, a, Q) PROVE Good(t)
  <1>0. /\ t.access = s.access \cup {a} /\ t.refresh = s.refresh \cup Q
        /\ t.flight = s.flight /\ t.job = s.job /\ t.blurred = s.blurred /\ t.gone = s.gone
    BY DEF Comes
  <1>1. \A c : Busy(t, c) <=> Busy(s, c)
    BY <1>0 DEF Busy
  <1>a. /\ t.generated \in Nat /\ t.generated >= s.generated /\ Made(t, a)
        /\ \A r \in s.refresh : r.access = a.secret => r.chain = a.chain
    BY DEF Comes
  <1>p. \A p, q \in Q : p = q
    BY DEF Comes
  <1>q. \A q \in Q : /\ Made(t, q) /\ q.chain = a.chain /\ q.access = a.secret
                    /\ \A r \in s.refresh : r.secret # q.secret
    BY DEF Comes, ComesWith
  <1>f. \A q \in Q : \A f \in s.flight : f.row.secret # q.secret /\ f.row.secret # q.access
    BY DEF Comes, ComesWith
  <1>b. a.chain \notin s.blurred =>
          /\ ~Busy(s, a.chain) /\ (s.job.kind # "none" => a.chain \notin s.job.chains)
          /\ \A b \in s.access : b.chain # a.chain
          /\ \A r \in s.refresh : r.chain = a.chain /\ ~r.revoked => Q = {} /\ r.access = a.secret
    BY DEF Comes
  <1>2. Issued(t)
    <2>1. Issued(s)
      BY DEF Good
    <2>2. s.generated \in Nat /\ \A r : Made(s, r) => Made(t, r)
      BY <1>a, <2>1 DEF Issued, Made
    <2>3. \A r \in t.refresh : Made(t, r) /\ r.access \in 0 .. t.generated
      <3>1. \A r \in s.refresh : Made(t, r) /\ r.access \in 0 .. t.generated
        BY <1>a, <2>1, <2>2 DEF Issued
      <3>2. \A q \in Q : Made(t, q) /\ q.access \in 0 .. t.generated
        BY <1>a, <1>q DEF Made
      <3> QED BY <1>0, <3>1, <3>2
    <2>4. \A b \in t.access : Made(t, b)
      BY <1>0, <1>a, <2>1, <2>2 DEF Issued
    <2>5. t.job.chains \cup t.blurred \subseteq 1 .. t.generated /\ \A g \in t.gone : g[1] \in 1 .. t.generated
      BY <1>0, <1>a, <2>1 DEF Issued
    <2>6. \A f \in t.flight : Made(t, f.row)
      BY <1>0, <2>1, <2>2 DEF Issued
    <2> QED BY <1>a, <2>3, <2>4, <2>5, <2>6 DEF Issued
  <1>3. Rows(t)
    <2>1. \A b, d \in t.access : b.secret = d.secret => b = d
      BY DEF Good, Rows, Comes
    <2>2. ASSUME NEW r \in s.refresh PROVE RefreshRow(t, r)
      <3>1. RefreshRow(s, r)
        BY <2>2 DEF Good, Rows
      <3>2. \A q \in t.refresh : r.secret = q.secret => r = q
        BY <1>0, <1>q, <2>2, <3>1 DEF RefreshRow
      <3>3. \A b \in t.access : r.access = b.secret => r.chain = b.chain
        BY <1>0, <1>a, <2>2, <3>1 DEF RefreshRow
      <3> QED BY <1>0, <3>1, <3>2, <3>3 DEF RefreshRow
    <2>3. ASSUME NEW q \in Q PROVE RefreshRow(t, q)
      <3>1. \A b \in t.access : q.access = b.secret => q.chain = b.chain
        <4>1. q.access = a.secret /\ q.chain = a.chain
          BY <1>q, <2>3
        <4>2. \A b \in s.access : b.secret # a.secret
          BY DEF Comes
        <4> QED BY <1>0, <4>1, <4>2
      <3>2. \A r \in t.refresh : q.secret = r.secret => q = r
        BY <1>0, <1>p, <1>q, <2>3
      <3>3. \A f \in t.flight : f.row.secret # q.secret /\ f.row.secret # q.access
        BY <1>0, <1>f, <2>3
      <3> QED BY <3>1, <3>2, <3>3 DEF RefreshRow
    <2> QED BY <1>0, <2>1, <2>2, <2>3 DEF Rows
  <1>4. ASSUME NEW c, c \notin t.blurred PROVE Tidy(t, c)
    <2>0. Tidy(s, c)
      BY <1>0, <1>4 DEF Good, AllTidy
    <2>1. CASE c # a.chain
      <3>1. \A b \in t.access : b.chain = c => b \in s.access
        BY <1>0, <2>1
      <3>2. \A r \in t.refresh : r.chain = c => r \in s.refresh
        BY <1>0, <1>q, <2>1
      <3>3. \A r : Usable(s, c, r) => Usable(t, c, r)
        BY <1>0, <3>1, <3>2 DEF Usable
      <3>4. \A r \in t.refresh, f \in t.flight :
              f.kind = "refresh" /\ f.row.chain = c /\ r.secret = f.row.secret => ~r.revoked
        <4> SUFFICES ASSUME NEW r \in t.refresh, NEW f \in t.flight, f.kind = "refresh", f.row.chain = c, r.secret = f.row.secret
                     PROVE  ~r.revoked
          OBVIOUS
        <4>1. r \in s.refresh
          BY <1>0, <1>f
        <4> QED BY <1>0, <2>0, <4>1 DEF Tidy
      <3> QED BY <1>0, <2>0, <3>1, <3>2, <3>3, <3>4 DEF Tidy
    <2>2. CASE c = a.chain
      <3>0. a.chain \notin s.blurred
        BY <1>0, <1>4, <2>2
      <3>1. ~Busy(t, c) /\ \A b \in t.access : b.chain = c => b = a
        BY <1>0, <1>1, <1>b, <2>2, <3>0
      <3>2. ASSUME NEW r \in t.refresh, r.chain = c, ~r.revoked PROVE Usable(t, c, r)
        <4>1. r.access = a.secret
          BY <1>0, <1>b, <1>q, <2>2, <3>0, <3>2
        <4>2. \A q \in t.refresh : q.chain = c /\ ~q.revoked => r.secret = q.secret
          <5>1. CASE Q = {}
            BY <1>0, <2>0, <3>2, <5>1 DEF Tidy, Usable
          <5>2. CASE Q # {}
            <6>1. \A q \in t.refresh : q.chain = c /\ ~q.revoked => q \in Q
              BY <1>0, <1>b, <2>2, <3>0, <5>2
            <6> QED BY <1>p, <3>2, <6>1
          <5> QED BY <5>1, <5>2
        <4> QED BY <3>1, <4>1, <4>2 DEF Usable, Busy, Changing
      <3> QED BY <3>1, <3>2 DEF Tidy, Busy, Changing
    <2> QED BY <2>1, <2>2
  <1>5. StaysGone(t)
    BY <1>0 DEF Good, StaysGone, Comes, ComesWith
  <1>6. ASSUME t.job.kind # "none" PROVE ToDo(t) /\ Alone(t)
    <2>0. ToDo(s) /\ Alone(s)
      BY <1>0, <1>6 DEF Good, Job
    <2>1. /\ \A r : Mine(t, r) <=> Mine(s, r)
          /\ ~Mine(s, a) /\ \A q \in Q : ~Mine(s, q)
      BY <1>0, <1>6, <1>b, <1>q DEF Mine
    <2>2. ToDo(t)
      BY <1>0, <2>0, <2>1 DEF ToDo
    <2>3. Alone(t)
      <3>1. ASSUME NEW c, c \notin t.blurred, Busy(t, c)
            PROVE  (\A b \in t.access : b.chain # c) /\ (\A r \in t.refresh : r.chain # c)
        <4>1. c \notin s.blurred /\ Busy(s, c)
          BY <1>0, <1>1, <3>1
        <4>2. a.chain # c
          BY <1>b, <4>1
        <4>3. (\A b \in s.access : b.chain # c) /\ (\A r \in s.refresh : r.chain # c)
          BY <2>0, <4>1 DEF Alone
        <4> QED BY <1>0, <1>q, <4>2, <4>3
      <3>2. \A c \in t.job.chains : c \notin t.blurred => ~Busy(t, c)
        BY <1>0, <1>1, <2>0 DEF Alone
      <3> QED BY <3>1, <3>2 DEF Alone
    <2> QED BY <2>2, <2>3
  <1> QED BY <1>2, <1>3, <1>4, <1>5, <1>6 DEF Good, AllTidy, Job

-----------------------------------------------------------------------------
(***************************************************************************)
(* Requests and revocations that begin                                     *)
(***************************************************************************)
\* A request for a row begins; its chain is blurred if somebody is after it already.
Begins(s, t, f) ==
  /\ t.access = s.access /\ t.refresh = s.refresh /\ t.flight = s.flight \cup {f}
  /\ t.job = s.job /\ t.gone = s.gone /\ t.generated = s.generated
  /\ s.blurred \subseteq t.blurred /\ t.blurred \subseteq s.blurred \cup {f.row.chain}
  /\ Changing(f) /\ f.row.chain \notin t.blurred => s.job.kind = "none" /\ ~Busy(s, f.row.chain)
  /\ \/ f.kind = "refresh" /\ f.row \in s.refresh /\ ~f.row.revoked
     \/ f.kind \in {"update", "use"} /\ f.row \in s.access

LEMMA BeginsGood == ASSUME NEW s, NEW t, NEW f, Good(s), Begins(s, t, f) PROVE Good(t)
  <1>0. /\ t.access = s.access /\ t.refresh = s.refresh /\ t.flight = s.flight \cup {f}
        /\ t.job = s.job /\ t.gone = s.gone /\ t.generated = s.generated /\ s.blurred \subseteq t.blurred
    BY DEF Begins
  <1>1. \A c : Busy(t, c) <=> Busy(s, c) \/ (Changing(f) /\ f.row.chain = c)
    BY <1>0, Zenon DEF Busy
  <1>2. Issued(t)
    BY DEF Good, Issued, Begins, Made
  <1>3. Rows(t)
    <2>1. ASSUME NEW r \in t.refresh PROVE RefreshRow(t, r)
      <3>1. RefreshRow(s, r)
        BY <1>0, <2>1 DEF Good, Rows
      <3>2. f.kind = "refresh" /\ r.secret = f.row.secret => r.chain = f.row.chain /\ r.user = f.row.user
        BY <3>1 DEF Begins, RefreshRow
      <3>3. f.kind = "update" /\ r.access = f.row.secret => r.chain = f.row.chain
        BY <3>1 DEF Begins, RefreshRow
      <3> QED BY <1>0, <3>1, <3>2, <3>3 DEF RefreshRow
    <2> QED BY <1>0, <2>1 DEF Good, Rows
  <1>4. ASSUME NEW c, c \notin t.blurred PROVE Tidy(t, c)
    <2>0. Tidy(s, c)
      BY <1>0, <1>4 DEF Good, AllTidy
    <2>1. CASE ~Changing(f) \/ f.row.chain # c
      <3>1. \A g \in t.flight : Changing(g) /\ g.row.chain = c => g \in s.flight
        BY <1>0, <2>1
      <3>2. \A r : Usable(s, c, r) => Usable(t, c, r)
        BY <1>0, <3>1 DEF Usable, Changing
      <3> QED BY <1>0, <2>0, <3>1, <3>2 DEF Tidy, Changing
    <2>2. CASE Changing(f) /\ f.row.chain = c
      <3>1. \A g \in t.flight : Changing(g) /\ g.row.chain = c => g = f
        BY <1>0, <1>4, <2>2 DEF Begins, Busy
      <3>2. f.kind = "update" => \A b \in t.access : b.chain = c => b.secret = f.row.secret
        BY <1>0, <2>0, <2>2 DEF Tidy, Begins
      <3>3. \A r : r.chain = c /\ Usable(s, c, r) => Usable(t, c, r)
        BY <1>0, <2>2, <3>1 DEF Usable, Changing, Begins
      <3>4. f.kind = "refresh" => \A r \in t.refresh : r.secret = f.row.secret => ~r.revoked
        <4> SUFFICES ASSUME f.kind = "refresh", NEW r \in t.refresh, r.secret = f.row.secret PROVE ~r.revoked
          OBVIOUS
        <4>1. f.row \in s.refresh /\ ~f.row.revoked
          BY DEF Begins
        <4>2. f.row = r
          BY <1>0, <4>1 DEF Good, Rows, RefreshRow
        <4> QED BY <4>1, <4>2
      <3> QED BY <1>0, <2>0, <3>1, <3>2, <3>3, <3>4 DEF Tidy, Changing
    <2> QED BY <2>1, <2>2
  <1>5. StaysGone(t)
    <2>1. <<f.row.chain, f.row.user>> \notin s.gone
      BY DEF Good, StaysGone, Begins
    <2> QED BY <1>0, <2>1 DEF Good, StaysGone
  <1>6. ASSUME t.job.kind # "none" PROVE ToDo(t) /\ Alone(t)
    <2>0. ToDo(s) /\ Alone(s)
      BY <1>0, <1>6 DEF Good, Job
    <2>1. \A c : c \notin t.blurred /\ Busy(t, c) => c \notin s.blurred /\ Busy(s, c)
      BY <1>0, <1>1, <1>6 DEF Begins
    <2>2. Alone(t)
      BY <1>0, <2>0, <2>1 DEF Alone
    <2>3. \A r : Mine(t, r) => Mine(s, r)
      BY <1>0 DEF Mine
    <2>4. ToDo(t)
      BY <1>0, <2>0, <2>3 DEF ToDo
    <2> QED BY <2>2, <2>4
  <1> QED BY <1>2, <1>3, <1>4, <1>5, <1>6 DEF Good, AllTidy, Job

-----------------------------------------------------------------------------
(***************************************************************************)
(* The actions                                                             *)
(***************************************************************************)
\* The invariant of a state in which fewer rows are left and a revocation begins or ends.
LEMMA FewerElse ==
    ASSUME NEW s, NEW t, Good(s), Fewer(s, t), t.job.chains \subseteq 1 .. t.generated, Job(t) PROVE Good(t)
  BY FewerIssued, FewerRows, FewerTidy, FewerGone DEF Good

LEMMA NowIs ==
    ASSUME NEW s, s = Now
    PROVE  /\ s.access = access /\ s.refresh = refresh /\ s.flight = flight /\ s.job = job
           /\ s.blurred = blurred /\ s.generated = generated /\ s.gone = gone
  BY DEF Now

LEMMA ThenIs ==
    ASSUME NEW t, t = Now'
    PROVE  /\ t.access = access' /\ t.refresh = refresh' /\ t.flight = flight' /\ t.job = job'
           /\ t.blurred = blurred' /\ t.generated = generated' /\ t.gone = gone'
  BY DEF Now

LEMMA BusyIs == ASSUME NEW s, s = Now, NEW c PROVE InFlight(c) <=> Busy(s, c)
  <1>1. s.flight = flight
    BY DEF Now
  <1>2. ASSUME InFlight(c) PROVE Busy(s, c)
    BY <1>1, <1>2 DEF InFlight, Busy, Changing
  <1>3. ASSUME Busy(s, c) PROVE InFlight(c)
    <2>1. PICK f \in flight : Changing(f) /\ f.row.chain = c
      BY <1>1, <1>3 DEF Busy
    <2> QED BY <2>1 DEF InFlight, Changing
  <1> QED BY <1>2, <1>3

\* Nothing that the invariant is about changes.
LEMMA SameGood ==
    ASSUME Good(Now), UNCHANGED <<access, refresh, flight, job, blurred, generated, gone>>
    PROVE  Good(Now)'
  <1>1. Now' = Now
    BY DEF Now
  <1> QED BY <1>1

\* A chain that is new.
LEMMA NewChain ==
    ASSUME Good(Now), UNCHANGED <<flight, job, blurred, gone>>,
           generated' \in Nat, generated' > generated,
           NEW a, a.secret = generated + 1, a.chain = generated + 1, access' = access \cup {a},
           NEW Q, refresh' = refresh \cup Q, \A p, q \in Q : p = q,
           \A q \in Q : /\ q.secret = generated + 2 /\ generated' >= generated + 2
                        /\ q.chain = a.chain /\ q.access = a.secret
    PROVE  Good(Now)'
  <1>1. PICK s : s = Now
    OBVIOUS
  <1>2. PICK t : t = Now'
    OBVIOUS
  <1>3. Issued(s)
    BY <1>1 DEF Good
  <1>4. generated \in Nat /\ s.generated = generated
    BY <1>1, <1>3, NowIs DEF Issued
  <1>5. \A r \in s.access \cup s.refresh : r.secret <= generated /\ r.chain <= generated
    BY <1>3, <1>4 DEF Issued, Made
  <1>6. \A r \in s.refresh : r.access <= generated
    BY <1>3, <1>4 DEF Issued
  <1>7. \A f \in s.flight : f.row.secret <= generated /\ f.row.chain <= generated
    BY <1>3, <1>4 DEF Issued, Made
  <1>8. a.chain \notin s.blurred /\ a.chain \notin s.job.chains /\ \A u : <<a.chain, u>> \notin s.gone
    BY <1>3, <1>4 DEF Issued
  <1>9. \A r \in s.access \cup s.refresh : r.secret \in Nat /\ r.chain \in Nat
    BY <1>3, <1>4 DEF Issued, Made
  <1>10. \A f \in s.flight : f.row.secret \in Nat /\ f.row.chain \in Nat
    BY <1>3, <1>4 DEF Issued, Made
  <1>11. \A r \in s.refresh : r.access \in Nat
    BY <1>3, <1>4 DEF Issued
  <1>12. Made(t, a) /\ \A q \in Q : Made(t, q)
    BY <1>2, <1>4, ThenIs DEF Made
  <1>13. ~Busy(s, a.chain)
    BY <1>4, <1>7, <1>10 DEF Busy
  <1>14. \A q \in Q : ComesWith(s, t, a, q)
    BY <1>4, <1>5, <1>7, <1>8, <1>9, <1>10, <1>12 DEF ComesWith
  <1>15. /\ \A b \in s.access : b.secret # a.secret /\ b.chain # a.chain
         /\ \A r \in s.refresh : r.access # a.secret /\ r.chain # a.chain
    BY <1>4, <1>5, <1>6, <1>9, <1>11
  <1>16. Comes(s, t, a, Q)
    BY <1>1, <1>2, <1>4, <1>8, <1>12, <1>13, <1>14, <1>15, NowIs, ThenIs DEF Comes
  <1> QED BY <1>1, <1>2, <1>16, ComesGood

LEMMA CreateGood == ASSUME Good(Now), NEW u, Create(u) \/ Grant(u) PROVE Good(Now)'
  <1>0. generated \in Nat
    BY DEF Good, Issued, Now
  <1>1. CASE Create(u)
    <2>1. PICK app \in Applications \cup {Nothing} : \E scope \in Scopes \ {{}} :
            LET owner == IF app # Nothing /\ ApplicationUser[app] # Nothing THEN ApplicationUser[app] ELSE u
                s == generated + 1
            IN /\ Generates(IF app = Nothing THEN 1 ELSE 2)
               /\ access' = access \cup {NewAccess(s, owner, app, scope, NoSource, s)}
               /\ refresh' = refresh \cup (IF app = Nothing THEN {} ELSE {NewRefresh(s + 1, u, app, s, s)})
               /\ UNCHANGED <<flight, job, blurred, gone>>
      BY <1>1 DEF Create
    <2>2. PICK scope \in Scopes \ {{}}, owner \in {IF app # Nothing /\ ApplicationUser[app] # Nothing THEN ApplicationUser[app] ELSE u} :
               /\ Generates(IF app = Nothing THEN 1 ELSE 2)
               /\ access' = access \cup {NewAccess(generated + 1, owner, app, scope, NoSource, generated + 1)}
               /\ refresh' = refresh \cup (IF app = Nothing THEN {} ELSE {NewRefresh(generated + 1 + 1, u, app, generated + 1, generated + 1)})
               /\ UNCHANGED <<flight, job, blurred, gone>>
      BY <2>1
    <2> DEFINE a == NewAccess(generated + 1, owner, app, scope, NoSource, generated + 1)
               Q == IF app = Nothing THEN {} ELSE {NewRefresh(generated + 1 + 1, u, app, generated + 1, generated + 1)}
    <2>3. a.secret = generated + 1 /\ a.chain = generated + 1
      BY DEF NewAccess
    <2>4. generated' \in Nat /\ generated' > generated
      BY <1>0, <2>2 DEF Generates
    <2>5. (\A p, q \in Q : p = q) /\ \A q \in Q : app # Nothing /\ q = NewRefresh(generated + 1 + 1, u, app, generated + 1, generated + 1)
      OBVIOUS
    <2>6. \A q \in Q : /\ q.secret = generated + 2 /\ generated' >= generated + 2
                       /\ q.chain = a.chain /\ q.access = a.secret
      BY <1>0, <2>2, <2>3, <2>5 DEF Generates, NewRefresh
    <2>7. access' = access \cup {a} /\ refresh' = refresh \cup Q /\ UNCHANGED <<flight, job, blurred, gone>>
      BY <2>2
    <2> HIDE DEF a, Q
    <2> QED BY <2>3, <2>4, <2>5, <2>6, <2>7, NewChain
  <1>2. CASE Grant(u)
    <2>1. PICK app \in Applications, scope \in Scopes \ {{}} :
            /\ Generates(2)
            /\ access' = access \cup {NewAccess(generated + 1, u, app, scope, NoSource, generated + 1)}
            /\ refresh' = refresh \cup {NewRefresh(generated + 2, u, app, generated + 1, generated + 1)}
            /\ UNCHANGED <<flight, job, blurred, gone>>
      BY <1>2 DEF Grant
    <2> DEFINE a == NewAccess(generated + 1, u, app, scope, NoSource, generated + 1)
               Q == {NewRefresh(generated + 2, u, app, generated + 1, generated + 1)}
    <2>2. a.secret = generated + 1 /\ a.chain = generated + 1
      BY DEF NewAccess
    <2>3. generated' \in Nat /\ generated' >= generated + 2 /\ generated' > generated
      BY <1>0, <2>1 DEF Generates
    <2>4. \A p, q \in Q : p = q
      OBVIOUS
    <2>5. \A q \in Q : /\ q.secret = generated + 2 /\ generated' >= generated + 2
                       /\ q.chain = a.chain /\ q.access = a.secret
      BY <2>2, <2>3 DEF NewRefresh
    <2>6. access' = access \cup {a} /\ refresh' = refresh \cup Q /\ UNCHANGED <<flight, job, blurred, gone>>
      BY <2>1
    <2> HIDE DEF a, Q
    <2> QED BY <2>2, <2>3, <2>4, <2>5, <2>6, NewChain
  <1> QED BY <1>1, <1>2

\* Requests for a row.
LEMMA BeginGood ==
    ASSUME Good(Now), NEW k, NEW row, Starts(k, row),
           (k = "refresh" /\ row \in refresh /\ ~row.revoked) \/ (k \in {"update", "use"} /\ row \in access)
    PROVE  Good(Now)'
  <1>1. PICK s : s = Now
    OBVIOUS
  <1>2. PICK t : t = Now'
    OBVIOUS
  <1>3. PICK f : f = [kind |-> k, row |-> row]
    OBVIOUS
  <1>4. f.kind = k /\ f.row = row
    BY <1>3
  <1>5. blurred' = blurred \cup {c \in {row.chain} : k # "use" /\ (job.kind # "none" \/ Busy(s, c))}
    BY <1>1, BusyIs DEF Starts, Overlaps
  <1>6. /\ blurred \subseteq blurred' /\ blurred' \subseteq blurred \cup {row.chain}
        /\ k # "use" /\ row.chain \notin blurred' => job.kind = "none" /\ ~Busy(s, row.chain)
    BY <1>5
  <1>7. Begins(s, t, f)
    BY <1>1, <1>2, <1>3, <1>4, <1>6, NowIs, ThenIs DEF Begins, Starts, Changing
  <1> QED BY <1>1, <1>2, <1>7, BeginsGood

\* Only flags and references of refresh tokens change, and rows go.
LEMMA Subsets ==
    ASSUME NEW s, NEW t, Good(s), t.generated = s.generated, t.gone = s.gone,
           s.blurred \subseteq t.blurred, t.blurred \subseteq 1 .. t.generated,
           t.access \subseteq s.access, t.flight \subseteq s.flight,
           \A x \in t.refresh : \E r \in s.refresh : Fades(s, t, r, x),
           \A x, y \in t.refresh : x.secret = y.secret => x = y
    PROVE  Fewer(s, t)
  <1>1. \A a \in s.access : Same(a, a)
    BY DEF Same
  <1>2. \A f \in s.flight : Same(f.row, f.row)
    BY DEF Same
  <1>3. \A x, y \in s.access : x.secret = y.secret => x = y
    BY DEF Good, Rows
  <1>4. \A c : c \notin t.blurred => \A f, g \in t.flight :
         Changing(f) /\ Changing(g) /\ f.row.chain = c /\ g.row.chain = c => f = g
    BY DEF Good, AllTidy, Tidy
  <1> QED BY <1>1, <1>2, <1>3, <1>4 DEF Fewer

LEMMA Unfaded == ASSUME NEW s, NEW t, NEW r PROVE Fades(s, t, r, r)
  BY DEF Fades, Same

\* A request ends and leaves the rows as they are.
LEMMA NothingComes ==
    ASSUME Good(Now), NEW f, Ends(f), UNCHANGED <<access, refresh, generated, job, blurred, gone>>
    PROVE  Good(Now)'
  <1>1. PICK s : s = Now
    OBVIOUS
  <1>2. PICK t : t = Now'
    OBVIOUS
  <1>3. /\ t.access = s.access /\ t.refresh = s.refresh /\ t.flight \subseteq s.flight /\ t.job = s.job
        /\ t.blurred = s.blurred /\ t.generated = s.generated /\ t.gone = s.gone
    BY <1>1, <1>2, NowIs, ThenIs DEF Ends
  <1>4. Good(s)
    BY <1>1
  <1>5. t.blurred \subseteq 1 .. t.generated
    BY <1>3, <1>4 DEF Good, Issued
  <1>6. Fewer(s, t)
    <2>1. \A x \in t.refresh : \E r \in s.refresh : Fades(s, t, r, x)
      BY <1>3, Unfaded
    <2>2. \A x, y \in t.refresh : x.secret = y.secret => x = y
      BY <1>3, <1>4 DEF Good, Rows, RefreshRow
    <2> QED BY <1>3, <1>4, <1>5, <2>1, <2>2, Subsets
  <1>7. GoesOn(s, t)
    BY <1>3 DEF GoesOn
  <1> QED BY <1>1, <1>2, <1>4, <1>6, <1>7, FewerGood

\* What becomes of a refresh token that is revoked.
LEMMA RevokedRows ==
    ASSUME NEW R, R \subseteq Refresh, NEW k, \A x, y \in R : x.secret = y.secret => x = y
    PROVE  /\ \A x \in Revoked(R, k) : \E r \in R : /\ Same(r, x) /\ (r.revoked => x.revoked)
                                                   /\ IF r.secret = k THEN x.revoked /\ x.access = 0 ELSE x = r
           /\ \A x, y \in Revoked(R, k) : x.secret = y.secret => x = y
  <1> DEFINE F(x) == IF x.secret = k THEN [x EXCEPT !.access = 0, !.revoked = TRUE] ELSE x
  <1>1. \A x \in R : /\ Same(x, F(x)) /\ (x.revoked => F(x).revoked)
                     /\ IF x.secret = k THEN F(x).revoked /\ F(x).access = 0 ELSE F(x) = x
    BY DEF Refresh, Same
  <1>2. Revoked(R, k) = {F(x) : x \in R}
    BY DEF Revoked
  <1> HIDE DEF F
  <1>3. \A x \in Revoked(R, k) : \E r \in R : x = F(r)
    BY <1>2
  <1>4. ASSUME NEW x \in Revoked(R, k), NEW y \in Revoked(R, k), x.secret = y.secret PROVE x = y
    <2>1. PICK r \in R, q \in R : x = F(r) /\ y = F(q)
      BY <1>3
    <2>2. r.secret = q.secret
      BY <1>1, <1>4, <2>1 DEF Same
    <2> QED BY <2>1, <2>2
  <1> QED BY <1>1, <1>3, <1>4

\* The refresh tokens of access tokens that go.
Unlinked(R, S) == {IF r.access \in S THEN [r EXCEPT !.access = 0] ELSE r : r \in R}

LEMMA UnlinkedRows ==
    ASSUME NEW R, R \subseteq Refresh, NEW S, \A x, y \in R : x.secret = y.secret => x = y
    PROVE  /\ \A x \in Unlinked(R, S) : \E r \in R : /\ Same(r, x) /\ x.revoked = r.revoked
                                                    /\ IF r.access \in S THEN x.access = 0 ELSE x = r
           /\ \A x, y \in Unlinked(R, S) : x.secret = y.secret => x = y
  <1> DEFINE F(r) == IF r.access \in S THEN [r EXCEPT !.access = 0] ELSE r
  <1>1. \A r \in R : /\ Same(r, F(r)) /\ F(r).revoked = r.revoked
                     /\ IF r.access \in S THEN F(r).access = 0 ELSE F(r) = r
    BY DEF Refresh, Same
  <1>2. Unlinked(R, S) = {F(r) : r \in R}
    BY DEF Unlinked
  <1> HIDE DEF F
  <1>3. \A x \in Unlinked(R, S) : \E r \in R : x = F(r)
    BY <1>2
  <1>4. ASSUME NEW x \in Unlinked(R, S), NEW y \in Unlinked(R, S), x.secret = y.secret PROVE x = y
    <2>1. PICK r \in R, q \in R : x = F(r) /\ y = F(q)
      BY <1>3
    <2>2. r.secret = q.secret
      BY <1>1, <1>4, <2>1 DEF Same
    <2> QED BY <2>1, <2>2
  <1> QED BY <1>1, <1>3, <1>4

\* The end of a request that was alone leaves nobody after the chain.
LEMMA EndsAlone ==
    ASSUME NEW s, Good(s), NEW f \in s.flight, Changing(f), NEW m, m.flight = s.flight \ {f},
           f.row.chain \notin s.blurred
    PROVE  ~Busy(m, f.row.chain)
  BY DEF Good, AllTidy, Tidy, Busy

\* What a refreshing request takes away: the refresh token is revoked, and its access
\* token goes; nothing that can be used is left in the chain.
LEMMA RefreshTakes ==
    ASSUME NEW s, Good(s), s.refresh \subseteq Refresh,
           NEW f \in s.flight, f.kind = "refresh", NEW r \in s.refresh, r.secret = f.row.secret,
           NEW m, m.flight = s.flight \ {f}, m.refresh = Revoked(s.refresh, r.secret),
           m.access = IF r.revoked THEN s.access ELSE s.access \ {a \in s.access : a.secret = r.access},
           m.job = s.job, m.blurred = s.blurred, m.generated = s.generated, m.gone = s.gone
    PROVE  /\ Good(m) /\ r.chain = f.row.chain /\ r.user = f.row.user
           /\ r.chain \notin s.blurred =>
                /\ ~Busy(m, r.chain) /\ s.job.kind = "none"
                /\ \A a \in m.access : a.chain # r.chain
                /\ \A x \in m.refresh : x.chain = r.chain => x.revoked
  <1>0. Changing(f) /\ r.chain = f.row.chain /\ r.user = f.row.user
    BY DEF Changing, Good, Rows, RefreshRow
  <1>1. \A x, y \in s.refresh : x.secret = y.secret => x = y
    BY DEF Good, Rows, RefreshRow
  <1>2. /\ \A x \in m.refresh : \E q \in s.refresh : /\ Same(q, x) /\ (q.revoked => x.revoked)
                                                   /\ IF q.secret = r.secret THEN x.revoked /\ x.access = 0 ELSE x = q
        /\ \A x, y \in m.refresh : x.secret = y.secret => x = y
    BY <1>1, RevokedRows
  <1>3. r.chain \notin s.blurred => ~Busy(m, r.chain)
    BY <1>0, EndsAlone
  <1>4. ASSUME NEW x \in m.refresh PROVE \E q \in s.refresh : Fades(s, m, q, x)
    <2>1. PICK q \in s.refresh : /\ Same(q, x) /\ (q.revoked => x.revoked)
                                 /\ IF q.secret = r.secret THEN x.revoked /\ x.access = 0 ELSE x = q
      BY <1>2
    <2>2. CASE q.secret = r.secret
      <3>1. q = r /\ x.chain = r.chain
        BY <1>1, <2>1, <2>2 DEF Same
      <3>2. x.chain \in m.blurred \/ ~Busy(m, x.chain)
        BY <1>3, <3>1
      <3> QED BY <2>1, <2>2, <3>2 DEF Fades
    <2>3. CASE q.secret # r.secret
      BY <2>1, <2>3, Unfaded
    <2> QED BY <2>2, <2>3
  <1>5. m.blurred \subseteq 1 .. m.generated
    BY DEF Good, Issued
  <1>6. Fewer(s, m)
    BY <1>2, <1>4, <1>5, Subsets
  <1>7. GoesOn(s, m)
    BY DEF GoesOn
  <1>8. Good(m)
    BY <1>6, <1>7, FewerGood
  <1>9. ASSUME r.chain \notin s.blurred
        PROVE  /\ s.job.kind = "none"
               /\ \A a \in m.access : a.chain # r.chain
               /\ \A x \in m.refresh : x.chain = r.chain => x.revoked
    <2>1. Tidy(s, r.chain)
      BY <1>9 DEF Good, AllTidy
    <2>2. ~r.revoked
      BY <1>0, <2>1 DEF Tidy
    <2>3. Usable(s, r.chain, r)
      BY <2>1, <2>2 DEF Tidy
    <2>4. \A a \in m.access : a.chain # r.chain
      BY <2>2, <2>3 DEF Usable
    <2>5. \A x \in m.refresh : x.chain = r.chain => x.revoked
      BY <1>2, <2>3 DEF Usable, Same
    <2>6. Busy(s, r.chain)
      BY <1>0 DEF Busy
    <2>7. s.job.kind = "none"
      BY <1>9, <2>6 DEF Good, Job, Alone
    <2> QED BY <2>4, <2>5, <2>7
  <1> QED BY <1>0, <1>3, <1>8, <1>9

LEMMA RefreshGood ==
    ASSUME TypeInv, Good(Now), NEW f \in flight, RefreshEnd(f)
    PROVE  Good(Now)'
  <1>1. PICK s : s = Now
    OBVIOUS
  <1>2. PICK t : t = Now'
    OBVIOUS
  <1>3. f.kind = "refresh" /\ Ends(f) /\ UNCHANGED <<job, blurred, gone>>
    BY DEF RefreshEnd
  <1>4. PICK r \in refresh :
       LET previous == {a \in access : a.source = r.secret}
           old == {a \in access : a.secret = r.access}
           kept == IF r.revoked THEN access ELSE access \ old
           scope == UNION {a.scope : a \in IF old = {} THEN previous ELSE old}
       IN /\ r.secret = f.row.secret
          /\ IF previous # {} THEN access' = kept /\ refresh' = Revoked(refresh, r.secret) /\ generated' = generated
             ELSE IF ~validate_external_users(r.user) THEN UNCHANGED <<access, refresh, generated>>
             ELSE /\ Generates(2)
                  /\ access' = kept \cup {NewAccess(generated + 1, r.user, r.app, scope, r.secret, r.chain)}
                  /\ refresh' = Revoked(refresh, r.secret)
                                \cup {NewRefresh(generated + 2, r.user, r.app, generated + 1, r.chain)}
    BY DEF RefreshEnd
  <1> DEFINE kept == IF r.revoked THEN access ELSE access \ {a \in access : a.secret = r.access}
             scope == UNION {a.scope : a \in IF {a \in access : a.secret = r.access} = {}
                                              THEN {a \in access : a.source = r.secret}
                                              ELSE {a \in access : a.secret = r.access}}
  <1>5. PICK m : m = [access |-> kept, refresh |-> Revoked(refresh, r.secret), flight |-> flight',
                      job |-> job, blurred |-> blurred, generated |-> generated, gone |-> gone]
    OBVIOUS
  <1>6. /\ m.access = kept /\ m.refresh = Revoked(refresh, r.secret) /\ m.flight = flight' /\ m.job = job
        /\ m.blurred = blurred /\ m.generated = generated /\ m.gone = gone
    BY <1>5
  <1>7. /\ Good(m) /\ r.chain = f.row.chain /\ r.user = f.row.user
        /\ r.chain \notin blurred =>
              /\ ~Busy(m, r.chain) /\ job.kind = "none"
              /\ \A a \in m.access : a.chain # r.chain
              /\ \A x \in m.refresh : x.chain = r.chain => x.revoked
    <2>1. refresh \subseteq Refresh
      BY DEF TypeInv, TokensTypeOK
    <2> HIDE DEF scope
    <2> QED BY <1>1, <1>3, <1>4, <1>6, <2>1, NowIs, RefreshTakes DEF Ends
  <1>8. CASE access' = kept /\ refresh' = Revoked(refresh, r.secret) /\ generated' = generated
    <2>1. t = m
      BY <1>2, <1>3, <1>5, <1>8 DEF Now
    <2> QED BY <1>2, <1>7, <2>1
  <1>9. CASE UNCHANGED <<access, refresh, generated>>
    BY <1>3, <1>9, NothingComes
  <1>10. CASE /\ Generates(2)
              /\ access' = kept \cup {NewAccess(generated + 1, r.user, r.app, scope, r.secret, r.chain)}
              /\ refresh' = Revoked(refresh, r.secret)
                            \cup {NewRefresh(generated + 2, r.user, r.app, generated + 1, r.chain)}
    <2>1. PICK a, q : a = NewAccess(generated + 1, r.user, r.app, scope, r.secret, r.chain)
                      /\ q = NewRefresh(generated + 2, r.user, r.app, generated + 1, r.chain)
      OBVIOUS
    <2>2. /\ a.secret = generated + 1 /\ a.chain = r.chain /\ a.user = r.user
          /\ q.secret = generated + 2 /\ q.chain = r.chain /\ q.user = r.user /\ q.access = generated + 1
      BY <2>1 DEF NewAccess, NewRefresh
    <2>3. generated \in Nat /\ generated' = generated + 2
      BY <1>10 DEF Generates, Good, Issued, Now
    <2>4. r.chain \in 1 .. generated /\ <<r.chain, r.user>> \notin gone
      <3>1. Made(s, r)
        BY <1>1, NowIs DEF Good, Issued
      <3>2. <<f.row.chain, f.row.user>> \notin gone
        BY <1>1, <1>3, NowIs DEF Good, StaysGone, Changing
      <3> QED BY <1>1, <1>7, <3>1, <3>2, NowIs DEF Made
    <2>5. Issued(m)
      BY <1>7 DEF Good
    <2>6. Made(t, a) /\ Made(t, q)
      BY <1>2, <2>2, <2>3, <2>4, ThenIs DEF Made
    <2>7. /\ \A b \in m.access : b.secret \in Nat /\ b.secret <= generated
          /\ \A x \in m.refresh : x.secret \in Nat /\ x.secret <= generated /\ x.access \in Nat /\ x.access <= generated
          /\ \A g \in m.flight : g.row.secret \in Nat /\ g.row.secret <= generated
      BY <1>6, <2>3, <2>5 DEF Issued, Made
    <2>8. ComesWith(m, t, a, q)
      BY <1>6, <2>2, <2>3, <2>4, <2>6, <2>7 DEF ComesWith
    <2>9. /\ \A b \in m.access : b.secret # a.secret
          /\ \A x \in m.refresh : x.access # a.secret
      BY <2>2, <2>3, <2>7
    <2>10. /\ t.access = m.access \cup {a} /\ t.refresh = m.refresh \cup {q}
           /\ t.flight = m.flight /\ t.job = m.job /\ t.blurred = m.blurred /\ t.gone = m.gone
           /\ t.generated \in Nat /\ t.generated >= m.generated
      <3> HIDE DEF kept, scope
      <3>1. access' = kept \cup {a} /\ refresh' = Revoked(refresh, r.secret) \cup {q}
        BY <1>10, <2>1
      <3>2. t.generated \in Nat /\ t.generated >= m.generated
        BY <1>2, <1>6, <2>3, ThenIs
      <3> QED BY <1>2, <1>3, <1>6, <3>1, <3>2, ThenIs
    <2>11. a.chain \notin m.blurred =>
             /\ ~Busy(m, a.chain) /\ (m.job.kind # "none" => a.chain \notin m.job.chains)
             /\ \A b \in m.access : b.chain # a.chain
             /\ \A x \in m.refresh : x.chain = a.chain /\ ~x.revoked => {q} = {} /\ x.access = a.secret
      BY <1>6, <1>7, <2>2
    <2>12. <<a.chain, a.user>> \notin m.gone
      BY <1>6, <2>2, <2>4
    <2>13. Comes(m, t, a, {q})
      BY <2>6, <2>8, <2>9, <2>10, <2>11, <2>12 DEF Comes
    <2> QED BY <1>2, <1>7, <2>13, ComesGood
  <1> QED BY <1>4, <1>8, <1>9, <1>10

\* An update writes its row over what is there, and back when it is gone.
LEMMA UpdateGood ==
    ASSUME TypeInv, Good(Now), NEW f \in flight, UpdateEnd(f)
    PROVE  Good(Now)'
  <1>1. PICK s : s = Now
    OBVIOUS
  <1>2. PICK t : t = Now'
    OBVIOUS
  <1>3. /\ f.kind = "update" /\ flight' = flight \ {f} /\ Changing(f)
        /\ UNCHANGED <<refresh, generated, job, blurred, gone>>
    BY DEF UpdateEnd, Ends, Changing
  <1>4. PICK a : /\ access' = {b \in access : b.secret # f.row.secret} \cup {a}
                 /\ a.secret = f.row.secret /\ a.chain = f.row.chain /\ a.user = f.row.user
    <2>1. f.row \in Access
      BY <1>3 DEF TypeInv, Flight
    <2>2. PICK app \in Applications \cup {Nothing}, scope \in Scopes \ {{}} :
            access' = {b \in access : b.secret # f.row.secret}
                      \cup {[f.row EXCEPT !.app = app, !.scope = scope,
                                          !.source = IF \E r \in refresh : r.secret = @ THEN @ ELSE NoSource]}
      BY DEF UpdateEnd
    <2>3. PICK source : source = IF \E r \in refresh : r.secret = f.row.source THEN f.row.source ELSE NoSource
      OBVIOUS
    <2>4. access' = {b \in access : b.secret # f.row.secret}
                    \cup {[f.row EXCEPT !.app = app, !.scope = scope, !.source = source]}
      <3>1. [f.row EXCEPT !.app = app, !.scope = scope].source = f.row.source
        BY <2>1 DEF Access
      <3>2. [f.row EXCEPT !.app = app, !.scope = scope,
                          !.source = IF \E r \in refresh : r.secret = @ THEN @ ELSE NoSource]
            = [f.row EXCEPT !.app = app, !.scope = scope, !.source = source]
        BY <2>3, <3>1
      <3> QED BY <2>2, <3>2
    <2>5. PICK x : x = [f.row EXCEPT !.app = app, !.scope = scope, !.source = source]
      OBVIOUS
    <2>6. x.secret = f.row.secret /\ x.chain = f.row.chain /\ x.user = f.row.user
      BY <2>1, <2>5 DEF Access
    <2> QED BY <2>4, <2>5, <2>6
  <1>5. PICK m : m = [access |-> {b \in access : b.secret # f.row.secret}, refresh |-> refresh, flight |-> flight',
                      job |-> job, blurred |-> blurred, generated |-> generated, gone |-> gone]
    OBVIOUS
  <1>6. /\ m.access = {b \in access : b.secret # f.row.secret} /\ m.refresh = s.refresh /\ m.flight = s.flight \ {f}
        /\ m.job = s.job /\ m.blurred = s.blurred /\ m.generated = s.generated /\ m.gone = s.gone
    BY <1>1, <1>3, <1>5, NowIs
  <1>7. Good(s) /\ f \in s.flight
    BY <1>1, NowIs
  <1>8. Good(m)
    <2>1. m.blurred \subseteq 1 .. m.generated
      BY <1>6, <1>7 DEF Good, Issued
    <2>2. \A x, y \in m.refresh : x.secret = y.secret => x = y
      BY <1>6, <1>7 DEF Good, Rows, RefreshRow
    <2>3. \A x \in m.refresh : \E r \in s.refresh : Fades(s, m, r, x)
      BY <1>6, Unfaded
    <2>4. m.access \subseteq s.access
      BY <1>1, <1>6, NowIs
    <2>5. Fewer(s, m)
      BY <1>6, <1>7, <2>1, <2>2, <2>3, <2>4, Subsets
    <2>6. GoesOn(s, m)
      BY <1>6 DEF GoesOn
    <2> QED BY <1>7, <2>5, <2>6, FewerGood
  <1>9. a.chain \notin m.blurred =>
          /\ ~Busy(m, a.chain) /\ (m.job.kind # "none" => a.chain \notin m.job.chains)
          /\ \A b \in m.access : b.chain # a.chain
          /\ \A r \in m.refresh : r.chain = a.chain /\ ~r.revoked => r.access = a.secret
    <2> SUFFICES ASSUME a.chain \notin s.blurred
                 PROVE  /\ ~Busy(m, a.chain) /\ (s.job.kind # "none" => a.chain \notin s.job.chains)
                        /\ \A b \in m.access : b.chain # a.chain
                        /\ \A r \in s.refresh : r.chain = a.chain /\ ~r.revoked => r.access = a.secret
      BY <1>6
    <2>1. Tidy(s, a.chain)
      BY <1>7 DEF Good, AllTidy
    <2>2. ~Busy(m, a.chain)
      BY <1>3, <1>4, <1>6, <1>7, EndsAlone
    <2>3. Busy(s, a.chain)
      BY <1>3, <1>4, <1>7 DEF Busy
    <2>4. s.job.kind # "none" => a.chain \notin s.job.chains
      BY <1>7, <2>3 DEF Good, Job, Alone
    <2>5. \A b \in m.access : b \in s.access /\ b.secret # f.row.secret
      BY <1>1, <1>6, NowIs
    <2>6. \A b \in m.access : b.chain # a.chain
      BY <1>3, <1>4, <1>7, <2>1, <2>5 DEF Tidy
    <2>7. \A r \in s.refresh : r.chain = a.chain /\ ~r.revoked => r.access = a.secret
      BY <1>3, <1>4, <1>7, <2>1 DEF Tidy, Usable
    <2> QED BY <2>2, <2>4, <2>6, <2>7
  <1>10. \A r \in m.refresh : r.access = a.secret => r.chain = a.chain
    BY <1>3, <1>4, <1>6, <1>7 DEF Good, Rows, RefreshRow
  <1>11. <<a.chain, a.user>> \notin m.gone
    BY <1>3, <1>4, <1>6, <1>7 DEF Good, StaysGone
  <1>12. Made(t, a) /\ t.generated \in Nat /\ t.generated >= m.generated
    BY <1>1, <1>2, <1>3, <1>4, <1>6, <1>7, NowIs, ThenIs DEF Good, Issued, Made
  <1>13. /\ t.access = m.access \cup {a} /\ t.refresh = m.refresh \cup {}
         /\ t.flight = m.flight /\ t.job = m.job /\ t.blurred = m.blurred /\ t.gone = m.gone
    BY <1>1, <1>2, <1>3, <1>4, <1>6, NowIs, ThenIs
  <1>14. \A b \in m.access : b.secret # a.secret
    BY <1>4, <1>6
  <1>15. Comes(m, t, a, {})
    BY <1>9, <1>10, <1>11, <1>12, <1>13, <1>14 DEF Comes
  <1> QED BY <1>2, <1>8, <1>15, ComesGood

\* Rows of access tokens go, and the refresh tokens that refer to them forget them.
LEMMA DeleteGood ==
    ASSUME TypeInv, Good(Now), NEW a \in access, Deletes({a}), Disturbs({a.chain}),
           UNCHANGED <<generated, flight, job, gone>>
    PROVE  Good(Now)'
  <1>1. PICK s : s = Now
    OBVIOUS
  <1>2. PICK t : t = Now'
    OBVIOUS
  <1>3. /\ t.access = s.access \ {a} /\ t.refresh = Unlinked(s.refresh, {a.secret}) /\ t.flight = s.flight /\ t.job = s.job
        /\ t.generated = s.generated /\ t.gone = s.gone /\ a \in s.access
    <2>1. refresh' = Unlinked(refresh, {a.secret})
      BY DEF Deletes, Unlinked
    <2> QED BY <1>1, <1>2, <2>1, NowIs, ThenIs DEF Deletes
  <1>4. /\ t.blurred = s.blurred \cup {c \in {a.chain} : Busy(s, c) \/ s.job.kind # "none"}
        /\ Good(s) /\ s.refresh \subseteq Refresh
    BY <1>1, <1>2, NowIs, ThenIs, BusyIs DEF Disturbs, TypeInv, TokensTypeOK
  <1>5. a.chain \notin t.blurred => ~Busy(s, a.chain) /\ s.job.kind = "none"
    BY <1>4
  <1>6. \A x, y \in s.refresh : x.secret = y.secret => x = y
    BY <1>4 DEF Good, Rows, RefreshRow
  <1>7. /\ \A x \in t.refresh : \E r \in s.refresh : /\ Same(r, x) /\ x.revoked = r.revoked
                                                    /\ IF r.access = a.secret THEN x.access = 0 ELSE x = r
        /\ \A x, y \in t.refresh : x.secret = y.secret => x = y
    <2>1. PICK S : S = {a.secret}
      OBVIOUS
    <2>2. t.refresh = Unlinked(s.refresh, S)
      BY <1>3, <2>1
    <2>3. /\ \A x \in Unlinked(s.refresh, S) : \E r \in s.refresh : /\ Same(r, x) /\ x.revoked = r.revoked
                                                                    /\ IF r.access \in S THEN x.access = 0 ELSE x = r
          /\ \A x, y \in Unlinked(s.refresh, S) : x.secret = y.secret => x = y
      <3>1. s.refresh \subseteq Refresh
        BY <1>4
      <3> QED BY ONLY <3>1, <1>6, UnlinkedRows
    <2>4. \A r : r.access \in S <=> r.access = a.secret
      BY <2>1
    <2> QED BY <2>2, <2>3, <2>4
  <1>8. ASSUME NEW x \in t.refresh PROVE \E r \in s.refresh : Fades(s, t, r, x)
    <2>1. PICK r \in s.refresh : /\ Same(r, x) /\ x.revoked = r.revoked
                                 /\ IF r.access = a.secret THEN x.access = 0 ELSE x = r
      BY <1>7
    <2>2. CASE r.access # a.secret
      BY <2>1, <2>2, Unfaded
    <2>3. CASE r.access = a.secret
      <3>1. x.chain = a.chain /\ x.access = 0
        BY <1>3, <1>4, <2>1, <2>3 DEF Good, Rows, RefreshRow, Same
      <3>2. ASSUME x.chain \notin t.blurred
            PROVE  (\A b \in t.access : b.chain # x.chain) /\ ~Busy(t, x.chain) /\ t.job.kind # "logout"
        <4>1. Tidy(s, a.chain) /\ \A b \in s.access : b.secret = a.secret => b = a
          BY <1>3, <1>4, <3>1, <3>2 DEF Good, AllTidy, Rows
        <4>2. \A b \in t.access : b.chain # x.chain
          BY <1>3, <3>1, <4>1 DEF Tidy
        <4>3. ~Busy(t, x.chain) /\ t.job.kind # "logout"
          BY <1>3, <1>5, <3>1, <3>2 DEF Busy
        <4> QED BY <4>2, <4>3
      <3> QED BY <2>1, <3>1, <3>2 DEF Fades
    <2> QED BY <2>2, <2>3
  <1>9. t.blurred \subseteq 1 .. t.generated
    BY <1>3, <1>4 DEF Good, Issued, Made
  <1>10. Fewer(s, t)
    BY <1>3, <1>4, <1>7, <1>8, <1>9, Subsets
  <1>11. GoesOn(s, t)
    BY <1>3 DEF GoesOn
  <1> QED BY <1>2, <1>4, <1>10, <1>11, FewerGood

\* A refresh token is revoked while nobody else is after its chain.
LEMMA RevokedFewer ==
    ASSUME NEW s, NEW t, Good(s), s.refresh \subseteq Refresh, NEW k, t.refresh = Revoked(s.refresh, k),
           t.access \subseteq s.access, t.flight = s.flight, t.generated = s.generated, t.gone = s.gone,
           s.blurred \subseteq t.blurred, t.blurred \subseteq 1 .. t.generated,
           \A r \in s.refresh : r.secret = k => r.chain \in t.blurred \/ ~Busy(s, r.chain)
    PROVE  /\ Fewer(s, t)
           /\ \A x \in t.refresh : ~x.revoked => x.secret # k /\ x \in s.refresh
  <1>1. \A x, y \in s.refresh : x.secret = y.secret => x = y
    BY DEF Good, Rows, RefreshRow
  <1>2. /\ \A x \in t.refresh : \E r \in s.refresh : /\ Same(r, x) /\ (r.revoked => x.revoked)
                                                    /\ IF r.secret = k THEN x.revoked /\ x.access = 0 ELSE x = r
        /\ \A x, y \in t.refresh : x.secret = y.secret => x = y
    BY <1>1, RevokedRows
  <1>3. ASSUME NEW x \in t.refresh PROVE \E r \in s.refresh : Fades(s, t, r, x)
    <2>1. PICK r \in s.refresh : /\ Same(r, x) /\ (r.revoked => x.revoked)
                                 /\ IF r.secret = k THEN x.revoked /\ x.access = 0 ELSE x = r
      BY <1>2
    <2>2. CASE r.secret # k
      BY <2>1, <2>2, Unfaded
    <2>3. CASE r.secret = k
      <3>1. x.chain \in t.blurred \/ ~Busy(t, x.chain)
        BY <2>1, <2>3 DEF Same, Busy
      <3> QED BY <2>1, <2>3, <3>1 DEF Fades
    <2> QED BY <2>2, <2>3
  <1>4. Fewer(s, t)
    BY <1>2, <1>3, Subsets
  <1>5. \A x \in t.refresh : ~x.revoked => x.secret # k /\ x \in s.refresh
    BY <1>2 DEF Same
  <1> QED BY <1>4, <1>5

LEMMA RevokeByValueGood ==
    ASSUME TypeInv, Good(Now), RevokeByValue
    PROVE  Good(Now)'
  <1>1. CASE \E a \in access : a.hashed = 0 /\ Deletes({a}) /\ Disturbs({a.chain})
    BY <1>1, DeleteGood DEF RevokeByValue
  <1>2. ASSUME NEW r \in refresh, ~r.revoked, access' = {a \in access : a.secret # r.access},
               refresh' = Revoked(refresh, r.secret), Disturbs({r.chain})
        PROVE  Good(Now)'
    <2>1. PICK s : s = Now
      OBVIOUS
    <2>2. PICK t : t = Now'
      OBVIOUS
    <2>3. /\ t.access \subseteq s.access /\ t.refresh = Revoked(s.refresh, r.secret) /\ t.flight = s.flight
          /\ t.job = s.job /\ t.generated = s.generated /\ t.gone = s.gone /\ r \in s.refresh
      BY <1>2, <2>1, <2>2, NowIs, ThenIs DEF RevokeByValue
    <2>4. /\ t.blurred = s.blurred \cup {c \in {r.chain} : Busy(s, c) \/ s.job.kind # "none"}
          /\ Good(s) /\ s.refresh \subseteq Refresh
      BY <1>2, <2>1, <2>2, NowIs, ThenIs, BusyIs DEF Disturbs, TypeInv, TokensTypeOK
    <2>5. /\ s.blurred \subseteq t.blurred /\ t.blurred \subseteq 1 .. t.generated
          /\ r.chain \notin t.blurred => ~Busy(s, r.chain)
      BY <2>3, <2>4 DEF Good, Issued, Made
    <2>6. \A q \in s.refresh : q.secret = r.secret => q.chain \in t.blurred \/ ~Busy(s, q.chain)
      BY <2>3, <2>4, <2>5 DEF Good, Rows, RefreshRow
    <2>7. Fewer(s, t)
      BY <2>3, <2>4, <2>5, <2>6, RevokedFewer
    <2>8. GoesOn(s, t)
      BY <2>3 DEF GoesOn
    <2> QED BY <2>2, <2>4, <2>7, <2>8, FewerGood
  <1> QED BY <1>1, <1>2 DEF RevokeByValue

-----------------------------------------------------------------------------
(***************************************************************************)
(* Revocations                                                             *)
(***************************************************************************)
\* During a revocation a chain that has rows is blurred or nobody else is after it.
LEMMA Undisturbed ==
    ASSUME NEW s, Good(s), s.job.kind # "none", NEW r \in s.access \cup s.refresh
    PROVE  r.chain \in s.blurred \/ ~Busy(s, r.chain)
  BY DEF Good, Job, Alone

LEMMA RevokeRefreshGood ==
    ASSUME TypeInv, Good(Now), RevokeRefresh
    PROVE  Good(Now)'
  <1>1. PICK s : s = Now
    OBVIOUS
  <1>2. PICK t : t = Now'
    OBVIOUS
  <1>3. PICK k : k = Least(job.refresh)
    OBVIOUS
  <1>4. PICK R : R = {x \in refresh : x.secret = k /\ ~x.revoked}
    OBVIOUS
  <1>5. /\ job.kind = "refresh" /\ job' = [job EXCEPT !.refresh = @ \ {k}]
        /\ access' = {a \in access : \A x \in R : a.secret # x.access}
        /\ refresh' = IF R = {} THEN refresh ELSE Revoked(refresh, k)
        /\ UNCHANGED <<flight, generated, blurred, gone>>
    BY <1>3, <1>4 DEF RevokeRefresh
  <1>6. /\ t.access \subseteq s.access /\ t.refresh = (IF R = {} THEN s.refresh ELSE Revoked(s.refresh, k))
        /\ t.flight = s.flight /\ t.generated = s.generated /\ t.gone = s.gone /\ t.blurred = s.blurred
        /\ s.job.kind = "refresh" /\ s.job = job /\ t.job = job' /\ Good(s) /\ s.refresh \subseteq Refresh
    BY <1>1, <1>2, <1>5, NowIs, ThenIs DEF TypeInv, TokensTypeOK
  <1>7. t.blurred \subseteq 1 .. t.generated
    BY <1>6 DEF Good, Issued
  <1>8. Fewer(s, t) /\ \A x \in t.refresh : ~x.revoked => x.secret # k /\ x \in s.refresh
    <2>1. CASE R = {}
      <3>1. t.refresh = s.refresh
        BY <1>6, <2>1
      <3>2. /\ \A x \in t.refresh : \E r \in s.refresh : Fades(s, t, r, x)
            /\ \A x, y \in t.refresh : x.secret = y.secret => x = y
        BY <1>6, <3>1, Unfaded DEF Good, Rows, RefreshRow
      <3>3. Fewer(s, t)
        BY <1>6, <1>7, <3>2, Subsets
      <3>4. \A x \in t.refresh : ~x.revoked => x.secret # k
        BY <1>1, <1>4, <2>1, <3>1, NowIs
      <3> QED BY <3>1, <3>3, <3>4
    <2>2. CASE R # {}
      <3>1. \A r \in s.refresh : r.secret = k => r.chain \in t.blurred \/ ~Busy(s, r.chain)
        BY <1>6, Undisturbed
      <3>2. t.refresh = Revoked(s.refresh, k)
        BY <1>6, <2>2
      <3> QED BY <1>6, <1>7, <3>1, <3>2, RevokedFewer
    <2> QED BY <2>1, <2>2
  <1>9. GoesOn(s, t)
    <2>1. /\ t.job.kind = s.job.kind /\ t.job.chains = s.job.chains /\ t.job.user = s.job.user
          /\ t.job.access = s.job.access /\ t.job.refresh = s.job.refresh \ {k}
      BY <1>5, <1>6 DEF TypeInv, TokensTypeOK, JobType
    <2> QED BY <1>6, <1>8, <2>1 DEF GoesOn
  <1> QED BY <1>2, <1>6, <1>8, <1>9, FewerGood

\* The refresh token r became x when the access token k was revoked, and with b r as well.
Forgot(r, x, k, b) ==
  /\ Same(r, x) /\ (r.revoked => x.revoked)
  /\ r.access # k => x = r
  /\ r.access = k => x.access = 0 /\ (b => x.revoked) /\ (~b => x.revoked = r.revoked)

Left(R, k, L) == {IF r.secret \in L THEN [r EXCEPT !.access = 0, !.revoked = TRUE]
                  ELSE IF r.access = k THEN [r EXCEPT !.access = 0] ELSE r : r \in R}

LEMMA LeftRows ==
    ASSUME NEW R, R \subseteq Refresh, NEW k, NEW L, NEW b,
           \A r \in R : r.secret \in L <=> (r.access = k /\ b),
           \A x, y \in R : x.secret = y.secret => x = y
    PROVE  /\ \A x \in Left(R, k, L) : \E r \in R : Forgot(r, x, k, b)
           /\ \A x, y \in Left(R, k, L) : x.secret = y.secret => x = y
  <1> DEFINE F(r) == IF r.secret \in L THEN [r EXCEPT !.access = 0, !.revoked = TRUE]
                     ELSE IF r.access = k THEN [r EXCEPT !.access = 0] ELSE r
  <1>1. \A r \in R : Forgot(r, F(r), k, b)
    <2> SUFFICES ASSUME NEW r \in R
                 PROVE  Forgot(r, F(r), k, b)
      OBVIOUS
    <2>1. CASE r.secret \in L
      BY <2>1 DEF Refresh, Same, Forgot
    <2>2. CASE r.secret \notin L
      BY <2>2 DEF Refresh, Same, Forgot
    <2> QED BY <2>1, <2>2
  <1>2. Left(R, k, L) = {F(r) : r \in R}
    BY DEF Left
  <1> HIDE DEF F
  <1>3. \A x \in Left(R, k, L) : \E r \in R : x = F(r)
    BY <1>2
  <1>4. ASSUME NEW x \in Left(R, k, L), NEW y \in Left(R, k, L), x.secret = y.secret PROVE x = y
    <2>1. PICK r \in R, q \in R : x = F(r) /\ y = F(q)
      BY <1>3
    <2>2. r.secret = q.secret
      BY <1>1, <1>4, <2>1 DEF Same, Forgot
    <2> QED BY <2>1, <2>2
  <1>5. \A x \in Left(R, k, L) : \E r \in R : Forgot(r, x, k, b)
    <2> SUFFICES ASSUME NEW x \in Left(R, k, L) PROVE \E r \in R : Forgot(r, x, k, b)
      OBVIOUS
    <2>1. PICK r \in R : x = F(r)
      BY <1>3
    <2> QED BY <1>1, <2>1
  <1> QED BY <1>4, <1>5

LEMMA RevokeAccessGood ==
    ASSUME TypeInv, Good(Now), RevokeAccess
    PROVE  Good(Now)'
  <1>1. PICK s : s = Now
    OBVIOUS
  <1>2. PICK t : t = Now'
    OBVIOUS
  <1>3. PICK k : k = Least(job.access)
    OBVIOUS
  <1>4. PICK L : L = Linked(k)
    OBVIOUS
  <1>5. /\ job.kind \in {"access", "logout"} /\ job' = [job EXCEPT !.access = @ \ {k}]
        /\ access' = {a \in access : a.secret # k}
        /\ refresh' = {IF r.secret \in L THEN [r EXCEPT !.access = 0, !.revoked = TRUE]
                       ELSE IF r.access = k THEN [r EXCEPT !.access = 0] ELSE r : r \in refresh}
        /\ UNCHANGED <<flight, generated, blurred, gone>>
    BY <1>3, <1>4 DEF RevokeAccess
  <1>6. /\ t.access \subseteq s.access /\ (\A a \in t.access : a.secret # k)
        /\ t.flight = s.flight /\ t.generated = s.generated /\ t.gone = s.gone /\ t.blurred = s.blurred
        /\ s.job.kind \in {"access", "logout"} /\ s.job = job /\ t.job = job' /\ Good(s)
        /\ s.refresh = refresh /\ s.refresh \subseteq Refresh
    BY <1>1, <1>2, <1>5, NowIs, ThenIs DEF TypeInv, TokensTypeOK
  <1>7. /\ t.blurred \subseteq 1 .. t.generated
        /\ \A x, y \in s.refresh : x.secret = y.secret => x = y
    BY <1>6 DEF Good, Issued, Rows, RefreshRow
  <1>8. PICK b \in BOOLEAN : b <=> job.kind = "logout"
    OBVIOUS
  <1>9. \A r \in refresh : r.secret \in L <=> (r.access = k /\ b)
    BY <1>4, <1>6, <1>7, <1>8 DEF Linked
  <1>10. /\ \A x \in t.refresh : \E r \in s.refresh : Forgot(r, x, k, b)
         /\ \A x, y \in t.refresh : x.secret = y.secret => x = y
    <2>1. refresh \subseteq Refresh /\ \A x, y \in refresh : x.secret = y.secret => x = y
      BY <1>6, <1>7
    <2>2. t.refresh = Left(refresh, k, L)
      BY <1>2, <1>5, ThenIs DEF Left
    <2>3. s.refresh = refresh
      BY <1>6
    <2> QED BY ONLY <1>9, <2>1, <2>2, <2>3, LeftRows
  <1>11. t.job.kind = s.job.kind
    BY <1>5, <1>6 DEF TypeInv, JobType
  <1>12. ASSUME NEW x \in t.refresh PROVE \E r \in s.refresh : Fades(s, t, r, x)
    <2>1. PICK r \in s.refresh : Forgot(r, x, k, b)
      BY <1>10
    <2>2. CASE r.access # k
      BY <2>1, <2>2, Unfaded DEF Forgot
    <2>3. CASE r.access = k
      <3>1. r.chain = x.chain /\ (x.chain \in t.blurred \/ ~Busy(t, x.chain))
        BY <1>6, <2>1, Undisturbed DEF Same, Busy, Forgot
      <3>2. x.access = 0 /\ (b => x.revoked) /\ (~b => x.revoked = r.revoked)
        BY <2>1, <2>3 DEF Forgot
      <3>3. ASSUME x.chain \notin t.blurred, ~x.revoked
            PROVE  (\A a \in t.access : a.chain # x.chain) /\ ~Busy(t, x.chain) /\ t.job.kind # "logout"
        <4>1. Tidy(s, x.chain) /\ ~r.revoked /\ ~b
          BY <1>6, <1>8, <3>2, <3>3 DEF Good, AllTidy
        <4>2. Usable(s, x.chain, r)
          BY <3>1, <4>1 DEF Tidy
        <4>3. \A a \in t.access : a.chain # x.chain
          BY <1>6, <2>3, <4>2 DEF Usable
        <4> QED BY <1>6, <1>8, <1>11, <3>1, <3>3, <4>1, <4>3
      <3> QED BY <2>1, <3>1, <3>2, <3>3 DEF Fades, Forgot
    <2> QED BY <2>2, <2>3
  <1>13. Fewer(s, t)
    BY <1>6, <1>7, <1>10, <1>12, Subsets
  <1>14. GoesOn(s, t)
    <2>1. /\ t.job.kind = s.job.kind /\ t.job.chains = s.job.chains /\ t.job.user = s.job.user
          /\ t.job.refresh = s.job.refresh /\ t.job.access = s.job.access \ {k}
      BY <1>5, <1>6 DEF TypeInv, TokensTypeOK, JobType
    <2>2. \A x \in t.refresh : ~x.revoked /\ b => x.access # k
      BY <1>8, <1>10 DEF Forgot
    <2> QED BY <1>6, <1>8, <2>1, <2>2 DEF GoesOn
  <1> QED BY <1>2, <1>6, <1>13, <1>14, FewerGood

-----------------------------------------------------------------------------
(***************************************************************************)
(* Time, the administrator and the migration                               *)
(***************************************************************************)
\* Rows go or change in what the invariant is not about.
LEMMA KeptGood ==
    ASSUME NEW s, NEW t, Good(s), t.job = s.job, t.blurred = s.blurred, t.generated = s.generated, t.gone = s.gone,
           \A x \in t.access : \E a \in s.access : Same(a, x),
           \A x, y \in t.access : x.secret = y.secret => x = y,
           \A x \in t.refresh : \E r \in s.refresh : Same(r, x) /\ x.access = r.access /\ x.revoked = r.revoked,
           \A x, y \in t.refresh : x.secret = y.secret => x = y,
           \A g \in t.flight : \E f \in s.flight : f.kind = g.kind /\ Same(f.row, g.row),
           \A c : c \notin t.blurred => \A f, g \in t.flight :
             Changing(f) /\ Changing(g) /\ f.row.chain = c /\ g.row.chain = c => f = g
    PROVE  Good(t)
  <1>1. \A x \in t.refresh : \E r \in s.refresh : Fades(s, t, r, x)
    BY DEF Fades
  <1>2. t.blurred \subseteq 1 .. t.generated
    BY DEF Good, Issued
  <1>3. Fewer(s, t)
    BY <1>1, <1>2 DEF Fewer
  <1>4. GoesOn(s, t)
    BY DEF GoesOn
  <1> QED BY <1>3, <1>4, FewerGood

\* What becomes of rows some of which expire.
LEMMA ExpiredRows ==
    ASSUME NEW R, R \subseteq Access \/ R \subseteq Refresh, NEW k, \A x, y \in R : x.secret = y.secret => x = y
    PROVE  /\ \A x \in Expired(R, k) : \E r \in R : Same(r, x) /\ x = IF r.secret = k THEN [r EXCEPT !.expired = TRUE] ELSE r
           /\ \A x, y \in Expired(R, k) : x.secret = y.secret => x = y
  <1> DEFINE F(r) == IF r.secret = k THEN [r EXCEPT !.expired = TRUE] ELSE r
  <1>1. \A r \in R : Same(r, F(r))
    BY DEF Access, Refresh, Same
  <1>2. Expired(R, k) = {F(r) : r \in R}
    BY DEF Expired
  <1> HIDE DEF F
  <1>3. \A x \in Expired(R, k) : \E r \in R : x = F(r)
    BY <1>2
  <1>4. ASSUME NEW x \in Expired(R, k), NEW y \in Expired(R, k), x.secret = y.secret PROVE x = y
    <2>1. PICK r \in R, q \in R : x = F(r) /\ y = F(q)
      BY <1>3
    <2>2. r.secret = q.secret
      BY <1>1, <1>4, <2>1 DEF Same
    <2> QED BY <2>1, <2>2
  <1>5. ASSUME NEW x \in Expired(R, k)
        PROVE  \E r \in R : Same(r, x) /\ x = IF r.secret = k THEN [r EXCEPT !.expired = TRUE] ELSE r
    <2>1. PICK r \in R : x = F(r)
      BY <1>3
    <2>2. Same(r, x)
      BY <1>1, <2>1
    <2> QED BY <2>1, <2>2 DEF F
  <1> QED BY <1>4, <1>5

LEMMA TokenExpiresGood ==
    ASSUME TypeInv, Good(Now), TokenExpires
    PROVE  Good(Now)'
  <1>1. PICK s : s = Now
    OBVIOUS
  <1>2. PICK t : t = Now'
    OBVIOUS
  <1>3. PICK k : /\ access' = Expired(access, k) /\ refresh' = Expired(refresh, k)
                 /\ flight' = {[f EXCEPT !.row.expired = @ \/ f.row.secret = k] : f \in flight}
    BY DEF TokenExpires
  <1>4. /\ t.access = Expired(s.access, k) /\ t.refresh = Expired(s.refresh, k) /\ t.flight = flight' /\ s.flight = flight
        /\ t.job = s.job /\ t.blurred = s.blurred /\ t.generated = s.generated /\ t.gone = s.gone
        /\ Good(s) /\ s.access \subseteq Access /\ s.refresh \subseteq Refresh /\ flight \subseteq Flight
    BY <1>1, <1>2, <1>3, NowIs, ThenIs DEF TokenExpires, TypeInv, TokensTypeOK
  <1>5. /\ \A x, y \in s.access : x.secret = y.secret => x = y
        /\ \A x, y \in s.refresh : x.secret = y.secret => x = y
    BY <1>4 DEF Good, Rows, RefreshRow
  <1>6. /\ \A x \in t.access : \E r \in s.access : Same(r, x)
        /\ \A x, y \in t.access : x.secret = y.secret => x = y
    BY <1>4, <1>5, ExpiredRows
  <1>7. /\ \A x \in t.refresh : \E r \in s.refresh : Same(r, x) /\ x = IF r.secret = k THEN [r EXCEPT !.expired = TRUE] ELSE r
        /\ \A x, y \in t.refresh : x.secret = y.secret => x = y
    BY <1>4, <1>5, ExpiredRows
  <1>8. ASSUME NEW x \in t.refresh PROVE \E r \in s.refresh : Same(r, x) /\ x.access = r.access /\ x.revoked = r.revoked
    <2>1. PICK r \in s.refresh : Same(r, x) /\ x = IF r.secret = k THEN [r EXCEPT !.expired = TRUE] ELSE r
      BY <1>7
    <2>2. x.access = r.access /\ x.revoked = r.revoked
      BY <1>4, <2>1 DEF Refresh
    <2> QED BY <2>1, <2>2
  <1> DEFINE F(f) == [f EXCEPT !.row.expired = @ \/ f.row.secret = k]
  <1>9. \A f \in flight : F(f).kind = f.kind /\ Same(f.row, F(f).row)
    <2> SUFFICES ASSUME NEW f \in flight PROVE F(f).kind = f.kind /\ Same(f.row, F(f).row)
      OBVIOUS
    <2>1. f \in [kind : {"refresh"}, row : Refresh] \/ f \in [kind : {"update", "use"}, row : Access]
      BY <1>4 DEF Flight
    <2> QED BY <2>1 DEF Same, Refresh, Access
  <1>10. \A g \in t.flight : \E f \in flight : g = F(f)
    BY <1>3, <1>4
  <1> HIDE DEF F
  <1>11. \A g \in t.flight : \E f \in s.flight : f.kind = g.kind /\ Same(f.row, g.row)
    BY <1>4, <1>9, <1>10
  <1>12. ASSUME NEW c, c \notin t.blurred, NEW g \in t.flight, NEW h \in t.flight,
                Changing(g), Changing(h), g.row.chain = c, h.row.chain = c
         PROVE  g = h
    <2>1. PICK f \in flight, e \in flight : g = F(f) /\ h = F(e)
      BY <1>10
    <2>2. Changing(f) /\ Changing(e) /\ f.row.chain = c /\ e.row.chain = c
      BY <1>9, <1>12, <2>1 DEF Changing, Same
    <2>3. f = e
      BY <1>4, <1>12, <2>2 DEF Good, AllTidy, Tidy
    <2> QED BY <2>1, <2>3
  <1> QED BY <1>2, <1>4, <1>6, <1>7, <1>8, <1>11, <1>12, KeptGood

LEMMA CleanupTokensGood ==
    ASSUME TypeInv, Good(Now), CleanupTokens
    PROVE  Good(Now)'
  <1>1. PICK s : s = Now
    OBVIOUS
  <1>2. PICK t : t = Now'
    OBVIOUS
  <1>3. PICK left : /\ left \subseteq refresh /\ refresh' = left
                    /\ access' = {[a EXCEPT !.source = IF \E r \in left : r.secret = @ THEN @ ELSE NoSource] :
                                    a \in {a \in access : a.expired => \E r \in left : r.access = a.secret}}
    BY DEF CleanupTokens
  <1>4. /\ t.refresh \subseteq s.refresh /\ t.flight = s.flight
        /\ t.job = s.job /\ t.blurred = s.blurred /\ t.generated = s.generated /\ t.gone = s.gone
        /\ t.access = access' /\ s.access = access /\ Good(s) /\ access \subseteq Access
    BY <1>1, <1>2, <1>3, NowIs, ThenIs DEF CleanupTokens, TypeInv, TokensTypeOK
  <1>5. /\ \A x, y \in s.access : x.secret = y.secret => x = y
        /\ \A x, y \in s.refresh : x.secret = y.secret => x = y
    BY <1>4 DEF Good, Rows, RefreshRow
  <1> DEFINE F(a) == [a EXCEPT !.source = IF \E r \in left : r.secret = @ THEN @ ELSE NoSource]
  <1>6. \A a \in access : Same(a, F(a))
    BY <1>4 DEF Same, Access
  <1>7. \A x \in t.access : \E a \in access : x = F(a)
    BY <1>3, <1>4
  <1> HIDE DEF F
  <1>8. \A x \in t.access : \E a \in s.access : Same(a, x)
    BY <1>4, <1>6, <1>7
  <1>9. ASSUME NEW x \in t.access, NEW y \in t.access, x.secret = y.secret PROVE x = y
    <2>1. PICK a \in access, b \in access : x = F(a) /\ y = F(b)
      BY <1>7
    <2>2. a.secret = b.secret
      BY <1>6, <1>9, <2>1 DEF Same
    <2>3. a = b
      BY <1>4, <1>5, <2>2
    <2> QED BY <2>1, <2>3
  <1>10. \A r \in s.refresh : Same(r, r)
    BY DEF Same
  <1>11. \A x \in t.refresh : \E r \in s.refresh : Same(r, x) /\ x.access = r.access /\ x.revoked = r.revoked
    BY <1>4, <1>10
  <1>12. \A g \in t.flight : \E f \in s.flight : f.kind = g.kind /\ Same(f.row, g.row)
    BY <1>4 DEF Same
  <1>13. \A c : c \notin t.blurred => \A f, g \in t.flight :
           Changing(f) /\ Changing(g) /\ f.row.chain = c /\ g.row.chain = c => f = g
    BY <1>4 DEF Good, AllTidy, Tidy
  <1>14. \A x, y \in t.refresh : x.secret = y.secret => x = y
    BY <1>4, <1>5
  <1> QED BY <1>2, <1>4, <1>8, <1>9, <1>11, <1>12, <1>13, <1>14, KeptGood

LEMMA HashedRow ==
    ASSUME NEW r \in Access \cup Refresh
    PROVE  Same(r, Hashed(r)) /\ (r \in Refresh => Hashed(r).access = r.access /\ Hashed(r).revoked = r.revoked)
  <1>1. CASE r \in Access
    BY <1>1 DEF Hashed, Same, Access, Refresh
  <1>2. CASE r \in Refresh
    BY <1>2 DEF Hashed, Same, Access, Refresh
  <1> QED BY <1>1, <1>2

LEMMA hash_tokensGood ==
    ASSUME TypeInv, Good(Now), hash_tokens
    PROVE  Good(Now)'
  <1>1. PICK s : s = Now
    OBVIOUS
  <1>2. PICK t : t = Now'
    OBVIOUS
  <1>3. /\ t.access = {Hashed(a) : a \in s.access} /\ t.refresh = {Hashed(r) : r \in s.refresh} /\ t.flight = s.flight
        /\ t.job = s.job /\ t.blurred = s.blurred /\ t.generated = s.generated /\ t.gone = s.gone
        /\ Good(s) /\ s.access \subseteq Access /\ s.refresh \subseteq Refresh
    BY <1>1, <1>2, NowIs, ThenIs DEF hash_tokens, TypeInv, TokensTypeOK
  <1>4. /\ \A x, y \in s.access : x.secret = y.secret => x = y
        /\ \A x, y \in s.refresh : x.secret = y.secret => x = y
    BY <1>3 DEF Good, Rows, RefreshRow
  <1>5. /\ \A x \in t.access : \E a \in s.access : x = Hashed(a) /\ Same(a, x)
        /\ \A x \in t.refresh : \E r \in s.refresh : x = Hashed(r) /\ Same(r, x) /\ x.access = r.access /\ x.revoked = r.revoked
    BY <1>3, HashedRow
  <1>6. \A x, y \in t.access : x.secret = y.secret => x = y
    BY <1>4, <1>5 DEF Same
  <1>7. \A x, y \in t.refresh : x.secret = y.secret => x = y
    BY <1>4, <1>5 DEF Same
  <1>8. \A g \in t.flight : \E f \in s.flight : f.kind = g.kind /\ Same(f.row, g.row)
    BY <1>3 DEF Same
  <1>9. \A c : c \notin t.blurred => \A f, g \in t.flight :
          Changing(f) /\ Changing(g) /\ f.row.chain = c /\ g.row.chain = c => f = g
    BY <1>3 DEF Good, AllTidy, Tidy
  <1> QED BY <1>2, <1>3, <1>5, <1>6, <1>7, <1>8, <1>9, KeptGood

-----------------------------------------------------------------------------
(***************************************************************************)
(* Where a revocation begins and ends                                      *)
(***************************************************************************)
\* The rows stay, and more chains may be blurred.
LEMMA SameRows ==
    ASSUME NEW s, NEW t, Good(s), t.access = s.access, t.refresh = s.refresh, t.flight = s.flight,
           t.generated = s.generated, t.gone = s.gone, s.blurred \subseteq t.blurred, t.blurred \subseteq 1 .. t.generated
    PROVE  Fewer(s, t)
  <1>1. \A x \in t.refresh : \E r \in s.refresh : Fades(s, t, r, x)
    BY Unfaded
  <1>2. \A x, y \in t.refresh : x.secret = y.secret => x = y
    BY DEF Good, Rows, RefreshRow
  <1> QED BY <1>1, <1>2, Subsets

LEMMA JobStartsGood ==
    ASSUME Good(Now), NEW k, k # "none", NEW u, NEW app, NEW R, NEW A, NEW C, JobStarts(k, u, app, R, A, C),
           C \subseteq Chains(access \cup refresh), ToDo(Now)'
    PROVE  Good(Now)'
  <1>1. PICK s : s = Now
    OBVIOUS
  <1>2. PICK t : t = Now'
    OBVIOUS
  <1>3. PICK X : X = Chains(access \cup refresh)
    OBVIOUS
  <1>4. /\ t.access = s.access /\ t.refresh = s.refresh /\ t.flight = s.flight /\ t.generated = s.generated
        /\ t.gone = s.gone /\ Good(s) /\ t.job.kind = k /\ t.job.chains = C
        /\ s.access = access /\ s.refresh = refresh
    BY <1>1, <1>2, NowIs, ThenIs DEF JobStarts
  <1>5. t.blurred = s.blurred \cup {c \in X : Busy(s, c) \/ s.job.kind # "none"} /\ s.job.kind = "none"
    BY <1>1, <1>2, <1>3, NowIs, ThenIs, BusyIs DEF JobStarts, Disturbs
  <1>6. \A c : c \in X <=> \E r \in s.access \cup s.refresh : c = r.chain
    BY <1>3, <1>4 DEF Chains
  <1>7. X \subseteq 1 .. s.generated
    BY <1>4, <1>6 DEF Good, Issued, Made
  <1>8. t.blurred \subseteq 1 .. t.generated /\ C \subseteq 1 .. t.generated
    BY <1>3, <1>4, <1>5, <1>7 DEF Good, Issued
  <1>9. Fewer(s, t)
    BY <1>4, <1>5, <1>8, SameRows
  <1>10. \A c \in X : c \notin t.blurred => ~Busy(t, c)
    BY <1>4, <1>5 DEF Busy
  <1>11. Alone(t)
    <2>1. \A c \in t.job.chains : c \notin t.blurred => ~Busy(t, c)
      BY <1>3, <1>4, <1>10
    <2>2. \A c : c \notin t.blurred /\ Busy(t, c) =>
            (\A a \in t.access : a.chain # c) /\ (\A r \in t.refresh : r.chain # c)
      BY <1>4, <1>6, <1>10
    <2> QED BY <2>1, <2>2 DEF Alone
  <1>12. ToDo(t)
    BY <1>2
  <1>13. Good(t)
    BY <1>4, <1>8, <1>9, <1>11, <1>12, FewerElse DEF Job
  <1> QED BY <1>2, <1>13

LEMMA CommandStartsGood ==
    ASSUME Good(Now), NEW u, NEW all \in BOOLEAN, CommandStarts(u, all)
    PROVE  Good(Now)'
  <1>1. PICK t : t = Now'
    OBVIOUS
  <1>2. CASE all
    <2>1. PICK R : R = Secrets({r \in Of(refresh, u) : ~r.revoked})
      OBVIOUS
    <2>2. JobStarts("refresh", u, Nothing, R, {}, Chains(access \cup refresh))
      BY <1>2, <2>1 DEF CommandStarts
    <2>3. /\ t.job.kind = "refresh" /\ t.job.user = u /\ t.job.refresh = R /\ t.refresh = refresh
      BY <1>1, <2>2, ThenIs DEF JobStarts
    <2>4. \A r \in t.refresh : Mine(t, r) /\ ~r.revoked => r.secret \in R
      BY <2>1, <2>3 DEF Mine, Secrets, Of
    <2>5. ToDo(t)
      BY <2>3, <2>4 DEF ToDo
    <2>6. ToDo(Now)'
      BY <1>1, <2>5
    <2> QED BY <2>2, <2>6, JobStartsGood
  <1>3. CASE ~all
    <2>1. PICK A : A = Secrets(Of(access, u))
      OBVIOUS
    <2>2. JobStarts("access", u, Nothing, {}, A, {})
      BY <1>3, <2>1 DEF CommandStarts
    <2>3. t.job.chains = {}
      BY <1>1, <2>2, ThenIs DEF JobStarts
    <2>4. ToDo(t)
      BY <2>3 DEF ToDo, Mine
    <2>5. ToDo(Now)'
      BY <1>1, <2>4
    <2> QED BY <2>2, <2>5, JobStartsGood
  <1> QED BY <1>2, <1>3

LEMMA LogoutStartsGood ==
    ASSUME Good(Now), NEW u \in Users, NEW app, LogoutStarts(u, app)
    PROVE  Good(Now)'
  <1>1. PICK s : s = Now
    OBVIOUS
  <1>2. PICK t : t = Now'
    OBVIOUS
  <1>3. PICK O : O = Openid(u, app)
    OBVIOUS
  <1>4. PICK A, C : A = Secrets(O) /\ C = Chains(O)
    OBVIOUS
  <1>5. JobStarts("logout", u, app, {}, A, C)
    BY <1>3, <1>4 DEF LogoutStarts
  <1>6. O \subseteq access
    BY <1>3 DEF Openid
  <1>7. C \subseteq Chains(access \cup refresh)
    BY <1>4, <1>6 DEF Chains
  <1>8. /\ t.job.kind = "logout" /\ t.job.access = A /\ t.job.chains = C
        /\ t.access = s.access /\ t.refresh = s.refresh /\ s.blurred \subseteq t.blurred /\ s.access = access
    BY <1>1, <1>2, <1>5, NowIs, ThenIs DEF JobStarts, Disturbs
  <1>9. ASSUME NEW c \in C, c \notin t.blurred
        PROVE  \E o \in s.access : o.chain = c /\ o.secret \in A /\ Tidy(s, c)
    <2>1. PICK o \in O : o.chain = c
      BY <1>4, <1>9 DEF Chains
    <2>2. o \in s.access /\ o.secret \in A
      BY <1>4, <1>6, <1>8, <2>1 DEF Secrets
    <2>3. Tidy(s, c)
      BY <1>1, <1>8, <1>9 DEF Good, AllTidy
    <2> QED BY <2>1, <2>2, <2>3
  <1>10. ASSUME NEW r \in t.refresh, Mine(t, r), ~r.revoked PROVE r.access \in A
    <2>1. PICK o \in s.access : o.chain = r.chain /\ o.secret \in A /\ Tidy(s, r.chain)
      BY <1>8, <1>9, <1>10 DEF Mine
    <2> QED BY <1>8, <1>10, <2>1 DEF Tidy, Usable
  <1>11. ASSUME NEW a \in t.access, Mine(t, a) PROVE a.secret \in A
    <2>1. PICK o \in s.access : o.chain = a.chain /\ o.secret \in A /\ Tidy(s, a.chain)
      BY <1>8, <1>9, <1>11 DEF Mine
    <2> QED BY <1>8, <1>11, <2>1 DEF Tidy
  <1>12. ToDo(t)
    BY <1>8, <1>10, <1>11 DEF ToDo
  <1>13. ToDo(Now)'
    BY <1>2, <1>12
  <1> QED BY <1>5, <1>7, <1>13, JobStartsGood

LEMMA ListAccessGood ==
    ASSUME TypeInv, Good(Now), ListAccess
    PROVE  Good(Now)'
  <1>1. PICK s : s = Now
    OBVIOUS
  <1>2. PICK t : t = Now'
    OBVIOUS
  <1>3. PICK A : A = Secrets(Of(access, job.user))
    OBVIOUS
  <1>4. job' = [job EXCEPT !.kind = "access", !.access = A] /\ job.kind = "refresh" /\ job.refresh = {} /\ job \in JobType
    BY <1>3 DEF ListAccess, TypeInv
  <1>5. /\ t.job.kind = "access" /\ t.job.access = A /\ t.job.chains = s.job.chains /\ t.job.user = s.job.user
        /\ s.job.kind = "refresh" /\ s.job.refresh = {}
    <2>1. PICK j \in JobType : j = job
      BY <1>4
    <2>2. PICK x : x = [j EXCEPT !.kind = "access", !.access = A]
      OBVIOUS
    <2>3. x.kind = "access" /\ x.access = A /\ x.chains = j.chains /\ x.user = j.user
      BY <2>2 DEF JobType
    <2>4. s.job = j /\ t.job = x /\ j.kind = "refresh" /\ j.refresh = {}
      BY <1>1, <1>2, <1>4, <2>1, <2>2, NowIs, ThenIs
    <2> QED BY <2>3, <2>4
  <1>6. /\ t.access = s.access /\ t.refresh = s.refresh /\ t.flight = s.flight /\ t.generated = s.generated
        /\ t.gone = s.gone /\ t.blurred = s.blurred /\ Good(s) /\ s.access = access /\ s.job = job
    BY <1>1, <1>2, NowIs, ThenIs DEF ListAccess
  <1>7. t.blurred \subseteq 1 .. t.generated /\ t.job.chains \subseteq 1 .. t.generated
    BY <1>5, <1>6 DEF Good, Issued
  <1>8. ToDo(s) /\ Alone(s)
    BY <1>5, <1>6 DEF Good, Job
  <1>9. \A r : Mine(t, r) <=> Mine(s, r)
    BY <1>5, <1>6 DEF Mine
  <1>10. \A a \in t.access : Mine(t, a) => a.secret \in A
    BY <1>3, <1>5, <1>6 DEF Mine, Secrets, Of
  <1>11. ToDo(t)
    BY <1>5, <1>6, <1>8, <1>9, <1>10 DEF ToDo
  <1>12. Alone(t)
    BY <1>5, <1>6, <1>8 DEF Alone, Busy
  <1>13. Fewer(s, t)
    BY <1>6, <1>7, SameRows
  <1> QED BY <1>2, <1>6, <1>7, <1>11, <1>12, <1>13, FewerElse DEF Job

LEMMA JobEndsGood ==
    ASSUME Good(Now), JobEnds
    PROVE  Good(Now)'
  <1>1. PICK s : s = Now
    OBVIOUS
  <1>2. PICK t : t = Now'
    OBVIOUS
  <1>3. PICK U : U = {u \in Users : job.user \in {Nothing, u}}
    OBVIOUS
  <1>4. PICK m : m = [access |-> access, refresh |-> refresh, flight |-> flight, job |-> NoJob,
                      blurred |-> blurred, generated |-> generated, gone |-> gone]
    OBVIOUS
  <1>5. /\ m.access = s.access /\ m.refresh = s.refresh /\ m.flight = s.flight /\ m.generated = s.generated
        /\ m.gone = s.gone /\ m.blurred = s.blurred /\ m.job.kind = "none" /\ m.job.chains = {}
    BY <1>1, <1>4, NowIs DEF NoJob
  <1>6. /\ t.access = m.access /\ t.refresh = m.refresh /\ t.flight = m.flight /\ t.generated = m.generated
        /\ t.blurred = m.blurred /\ t.job = m.job
    BY <1>2, <1>4, ThenIs DEF JobEnds
  <1>7. t.gone = s.gone \cup ((s.job.chains \ s.blurred) \X U)
    BY <1>1, <1>2, <1>3, NowIs, ThenIs DEF JobEnds
  <1>8. s.job.kind \in {"access", "logout"} /\ s.job.access = {} /\ Good(s)
    BY <1>1, NowIs DEF JobEnds
  <1>9. Good(m)
    <2>1. m.blurred \subseteq 1 .. m.generated /\ m.job.chains \subseteq 1 .. m.generated
      BY <1>5, <1>8 DEF Good, Issued
    <2>2. Fewer(s, m)
      BY <1>5, <1>8, <2>1, SameRows
    <2> QED BY <1>5, <1>8, <2>1, <2>2, FewerElse DEF Job
  <1>10. ToDo(s) /\ Alone(s)
    BY <1>8 DEF Good, Job
  <1>11. \A r : <<r.chain, r.user>> \in (s.job.chains \ s.blurred) \X U => Mine(s, r)
    <2>1. \A v \in U : s.job.user \in {Nothing, v}
      BY <1>1, <1>3, NowIs
    <2>2. \A r : <<r.chain, r.user>> \in (s.job.chains \ s.blurred) \X U => r.chain \in s.job.chains \ s.blurred /\ r.user \in U
      OBVIOUS
    <2> QED BY <2>1, <2>2 DEF Mine
  <1>12. StaysGone(t)
    <2>1. StaysGone(s)
      BY <1>8 DEF Good
    <2>2. \A a \in s.access : ~Mine(s, a)
      BY <1>8, <1>10 DEF ToDo
    <2>3. \A r \in s.refresh : Mine(s, r) => r.revoked
      BY <1>8, <1>10 DEF ToDo
    <2>4. \A f \in s.flight : Changing(f) => ~Mine(s, f.row)
      BY <1>10 DEF Alone, Busy, Mine
    <2>5. \A r : <<r.chain, r.user>> \in t.gone => <<r.chain, r.user>> \in s.gone \/ Mine(s, r)
      BY <1>7, <1>11
    <2> QED BY <1>5, <1>6, <2>1, <2>2, <2>3, <2>4, <2>5 DEF StaysGone
  <1>13. Issued(t)
    <2>1. \A g \in t.gone : g[1] \in 1 .. t.generated
      <3>1. \A g \in (s.job.chains \ s.blurred) \X U : g[1] \in s.job.chains
        OBVIOUS
      <3> QED BY <1>5, <1>6, <1>7, <1>8, <3>1 DEF Good, Issued
    <2> QED BY <1>6, <1>9, <2>1 DEF Good, Issued, Made
  <1>14. Rows(t) /\ AllTidy(t)
    <2>1. Rows(t)
      BY <1>6, <1>9 DEF Good, Rows, RefreshRow
    <2>2. ASSUME NEW c, c \notin t.blurred PROVE Tidy(t, c)
      <3>1. Tidy(m, c)
        BY <1>6, <1>9, <2>2 DEF Good, AllTidy
      <3> QED BY <1>6, <3>1 DEF Tidy, Usable
    <2> QED BY <2>1, <2>2 DEF AllTidy
  <1>15. Job(t)
    BY <1>5, <1>6 DEF Job
  <1> QED BY <1>2, <1>12, <1>13, <1>14, <1>15 DEF Good

-----------------------------------------------------------------------------
(***************************************************************************)
(* Types and hashes                                                        *)
(***************************************************************************)
\* A row keeps the hash it had.
Kin(x) == \/ x.hashed = 1
          \/ \E r \in access \cup refresh : x.hashed = r.hashed
          \/ \E f \in flight : x.hashed = f.row.hashed

LEMMA TypesKept ==
    ASSUME TypeInv, Hashing, migrated' = migrated, gone' = gone,
           home' \in [Applications -> Organizations], job' \in JobType, generated' \in 0 .. MaxSecrets,
           access' \subseteq Access, refresh' \subseteq Refresh, flight' \subseteq Flight,
           \A x \in access' : Kin(x), \A x \in refresh' : Kin(x), \A g \in flight' : Kin(g.row)
    PROVE  TypeInv' /\ Hashing'
  <1>1. TypeInv'
    BY DEF TypeInv, TokensTypeOK
  <1>2. \A x : Kin(x) => HashOK(x)'
    <2> SUFFICES ASSUME NEW x, Kin(x) PROVE HashOK(x)'
      OBVIOUS
    <2>1. (\A r \in access \cup refresh : HashOK(r)) /\ (\A f \in flight : HashOK(f.row))
      BY DEF Hashing
    <2> QED BY <2>1 DEF Kin, HashOK
  <1>3. Hashing'
    BY <1>2 DEF Hashing
  <1> QED BY <1>1, <1>3

LEMMA OldKin == (\A r \in access \cup refresh : Kin(r)) /\ (\A f \in flight : Kin(f.row))
  BY DEF Kin

LEMMA RevokedTyped ==
    ASSUME NEW R, R \subseteq Refresh, NEW k
    PROVE  Revoked(R, k) \subseteq Refresh /\ \A x \in Revoked(R, k) : \E r \in R : x.hashed = r.hashed
  <1>1. ASSUME NEW x \in Revoked(R, k) PROVE x \in Refresh /\ \E r \in R : x.hashed = r.hashed
    <2>1. PICK r \in R : x = IF r.secret = k THEN [r EXCEPT !.access = 0, !.revoked = TRUE] ELSE r
      BY DEF Revoked
    <2>2. r \in Refresh /\ 0 \in 0 .. MaxSecrets
      BY TokensAssumption DEF TokensAssumption
    <2>3. x \in Refresh /\ x.hashed = r.hashed
      BY <2>1, <2>2 DEF Refresh
    <2> QED BY <2>3
  <1> QED BY <1>1

LEMMA UnlinkedTyped ==
    ASSUME NEW R, R \subseteq Refresh, NEW S
    PROVE  Unlinked(R, S) \subseteq Refresh /\ \A x \in Unlinked(R, S) : \E r \in R : x.hashed = r.hashed
  <1>1. TokensAssumption
    BY TokensAssumption
  <1> QED BY <1>1 DEF Unlinked, Refresh, TokensAssumption

LEMMA LeftTyped ==
    ASSUME NEW R, R \subseteq Refresh, NEW k, NEW L
    PROVE  Left(R, k, L) \subseteq Refresh /\ \A x \in Left(R, k, L) : \E r \in R : x.hashed = r.hashed
  <1>1. ASSUME NEW x \in Left(R, k, L) PROVE x \in Refresh /\ \E r \in R : x.hashed = r.hashed
    <2>1. PICK r \in R : x = IF r.secret \in L THEN [r EXCEPT !.access = 0, !.revoked = TRUE]
                             ELSE IF r.access = k THEN [r EXCEPT !.access = 0] ELSE r
      BY DEF Left
    <2>2. r \in Refresh /\ 0 \in 0 .. MaxSecrets
      BY TokensAssumption DEF TokensAssumption
    <2>3. x \in Refresh /\ x.hashed = r.hashed
      BY <2>1, <2>2 DEF Refresh
    <2> QED BY <2>3
  <1> QED BY <1>1

LEMMA ExpiredTyped ==
    ASSUME NEW R, NEW T \in {Access, Refresh}, R \subseteq T, NEW k
    PROVE  Expired(R, k) \subseteq T /\ \A x \in Expired(R, k) : \E r \in R : x.hashed = r.hashed
  <1>1. ASSUME NEW x \in Expired(R, k) PROVE x \in T /\ \E r \in R : x.hashed = r.hashed
    <2>1. PICK r \in R : x = IF r.secret = k THEN [r EXCEPT !.expired = TRUE] ELSE r
      BY DEF Expired
    <2>2. x \in T /\ x.hashed = r.hashed
      BY <2>1 DEF Access, Refresh
    <2> QED BY <2>2
  <1> QED BY <1>1

LEMMA NewTyped ==
    ASSUME NEW k \in 1 .. MaxSecrets, NEW u \in Users, NEW c \in 1 .. MaxSecrets
    PROVE  /\ \A app \in Applications \cup {Nothing}, scope \in Scopes, source \in 0 .. MaxSecrets :
                NewAccess(k, u, app, scope, source, c) \in Access /\ Kin(NewAccess(k, u, app, scope, source, c))
           /\ \A app \in Applications, of \in 0 .. MaxSecrets :
                NewRefresh(k, u, app, of, c) \in Refresh /\ Kin(NewRefresh(k, u, app, of, c))
  BY DEF NewAccess, NewRefresh, Access, Refresh, Kin

LEMMA CreateTyped ==
    ASSUME TypeInv, Hashing, NEW u \in Creators, Create(u) \/ Grant(u)
    PROVE  TypeInv' /\ Hashing'
  <1>0. /\ generated \in 0 .. MaxSecrets /\ MaxSecrets \in Nat /\ u \in Users /\ NoSource = 0
        /\ access \subseteq Access /\ refresh \subseteq Refresh
    BY TokensAssumption DEF TypeInv, TokensTypeOK, TokensAssumption, NoSource
  <1>1. CASE Create(u)
    <2>0. PICK app \in Applications \cup {Nothing}, scope \in Scopes \ {{}} :
            LET owner == IF app # Nothing /\ ApplicationUser[app] # Nothing THEN ApplicationUser[app] ELSE u
                s == generated + 1
            IN /\ Generates(IF app = Nothing THEN 1 ELSE 2)
               /\ access' = access \cup {NewAccess(s, owner, app, scope, NoSource, s)}
               /\ refresh' = refresh \cup (IF app = Nothing THEN {} ELSE {NewRefresh(s + 1, u, app, s, s)})
               /\ UNCHANGED <<home, migrated, flight, job, gone>>
      BY <1>1 DEF Create
    <2>1. PICK owner \in {IF app # Nothing /\ ApplicationUser[app] # Nothing THEN ApplicationUser[app] ELSE u} :
               /\ Generates(IF app = Nothing THEN 1 ELSE 2)
               /\ access' = access \cup {NewAccess(generated + 1, owner, app, scope, NoSource, generated + 1)}
               /\ refresh' = refresh \cup (IF app = Nothing THEN {} ELSE {NewRefresh(generated + 1 + 1, u, app, generated + 1, generated + 1)})
               /\ UNCHANGED <<home, migrated, flight, job, gone>>
      BY <2>0
    <2>2. owner \in Users
      BY <1>0, TokensAssumption DEF TokensAssumption
    <2>3. generated' \in 0 .. MaxSecrets /\ generated + 1 \in 1 .. MaxSecrets
      BY <1>0, <2>1 DEF Generates
    <2>4. access' \subseteq Access /\ \A x \in access' : Kin(x)
      BY <1>0, <2>1, <2>2, <2>3, NewTyped, OldKin
    <2>5. app # Nothing => app \in Applications /\ generated + 1 + 1 \in 1 .. MaxSecrets /\ generated + 1 \in 0 .. MaxSecrets
      BY <1>0, <2>1 DEF Generates
    <2>6. refresh' \subseteq Refresh /\ \A x \in refresh' : Kin(x)
      <3>1. CASE app = Nothing
        BY <1>0, <2>1, <3>1, OldKin
      <3>2. CASE app # Nothing
        BY <1>0, <2>1, <2>3, <2>5, <3>2, NewTyped, OldKin
      <3> QED BY <3>1, <3>2
    <2>7. /\ job' \in JobType /\ flight' \subseteq Flight /\ home' \in [Applications -> Organizations]
          /\ \A g \in flight' : Kin(g.row)
      BY <2>1, OldKin DEF TypeInv, TokensTypeOK
    <2> QED BY <2>1, <2>3, <2>4, <2>6, <2>7, TypesKept
  <1>2. CASE Grant(u)
    <2>1. PICK app \in Applications, scope \in Scopes \ {{}} :
            /\ Generates(2)
            /\ access' = access \cup {NewAccess(generated + 1, u, app, scope, NoSource, generated + 1)}
            /\ refresh' = refresh \cup {NewRefresh(generated + 2, u, app, generated + 1, generated + 1)}
            /\ UNCHANGED <<home, migrated, flight, job, gone>>
      BY <1>2 DEF Grant
    <2>2. /\ generated' \in 0 .. MaxSecrets /\ generated + 1 \in 1 .. MaxSecrets
          /\ generated + 2 \in 1 .. MaxSecrets /\ generated + 1 \in 0 .. MaxSecrets
      BY <1>0, <2>1 DEF Generates
    <2>3. access' \subseteq Access /\ \A x \in access' : Kin(x)
      BY <1>0, <2>1, <2>2, NewTyped, OldKin
    <2>4. refresh' \subseteq Refresh /\ \A x \in refresh' : Kin(x)
      BY <1>0, <2>1, <2>2, NewTyped, OldKin
    <2>5. /\ job' \in JobType /\ flight' \subseteq Flight /\ home' \in [Applications -> Organizations]
          /\ \A g \in flight' : Kin(g.row)
      BY <2>1, OldKin DEF TypeInv, TokensTypeOK
    <2> QED BY <2>1, <2>2, <2>3, <2>4, <2>5, TypesKept
  <1> QED BY <1>1, <1>2

LEMMA BeginTyped ==
    ASSUME TypeInv, Hashing, NEW k, NEW row, Starts(k, row),
           (k = "refresh" /\ row \in refresh) \/ (k \in {"update", "use"} /\ row \in access)
    PROVE  TypeInv' /\ Hashing'
  <1>1. PICK f : f = [kind |-> k, row |-> row]
    OBVIOUS
  <1>2. f \in Flight /\ f.row = row
    BY <1>1 DEF TypeInv, TokensTypeOK, Flight
  <1>3. flight' = flight \cup {f} /\ UNCHANGED <<access, refresh, home, migrated, generated, job, gone>>
    BY <1>1 DEF Starts
  <1>4. flight' \subseteq Flight /\ \A g \in flight' : Kin(g.row)
    BY <1>2, <1>3, OldKin DEF TypeInv
  <1>5. /\ access' \subseteq Access /\ refresh' \subseteq Refresh /\ job' \in JobType /\ generated' \in 0 .. MaxSecrets
        /\ home' \in [Applications -> Organizations] /\ (\A x \in access' : Kin(x)) /\ \A x \in refresh' : Kin(x)
    BY <1>3, OldKin DEF TypeInv, TokensTypeOK
  <1> QED BY <1>3, <1>4, <1>5, TypesKept

LEMMA RefreshTyped ==
    ASSUME TypeInv, Hashing, Good(Now), NEW f \in flight, RefreshEnd(f)
    PROVE  TypeInv' /\ Hashing'
  <1>1. PICK r \in refresh :
       LET previous == {a \in access : a.source = r.secret}
           old == {a \in access : a.secret = r.access}
           kept == IF r.revoked THEN access ELSE access \ old
           scope == UNION {a.scope : a \in IF old = {} THEN previous ELSE old}
       IN IF previous # {} THEN access' = kept /\ refresh' = Revoked(refresh, r.secret) /\ generated' = generated
          ELSE IF ~validate_external_users(r.user) THEN UNCHANGED <<access, refresh, generated>>
          ELSE /\ Generates(2)
               /\ access' = kept \cup {NewAccess(generated + 1, r.user, r.app, scope, r.secret, r.chain)}
               /\ refresh' = Revoked(refresh, r.secret)
                             \cup {NewRefresh(generated + 2, r.user, r.app, generated + 1, r.chain)}
    BY DEF RefreshEnd
  <1>2. PICK previous, old, kept :
          /\ previous = {a \in access : a.source = r.secret} /\ old = {a \in access : a.secret = r.access}
          /\ kept = IF r.revoked THEN access ELSE access \ old
    OBVIOUS
  <1>3. PICK scope : scope = UNION {a.scope : a \in IF old = {} THEN previous ELSE old}
    OBVIOUS
  <1>4. IF previous # {} THEN access' = kept /\ refresh' = Revoked(refresh, r.secret) /\ generated' = generated
        ELSE IF ~validate_external_users(r.user) THEN UNCHANGED <<access, refresh, generated>>
        ELSE /\ Generates(2)
             /\ access' = kept \cup {NewAccess(generated + 1, r.user, r.app, scope, r.secret, r.chain)}
             /\ refresh' = Revoked(refresh, r.secret)
                           \cup {NewRefresh(generated + 2, r.user, r.app, generated + 1, r.chain)}
    BY <1>1, <1>2, <1>3
  <1>5. kept \subseteq access
    BY <1>2
  <1>6. /\ access \subseteq Access /\ refresh \subseteq Refresh /\ generated \in 0 .. MaxSecrets /\ MaxSecrets \in Nat
    BY TokensAssumption DEF TypeInv, TokensTypeOK, TokensAssumption
  <1>7. /\ r.user \in Users /\ r.app \in Applications /\ r.chain \in 1 .. MaxSecrets /\ r.secret \in 0 .. MaxSecrets
    BY <1>6 DEF Refresh
  <1>8. Revoked(refresh, r.secret) \subseteq Refresh /\ \A x \in Revoked(refresh, r.secret) : Kin(x)
    BY <1>6, RevokedTyped DEF Kin
  <1>9. kept \subseteq Access /\ \A x \in kept : Kin(x)
    BY <1>5, <1>6, OldKin
  <1>10. ASSUME previous = {} PROVE scope \in Scopes
    <2>1. CASE old = {}
      <3>1. scope = {}
        BY <1>3, <1>10, <2>1
      <3> QED BY <3>1, TokensAssumption DEF TokensAssumption
    <2>2. CASE old # {}
      <3>1. PICK a : a \in old
        BY <2>2
      <3>2. \A b \in old : b = a
        BY <1>2, <3>1 DEF Good, Rows, Now
      <3>3. old = {a}
        BY <3>1, <3>2
      <3>4. scope = a.scope
        BY <1>3, <2>2, <3>3
      <3>5. a \in Access
        BY <1>2, <1>6, <3>1
      <3> QED BY <3>4, <3>5 DEF Access
    <2> QED BY <2>1, <2>2
  <1>11. /\ generated' \in 0 .. MaxSecrets
         /\ access' \subseteq Access /\ (\A x \in access' : Kin(x))
         /\ refresh' \subseteq Refresh /\ (\A x \in refresh' : Kin(x))
    <2>1. CASE previous # {}
      BY <1>4, <1>6, <1>8, <1>9, <2>1
    <2>2. CASE previous = {} /\ UNCHANGED <<access, refresh, generated>>
      BY <1>6, <2>2, OldKin
    <2>3. CASE previous = {} /\ ~UNCHANGED <<access, refresh, generated>>
      <3>1. /\ Generates(2)
            /\ access' = kept \cup {NewAccess(generated + 1, r.user, r.app, scope, r.secret, r.chain)}
            /\ refresh' = Revoked(refresh, r.secret) \cup {NewRefresh(generated + 2, r.user, r.app, generated + 1, r.chain)}
        BY <1>4, <2>3
      <3>2. /\ generated' \in 0 .. MaxSecrets /\ generated + 1 \in 1 .. MaxSecrets
            /\ generated + 2 \in 1 .. MaxSecrets /\ generated + 1 \in 0 .. MaxSecrets
        BY <1>6, <3>1 DEF Generates
      <3>3. access' \subseteq Access /\ \A x \in access' : Kin(x)
        BY <1>7, <1>9, <1>10, <2>3, <3>1, <3>2, NewTyped
      <3>4. refresh' \subseteq Refresh /\ \A x \in refresh' : Kin(x)
        BY <1>7, <1>8, <3>1, <3>2, NewTyped
      <3> QED BY <3>2, <3>3, <3>4
    <2> QED BY <2>1, <2>2, <2>3
  <1>12. /\ job' \in JobType /\ flight' \subseteq Flight /\ home' \in [Applications -> Organizations]
         /\ (\A g \in flight' : Kin(g.row)) /\ migrated' = migrated /\ gone' = gone
    BY OldKin DEF RefreshEnd, Ends, TypeInv, TokensTypeOK
  <1> QED BY <1>11, <1>12, TypesKept

LEMMA UpdateTyped ==
    ASSUME TypeInv, Hashing, NEW f \in flight, UpdateEnd(f)
    PROVE  TypeInv' /\ Hashing'
  <1>1. f.kind = "update" /\ f.row \in Access
    BY DEF UpdateEnd, TypeInv, Flight
  <1>2. PICK app \in Applications \cup {Nothing}, scope \in Scopes \ {{}} :
          access' = {b \in access : b.secret # f.row.secret}
                    \cup {[f.row EXCEPT !.app = app, !.scope = scope,
                                        !.source = IF \E r \in refresh : r.secret = @ THEN @ ELSE NoSource]}
    BY DEF UpdateEnd
  <1>3. PICK source : source = IF \E r \in refresh : r.secret = f.row.source THEN f.row.source ELSE NoSource
    OBVIOUS
  <1>4. PICK x : x = [f.row EXCEPT !.app = app, !.scope = scope, !.source = source]
    OBVIOUS
  <1>5. [f.row EXCEPT !.app = app, !.scope = scope].source = f.row.source
    BY <1>1 DEF Access
  <1>6. access' = {b \in access : b.secret # f.row.secret} \cup {x}
    BY <1>2, <1>3, <1>4, <1>5
  <1>7. source \in 0 .. MaxSecrets
    BY <1>1, <1>3, TokensAssumption DEF Access, NoSource, TokensAssumption
  <1>8. x \in Access /\ x.hashed = f.row.hashed
    BY <1>1, <1>4, <1>7 DEF Access
  <1>9. access' \subseteq Access /\ \A y \in access' : Kin(y)
    BY <1>6, <1>8, OldKin DEF TypeInv, TokensTypeOK, Kin
  <1>10. /\ job' \in JobType /\ flight' \subseteq Flight /\ home' \in [Applications -> Organizations]
         /\ refresh' \subseteq Refresh /\ generated' \in 0 .. MaxSecrets
         /\ (\A y \in refresh' : Kin(y)) /\ (\A g \in flight' : Kin(g.row)) /\ migrated' = migrated /\ gone' = gone
    BY OldKin DEF UpdateEnd, Ends, TypeInv, TokensTypeOK
  <1> QED BY <1>9, <1>10, TypesKept

\* A request ends, or an application moves, and the tables stay.
LEMMA SameTyped ==
    ASSUME TypeInv, Hashing, flight' \subseteq flight, UNCHANGED <<access, refresh, generated, job, gone, migrated>>,
           home' \in [Applications -> Organizations]
    PROVE  TypeInv' /\ Hashing'
  <1>1. /\ job' \in JobType /\ flight' \subseteq Flight /\ access' \subseteq Access
        /\ refresh' \subseteq Refresh /\ generated' \in 0 .. MaxSecrets
        /\ (\A y \in access' : Kin(y)) /\ (\A y \in refresh' : Kin(y)) /\ (\A g \in flight' : Kin(g.row))
    BY OldKin DEF TypeInv, TokensTypeOK
  <1> QED BY <1>1, TypesKept

\* The tables lose rows, and rows of refresh tokens are revoked or forget their access token.
LEMMA TablesTyped ==
    ASSUME TypeInv, Hashing, UNCHANGED <<home, migrated, generated, flight, gone>>, job' \in JobType, access' \subseteq access,
           \/ refresh' = refresh
           \/ \E k : refresh' = Revoked(refresh, k)
           \/ \E S : refresh' = Unlinked(refresh, S)
           \/ \E k, L : refresh' = Left(refresh, k, L)
    PROVE  TypeInv' /\ Hashing'
  <1>1. refresh \subseteq Refresh
    BY DEF TypeInv, TokensTypeOK
  <1>2. refresh' \subseteq Refresh /\ \A x \in refresh' : \E r \in refresh : x.hashed = r.hashed
    <2>1. CASE refresh' = refresh
      BY <1>1, <2>1
    <2>2. CASE \E k : refresh' = Revoked(refresh, k)
      BY <1>1, <2>2, RevokedTyped
    <2>3. CASE \E S : refresh' = Unlinked(refresh, S)
      BY <1>1, <2>3, UnlinkedTyped
    <2>4. CASE \E k, L : refresh' = Left(refresh, k, L)
      BY <1>1, <2>4, LeftTyped
    <2> QED BY <2>1, <2>2, <2>3, <2>4
  <1>3. /\ flight' \subseteq Flight /\ access' \subseteq Access
        /\ generated' \in 0 .. MaxSecrets /\ home' \in [Applications -> Organizations]
        /\ (\A y \in access' : Kin(y)) /\ (\A y \in refresh' : Kin(y)) /\ (\A g \in flight' : Kin(g.row))
    BY <1>2, OldKin DEF TypeInv, TokensTypeOK, Kin
  <1> QED BY <1>2, <1>3, TypesKept

LEMMA DeletesTyped ==
    ASSUME TypeInv, Hashing, NEW a \in access, Deletes({a}), UNCHANGED <<home, migrated, generated, flight, job, gone>>
    PROVE  TypeInv' /\ Hashing'
  <1>1. refresh' = Unlinked(refresh, {a.secret})
    BY DEF Deletes, Unlinked
  <1>2. access' \subseteq access
    BY DEF Deletes
  <1>3. job' \in JobType
    BY DEF TypeInv
  <1>4. \E S : refresh' = Unlinked(refresh, S)
    BY <1>1
  <1> QED BY <1>2, <1>3, <1>4, TablesTyped

LEMMA RevokeByValueTyped ==
    ASSUME TypeInv, Hashing, RevokeByValue
    PROVE  TypeInv' /\ Hashing'
  <1>1. CASE \E a \in access : a.hashed = 0 /\ Deletes({a}) /\ Disturbs({a.chain})
    BY <1>1, DeletesTyped DEF RevokeByValue
  <1>2. CASE \E r \in refresh : /\ access' = {a \in access : a.secret # r.access}
                                /\ refresh' = Revoked(refresh, r.secret)
    <2>1. access' \subseteq access /\ \E k : refresh' = Revoked(refresh, k)
      BY <1>2
    <2>2. job' \in JobType
      BY DEF TypeInv, RevokeByValue
    <2> QED BY <2>1, <2>2, TablesTyped DEF RevokeByValue
  <1> QED BY <1>1, <1>2 DEF RevokeByValue

LEMMA SecretsTyped ==
    ASSUME TypeInv, NEW X \in SUBSET (access \cup refresh)
    PROVE  Secrets(X) \in SUBSET Nat /\ Chains(X) \in SUBSET Nat
  <1>1. MaxSecrets \in Nat
    BY TokensAssumption DEF TokensAssumption
  <1>2. \A r \in access \cup refresh : r.secret \in Nat /\ r.chain \in Nat
    <2>1. \A r \in Access \cup Refresh : r.secret \in Nat /\ r.chain \in Nat
      BY <1>1 DEF Access, Refresh
    <2> QED BY <2>1 DEF TypeInv, TokensTypeOK
  <1> QED BY <1>2 DEF Secrets, Chains

LEMMA JobStartsTyped ==
    ASSUME TypeInv, Hashing, NEW k \in {"refresh", "access", "logout"}, NEW u \in Users \cup {Nothing},
           NEW app \in Applications \cup {Nothing}, NEW R \in SUBSET Nat, NEW A \in SUBSET Nat, NEW C \in SUBSET Nat,
           JobStarts(k, u, app, R, A, C)
    PROVE  TypeInv' /\ Hashing'
  <1>1. job' \in JobType
    BY DEF JobStarts, JobType
  <1>2. access' \subseteq access /\ refresh' = refresh /\ UNCHANGED <<home, migrated, generated, flight, gone>>
    BY DEF JobStarts
  <1> QED BY <1>1, <1>2, TablesTyped

LEMMA CommandStartsTyped ==
    ASSUME TypeInv, Hashing, NEW u \in Users \cup {Nothing}, NEW all \in BOOLEAN, CommandStarts(u, all)
    PROVE  TypeInv' /\ Hashing'
  <1>1. PICK R, A, C : /\ R = Secrets({r \in Of(refresh, u) : ~r.revoked}) /\ A = Secrets(Of(access, u))
                       /\ C = Chains(access \cup refresh)
    OBVIOUS
  <1>2. {r \in Of(refresh, u) : ~r.revoked} \in SUBSET (access \cup refresh) /\ Of(access, u) \in SUBSET (access \cup refresh)
    BY DEF Of
  <1>3. R \in SUBSET Nat /\ A \in SUBSET Nat /\ C \in SUBSET Nat /\ {} \in SUBSET Nat
    BY <1>1, <1>2, SecretsTyped
  <1>4. JobStarts("refresh", u, Nothing, R, {}, C) \/ JobStarts("access", u, Nothing, {}, A, {})
    BY <1>1 DEF CommandStarts
  <1> QED BY <1>3, <1>4, JobStartsTyped

LEMMA LogoutStartsTyped ==
    ASSUME TypeInv, Hashing, NEW u \in Users, NEW app \in Applications \cup {Nothing}, LogoutStarts(u, app)
    PROVE  TypeInv' /\ Hashing'
  <1>1. PICK A, C : A = Secrets(Openid(u, app)) /\ C = Chains(Openid(u, app))
    OBVIOUS
  <1>2. Openid(u, app) \in SUBSET (access \cup refresh)
    BY DEF Openid
  <1>3. A \in SUBSET Nat /\ C \in SUBSET Nat /\ {} \in SUBSET Nat
    BY <1>1, <1>2, SecretsTyped
  <1>4. JobStarts("logout", u, app, {}, A, C)
    BY <1>1 DEF LogoutStarts
  <1> QED BY <1>3, <1>4, JobStartsTyped

LEMMA RevokeTyped ==
    ASSUME TypeInv, Hashing, RevokeRefresh \/ RevokeAccess \/ ListAccess
    PROVE  TypeInv' /\ Hashing'
  <1>0. job \in JobType
    BY DEF TypeInv
  <1>1. CASE RevokeRefresh
    <2>1. PICK k : /\ job' = [job EXCEPT !.refresh = @ \ {k}] /\ access' \subseteq access
                   /\ refresh' = refresh \/ refresh' = Revoked(refresh, k)
      BY <1>1 DEF RevokeRefresh
    <2>2. job' \in JobType
      BY <1>0, <2>1 DEF JobType
    <2> QED BY <1>1, <2>1, <2>2, TablesTyped DEF RevokeRefresh
  <1>2. CASE RevokeAccess
    <2>1. PICK k : /\ job' = [job EXCEPT !.access = @ \ {k}] /\ access' \subseteq access
                   /\ refresh' = Left(refresh, k, Linked(k))
      BY <1>2 DEF RevokeAccess, Left
    <2>2. job' \in JobType
      BY <1>0, <2>1 DEF JobType
    <2>3. \E j, L : refresh' = Left(refresh, j, L)
      BY <2>1
    <2> QED BY <1>2, <2>1, <2>2, <2>3, TablesTyped DEF RevokeAccess
  <1>3. CASE ListAccess
    <2>1. PICK A : A = Secrets(Of(access, job.user))
      OBVIOUS
    <2>2. Of(access, job.user) \in SUBSET (access \cup refresh)
      BY DEF Of
    <2>3. A \in SUBSET Nat
      BY <2>1, <2>2, SecretsTyped
    <2>4. job' = [job EXCEPT !.kind = "access", !.access = A] /\ access' = access /\ refresh' = refresh
      BY <1>3, <2>1 DEF ListAccess
    <2>5. job' \in JobType
      BY <1>0, <2>3, <2>4 DEF JobType
    <2> QED BY <1>3, <2>4, <2>5, TablesTyped DEF ListAccess
  <1> QED BY <1>1, <1>2, <1>3

LEMMA JobEndsTyped ==
    ASSUME TypeInv, Hashing, Good(Now), JobEnds
    PROVE  TypeInv' /\ Hashing'
  <1>1. UNCHANGED <<access, refresh, home, migrated, generated, flight>> /\ job' = NoJob
    BY DEF JobEnds
  <1>2. job.chains \subseteq 1 .. MaxSecrets
    <2>1. generated \in 0 .. MaxSecrets /\ MaxSecrets \in Nat
      BY TokensAssumption DEF TypeInv, TokensTypeOK, TokensAssumption
    <2>2. job.chains \subseteq 1 .. generated
      BY NowIs DEF Good, Issued
    <2> QED BY <2>1, <2>2
  <1>3. PICK U : U = {u \in Users : job.user \in {Nothing, u}}
    OBVIOUS
  <1>4. gone' = gone \cup ((job.chains \ blurred) \X U) /\ U \subseteq Users
    BY <1>3 DEF JobEnds
  <1>5. gone' \subseteq (1 .. MaxSecrets) \X Users
    BY <1>2, <1>4 DEF TypeInv, TokensTypeOK
  <1>6. job' \in JobType
    BY <1>1 DEF NoJob, JobType
  <1>7. TypeInv'
    BY <1>1, <1>5, <1>6 DEF TypeInv, TokensTypeOK
  <1>8. Hashing'
    BY <1>1 DEF Hashing, HashOK
  <1> QED BY <1>7, <1>8

LEMMA TokenExpiresTyped ==
    ASSUME TypeInv, Hashing, TokenExpires
    PROVE  TypeInv' /\ Hashing'
  <1>1. PICK k : /\ access' = Expired(access, k) /\ refresh' = Expired(refresh, k)
                 /\ flight' = {[f EXCEPT !.row.expired = @ \/ f.row.secret = k] : f \in flight}
    BY DEF TokenExpires
  <1>2. access \subseteq Access /\ refresh \subseteq Refresh /\ flight \subseteq Flight
    BY DEF TypeInv, TokensTypeOK
  <1>3. /\ access' \subseteq Access /\ \A x \in access' : \E r \in access : x.hashed = r.hashed
        /\ refresh' \subseteq Refresh /\ \A x \in refresh' : \E r \in refresh : x.hashed = r.hashed
    BY <1>1, <1>2, ExpiredTyped
  <1>4. ASSUME NEW g \in flight' PROVE g \in Flight /\ Kin(g.row)
    <2>1. PICK f \in flight : g = [f EXCEPT !.row.expired = @ \/ f.row.secret = k]
      BY <1>1
    <2>2. f \in [kind : {"refresh"}, row : Refresh] \/ f \in [kind : {"update", "use"}, row : Access]
      BY <1>2 DEF Flight
    <2>3. PICK e \in BOOLEAN : g = [f EXCEPT !.row.expired = e]
      <3>1. (f.row.expired \/ f.row.secret = k) \in BOOLEAN
        OBVIOUS
      <3> QED BY <2>1, <3>1
    <2>4. g \in Flight /\ g.row.hashed = f.row.hashed
      BY <2>2, <2>3 DEF Flight, Access, Refresh
    <2> QED BY <2>4 DEF Kin
  <1>5. /\ job' \in JobType /\ home' \in [Applications -> Organizations] /\ generated' \in 0 .. MaxSecrets
        /\ migrated' = migrated /\ gone' = gone
    BY DEF TokenExpires, TypeInv, TokensTypeOK
  <1>6. (\A x \in access' : Kin(x)) /\ (\A x \in refresh' : Kin(x))
    BY <1>3 DEF Kin
  <1> QED BY <1>3, <1>4, <1>5, <1>6, TypesKept

LEMMA CleanupTokensTyped ==
    ASSUME TypeInv, Hashing, CleanupTokens
    PROVE  TypeInv' /\ Hashing'
  <1>1. PICK left : /\ left \subseteq refresh /\ refresh' = left
                    /\ access' = {[a EXCEPT !.source = IF \E r \in left : r.secret = @ THEN @ ELSE NoSource] :
                                    a \in {a \in access : a.expired => \E r \in left : r.access = a.secret}}
    BY DEF CleanupTokens
  <1>2. ASSUME NEW x \in access' PROVE x \in Access /\ Kin(x)
    <2>1. PICK a \in access : x = [a EXCEPT !.source = IF \E r \in left : r.secret = @ THEN @ ELSE NoSource]
      BY <1>1
    <2>2. a \in Access
      BY DEF TypeInv, TokensTypeOK
    <2>3. PICK source \in 0 .. MaxSecrets : x = [a EXCEPT !.source = source]
      <3>1. (IF \E r \in left : r.secret = a.source THEN a.source ELSE NoSource) \in 0 .. MaxSecrets
        BY <2>2, TokensAssumption DEF Access, NoSource, TokensAssumption
      <3> QED BY <2>1, <3>1
    <2>4. x \in Access /\ x.hashed = a.hashed
      BY <2>2, <2>3 DEF Access
    <2> QED BY <2>4 DEF Kin
  <1>3. /\ job' \in JobType /\ home' \in [Applications -> Organizations] /\ generated' \in 0 .. MaxSecrets
        /\ refresh' \subseteq Refresh /\ flight' \subseteq Flight /\ migrated' = migrated /\ gone' = gone
        /\ (\A x \in refresh' : Kin(x)) /\ \A g \in flight' : Kin(g.row)
    BY <1>1, OldKin DEF CleanupTokens, TypeInv, TokensTypeOK
  <1> QED BY <1>2, <1>3, TypesKept

LEMMA hash_tokensTyped ==
    ASSUME TypeInv, Hashing, hash_tokens
    PROVE  TypeInv' /\ Hashing'
  <1>1. /\ access' = {Hashed(t) : t \in access} /\ refresh' = {Hashed(r) : r \in refresh}
        /\ flight = {} /\ UNCHANGED <<home, generated, flight, job, gone>>
    BY DEF hash_tokens
  <1>2. access \subseteq Access /\ refresh \subseteq Refresh /\ \A r \in access \cup refresh : r.hashed \in {0, 1}
    BY DEF TypeInv, TokensTypeOK, Hashing, HashOK
  <1>3. \A r \in Access : r.hashed \in {0, 1} => Hashed(r) \in Access /\ Hashed(r).hashed = 1
    BY DEF Hashed, Access
  <1>4. \A r \in Refresh : r.hashed \in {0, 1} => Hashed(r) \in Refresh /\ Hashed(r).hashed = 1
    BY DEF Hashed, Refresh
  <1>5. access' \subseteq Access /\ refresh' \subseteq Refresh /\ \A r \in access' \cup refresh' : r.hashed = 1
    BY <1>1, <1>2, <1>3, <1>4
  <1>6. TypeInv'
    BY <1>1, <1>5 DEF TypeInv, TokensTypeOK
  <1>7. Hashing'
    BY <1>1, <1>5 DEF Hashing, HashOK
  <1> QED BY <1>6, <1>7

-----------------------------------------------------------------------------
LEMMA TokensInitInv == TokensInit => TokensInv
  <1> SUFFICES ASSUME TokensInit PROVE TokensInv
    OBVIOUS
  <1>1. PICK o \in OldTables : access = o.access /\ refresh = o.refresh /\ home = o.home
    BY DEF TokensInit
  <1>2. /\ o.access \subseteq Access /\ o.refresh \subseteq Refresh /\ o.home \in [Applications -> Organizations]
        /\ \A r \in o.access \cup o.refresh : r.hashed \in {0, 1} /\ r.secret <= OldSecrets /\ r.chain <= OldSecrets
        /\ \A a, b \in o.access : a.secret = b.secret \/ a.chain = b.chain => a = b
        /\ \A r, q \in o.refresh : r.secret = q.secret \/ (r.chain = q.chain /\ ~r.revoked /\ ~q.revoked) => r = q
        /\ \A r \in o.refresh : r.access <= OldSecrets
        /\ \A r \in o.refresh, a \in o.access :
             /\ r.access = a.secret => r.chain = a.chain
             /\ r.chain = a.chain /\ ~r.revoked => r.access = a.secret
    BY TokensAssumption DEF TokensAssumption, LeftByRelease
  <1>3. OldSecrets \in Nat /\ MaxSecrets \in Nat /\ OldSecrets <= MaxSecrets
    BY TokensAssumption DEF TokensAssumption
  <1>4. PICK s : s = Now
    OBVIOUS
  <1>5. /\ s.access = o.access /\ s.refresh = o.refresh /\ s.flight = {} /\ s.job.kind = "none" /\ s.job.chains = {}
        /\ s.blurred = {} /\ s.generated = OldSecrets /\ s.gone = {}
    BY <1>1, <1>4, NowIs DEF TokensInit, NoJob
  <1>6. TypeInv
    <2>1. job \in JobType
      BY DEF TokensInit, NoJob, JobType
    <2> QED BY <1>1, <1>2, <1>3, <2>1 DEF TypeInv, TokensTypeOK, TokensInit
  <1>7. Hashing
    BY <1>1, <1>2 DEF Hashing, HashOK, TokensInit
  <1>8. Issued(s)
    <2>1. \A a \in s.access : Made(s, a)
      BY <1>2, <1>3, <1>5 DEF Made, Access
    <2>2. \A r \in s.refresh : Made(s, r) /\ r.access \in 0 .. s.generated
      BY <1>2, <1>3, <1>5 DEF Made, Refresh
    <2> QED BY <1>3, <1>5, <2>1, <2>2 DEF Issued
  <1>9. Rows(s)
    BY <1>2, <1>5 DEF Rows, RefreshRow
  <1>10. AllTidy(s)
    <2>1. \A c : \A r \in s.refresh : r.chain = c /\ ~r.revoked => Usable(s, c, r)
      BY <1>2, <1>5 DEF Usable
    <2>2. \A a, b \in s.access : a.chain = b.chain => a.secret = b.secret
      BY <1>2, <1>5
    <2> QED BY <1>5, <2>1, <2>2 DEF AllTidy, Tidy
  <1>11. StaysGone(s) /\ Job(s)
    BY <1>5 DEF StaysGone, Job
  <1> QED BY <1>4, <1>6, <1>7, <1>8, <1>9, <1>10, <1>11 DEF TokensInv, Good

LEMMA TokensNextInv == TokensInv /\ [TokensNext]_tokenVars => TokensInv'
  <1> SUFFICES ASSUME TypeInv, Hashing, Good(Now), [TokensNext]_tokenVars
               PROVE  TypeInv' /\ Hashing' /\ Good(Now)'
    BY DEF TokensInv
  <1>0. home \in [Applications -> Organizations]
    BY DEF TypeInv, TokensTypeOK
  <1>1. ASSUME NEW u \in Creators, Create(u) \/ Grant(u) PROVE TypeInv' /\ Hashing' /\ Good(Now)'
    BY <1>1, CreateGood, CreateTyped
  <1>2. CASE RefreshBegin
    BY <1>2, BeginGood, BeginTyped DEF RefreshBegin
  <1>3. CASE UseBegin
    BY <1>3, BeginGood, BeginTyped DEF UseBegin
  <1>4. ASSUME NEW u \in Users, UpdateBegin(u) PROVE TypeInv' /\ Hashing' /\ Good(Now)'
    BY <1>4, BeginGood, BeginTyped DEF UpdateBegin
  <1>5. ASSUME NEW u \in Users, Delete(u) PROVE TypeInv' /\ Hashing' /\ Good(Now)'
    <2>1. PICK a \in access : Deletes({a}) /\ Disturbs({a.chain})
      BY <1>5 DEF Delete
    <2>2. UNCHANGED <<home, migrated, generated, flight, job, gone>>
      BY <1>5 DEF Delete
    <2> QED BY <2>1, <2>2, DeleteGood, DeletesTyped
  <1>6. ASSUME NEW u \in Users \cup {Nothing}, NEW all \in BOOLEAN, CommandStarts(u, all)
        PROVE  TypeInv' /\ Hashing' /\ Good(Now)'
    BY <1>6, CommandStartsGood, CommandStartsTyped
  <1>7. ASSUME NEW u \in Users, NEW app \in Applications \cup {Nothing}, LogoutStarts(u, app)
        PROVE  TypeInv' /\ Hashing' /\ Good(Now)'
    BY <1>7, LogoutStartsGood, LogoutStartsTyped
  <1>8. ASSUME NEW f \in flight, RefreshEnd(f) PROVE TypeInv' /\ Hashing' /\ Good(Now)'
    BY <1>8, RefreshGood, RefreshTyped
  <1>9. ASSUME NEW f \in flight, RefreshFails(f) \/ UseEnd(f) PROVE TypeInv' /\ Hashing' /\ Good(Now)'
    <2>1. Ends(f) /\ UNCHANGED <<access, refresh, home, migrated, generated, job, blurred, gone>>
      BY <1>9 DEF RefreshFails, UseEnd, LastUsed
    <2> QED BY <1>0, <2>1, NothingComes, SameTyped DEF Ends
  <1>10. ASSUME NEW f \in flight, UpdateEnd(f) PROVE TypeInv' /\ Hashing' /\ Good(Now)'
    BY <1>10, UpdateGood, UpdateTyped
  <1>11. CASE RevokeByValue
    BY <1>11, RevokeByValueGood, RevokeByValueTyped
  <1>12. CASE RevokeRefresh
    BY <1>12, RevokeRefreshGood, RevokeTyped
  <1>13. CASE ListAccess
    BY <1>13, ListAccessGood, RevokeTyped
  <1>14. CASE RevokeAccess
    BY <1>14, RevokeAccessGood, RevokeTyped
  <1>15. CASE JobEnds
    BY <1>15, JobEndsGood, JobEndsTyped
  <1>16. CASE TokenExpires
    BY <1>16, TokenExpiresGood, TokenExpiresTyped
  <1>17. CASE CleanupTokens
    BY <1>17, CleanupTokensGood, CleanupTokensTyped
  <1>18. CASE MoveApplication
    <2>1. home' \in [Applications -> Organizations] /\ flight' \subseteq flight
      BY <1>0, <1>18 DEF MoveApplication
    <2>2. UNCHANGED <<access, refresh, flight, migrated, generated, job, blurred, gone>>
      BY <1>18 DEF MoveApplication
    <2> QED BY <2>1, <2>2, SameGood, SameTyped
  <1>19. CASE hash_tokens
    BY <1>19, hash_tokensGood, hash_tokensTyped
  <1>20. CASE UNCHANGED tokenVars
    <2>1. flight' \subseteq flight /\ home' \in [Applications -> Organizations]
      BY <1>0, <1>20 DEF tokenVars
    <2> QED BY <1>20, <2>1, SameGood, SameTyped DEF tokenVars
  <1> QED BY <1>1, <1>2, <1>3, <1>4, <1>5, <1>6, <1>7, <1>8, <1>9, <1>10, <1>11, <1>12, <1>13, <1>14,
             <1>15, <1>16, <1>17, <1>18, <1>19, <1>20 DEF TokensNext

LEMMA TokensInvKeeps == TokensInv => TokensKeepTheirWord
  <1> SUFFICES ASSUME TokensInv PROVE TokensKeepTheirWord
    OBVIOUS
  <1>1. TokensTypeOK /\ HashedOnce
    BY DEF TokensInv, TypeInv, Hashing, HashOK, HashedOnce
  <1>2. RevokedStaysRevoked
    <2>1. StaysGone(Now)
      BY DEF TokensInv, Good
    <2>2. /\ \A a \in access : <<a.chain, a.user>> \notin gone
          /\ \A r \in refresh : <<r.chain, r.user>> \notin gone \/ r.revoked
      BY <2>1, NowIs DEF StaysGone
    <2> QED BY <2>2 DEF RevokedStaysRevoked
  <1>3. ReachedAsDocumented
    <2> SUFFICES ASSUME NEW u \in Users, NEW t \in access, NEW safe \in BOOLEAN
                 PROVE  Reaches(u, t, safe) <=> \/ u \in Superusers \/ u = t.user
                                                \/ safe /\ u \in Auditors
                                                \/ t.app # Nothing /\ u \in OrgAdmins[home[t.app]]
      BY DEF ReachedAsDocumented
    <2>1. t.app # Nothing => t.app \in Applications /\ home[t.app] \in Organizations
      BY <1>1 DEF TokensTypeOK, Access
    <2> QED BY <2>1 DEF Reaches, get_queryset, has_object_permission
  <1> QED BY <1>1, <1>2, <1>3 DEF TokensKeepTheirWord

(***************************************************************************)
(* Whatever refreshing, updating, using, deleting, revoking, logging out,  *)
(* cleaning up and the migration overlap, and for any number of users,     *)
(* applications and tokens, a token is kept hashed once, a chain that      *)
(* revoke_oauth2_tokens or a logout revoked for a user, and that nobody    *)
(* else was after meanwhile, never acts as the user again, and a token is  *)
(* reached by those the permission class of views/permissions.py names and *)
(* nobody else.                                                            *)
(***************************************************************************)
THEOREM TokensStayTrue == TokensSpec => []TokensKeepTheirWord
  <1>1. TokensInit => TokensInv
    BY TokensInitInv
  <1>2. TokensInv /\ [TokensNext]_tokenVars => TokensInv'
    BY TokensNextInv
  <1>3. TokensInv => TokensKeepTheirWord
    BY TokensInvKeeps
  <1> QED BY <1>1, <1>2, <1>3, PTL DEF TokensSpec
=============================================================================

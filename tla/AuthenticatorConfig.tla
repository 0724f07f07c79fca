-------------------------- MODULE AuthenticatorConfig --------------------------
(***************************************************************************)
(* The configuration of an authenticator: the fields each plugin declares, *)
(* what its serializer accepts and completes, how secrets are masked when  *)
(* they are shown and encrypted when they are saved, the scan for unclean  *)
(* text, and what the plugin makes of what was accepted when somebody      *)
(* signs in.  A value is the name of a kind of text, address, list, ...    *)
(* (good, other, dirty, bad), not the text.                                *)
(***************************************************************************)
EXTENDS Integers, Sequences, SequencesExt

CONSTANTS Null,      \* JSON null
          Plugins,   \* the plugins of the run
          MaxUpdates \* bound

Mask == "$encrypted$"

(* Fields *)
Field(kind, required, nullable, default) ==
  [kind |-> kind, required |-> required, nullable |-> nullable, default |-> default]
NoDefault  == "no default"
Must(kind)          == Field(kind, TRUE, FALSE, NoDefault)
MustOrNull(kind)    == Field(kind, TRUE, TRUE, NoDefault)
May(kind)           == Field(kind, FALSE, FALSE, NoDefault)
MayOrNull(kind)     == Field(kind, FALSE, TRUE, NoDefault)
Else(kind, d)       == Field(kind, FALSE, FALSE, d)
ElseOrNull(kind, d) == Field(kind, FALSE, TRUE, d)

BaseFields == [ADDITIONAL_UNVERIFIED_ARGS |-> MayOrNull("json")]

LDAPFields == [
  SERVER_URI |-> Must("urls"), BIND_DN |-> May("dn"), BIND_PASSWORD |-> May("text"),
  CONNECTION_OPTIONS |-> Else("options", "none"), GROUP_TYPE |-> Must("group type"),
  GROUP_TYPE_PARAMS |-> Must("params"), GROUP_SEARCH |-> MayOrNull("group search"),
  START_TLS |-> Else("flag", "no"), USER_DN_TEMPLATE |-> MayOrNull("user dn"),
  USER_ATTR_MAP |-> Must("attr map"), USER_SEARCH |-> MayOrNull("user search")]

SAMLIdpFields == [
  IDP_URL |-> Must("url"), IDP_X509_CERT |-> Must("cert"), IDP_ENTITY_ID |-> Must("text"),
  IDP_GROUPS |-> MayOrNull("text"), IDP_ATTR_EMAIL |-> MustOrNull("text"), IDP_ATTR_USERNAME |-> Must("text"),
  IDP_ATTR_LAST_NAME |-> MustOrNull("text"), IDP_ATTR_FIRST_NAME |-> MustOrNull("text"),
  IDP_ATTR_USER_PERMANENT_ID |-> Must("text")]

SAMLFields == [
  SP_ENTITY_ID |-> Else("text", "good"), SP_PUBLIC_CERT |-> Must("cert"), SP_PRIVATE_KEY |-> Must("key"),
  ORG_INFO |-> Else("json", "good"), TECHNICAL_CONTACT |-> Else("json", "good"), SUPPORT_CONTACT |-> Else("json", "good"),
  SP_EXTRA |-> Else("json", "good"), SECURITY_CONFIG |-> Else("security", "good"), EXTRA_DATA |-> Else("list", "good"),
  CALLBACK_URL |-> MayOrNull("url")] @@ SAMLIdpFields

OIDCFields == [
  OIDC_ENDPOINT |-> Must("url"), VERIFY_SSL |-> Else("flag", "yes"), KEY |-> Must("text"), SECRET |-> MustOrNull("text"),
  ACCESS_TOKEN_URL |-> MayOrNull("url"), ACCESS_TOKEN_METHOD |-> ElseOrNull("choice", "good"),
  AUTHORIZATION_URL |-> MayOrNull("url"), CALLBACK_URL |-> MayOrNull("url"), ID_KEY |-> ElseOrNull("text", "good"),
  ID_TOKEN_ISSUER |-> MayOrNull("text"), ID_TOKEN_MAX_AGE |-> ElseOrNull("number", "good"),
  JWT_ALGORITHMS |-> ElseOrNull("algorithms", "good"), JWT_DECODE_OPTIONS |-> ElseOrNull("json", Null),
  JWKS_URI |-> MayOrNull("url"), PUBLIC_KEY |-> MayOrNull("text"), REDIRECT_STATE |-> ElseOrNull("flag", "no"),
  REVOKE_TOKEN_METHOD |-> ElseOrNull("choice", "good"), REVOKE_TOKEN_URL |-> MayOrNull("url"),
  RESPONSE_TYPE |-> ElseOrNull("text", "good"), SCOPE |-> Else("list", "good"),
  TOKEN_ENDPOINT_AUTH_METHOD |-> MayOrNull("text"), USERINFO_URL |-> MayOrNull("url"),
  USERNAME_KEY |-> ElseOrNull("text", "good"), GROUPS_CLAIM |-> ElseOrNull("text", "good")]

\* The default addresses contain <my_realm>.
KeycloakFields == [
  ACCESS_TOKEN_URL |-> Else("url", "dirty"), AUTHORIZATION_URL |-> Else("url", "dirty"), KEY |-> Must("text"),
  PUBLIC_KEY |-> Must("text"), SECRET |-> MustOrNull("text"), GROUPS_CLAIM |-> ElseOrNull("text", "good")]

AzureFields == [
  CALLBACK_URL |-> May("url"), KEY |-> Must("text"), SECRET |-> MustOrNull("text"),
  GROUPS_CLAIM |-> Else("text", "good"), USERNAME_FIELD |-> MayOrNull("text")]

GoogleFields == [
  KEY |-> Must("text"), SECRET |-> MustOrNull("text"), CALLBACK_URL |-> MayOrNull("url"), ACCESS_TOKEN_URL |-> MayOrNull("url"),
  ACCESS_TOKEN_METHOD |-> ElseOrNull("choice", "good"), AUTHORIZATION_URL |-> MayOrNull("url"),
  REDIRECT_STATE |-> ElseOrNull("flag", "no"), REVOKE_TOKEN_METHOD |-> ElseOrNull("choice", "good"),
  REVOKE_TOKEN_URL |-> MayOrNull("url"), SCOPE |-> Else("list", "good")]

GithubFields      == [CALLBACK_URL |-> May("url"), KEY |-> Must("text"), SECRET |-> Must("text")]
GithubOrgFields   == GithubFields @@ [SCOPE |-> Else("list", "good"), NAME |-> Must("text")]
GithubTeamFields  == GithubFields @@ [SCOPE |-> Else("list", "good"), ID |-> Must("text")]
EnterpriseFields  == GithubFields @@ [URL |-> Must("url"), API_URL |-> Must("url")]
EnterpriseOrgFields  == EnterpriseFields @@ [NAME |-> Must("text")]
EnterpriseTeamFields == EnterpriseFields @@ [ID |-> Must("text")]

RADIUSFields == [SERVER |-> Must("text"), PORT |-> Else("number", "good"), SECRET |-> Must("text")]
TacacsFields == [
  HOST |-> Must("text"), PORT |-> Else("number", "good"), AUTH_PROTOCOL |-> Else("choice", "good"),
  REM_ADDR |-> Else("flag", "yes"), SECRET |-> Must("ascii"), SESSION_TIMEOUT |-> Else("number", "good")]

OwnFields == [
  local |-> [none \in {} |-> 0], ldap |-> LDAPFields, saml |-> SAMLFields, oidc |-> OIDCFields,
  keycloak |-> KeycloakFields, azuread |-> AzureFields, google_oauth2 |-> GoogleFields, github |-> GithubFields,
  github_org |-> GithubOrgFields, github_team |-> GithubTeamFields, github_enterprise |-> EnterpriseFields,
  github_enterprise_org |-> EnterpriseOrgFields, github_enterprise_team |-> EnterpriseTeamFields,
  radius |-> RADIUSFields, tacacs |-> TacacsFields]

FieldsOf(p) == OwnFields[p] @@ BaseFields
configuration_encrypted_fields(p) ==
  CASE p = "local" -> {} [] p = "ldap" -> {"BIND_PASSWORD"} [] p = "saml" -> {"SP_PRIVATE_KEY"} [] OTHER -> {"SECRET"}
\* The plugins that fill in the address the provider calls back.
CallsBack(p) == p \in {"saml", "oidc", "azuread", "google_oauth2", "github", "github_org", "github_team",
                       "github_enterprise", "github_enterprise_org", "github_enterprise_team"}

IdpNames == DOMAIN SAMLIdpFields

(* The structures behind the names of LDAP values *)
Word(w)    == [is |-> "str", what |-> w, items |-> <<>>]
Number     == [is |-> "int", what |-> "", items |-> <<>>]
ListOf(s)  == [is |-> "list", what |-> "", items |-> s]
Term(d, s, f) == <<Word(d), Word(s), Word(f)>>
Searches == [
  empty         |-> <<>>,
  good          |-> Term("dn", "scope", "filter with user"),
  groups        |-> Term("dn", "scope", "filter"),
  bad_dn        |-> Term("no dn", "scope", "filter with user"),
  bad_scope     |-> Term("dn", "no scope", "filter with user"),
  bad_filter    |-> Term("dn", "scope", "no filter"),
  number        |-> <<Word("dn"), Word("scope"), Number>>,
  number_scope  |-> <<Word("dn"), Number, Word("filter with user")>>,
  pair          |-> <<Word("dn"), Word("scope")>>,
  union_of_one  |-> <<ListOf(Term("dn", "scope", "filter with user"))>>,
  union_of_three |-> [i \in 1..3 |-> ListOf(Term("dn", "scope", "filter with user"))],
  union_with_bad |-> <<ListOf(Term("dn", "scope", "filter with user")), ListOf(Term("dn", "no scope", "filter with user"))>>,
  union_with_word |-> <<ListOf(Term("dn", "scope", "filter with user")), Word("dn"), Word("filter with user")>>]
Options == [
  none |-> <<>>, timeout |-> <<"OPT_NETWORK_TIMEOUT">>, context |-> <<"OPT_X_TLS_NEWCTX", "OPT_X_TLS_CACERTFILE">>,
  certs |-> <<"OPT_X_TLS_NEWCTX", "OPT_X_TLS_REQUIRE_CERT">>, require |-> <<"OPT_X_TLS_REQUIRE_CERT">>, bad |-> <<"NO_SUCH_OPTION">>]
Params == [nothing |-> {}, name |-> {"name_attr"}, member |-> {"member_attr", "name_attr"},
           uid |-> {"name_attr", "ldap_group_user_attr"}]
\* What the constructor of the group type takes.
GroupTypeArgs == [PosixGroupType |-> {"name_attr"}, GroupOfNamesType |-> {"name_attr"},
                  MemberDNGroupType |-> {"member_attr", "name_attr"}, PosixUIDGroupType |-> {"name_attr", "ldap_group_user_attr"}]

(* What each kind of field accepts *)
is_single_search(v) == Len(v) = 3 /\ v[1].is = "str"
validate_ldap_filter(w, withUser) == w.is = "str" /\ w.what \in (IF withUser THEN {"filter with user"} ELSE {"filter"})
AnyScope(v, withUser) == is_single_search(v) /\ v[1].what = "dn" /\ validate_ldap_filter(v[3], withUser)
validate_single_search(v, withUser) ==
  /\ is_single_search(v)
  /\ v[1].what = "dn"
  /\ v[2].is = "str" /\ v[2].what = "scope"
  /\ validate_ldap_filter(v[3], withUser)
check_search_input(v, allowUnion) == is_single_search(v) \/ allowUnion
LDAPSearchField(v, withUser, allowUnion) ==
  v # <<>> =>
    /\ check_search_input(v, allowUnion)
    /\ IF is_single_search(v) THEN validate_single_search(v, withUser)
       ELSE \A i \in DOMAIN v : validate_single_search(v[i].items, withUser)
validOptions == {"OPT_NETWORK_TIMEOUT", "OPT_X_TLS_NEWCTX", "OPT_X_TLS_CACERTFILE", "OPT_X_TLS_REQUIRE_CERT", "OPT_REFERRALS"}
LDAPConnectionOptions(o) == Range(o) \subseteq validOptions

SameForAll == {"good", "other"}
Accepted == [
  text |-> SameForAll \cup {"dirty", Mask}, url |-> SameForAll \cup {"dirty"}, urls |-> SameForAll, number |-> SameForAll,
  choice |-> SameForAll, algorithms |-> SameForAll, security |-> SameForAll, ascii |-> SameForAll \cup {Mask},
  list |-> SameForAll \cup {"dirty"}, json |-> SameForAll \cup {"dirty"}, dn |-> SameForAll, flag |-> {"yes", "no"},
  cert |-> {"certA", "certB"}, key |-> {"keyA", "keyB", Mask}, params |-> DOMAIN Params]
  @@ ("user dn" :> SameForAll) @@ ("attr map" :> SameForAll) @@ ("group type" :> DOMAIN GroupTypeArgs)
  @@ ("options" :> {o \in DOMAIN Options : LDAPConnectionOptions(Options[o])})
  @@ ("user search" :> {s \in DOMAIN Searches : LDAPSearchField(Searches[s], TRUE, TRUE)})
  @@ ("group search" :> {s \in DOMAIN Searches : LDAPSearchField(Searches[s], FALSE, FALSE)})
run_validation(field, v) == IF v = Null THEN field.nullable ELSE v \in Accepted[field.kind]

(* BaseAuthenticatorConfiguration *)
Given(p, c) == {f \in DOMAIN FieldsOf(p) : f \in DOMAIN c \/ FieldsOf(p)[f].default # NoDefault}
to_internal_value(p, c) == [f \in Given(p, c) |-> IF f \in DOMAIN c THEN c[f] ELSE FieldsOf(p)[f].default]
FieldsValid(p, c) ==
  /\ DOMAIN c \subseteq DOMAIN FieldsOf(p)
  /\ \A f \in DOMAIN FieldsOf(p) :
       IF f \in DOMAIN c THEN run_validation(FieldsOf(p)[f], c[f]) ELSE ~ FieldsOf(p)[f].required

\* The certificate and the key must match; a key not given, or given as the mask, is the one of the instance.
validate_cert_with_key(cert, key) == <<cert, key>> \in {<<"certA", "keyA">>, <<"certB", "keyB">>}
LDAPValid(v) == Params[v.GROUP_TYPE_PARAMS] = GroupTypeArgs[v.GROUP_TYPE]
SAMLValid(v, old) ==
  validate_cert_with_key(v.SP_PUBLIC_CERT, IF v.SP_PRIVATE_KEY = Mask THEN old.SP_PRIVATE_KEY ELSE v.SP_PRIVATE_KEY)
validate_configuration(p, c, old) ==
  /\ FieldsValid(p, c)
  /\ p = "ldap" => LDAPValid(to_internal_value(p, c))
  /\ p = "saml" => SAMLValid(to_internal_value(p, c), old)

VARIABLES plugin,   \* the plugin of the authenticator
          enforce,  \* ENHANCED_INPUT_VALIDATION_ENABLED
          stored,   \* the row: configuration, the part under ENABLED_IDPS, how often the secret is encrypted; or NoAuthenticator
          given,    \* history: the secret last given, Null when none is
          updates   \* how many requests and saves there were
configVars == <<plugin, enforce, stored, given, updates>>

NoAuthenticator == [config |-> <<>>, idp |-> <<>>, layers |-> 0]
secrets == configuration_encrypted_fields(plugin)
Exists == stored # NoAuthenticator

(* What the row becomes in memory, and what is shown of it *)
decrypt_string(layers) == IF layers > 0 THEN layers - 1 ELSE 0
encrypt_string(layers) == IF layers > 0 THEN layers ELSE 1
from_db(row) == [row EXCEPT !.layers = decrypt_string(row.layers)]
Save(row) == [row EXCEPT !.layers = IF secrets \cap DOMAIN row.config # {} THEN encrypt_string(row.layers) ELSE row.layers]
\* The nested settings of the identity provider come back flat.
NestedOnly(row) == row.config
Flat(row) == row.idp @@ row.config
mask(c)   == [f \in DOMAIN c |-> IF f \in secrets THEN Mask ELSE c[f]]
to_representation(row) == mask(Flat(row))
Nested(c) == [config |-> IF plugin = "saml" THEN Restrict(c, DOMAIN c \ IdpNames) ELSE c,
              idp    |-> IF plugin = "saml" THEN Restrict(c, DOMAIN c \cap IdpNames) ELSE <<>>,
              layers |-> 0]

(* AuthenticatorSerializer *)
\* The mask stands for what the instance has, null when it has nothing.
KeepMask(c, old) == c
Unmask(c, old) == [f \in DOMAIN c |-> IF f \in secrets /\ c[f] = Mask /\ old # NoAuthenticator
                                      THEN IF f \in DOMAIN old.config THEN old.config[f] ELSE Null
                                      ELSE c[f]]
FillCallback(c) == IF CallsBack(plugin) /\ ("CALLBACK_URL" \notin DOMAIN c \/ c["CALLBACK_URL"] = Null)
                   THEN ("CALLBACK_URL" :> "good") @@ c ELSE c
excluded_json_keys == {"SECRET", "BIND_PASSWORD", "SP_PRIVATE_KEY", "ADDITIONAL_UNVERIFIED_ARGS"}
_is_unchanged(old, f, v) == f \in DOMAIN Flat(old) /\ Flat(old)[f] = v
CleanText(v, old) == \A f \in DOMAIN v \ excluded_json_keys : v[f] = "dirty" => _is_unchanged(old, f, v[f])
validate(c, old) ==
  /\ old = NoAuthenticator => \A f \in secrets \cap DOMAIN c : c[f] # Mask
  /\ validate_configuration(plugin, c, old.config)
  /\ enforce => CleanText(to_internal_value(plugin, c), old)

\* A request that carries a configuration: what it becomes, and whether it is accepted.
Received(c, old) == FillCallback(Unmask(c, old))
Accept(c, old)   == validate(Received(c, old), old)
SaveConfiguration(c, old) ==
  /\ Accept(c, old)
  /\ stored' = Save(Nested(to_internal_value(plugin, Received(c, old))))
  /\ given' = IF secrets \cap DOMAIN c = {} THEN Null
              ELSE LET f == CHOOSE f \in secrets : TRUE IN IF c[f] = Mask THEN given ELSE c[f]

(* What the requests send: one field of a configuration changed, left out or added *)
Offered(field) == Accepted[field.kind] \cup {"bad", Null}
                  \cup (IF field.kind \in {"user search", "group search"} THEN DOMAIN Searches ELSE {})
Around(c) ==
  {c, ("NO_SUCH_FIELD" :> "good") @@ c}
  \cup {Restrict(c, DOMAIN c \ {f}) : f \in DOMAIN c}
  \cup UNION {{(f :> v) @@ c : v \in Offered(FieldsOf(plugin)[f])} : f \in DOMAIN FieldsOf(plugin)}
Usual == [cert |-> "certA", key |-> "keyA", params |-> "name"] @@ ("group type" :> "GroupOfNamesType")
Template ==
  [f \in {f \in DOMAIN FieldsOf(plugin) : FieldsOf(plugin)[f].required} |->
     LET kind == FieldsOf(plugin)[f].kind IN IF kind \in DOMAIN Usual THEN Usual[kind] ELSE "good"]

(* Requests *)
Post == /\ ~ Exists
        /\ \E c \in Around(Template) : SaveConfiguration(c, NoAuthenticator)
        /\ UNCHANGED <<plugin, enforce, updates>>
\* PUT, or PATCH with a configuration that is not empty: it replaces all of it.
Put  == /\ Exists /\ updates < MaxUpdates
        /\ LET old == from_db(stored) IN \E c \in Around(to_representation(old)) : SaveConfiguration(c, old)
        /\ updates' = updates + 1
        /\ UNCHANGED <<plugin, enforce>>
\* Code that saves an instance, just loaded or the one a save left in memory; so does a PATCH of other fields.
SaveAgain == /\ Exists /\ updates < MaxUpdates
             /\ \E instance \in {stored, from_db(stored)} : stored' = Save(instance)
             /\ updates' = updates + 1
             /\ UNCHANGED <<plugin, enforce, given>>
Enforce == enforce' = ~ enforce /\ UNCHANGED <<plugin, stored, given, updates>>

ConfigInit == /\ plugin \in Plugins
        /\ enforce \in BOOLEAN
        /\ stored = NoAuthenticator
        /\ given = Null
        /\ updates = 0
ConfigNext == Post \/ Put \/ SaveAgain \/ Enforce
ConfigSpec == ConfigInit /\ [][ConfigNext]_configVars

(* Signing in: what the LDAP plugin makes of the configuration *)
\* A value converts to searches, each made of three words; a scope that is no scope raises.
Terms(v) == IF Len(v) = 3 /\ \A i \in 1..3 : v[i].is = "str" THEN <<ListOf(v)>> ELSE v
Converts(t) == Len(t.items) >= 3 /\ t.items[2].is = "str" /\ t.items[2].what = "scope" /\ t.items[3].is = "str"
SearchObjects(c, f) == IF f \notin DOMAIN c \/ c[f] = Null THEN <<>> ELSE Terms(Searches[c[f]])
Merged(o) == <<"OPT_REFERRALS">> \o SelectSeq(o, LAMBDA x : x # "OPT_REFERRALS")
LDAPSettings(o) ==
  LET merged  == Merged(o)
      timed   == IF "OPT_NETWORK_TIMEOUT" \in Range(merged) THEN merged ELSE Append(merged, "OPT_NETWORK_TIMEOUT")
      others  == SelectSeq(timed, LAMBDA x : x # "OPT_X_TLS_NEWCTX")
  IN IF "OPT_X_TLS_NEWCTX" \in Range(timed) THEN Append(others, "OPT_X_TLS_NEWCTX") ELSE others
ConnectionOptions(c) ==
  LET o == LDAPSettings(Options[c.CONNECTION_OPTIONS])
  IN IF c.START_TLS = "yes" /\ "OPT_X_TLS_REQUIRE_CERT" \in Range(o) /\ "OPT_X_TLS_NEWCTX" \notin Range(o)
     THEN Append(o, "OPT_X_TLS_NEWCTX") ELSE o

(* Properties *)
ConfigTypeOK ==
  /\ plugin \in Plugins /\ enforce \in BOOLEAN /\ updates \in 0..MaxUpdates
  /\ stored.layers \in 0..1
  /\ DOMAIN Flat(stored) \subseteq DOMAIN FieldsOf(plugin)

\* What is shown is accepted, whether the scan for unclean text is on or off, and leaves the row as it is.
ShownCanBeSentBack ==
  Exists => LET old == from_db(stored)
                c == Received(to_representation(old), old)
            IN /\ validate_configuration(plugin, c, old.config)
               /\ CleanText(to_internal_value(plugin, c), old)
               /\ Save(Nested(to_internal_value(plugin, c))) = stored

\* The secret read with the row is the one last given; in the database it is encrypted, once.
SecretIsLastGiven ==
  \A f \in secrets : Exists =>
    /\ f \in DOMAIN stored.config => stored.config[f] = given /\ stored.layers = 1
    /\ f \notin DOMAIN stored.config => given = Null
    /\ stored.config # <<>> => from_db(stored).layers = 0

\* The configuration an authenticator shows can be sent back unchanged: it is accepted and leaves what is stored as
\* it is: the mask of the secret, the nested settings of SAML, defaults no validator has seen, and text stored before
\* the scan was turned on.  The secret a plugin reads is the one last given, however often the row was saved and the
\* mask sent back in between, and it is encrypted once.
ConfigurationKept == ConfigTypeOK /\ ShownCanBeSentBack /\ SecretIsLastGiven

\* "It is *critical* that OPT_X_TLS_NEWCTX be set last": it is, if it is set at all, whatever the order of the
\* options given, also when START_TLS adds it; and there is always a network timeout.
TlsContextLast ==
  Exists /\ plugin = "ldap" =>
    LET o == ConnectionOptions(stored.config)
    IN /\ \A i \in DOMAIN o : o[i] = "OPT_X_TLS_NEWCTX" => i = Len(o)
       /\ "OPT_NETWORK_TIMEOUT" \in Range(o)
       /\ \A i, j \in DOMAIN o : o[i] = o[j] => i = j

\* A configuration that was accepted, at first or by one change later, works when somebody signs in: the LDAP
\* searches convert, the group type can be built from its parameters, the options are known; the SAML
\* certificate and key match and the identity provider is described; each SSO plugin has an address to be called back at.
AcceptedIsUsable ==
  /\ TlsContextLast
  /\ Exists =>
       /\ plugin = "ldap" =>
            /\ \A f \in {"USER_SEARCH", "GROUP_SEARCH"} : \A i \in DOMAIN SearchObjects(stored.config, f) :
                 Converts(SearchObjects(stored.config, f)[i])
            /\ Params[stored.config.GROUP_TYPE_PARAMS] = GroupTypeArgs[stored.config.GROUP_TYPE]
            /\ Range(Options[stored.config.CONNECTION_OPTIONS]) \subseteq validOptions
       /\ plugin = "saml" =>
            /\ <<stored.config.SP_PUBLIC_CERT, stored.config.SP_PRIVATE_KEY>> \in {<<"certA", "keyA">>, <<"certB", "keyB">>}
            /\ {"IDP_URL", "IDP_X509_CERT", "IDP_ENTITY_ID"} \subseteq DOMAIN stored.idp
       /\ CallsBack(plugin) => "CALLBACK_URL" \in DOMAIN stored.config /\ stored.config["CALLBACK_URL"] # Null
==============================================================================

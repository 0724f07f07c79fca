------------------------------ MODULE MCServices ------------------------------
(***************************************************************************)
(* Components that share no state: named locks, the tokens of              *)
(* oauth2_provider, the configurations of authenticators, the settings of  *)
(* a service, the cache with a fallback, and the caches that are kept      *)
(* coherent.  A behaviour is about one of them, so that their states add   *)
(* up and do not multiply.                                                 *)
(***************************************************************************)
EXTENDS AdvisoryLock, Tokens, AuthenticatorConfig, DynamicSettings, FallbackCache, CacheInvalidation, TLC

VARIABLE about

vars == <<lockVars, tokenVars, configVars, settingsVars, fallbackVars, invalidationVars, about>>

(* What the others start with does not matter. *)
Init ==
  /\ about \in {"lock", "tokens", "config", "settings", "fallback", "invalidation"}
  /\ LockInit
  /\ TokensInit /\ (about # "tokens" => allowExternal = TRUE)
  /\ ConfigInit /\ (about # "config" => plugin = "local" /\ enforce = FALSE)
  /\ IF about = "settings" THEN SettingsInit
     ELSE /\ way = "none" /\ settings = <<>> /\ own = <<>> /\ overridden = {} /\ loaded = FALSE /\ overrides = 0
  /\ FallbackInit
  /\ about # "fallback" => conf = (CHOOSE c \in Confs : TRUE) /\ redis = (CHOOSE s \in Servers : TRUE)
  /\ InvalidationInit /\ (about # "invalidation" => configured = (CHOOSE s \in Settings : TRUE))
Next ==
  /\ about' = about
  /\ \/ /\ about = "lock" /\ LockNext
        /\ UNCHANGED <<tokenVars, configVars, settingsVars, fallbackVars, invalidationVars>>
     \/ /\ about = "tokens" /\ TokensNext
        /\ UNCHANGED <<lockVars, configVars, settingsVars, fallbackVars, invalidationVars>>
     \/ /\ about = "config" /\ ConfigNext
        /\ UNCHANGED <<lockVars, tokenVars, settingsVars, fallbackVars, invalidationVars>>
     \/ /\ about = "settings" /\ SettingsNext
        /\ UNCHANGED <<lockVars, tokenVars, configVars, fallbackVars, invalidationVars>>
     \/ /\ about = "fallback" /\ FallbackNext
        /\ UNCHANGED <<lockVars, tokenVars, configVars, settingsVars, invalidationVars>>
     \/ /\ about = "invalidation" /\ InvalidationNext
        /\ UNCHANGED <<lockVars, tokenVars, configVars, settingsVars, fallbackVars>>
(* FallbackFairness, in behaviours about that cache. *)
OfFallback(A) == about = "fallback" /\ A
Fairness ==
  /\ WF_fallbackVars(OfFallback(\E t \in Threads : Begin(t)))
  /\ \A t \in Threads : WF_fallbackVars(OfFallback(OpStep(t))) /\ WF_fallbackVars(OfFallback(RecoveryStep(t)))
  /\ WF_fallbackVars(OfFallback(Expire))
Spec == Init /\ [][Next]_vars /\ Fairness

-----------------------------------------------------------------------------
(* A name that is waited for, and one with the same crc32 that is tried, in two ways. *)
CONSTANTS P1, P2, LockA, LockB, Id1
MCKeyOf == LockA :> Id1 @@ LockB :> Id1
Asks(name, shared, wait, timed) == [name |-> name, shared |-> shared, wait |-> wait, timed |-> timed]
MCRequests == { Asks(LockA, FALSE, TRUE, TRUE), Asks(LockB, TRUE, FALSE, FALSE), Asks(LockB, FALSE, FALSE, TRUE) }

(* A superuser, the administrator of an organization whose the application is, and a user of LDAP. *)
CONSTANTS Root, Own, Usr, App, O1, O2
MCOrgAdmins == O1 :> {Own} @@ O2 :> {}
MCApplicationUser == App :> Own
MCOldAccess == [secret |-> 1, hashed |-> 0, user |-> Usr, app |-> App, scope |-> {"write", "openid"},
                expired |-> FALSE, source |-> 0, chain |-> 1]
MCOldRefresh == [secret |-> 2, hashed |-> 0, user |-> Usr, app |-> App, access |-> 1, revoked |-> FALSE,
                 expired |-> FALSE, chain |-> 1]
MCOldTables == { [access |-> {MCOldAccess}, refresh |-> {MCOldRefresh}, home |-> (App :> O1)] }
MCScopes == { {}, {"write"}, {"write", "openid"} }

(* Every plugin. *)
MCPlugins == DOMAIN OwnFields

(* Each app alone, apps that complete the same section, and all of them; a deployment that installs more. *)
Apps == {"api_documentation", "authentication", "rest_filters", "rest_pagination", "jwt_consumer", "rbac",
         "resource_registry", "oauth2_provider", "feature_flags"}
MCAppSets == { {a} : a \in Apps } \cup
  { Apps, {"authentication", "oauth2_provider"}, {"api_documentation", "oauth2_provider"}, {"authentication", "feature_flags"} }
Rest(classes, metadata, others) ==
  [schema |-> others, metadata |-> metadata, filters |-> Unset, pagination |-> others, classes |-> classes]
MCOffers == [
  INSTALLED_APPS       |-> { Apps, {"jwt_consumer"} },
  MIDDLEWARE           |-> { <<>>, <<"service", "django">>, <<"django", "backend">> },
  REST_FRAMEWORK       |-> { Rest(Unset, Unset, Unset), Rest(<<"service">>, "service", "service"), Rest(<<"session">>, Unset, Unset) },
  SPECTACULAR_SETTINGS |-> { [titles |-> Unset, hooks |-> {"service"}, flows |-> Unset] },
  TEMPLATES            |-> { <<>>, <<[django |-> FALSE, processors |-> {}], [django |-> TRUE, processors |-> {"service"}]>> },
  CACHES               |-> { "with fallback", "no fallback" },
  AUTHENTICATION_BACKENDS |-> { {"deployment"} },
  OAUTH2_PROVIDER      |-> { [times |-> "deployment", models |-> "deployment"] }] @@ [k \in Plain |-> {"deployment"}]

(* Two processes and a cluster that may fail, and that is reported good or degraded otherwise. *)
CONSTANTS T1, T2
MCInstanceOf == T1 :> T1 @@ T2 :> T2
MCConfs == { [scheme |-> "rediss", ssl |-> None, mode |-> "cluster", hosts |-> "good", file |-> "empty"] }
MCServers == { [up |-> TRUE, tls |-> TRUE, cluster |-> TRUE, nodes |-> n, state |-> s] :
                 n \in { {"master", "fail"} }, s \in {"ok", "fail"} }

(* Two nodes that know their names, and two that were given none. *)
CONSTANTS N1, N2, W1, W2, K1
MCNodeOf == W1 :> N1 @@ W2 :> N2
MCDependents == K1 :> {}
MCSettings == { [auto |-> a, host |-> h] : a \in BOOLEAN, h \in { N1 :> "n1" @@ N2 :> "n2", N1 :> "" @@ N2 :> "" } }
=============================================================================

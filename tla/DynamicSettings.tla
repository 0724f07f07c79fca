---------------------------- MODULE DynamicSettings ----------------------------
(***************************************************************************)
(* How the settings of a service come about: what its own files give, what *)
(* the library adds for the apps that are installed, and what the files    *)
(* and the environment of the deployment say afterwards.  A group of       *)
(* settings that are treated alike is one setting; its value says whose it *)
(* is.                                                                     *)
(***************************************************************************)
EXTENDS Sequences, SequencesExt

CONSTANTS AppSets,     \* the apps services install
          Offers,      \* what services and deployments give for each section
          Unset,       \* the value of what nobody has given
          MaxOverrides \* bound

(* Settings with a value of their own, and those that are given to all, or with an app *)
Always        == {"org and team models", "reserved filter names", "input validation"}
WithApp       == [authentication |-> {"class prefixes"}, rbac |-> {"rbac"}, resource_registry |-> {"registry"}]
ForcedAlways  == {"all filters"}
ForcedWithApp == [authentication |-> {"social auth"}, oauth2_provider |-> {"oauth2 models", "external users"},
                  feature_flags |-> {"flag sources"}]
ThoseOf(groups, apps) == UNION {groups[a] : a \in DOMAIN groups \cap apps}
Plain == Always \cup ThoseOf(WithApp, DOMAIN WithApp) \cup ForcedAlways \cup ThoseOf(ForcedWithApp, DOMAIN ForcedWithApp)
         \cup {"view filters", "jwt managed roles"}
\* Sections that are completed, not replaced.
ANSIBLE_BASE_OVERRIDABLE_SETTINGS ==
  {"INSTALLED_APPS", "REST_FRAMEWORK", "AUTHENTICATION_BACKENDS", "SPECTACULAR_SETTINGS", "MIDDLEWARE",
   "OAUTH2_PROVIDER", "CACHES", "TEMPLATES"}

VARIABLES way,        \* "factory", or "locals" for the deprecated module
          settings,   \* what every setting holds
          own,        \* history: what it held before the library added anything, overridden since
          overridden, \* ANSIBLE_BASE_OVERRIDDEN_SETTINGS
          loaded,     \* whether nothing was given since the library added its own
          overrides   \* how often a setting was overridden
settingsVars == <<way, settings, own, overridden, loaded, overrides>>

(* What each section becomes *)
\* "Use what is there, else ours".
Or(given, ours) == IF given = Unset THEN ours ELSE given
Has(app, apps, value, else) == IF app \in apps THEN value ELSE else

InstalledApps(s) ==
  LET has(app) == app \in s.INSTALLED_APPS
  IN s.INSTALLED_APPS
     \cup (IF has("api_documentation") THEN {"drf_spectacular"} ELSE {})
     \cup (IF has("authentication") THEN {"social_django"} ELSE {})
     \cup (IF has("jwt_consumer") THEN {"rbac"} ELSE {})
     \cup (IF has("oauth2_provider") THEN {"DOT"} ELSE {})
     \cup (IF has("feature_flags") THEN {"flags"} ELSE {})

\* In front of the middleware of Django, or at the end.
Put1(mw, list) ==
  IF Contains(list, mw) THEN list
  ELSE IF Contains(list, "django") THEN InsertAt(list, SelectInSeq(list, LAMBDA m : m = "django"), mw)
  ELSE Append(list, mw)
Middleware(s) == IF "authentication" \in s.INSTALLED_APPS
                 THEN Put1("backend", Put1("exceptions", s.MIDDLEWARE)) ELSE s.MIDDLEWARE

AddClass(app, class, s, list) ==
  IF app \notin s.INSTALLED_APPS THEN list
  ELSE IF list = Unset THEN <<class>>
  ELSE IF Contains(list, class) THEN list ELSE <<class>> \o list
RestFramework(s) ==
  LET r == s.REST_FRAMEWORK
  IN [schema     |-> Has("api_documentation", s.INSTALLED_APPS, Or(r.schema, "dab"), r.schema),
      metadata   |-> Or(r.metadata, "dab"),
      filters    |-> Has("rest_filters", s.INSTALLED_APPS, "dab", r.filters),
      pagination |-> Has("rest_pagination", s.INSTALLED_APPS, Or(r.pagination, "dab"), r.pagination),
      classes    |-> AddClass("oauth2_provider", "oauth2", s, AddClass("authentication", "session", s, r.classes))]

Spectacular(s) ==
  LET p == s.SPECTACULAR_SETTINGS
  IN [titles |-> Has("api_documentation", s.INSTALLED_APPS, Or(p.titles, "dab"), p.titles),
      hooks  |-> Has("api_documentation", s.INSTALLED_APPS, p.hooks \cup {"clean text"} \cup (IF p.hooks = {} THEN {"ai"} ELSE {}), p.hooks),
      flows  |-> Has("oauth2_provider", s.INSTALLED_APPS, Or(p.flows, "dab"), p.flows)]
OAuth2Provider(s) ==
  [times  |-> Has("oauth2_provider", s.INSTALLED_APPS, Or(s.OAUTH2_PROVIDER.times, "dab"), s.OAUTH2_PROVIDER.times),
   models |-> Has("oauth2_provider", s.INSTALLED_APPS, "dab", s.OAUTH2_PROVIDER.models)]
Backends(s) == s.AUTHENTICATION_BACKENDS \cup (IF "authentication" \in s.INSTALLED_APPS THEN {"dab"} ELSE {})
Templates(s) ==
  LET done == [i \in DOMAIN s.TEMPLATES |->
                 IF s.TEMPLATES[i].django THEN [s.TEMPLATES[i] EXCEPT !.processors = @ \cup {"request"}] ELSE s.TEMPLATES[i]]
  IN IF "feature_flags" \notin s.INSTALLED_APPS THEN s.TEMPLATES
     ELSE IF \E t \in Range(s.TEMPLATES) : t.django THEN done
     ELSE Append(done, [django |-> TRUE, processors |-> {"request"}])

\* The primary and the fallback cache must be there when the cache with a fallback is used.
RuntimeError(s) == s.CACHES = "no fallback"

Sections(s) == [INSTALLED_APPS |-> InstalledApps(s), MIDDLEWARE |-> Middleware(s), REST_FRAMEWORK |-> RestFramework(s),
                SPECTACULAR_SETTINGS |-> Spectacular(s), OAUTH2_PROVIDER |-> OAuth2Provider(s),
                AUTHENTICATION_BACKENDS |-> Backends(s), TEMPLATES |-> Templates(s), CACHES |-> s.CACHES]

\* What the comparison with the section given sees: lists inside it are shared with the copy, and were completed in both.
SameOutside(s, key) ==
  CASE key = "REST_FRAMEWORK" ->
         LET now == RestFramework(s)
         IN IF s[key].classes = Unset THEN now = s[key] ELSE [now EXCEPT !.classes = s[key].classes] = s[key]
    [] key = "TEMPLATES" -> Len(Templates(s)) = Len(s[key])
    [] key = "CACHES"    -> s[key] = Unset
    [] OTHER             -> Sections(s)[key] = s[key]
ChangedSections(s) == {key \in ANSIBLE_BASE_OVERRIDABLE_SETTINGS : ~ SameOutside(s, key)}

\* The deprecated function shows the library the sections only.
ShownTo(s) == IF way = "factory" THEN s ELSE [k \in Plain |-> Unset] @@ s
ManagedBy(apps) == IF apps \cap {"jwt_consumer", "rbac"} # {} THEN {"jwt managed roles"} ELSE {}
AddedWith(s, apps) ==
  {k \in Always \cup ThoseOf(WithApp, apps) : ShownTo(s)[k] = Unset}
  \cup ForcedAlways \cup ThoseOf(ForcedWithApp, apps) \cup ManagedBy(apps)
  \cup (IF "rest_filters" \in apps THEN {} ELSE {"view filters"})
\* The apps that were just added count, unless the settings were looked at first.
PlainAddedBefore(s) == AddedWith(s, s.INSTALLED_APPS)
PlainAdded(s) == AddedWith(s, InstalledApps(s))

get_mergeable_dab_settings(s) ==
  LET sections == Sections(s)
  IN [k \in PlainAdded(s) \cup ChangedSections(s) |-> IF k \in Plain THEN "dab" ELSE sections[k]]

(* Steps *)
\* settings.update replaces; the deprecated module leaves plain settings that are there, and its lists were completed in place.
Updated(s) ==
  LET data == get_mergeable_dab_settings(s)
  IN IF way = "factory" THEN data @@ s
     ELSE [k \in DOMAIN s |-> IF k \in ANSIBLE_BASE_OVERRIDABLE_SETTINGS THEN Sections(s)[k]
                              ELSE IF k \in DOMAIN data THEN Or(s[k], data[k]) ELSE s[k]]
load_dab_settings ==
  /\ ~ RuntimeError(settings)
  /\ way = "locals" => ~ loaded
  /\ settings' = Updated(settings)
  /\ overridden' = DOMAIN get_mergeable_dab_settings(settings) \cap ANSIBLE_BASE_OVERRIDABLE_SETTINGS
  /\ loaded' = TRUE
  /\ UNCHANGED <<way, own, overrides>>

\* load_standard_settings_files, load_envvars, settings.set: a value replaces the one before.  What is given before
\* the library adds its settings is among what a service may start with.
Override ==
  /\ way = "factory" /\ loaded /\ overrides < MaxOverrides
  /\ \E key \in DOMAIN settings : \E value \in Offers[key] :
       /\ settings' = [settings EXCEPT ![key] = value]
       /\ own' = [own EXCEPT ![key] = value]
  /\ loaded' = FALSE
  /\ overrides' = overrides + 1
  /\ UNCHANGED <<way, overridden>>

(* factory gives three sections that are not given; the others may be anything that a service has. *)
SettingsInit ==
  /\ way \in {"factory", "locals"}
  /\ \E apps \in AppSets, mw \in Offers.MIDDLEWARE, rest \in Offers.REST_FRAMEWORK, docs \in Offers.SPECTACULAR_SETTINGS,
        templates \in Offers.TEMPLATES, caches \in Offers.CACHES, plain \in {Unset, "service"} :
       settings = [INSTALLED_APPS |-> apps, MIDDLEWARE |-> mw, REST_FRAMEWORK |-> rest, SPECTACULAR_SETTINGS |-> docs,
                   TEMPLATES |-> templates, CACHES |-> caches, AUTHENTICATION_BACKENDS |-> {"service"},
                   OAUTH2_PROVIDER |-> [times |-> plain, models |-> plain]] @@ [k \in Plain |-> plain]
  /\ own = settings
  /\ overridden = {}
  /\ loaded = FALSE
  /\ overrides = 0
SettingsNext == load_dab_settings \/ Override
SettingsSpec == SettingsInit /\ [][SettingsNext]_settingsVars

(* Properties *)
\* What the library added to a list inside a section is lost when nothing else of the section changed: the factory
\* hands out copies, and only sections that differ from the copy are set back.
LostInPlace(key) ==
  /\ way = "factory"
  /\ key = "REST_FRAMEWORK" => /\ settings[key].classes = own[key].classes /\ own[key].classes # Unset
                               /\ own[key].metadata # Unset \/ overrides > 0
  /\ key = "TEMPLATES" => settings[key] = own[key] /\ own[key] # <<>>

\* What each app needs when it is installed.
AppsServed ==
  LET installed == settings.INSTALLED_APPS
      rest      == settings.REST_FRAMEWORK
      given(k)  == settings[k] # Unset
  IN /\ "jwt_consumer" \in installed => "rbac" \in installed
     /\ "rbac" \in installed => given("rbac") /\ given("jwt managed roles")
     /\ "resource_registry" \in installed => given("registry")
     /\ "api_documentation" \in installed =>
          "drf_spectacular" \in installed /\ rest.schema # Unset /\ "clean text" \in settings.SPECTACULAR_SETTINGS.hooks
     /\ "authentication" \in installed =>
          /\ "social_django" \in installed /\ "dab" \in settings.AUTHENTICATION_BACKENDS
          /\ given("social auth") /\ given("class prefixes")
          /\ {"exceptions", "backend"} \subseteq Range(settings.MIDDLEWARE)
          /\ \A i, j \in DOMAIN settings.MIDDLEWARE :
               settings.MIDDLEWARE[i] = "django" /\ settings.MIDDLEWARE[j] \in {"exceptions", "backend"} \ Range(own.MIDDLEWARE) => j < i
          /\ Contains(rest.classes, "session") \/ LostInPlace("REST_FRAMEWORK")
     /\ "oauth2_provider" \in installed =>
          /\ "DOT" \in installed /\ settings.OAUTH2_PROVIDER.models = "dab" /\ given("oauth2 models")
          /\ Contains(rest.classes, "oauth2") \/ LostInPlace("REST_FRAMEWORK")
     /\ "rest_filters" \in installed => rest.filters = "dab"
     /\ "feature_flags" \in installed =>
          /\ "flags" \in installed /\ given("flag sources")
          /\ \E t \in Range(settings.TEMPLATES) : t.django
          /\ (\A t \in Range(settings.TEMPLATES) : t.django => "request" \in t.processors) \/ LostInPlace("TEMPLATES")

\* What a service or a deployment gave is still there: a default never replaces it, and nothing is taken from a list.
OwnKept ==
  /\ \A k \in Always \cup ThoseOf(WithApp, DOMAIN WithApp) : own[k] # Unset => settings[k] = own[k]
  /\ \A k \in Plain : way = "locals" /\ own[k] # Unset => settings[k] = own[k]
  /\ own.INSTALLED_APPS \subseteq settings.INSTALLED_APPS
  /\ own.AUTHENTICATION_BACKENDS \subseteq settings.AUTHENTICATION_BACKENDS
  /\ own.SPECTACULAR_SETTINGS.hooks \subseteq settings.SPECTACULAR_SETTINGS.hooks
  /\ SelectSeq(settings.MIDDLEWARE, LAMBDA m : Contains(own.MIDDLEWARE, m)) = own.MIDDLEWARE
  /\ \A f \in {"schema", "metadata", "pagination"} : own.REST_FRAMEWORK[f] # Unset => settings.REST_FRAMEWORK[f] = own.REST_FRAMEWORK[f]
  /\ own.OAUTH2_PROVIDER.times # Unset => settings.OAUTH2_PROVIDER.times = own.OAUTH2_PROVIDER.times
  /\ settings.CACHES = own.CACHES

\* When the library has added its settings and nothing was given since, every installed app has what it needs,
\* what was given is kept, and adding them once more would change nothing.
SettingsSettle == loaded => AppsServed /\ OwnKept /\ Updated(settings) = settings
==============================================================================

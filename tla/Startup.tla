------------------------------ MODULE Startup ------------------------------
(***************************************************************************)
(* The composition roots: what the three ways to start the program (the    *)
(* API, the API with -migrate-only, the worker) do with an environment.    *)
(* The environment is resolved, refused or completed with defaults, and    *)
(* every adapter is chosen from the result, one after the other; the       *)
(* process ends at the first that cannot be made.                          *)
(***************************************************************************)
EXTENDS Integers

CONSTANTS Environments, \* the environments to start in
          Unset         \* no variable of that name, or one that does not parse

ASSUME EnvironmentAssumption ==
  \A e \in Environments :
    /\ e.program \in {"api", "migrate", "worker"}
    /\ e.USE_MOCK_DATA \in BOOLEAN \cup {Unset}
    /\ e.ASSET_STORAGE_DIR \in {"absolute", "relative", Unset}
    /\ e.QUOTA_TEXT_DAILY \in Int \cup {Unset} /\ e.QUOTA_IMAGE_DAILY \in Int \cup {Unset}

VARIABLES
  env,      \* the program that is started and its environment
  config,   \* config.Config
  boot,     \* what the process does next
  wired,    \* the adapters made so far
  migrated  \* the schema was brought up to date by this process

startVars == <<env, config, boot, wired, migrated>>

Parts    == {"db", "store", "mailer", "docs", "repositories", "chain", "checker", "caps"}
Features == {"auth", "brandkit", "asset", "generation", "quota", "reminder", "admin"}
BootSteps == {"connect", "migrate", "store", "mailer", "router", "features", "chains",
              "moderation", "quota", "listen"}

StartTypeOK ==
  /\ env \in Environments
  /\ boot \in BootSteps \cup {"load", "serving", "working", "migrated", "failed", "stopped"}
  /\ migrated \in BOOLEAN
  /\ boot = "serving" =>
       /\ DOMAIN wired = Parts
       /\ wired.db \in BOOLEAN /\ wired.docs \in BOOLEAN
       /\ wired.store \in {"memory", "absolute", "relative"} /\ wired.mailer \in {"log", "smtp"}
       /\ wired.repositories \in [Features -> {"mock", "gorm"}]
       /\ wired.chain \in {"gemini", "stub"} /\ wired.checker \in {"openai", "stub", "permissive"}
       /\ wired.caps.text \in Nat \ {0} /\ wired.caps.image \in Nat \ {0}

StartInit ==
  /\ env \in Environments
  /\ config = Unset
  /\ boot = "load"
  /\ wired = [db |-> FALSE]
  /\ migrated = FALSE

-----------------------------------------------------------------------------
(* config.Load. *)

\* getStr, getInt, getBool and the other readers.
Resolve(value, default) == IF value = Unset THEN default ELSE value

Load(e) ==
  [production |-> Resolve(e.APP_ENV, "development") = "production",
   mock       |-> Resolve(e.USE_MOCK_DATA, FALSE),
   secrets    |-> Resolve(e.JWT_SECRETS, "placeholder"),
   mail       |-> Resolve(e.EMAIL_PROVIDER, "log"),
   smtpHost   |-> Resolve(e.EMAIL_SMTP_HOST, ""),
   storage    |-> Resolve(e.ASSET_STORAGE_DIR, "relative"),
   maxBytes   |-> Resolve(e.ASSET_MAX_BYTES, 10485760),
   moderation |-> Resolve(e.MODERATION_PROVIDER, "stub"),
   openaiKey  |-> Resolve(e.OPENAI_API_KEY, ""),
   order      |-> Resolve(e.PROVIDER_ORDER, "stub"),
   geminiKey  |-> Resolve(e.GEMINI_API_KEY, ""),
   textDaily  |-> Resolve(e.QUOTA_TEXT_DAILY, 50),
   imageDaily |-> Resolve(e.QUOTA_IMAGE_DAILY, 20),
   driver     |-> Resolve(e.QUEUE_DRIVER, "inproc")]

\* Mutation: mock data is not looked at.
ValidateMockAllowed(c) ==
  /\ c.production => c.secrets # "placeholder" /\ c.mail # "log" /\ c.storage = "absolute"
  /\ c.maxBytes > 0

\* Each limit of an upload is checked as the one here is.
Validate(c) ==
  /\ c.production => /\ c.secrets # "placeholder" /\ ~c.mock /\ c.mail # "log"
                     /\ c.storage = "absolute"
  /\ c.maxBytes > 0

LoadConfig ==
  /\ boot = "load"
  /\ config' = Load(env)
  /\ boot' = IF ~Validate(Load(env)) THEN "failed"
             ELSE IF env.program # "worker" THEN "connect"
             ELSE IF Load(env).driver = "inproc" THEN "working" ELSE "failed"
  /\ UNCHANGED <<env, wired, migrated>>

-----------------------------------------------------------------------------
(* The adapters, in the order of run. *)

Makes(step, next, part, adapter) ==
  /\ boot = step /\ boot' = next
  /\ wired' = [p \in DOMAIN wired \cup {part} |-> IF p = part THEN adapter ELSE wired[p]]
  /\ UNCHANGED <<env, config, migrated>>

\* What an adapter needs is missing or cannot be reached.
Fails(step) ==
  /\ boot = step /\ boot' = "failed"
  /\ UNCHANGED <<env, config, wired, migrated>>

Connect ==
  \/ ~config.mock /\ (Makes("connect", "migrate", "db", TRUE) \/ Fails("connect"))
  \/ config.mock /\ env.program = "migrate" /\ Fails("connect")
  \/ config.mock /\ env.program = "api" /\ Makes("connect", "store", "db", FALSE)

AutoMigrate ==
  \/ Fails("migrate") /\ (env.program = "migrate" \/ ~config.production)
  \/ /\ boot = "migrate"
     /\ migrated' = (env.program = "migrate" \/ ~config.production)
     /\ boot' = IF env.program = "migrate" THEN "migrated" ELSE "store"
     /\ UNCHANGED <<env, config, wired>>

MakeStore ==
  IF config.mock THEN Makes("store", "mailer", "store", "memory")
  ELSE Makes("store", "mailer", "store", config.storage) \/ Fails("store")

NewSender ==
  CASE config.mail = "log" -> Makes("mailer", "router", "mailer", "log")
    [] config.mail = "smtp" /\ config.smtpHost # "" -> Makes("mailer", "router", "mailer", "smtp")
    [] OTHER -> Fails("mailer")

\* The API documentation is not served in production.
NewRouter == Makes("router", "features", "docs", ~config.production)

\* The test each module makes for itself.
Repository(feature) == IF config.mock \/ ~wired.db THEN "mock" ELSE "gorm"

ComposeFeatures ==
  Makes("features", "chains", "repositories", [f \in Features |-> Repository(f)])

\* The three chains are built alike.
BuildChain ==
  CASE config.order = "stub" -> Makes("chains", "moderation", "chain", "stub")
    [] config.order = "gemini" /\ config.geminiKey # "" ->
         Makes("chains", "moderation", "chain", "gemini")
    [] OTHER -> Fails("chains")

\* A provider with another name is no provider.
MakeChecker ==
  CASE config.mock -> Makes("moderation", "quota", "checker", "permissive")
    [] ~config.mock /\ config.moderation = "openai" ->
         IF config.openaiKey = "" THEN Fails("moderation")
         ELSE Makes("moderation", "quota", "checker", "openai")
    [] ~config.mock /\ config.moderation = "stub" -> Makes("moderation", "quota", "checker", "stub")
    [] OTHER -> Makes("moderation", "quota", "checker", "permissive")

\* Mutation: a cap of zero is kept.
PositiveOrZero(cap, default) == IF cap < 0 THEN default ELSE cap

Positive(cap, default) == IF cap <= 0 THEN default ELSE cap

MakeQuota ==
  Makes("quota", "listen", "caps",
        [text |-> Positive(config.textDaily, 50), image |-> Positive(config.imageDaily, 20)])

-----------------------------------------------------------------------------
\* The consumer and the ticker run from here on as well.
Listen ==
  /\ boot = "listen" /\ boot' \in {"serving", "failed"}
  /\ UNCHANGED <<env, config, wired, migrated>>

Shutdown ==
  /\ boot \in {"serving", "working"} /\ boot' = "stopped"
  /\ UNCHANGED <<env, config, wired, migrated>>

StartNext ==
  \/ LoadConfig
  \/ boot = "connect" /\ Connect
  \/ AutoMigrate
  \/ boot = "store" /\ MakeStore
  \/ boot = "mailer" /\ NewSender
  \/ NewRouter
  \/ boot = "features" /\ ComposeFeatures
  \/ boot = "chains" /\ BuildChain
  \/ boot = "moderation" /\ MakeChecker
  \/ MakeQuota
  \/ Listen
  \/ Shutdown

StartSpec == StartInit /\ [][StartNext]_startVars

-----------------------------------------------------------------------------
\* A server in production keeps what it is told on disk and in Postgres, signs
\* with secrets of its own and sends its mail, whatever was left unset or did
\* not parse.
InProduction ==
  boot = "serving" /\ config.production =>
    /\ wired.store = "absolute" /\ wired.mailer = "smtp" /\ ~wired.docs
    /\ config.secrets # "placeholder"
    /\ \A f \in Features : wired.repositories[f] = "gorm"

\* A server has the adapters its environment names, and the defaults where it
\* names none.  Mock mode takes the place of the database, the store, the
\* repositories and the checker all at once, a cap that is not positive is the
\* default, and a moderation provider nobody knows is the permissive checker, in
\* production too (ProductionIsModerated).
AsAsked ==
  boot = "serving" =>
    LET mock    == Resolve(env.USE_MOCK_DATA, FALSE)
        checker == Resolve(env.MODERATION_PROVIDER, "stub")
    IN  /\ wired.db = ~mock
        /\ wired.store = IF mock THEN "memory" ELSE Resolve(env.ASSET_STORAGE_DIR, "relative")
        /\ \A f \in Features : wired.repositories[f] = IF mock THEN "mock" ELSE "gorm"
        /\ wired.mailer = Resolve(env.EMAIL_PROVIDER, "log")
        /\ wired.docs = (Resolve(env.APP_ENV, "development") # "production")
        /\ wired.chain = Resolve(env.PROVIDER_ORDER, "stub")
        /\ wired.checker = IF mock \/ checker \notin {"stub", "openai"} THEN "permissive" ELSE checker
        /\ wired.caps.text = Positive(Resolve(env.QUOTA_TEXT_DAILY, 50), 50)
        /\ wired.caps.image = Positive(Resolve(env.QUOTA_IMAGE_DAILY, 20), 20)

\* "Use only in dev/mock mode - never in production" says permissive.go of the
\* permissive checker.  The default branch of the moderation switch uses it in
\* production when MODERATION_PROVIDER is misspelt: this does not hold.
ProductionIsModerated ==
  boot = "serving" /\ config.production => wired.checker # "permissive"

\* The schema of a production database changes only on request, a development
\* server never meets an old one, and who asked to migrate gets that or an error.
SchemaAsAsked ==
  /\ migrated => env.program = "migrate" \/ ~config.production
  /\ boot = "serving" => env.program = "api" /\ (wired.db /\ ~config.production => migrated)
  /\ boot = "migrated" => env.program = "migrate" /\ migrated

ServesAsConfigured == InProduction /\ AsAsked /\ SchemaAsAsked
=============================================================================

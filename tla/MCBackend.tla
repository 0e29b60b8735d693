----------------------------- MODULE MCBackend -----------------------------
(***************************************************************************)
(* Instances for TLC of the components that share no state: each behaviour *)
(* is one of one of them, its focus, with the others at rest.              *)
(***************************************************************************)
EXTENDS Reminders, Quota, FileStore, Hashtags, AdminReview, BrandKits, RateLimit, Verification, Startup

CONSTANTS Nil, t1, p1, alice, bob, o1, o2

VARIABLE focus

backendVars == <<focus, vars, fsVars, tagVars, adminVars, kitVars, reminderVars, rateVars,
                 verifyVars, startVars>>

\* A capped type, and one without a cap.
MCTypes == {"text", "video"}
MCCap == [t \in MCTypes |-> IF t = "text" THEN 2 ELSE 0]

\* Own tags, the fallbacks themselves, and what normalizes to nothing or to the
\* same tag.
MCSuggestions ==
  {[i \in 1..n |-> <<"own", Numbers[i]>>] : n \in {0, 4, 7, 8, 9}}
    \cup {SubSeq(Fallbacks, 1, n) : n \in {3, 8}}
    \cup {<<<<"Capital">>, <<"Capital", "kelal">>, <<"kelal">>, <<"Amharic">>, <<"a", "Space">>, <<"a">>>>}
MCWanted == {0, 5, 8, 9}

MCAdminOf == [t \in Tasks |-> IF t = t1 THEN alice ELSE bob]
MCSender == [p \in Puts |-> IF p = p1 THEN o1 ELSE o2]

MCBodies == {[text |-> 5, image |-> NoCap], [text |-> NoCap, image |-> 0],
             [text |-> Negative, image |-> 5]}

On(value) == {Unset, value}
MCEnvironments ==
  [program: {"api", "migrate", "worker"}, APP_ENV: On("production"), USE_MOCK_DATA: On(TRUE),
   JWT_SECRETS: On("own"), EMAIL_PROVIDER: {Unset, "smtp", "fax"}, EMAIL_SMTP_HOST: {"mail"},
   ASSET_STORAGE_DIR: On("absolute"), ASSET_MAX_BYTES: {1}, QUEUE_DRIVER: {Unset},
   MODERATION_PROVIDER: {Unset, "openai", "opena1"}, OPENAI_API_KEY: On("key"),
   PROVIDER_ORDER: {Unset, "gemini"}, GEMINI_API_KEY: On("key"),
   QUOTA_TEXT_DAILY: {0}, QUOTA_IMAGE_DAILY: {Unset}]
  \cup
  [program: {"api", "worker"}, APP_ENV: {Unset}, USE_MOCK_DATA: {TRUE}, JWT_SECRETS: {Unset},
   EMAIL_PROVIDER: On("smtp"), EMAIL_SMTP_HOST: {Unset}, ASSET_STORAGE_DIR: {Unset},
   ASSET_MAX_BYTES: {Unset, 0}, QUEUE_DRIVER: On("redis"), MODERATION_PROVIDER: {Unset},
   OPENAI_API_KEY: {Unset}, PROVIDER_ORDER: {"other"}, GEMINI_API_KEY: {Unset},
   QUOTA_TEXT_DAILY: {5}, QUOTA_IMAGE_DAILY: On(0)]

-----------------------------------------------------------------------------
Some(focused, choices) == IF focused THEN choices ELSE {CHOOSE c \in choices : TRUE}

BackendInit ==
  /\ focus \in {"quota", "files", "tags", "admin", "usage", "kits", "reminders", "rate", "tokens",
                "startup"}
  /\ ask \in Some(focus = "tags", TagAsks)
  /\ env \in Some(focus = "startup", Environments)
  /\ Init /\ FileInit /\ TagInit /\ AdminInit /\ KitInit /\ ReminderInit /\ RateInit
  /\ VerifyInit /\ StartInit

\* The seven counts of a summary interleave with the records, not with reviews.
AdminStep == \/ \E t \in Tasks : TaskStep(t)
             \/ \E f \in Flags : RaiseFlag(f)
             \/ \E u \in Owners : RemoveOwner(u)
UsageStep == \/ CountNext
             \/ \E f \in Flags : RaiseFlag(f)
             \/ \E type \in Kinds : AddRecord(type)

BackendNext ==
  /\ UNCHANGED focus
  /\ IF focus = "quota" THEN Next ELSE UNCHANGED vars
  /\ IF focus = "files" THEN FileNext ELSE UNCHANGED fsVars
  /\ IF focus = "tags" THEN TagNext ELSE UNCHANGED tagVars
  /\ IF focus = "admin" THEN AdminStep
     ELSE IF focus = "usage" THEN UsageStep ELSE UNCHANGED adminVars
  /\ IF focus = "kits" THEN KitNext ELSE UNCHANGED kitVars
  /\ IF focus = "reminders" THEN ReminderNext ELSE UNCHANGED reminderVars
  /\ IF focus = "rate" THEN RateNext ELSE UNCHANGED rateVars
  /\ IF focus = "tokens" THEN VerifyNext ELSE UNCHANGED verifyVars
  /\ IF focus = "startup" THEN StartNext ELSE UNCHANGED startVars

BackendSpec == BackendInit /\ [][BackendNext]_backendVars /\ ReminderFairness

\* Every variable of every component keeps its type; among them: a cap that was
\* refused is never stored, no bucket holds more than its burst, and a server
\* has caps above zero whatever its environment says.
BackendTypeOK ==
  /\ TypeOK /\ FileTypeOK /\ AdminTypeOK /\ KitTypeOK /\ ReminderTypeOK /\ RateTypeOK /\ VerifyTypeOK
  /\ StartTypeOK
=============================================================================

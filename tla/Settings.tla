------------------------------ MODULE Settings ------------------------------
(***************************************************************************)
(* The settings table, the services that patch and read its three tiers,   *)
(* and the AI backend configuration that is kept in it.  Requests          *)
(* interleave at every await that leaves the process; a session holds the  *)
(* database's write lock from its first flush to its commit.               *)
(*                                                                         *)
(* A value is its open part and its secret part.  Each tier is represented *)
(* by few keys: the first that a patch writes, and those with a secret.    *)
(***************************************************************************)
EXTENDS Integers, Sequences

CONSTANTS Requests,
          LocalSuperadmin,   \* has_local_password_superadmin()
          EnvKey,            \* the API key in the environment, or ""
          CliFound,          \* the claude binary is on the PATH
          MaxOps             \* bound: requests and polls begun

ASSUME SettingsAssumption == {LocalSuperadmin, CliFound} \subseteq BOOLEAN /\ MaxOps \in Nat

VARIABLES rows,        \* rows[scope][key]: the values of the rows of a key, in their order
          req,         \* what each request is doing
          config,      \* AIBackendsService._config: the endpoint
          cache,       \* _health_cache of the endpoint's URL
          ops,
          overlapped   \* history: two patches of one scope have run at once
settingsVars == <<rows, req, config, cache, ops, overlapped>>

V(text, secret) == [text |-> text, secret |-> secret]
Mask == "*****"

(* GlobalSettings, TenantSettings, UserSettings: fields, the first of them, *)
(* and defaults.                                                            *)
Schema == [global |-> {"auth_providers", "smtp_password", "ai_endpoint"},
           tenant |-> {"retention_days"}, user |-> {"page_size"}]
First == [global |-> "auth_providers", tenant |-> "retention_days", user |-> "page_size"]
Scopes == DOMAIN Schema
Default(key) == CASE key = "auth_providers" -> V("local", "")
                  [] key = "ai_endpoint" -> V("off", "")
                  [] key = "page_size" -> V("25", "")
                  [] OTHER -> V("", "")
Valid(v) == v.text # "bad"

(* update_setting_key_mode, update_setting_key_pending: two more rows of   *)
(* the global scope, which the schema does not have.                       *)
ModeKey == "scottycore.update.mode"
PendingKey == "scottycore.update.pending"
TableKeys(scope) == Schema[scope] \cup IF scope = "global" THEN {ModeKey, PendingKey} ELSE {}

-----------------------------------------------------------------------------
Has(table, key) == key \in DOMAIN table /\ table[key] # <<>>

(* SettingsRepository.get: the first row. *)
Get(table, key) == table[key][1]

(* SettingsRepository.upsert: the first row is changed, or a row is added. *)
Upsert(own, value, exists) == IF exists THEN [own EXCEPT ![1] = value] ELSE Append(own, value)

(* list_by_scope into a dict: the last row; get_tenant, get_user. *)
Stored(scope) == [key \in Schema[scope] |-> LET own == rows[scope][key]
                                            IN  IF own = <<>> THEN Default(key) ELSE own[Len(own)]]

(* get_global: the SMTP password is masked, the key of an endpoint is not. *)
Masked(values) ==
    [key \in DOMAIN values |-> IF key = "smtp_password" /\ values[key].secret # ""
                               THEN V("", Mask) ELSE values[key]]
GetScope(scope) == IF scope = "global" THEN Masked(Stored(scope)) ELSE Stored(scope)

TierOf(key) == CHOOSE scope \in Scopes : key \in Schema[scope]

(* resolve: the first tier that has a row for the key, else the default. *)
Resolve(key) ==
    LET tier == IF Has(rows["user"], key) THEN "user" ELSE IF Has(rows["tenant"], key) THEN "tenant" ELSE "global"
    IN  IF Has(rows[tier], key) THEN Get(rows[tier], key) ELSE Default(key)

(* resolve_all, get_effective: the tiers merged; what is not set is left   *)
(* to the tier below.                                                      *)
ResolveAll == [key \in UNION {Schema[scope] : scope \in Scopes} |-> GetScope(TierOf(key))[key]]

-----------------------------------------------------------------------------
Empty == [key \in {} |-> Default(key)]
Idle == [at |-> "idle", kind |-> "", scope |-> "", patch |-> Empty, current |-> Empty,
         saw |-> FALSE, on |-> FALSE, stale |-> FALSE, answer |-> ""]
Queries == {"resolve", "health"}
EndpointOn == Stored("global")["ai_endpoint"].text = "on"

(* _build_default_config: a key in the environment enables the endpoint. *)
DefaultConfig == V(IF EnvKey = "" THEN "off" ELSE "on", EnvKey)

SettingsInit == /\ rows = [scope \in Scopes |-> [key \in TableKeys(scope) |-> <<>>]]
                /\ req = [r \in Requests |-> Idle]
                /\ config = DefaultConfig
                /\ cache = "none" /\ ops = 0 /\ overlapped = FALSE

(* What clients send: one field at a time, invalid values, and masks that  *)
(* they were shown.                                                        *)
Patches(kind, scope) ==
    IF kind = "ai" THEN {[key \in {"ai_endpoint"} |-> V(text, secret)] : text \in {"on", "off"}, secret \in {Mask, "k"}}
    ELSE IF scope = "global" THEN {[key \in {"auth_providers"} |-> V(text, "")] : text \in {"sso", "bad"}}
                                \cup {[key \in {"smtp_password"} |-> V("", secret)] : secret \in {"", Mask, "p"}}
    ELSE {[key \in Schema[scope] |-> V(text, "")] : text \in {"30", "bad"}}

(* patch_global_settings: the lockout guard. *)
Allowed(patch) == "auth_providers" \in DOMAIN patch /\ patch["auth_providers"].text = "sso" => LocalSuperadmin

(* Slip: an empty password is not stripped. *)
SlipStripPassword(patch) ==
    IF "smtp_password" \in DOMAIN patch /\ patch["smtp_password"].secret = Mask THEN Empty ELSE patch

(* set_global: a password that is empty or the mask is not an update. *)
StripPassword(patch) ==
    IF "smtp_password" \in DOMAIN patch /\ patch["smtp_password"].secret \in {"", Mask} THEN Empty ELSE patch

(* ai_config_save: a masked key is deleted from the endpoint. *)
StripKey(patch) == [key \in DOMAIN patch |-> IF key = "ai_endpoint" /\ patch[key].secret = Mask
                                             THEN V(patch[key].text, "") ELSE patch[key]]

Patching(r) == req[r].at \in {"read", "password", "look", "save"}

(* patch_global_settings, patch_tenant_settings, patch_my_settings,        *)
(* ai_config_save.                                                         *)
BeginPatch(r, kind, scope) ==
    /\ req[r].at = "idle" /\ ops < MaxOps /\ ops' = ops + 1
    /\ \E patch \in Patches(kind, scope) :
          /\ Allowed(patch)
          /\ req' = [req EXCEPT ![r] = [Idle EXCEPT !.at = "read", !.kind = kind, !.scope = scope,
                                            !.patch = StripPassword(IF kind = "ai" THEN StripKey(patch) ELSE patch)]]
    /\ overlapped' = (overlapped \/ \E q \in Requests : Patching(q) /\ req[q].scope = scope)
    /\ UNCHANGED <<rows, config, cache>>

Merged(r, current) == [key \in DOMAIN current |-> IF key \in DOMAIN req[r].patch THEN req[r].patch[key] ELSE current[key]]

(* What is written is validated as a whole; a field that does not fit      *)
(* refuses the patch.                                                      *)
Validate(r, merged) ==
    req' = [req EXCEPT ![r] = IF \A key \in DOMAIN merged : Valid(merged[key])
                              THEN [@ EXCEPT !.at = "look", !.current = merged] ELSE Idle]

(* set_tenant, set_user: the current values, merged and validated.  In     *)
(* set_global they come with a mask.                                       *)
ReadCurrent(r) ==
    /\ req[r].at = "read"
    /\ IF req[r].scope = "global"
       THEN req' = [req EXCEPT ![r].at = "password", ![r].current = GetScope("global")]
       ELSE Validate(r, Merged(r, GetScope(req[r].scope)))
    /\ UNCHANGED <<rows, config, cache, ops, overlapped>>

(* set_global: the password that is stored takes the place of the mask. *)
ReadPassword(r) ==
    /\ req[r].at = "password"
    /\ LET stored == IF Has(rows["global"], "smtp_password") THEN Get(rows["global"], "smtp_password") ELSE V("", "")
       IN  Validate(r, Merged(r, [req[r].current EXCEPT !["smtp_password"] = stored]))
    /\ UNCHANGED <<rows, config, cache, ops, overlapped>>

(* upsert of the first key: its row is looked for before the lock is held. *)
Look(r) == /\ req[r].at = "look"
           /\ req' = [req EXCEPT ![r].at = "save",
                                 ![r].saw = Has(rows[req[r].scope], First[req[r].scope])]
           /\ UNCHANGED <<rows, config, cache, ops, overlapped>>

(* set_global, set_tenant, set_user: every key is upserted. *)
Written(r) == LET scope == req[r].scope IN
    [key \in DOMAIN rows[scope] |->
        IF key \notin Schema[scope] THEN rows[scope][key]
        ELSE Upsert(rows[scope][key], req[r].current[key],
                    IF key = First[scope] THEN req[r].saw ELSE Has(rows[scope], key))]

(* uq_setting_scope_key: no two rows with one key, except where scope_id   *)
(* is NULL, and it is NULL for the global scope.                           *)
Conflict(r) == /\ req[r].scope # "global" /\ ~req[r].saw
               /\ Has(rows[req[r].scope], First[req[r].scope])

(* The keys are written and committed; a conflict rolls everything back.   *)
(* An AI patch then reloads the configuration.                             *)
Save(r) ==
    /\ req[r].at = "save"
    /\ LET table == IF Conflict(r) THEN rows[req[r].scope] ELSE Written(r)
           done == IF req[r].kind = "ai" THEN [req[r] EXCEPT !.at = "load"] ELSE Idle
       IN  /\ rows' = [rows EXCEPT ![req[r].scope] = table]
           /\ req' = [q \in Requests |-> IF q = r THEN done
                                         ELSE IF req[q].kind \in Queries /\ req[q].at # "idle"
                                         THEN [req[q] EXCEPT !.on = @ \/ EndpointOn'] ELSE req[q]]
    /\ UNCHANGED <<config, cache, ops, overlapped>>

(* A lock that is not given, a connection that breaks: nothing is stored. *)
Fail(r) == /\ Patching(r) /\ req' = [req EXCEPT ![r] = Idle]
           /\ UNCHANGED <<rows, config, cache, ops, overlapped>>

-----------------------------------------------------------------------------
(* ai_resolve, ai_health: each loads the configuration first. *)
BeginQuery(r, kind) ==
    /\ req[r].at = "idle" /\ ops < MaxOps /\ ops' = ops + 1
    /\ req' = [req EXCEPT ![r] = [Idle EXCEPT !.at = "load", !.kind = kind, !.on = EndpointOn]]
    /\ UNCHANGED <<rows, config, cache, overlapped>>

(* load_from_settings: the settings are read, ... *)
LoadRead(r) == /\ req[r].at = "load"
               /\ req' = [req EXCEPT ![r].at = "apply", ![r].current = GetScope("global")]
               /\ UNCHANGED <<rows, config, cache, ops, overlapped>>

(* Slip: the configuration is built once, unless the key has changed. *)
SlipLayered(setting) == IF setting.secret = "" THEN config ELSE setting

(* load_from_settings: the default's key stays unless a key is stored;     *)
(* whether the endpoint is enabled is the settings' to say.                *)
Layered(setting) == V(setting.text, IF setting.secret # "" THEN setting.secret ELSE DefaultConfig.secret)

(* _check_url_reachable: the last result, for _HEALTH_TTL seconds; else    *)
(* the endpoint is asked.                                                  *)
Reachable == IF cache # "none" THEN {cache} ELSE {"up", "down"}

(* resolve_provider: the endpoint if it is enabled and reachable, else     *)
(* claude_cli.                                                             *)
ResolveProvider(c, reached) == IF c.text = "on" /\ reached = "up" THEN "endpoint" ELSE "claude_cli"

(* check_all_health: the active provider is the first that is reachable,   *)
(* and claude_cli comes before the endpoints.                              *)
CheckAllHealth(c, reached) ==
    IF CliFound THEN "claude_cli" ELSE IF c.text = "on" /\ reached = "up" THEN "endpoint" ELSE "none"

(* A query answers at once from the shared configuration c. *)
Answer(r, c, stale) ==
    \E reached \in Reachable :
        /\ req' = [req EXCEPT ![r] = [Idle EXCEPT !.on = req[r].on, !.stale = stale,
               !.answer = IF req[r].kind = "resolve" THEN ResolveProvider(c, reached) ELSE CheckAllHealth(c, reached)]]
        /\ cache' = IF c.text = "on" THEN reached ELSE cache

(* load_from_settings: the settings cannot be read, and the configuration  *)
(* stays what it was.                                                      *)
LoadFails(r) ==
    /\ req[r].at = "load"
    /\ IF req[r].kind = "ai" THEN req' = [req EXCEPT ![r] = Idle] /\ UNCHANGED cache
       ELSE Answer(r, config, TRUE)
    /\ UNCHANGED <<rows, config, ops, overlapped>>

(* ... and applied; the answer is computed from what was applied.          *)
Apply(r) ==
    /\ req[r].at = "apply" /\ config' = Layered(req[r].current["ai_endpoint"])
    /\ IF req[r].kind = "ai" THEN req' = [req EXCEPT ![r] = Idle] /\ UNCHANGED cache
       ELSE Answer(r, config', FALSE)
    /\ UNCHANGED <<rows, ops, overlapped>>

(* The cached result ages out. *)
Expire == /\ cache # "none" /\ cache' = "none"
          /\ UNCHANGED <<rows, req, config, ops, overlapped>>

SettingsNext == \/ Expire
                \/ \E r \in Requests :
                      \/ \E scope \in Scopes : BeginPatch(r, "patch", scope)
                      \/ BeginPatch(r, "ai", "global") \/ \E kind \in Queries : BeginQuery(r, kind)
                      \/ ReadCurrent(r) \/ ReadPassword(r) \/ Look(r) \/ Save(r) \/ Fail(r)
                      \/ LoadRead(r) \/ LoadFails(r) \/ Apply(r)

-----------------------------------------------------------------------------

(* set_global: a patch neither erases the SMTP password nor puts the mask   *)
(* that clients are shown in its place, unless it ran together with another *)
(* one.                                                                     *)
PasswordSurvives ==
    [][~overlapped' /\ Resolve("smtp_password").secret \notin {"", Mask}
          => Resolve("smtp_password")'.secret \notin {"", Mask}]_settingsVars

(* ai_resolve, ai_health: an endpoint that is disabled during a whole      *)
(* request is not its answer, although the configuration object is shared  *)
(* with requests that loaded it before and after; except for a request     *)
(* that could not read the settings, and answers from what was loaded      *)
(* last, or from the environment.                                          *)
AnswersReflectSettings ==
    \A r \in Requests : req[r].answer = "endpoint" => req[r].on \/ req[r].stale

(* ai_config_save: "API keys set to the masked sentinel value are ignored  *)
(* (preserving the existing key)".                                         *)
KeySurvives ==
    [][~overlapped' /\ Resolve("ai_endpoint").secret # "" => Resolve("ai_endpoint")'.secret # ""]_settingsVars
=============================================================================

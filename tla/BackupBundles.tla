---------------------------- MODULE BackupBundles ----------------------------
(***************************************************************************)
(* Export and restore of backup bundles: the REST handlers and the command *)
(* line drive BackupService, which asks one contributor after the other.   *)
(*                                                                         *)
(* Every contributor reads and writes in database sessions of its own, so  *)
(* a bundle is no snapshot of one moment and other requests run between    *)
(* the contributors.  A row (or an uploaded file) is a constant, its       *)
(* content a version number, 0 when it does not exist.  Natural keys such  *)
(* as an email do not change: two rows with one Name stand for something   *)
(* that has another primary key in another installation.                   *)
(***************************************************************************)
EXTENDS Integers, Sequences

CONSTANTS Exports,     \* exports, each made once
          Restores,    \* restores, each made once
          Rows,        \* rows of the tables, and the uploaded files
          Table,       \* Table[r]: the table of a row; "files" for a file
          Owner,       \* Owner[r]: the tenant of a row, None for the platform
          Name,        \* Name[r]: what a unique constraint is about
          Secrets,     \* settings whose key is_secret
          Tenants,     \* Tenants[t]: the row of tenant t in table tenants
          None,
          Initially,   \* the rows there are at first
          Fronts,      \* "api", "cli"
          Keys,        \* passphrases, None among them
          Foreign,     \* bundles of other installations to be uploaded
          Faults,      \* "db", "disk", "crash"
          MaxVersion,  \* bound: versions of a row
          MaxWrites    \* bound: writes of other requests

Jobs == Exports \cup Restores
Supported == 1    \* SUPPORTED_SCHEMA_VERSION
Scopes == {[kind |-> "platform", tenant |-> None]}
          \cup [kind : {"tenant"}, tenant : DOMAIN Tenants]

ASSUME BundlesAssumption ==
    /\ Table \in [Rows -> {"tenants", "roles", "users", "user_tenant_roles",
                           "settings", "items", "audit_log", "files"}]
    /\ Owner \in [Rows -> DOMAIN Tenants \cup {None}] /\ None \notin DOMAIN Tenants
    /\ \A t \in DOMAIN Tenants : Table[Tenants[t]] = "tenants"
    /\ Exports \cap Restores = {} /\ None \notin Jobs
    /\ Initially \in [Rows -> {0, 1}]
    /\ \A r \in Secrets : Table[r] = "settings"
    /\ Fronts \subseteq {"api", "cli"} /\ None \in Keys
    /\ MaxVersion \in Nat \ {0} /\ MaxWrites \in Nat

(* What a bundle of another installation is: each section has the rows of  *)
(* the tables its contributor reads (those of tenants and users are tagged *)
(* with their table, which may be any), and those of a tenant's bundle are *)
(* the tenant's.                                                           *)
WellFormed(b) ==
    \A c \in DOMAIN b.data : \A r \in DOMAIN b.data[c] :
        /\ r \in Rows
        /\ Table[r] = (IF c = "secrets" THEN "settings" ELSE c) \/ (c \in {"tenants", "users"} /\ Table[r] # "files")
        /\ b.scope.kind = "tenant" => Owner[r] = b.scope.tenant
ASSUME ForeignAssumption ==
    \A b \in Foreign : /\ DOMAIN b = {"scope", "version", "data", "key"}
                       /\ b.scope \in Scopes /\ WellFormed(b)

VARIABLES db,        \* the version of every row and file
          bundles,   \* bundles in a sink or in an operator's hands
          job,       \* what each export or restore has done
          writes     \* writes of other requests so far
vars == <<db, bundles, job, writes>>

-----------------------------------------------------------------------------
(* Contributors. *)

(* Slip: the secrets are registered before the settings. *)
SlipRegistered == [tenants |-> 1, users |-> 2, secrets |-> 3, settings |-> 4, items |-> 5,
                   audit_log |-> 6, files |-> 7]

(* build_backup_service: the contributors and their places. *)
Registered == [tenants |-> 1, users |-> 2, settings |-> 3, secrets |-> 4, items |-> 5,
               audit_log |-> 6, files |-> 7]

ScopesOf(c) == CASE c \in {"tenants", "users"} -> {"platform"}
                 [] c = "items"                -> {"tenant"}
                 [] OTHER                      -> {"platform", "tenant"}

(* The command line passes no uploads_base_dir. *)
Contributors(front, scope) ==
    {c \in DOMAIN Registered : scope.kind \in ScopesOf(c) /\ (c = "files" => front = "api")}

(* The select statements of a contributor's export, in their order. *)
UsersExport == <<"users", "user_tenant_roles">>
TenantsExport == <<"tenants", "roles">>
Reads(c) == CASE c = "users"   -> UsersExport
              [] c = "tenants" -> TenantsExport
              [] c = "secrets" -> <<"settings">>
              [] OTHER         -> <<c>>

(* SettingsContributor.export: user settings have neither owner. *)
SettingsExport(scope) == {r \in Rows : Table[r] = "settings" /\ Owner[r] = scope.tenant}
(* Slip: the tenant is not looked at. *)
SlipSecretsExport(scope) == Secrets
(* SecretsContributor.export. *)
SecretsExport(scope) == {r \in SettingsExport(scope) : r \in Secrets}
(* ItemsContributor.export. *)
ItemsExport(scope)   == {r \in Rows : Table[r] = "items" /\ Owner[r] = scope.tenant}
(* AuditLogContributor.export. *)
AuditExport(scope)   == {r \in Rows : /\ Table[r] = "audit_log"
                                       /\ scope.kind = "tenant" => Owner[r] = scope.tenant}
(* FilesContributor.export: the directory of a tenant has the slug of its  *)
(* row, and is not looked for when that row has gone.                      *)
FilesExport(scope) ==
    {r \in Rows : /\ Table[r] = "files"
                  /\ scope.kind = "tenant" =>
                       /\ db[Tenants[scope.tenant]] > 0
                       /\ Owner[r] = scope.tenant}

Selected(c, table, scope) ==
    CASE c = "settings"  -> SettingsExport(scope)
      [] c = "secrets"   -> SecretsExport(scope)
      [] c = "items"     -> ItemsExport(scope)
      [] c = "audit_log" -> AuditExport(scope)
      [] c = "files"     -> FilesExport(scope)
      [] OTHER           -> {r \in Rows : Table[r] = table}

Present(s) == {r \in s : db[r] > 0}

(* _row_to_dict, for all the rows found. *)
Dumped(found) == [r \in found |-> db[r]]

(* _upsert_rows: merge by primary key, for the rows in chosen. *)
Upserted(section, chosen) ==
    [r \in Rows |-> IF r \in chosen THEN section[r] ELSE db[r]]

-----------------------------------------------------------------------------
(* Jobs. *)

NoJob == [at |-> "idle", front |-> None, scope |-> None, key |-> None,
          todo |-> {}, data |-> <<>>, base |-> <<>>, dirty |-> {},
          restored |-> {}, warned |-> {}]

Goes(j, at) == job' = [job EXCEPT ![j].at = at]

(* dirty is history: rows that someone else has written since a restore    *)
(* began.                                                                  *)
Soiled(jobs, j, changed) ==
    [i \in Jobs |-> IF i # j /\ jobs[i].base # <<>>
                    THEN [jobs[i] EXCEPT !.dirty = @ \cup changed] ELSE jobs[i]]

Init == /\ db = Initially
        /\ bundles = Foreign
        /\ job = [j \in Jobs |-> NoJob]
        /\ writes = 0

-----------------------------------------------------------------------------
(* Other requests.  Each has one transaction or one file operation, and    *)
(* then an entry in the audit log in a transaction of its own.             *)

Write(new) == /\ db' = Upserted(new, DOMAIN new)
              /\ job' = Soiled(job, None, DOMAIN new)
              /\ UNCHANGED bundles
Becomes(r, v) == Write([q \in {r} |-> v])

(* A primary key or file name that has just been drawn is in no bundle. *)
Fresh(r) == /\ db[r] = 0
            /\ \A data \in {b.data : b \in bundles} \cup {job[j].data : j \in Jobs} :
                  \A c \in DOMAIN data : r \notin DOMAIN data[c]

Edit(r) == db[r] > 0 /\ \E v \in (1 .. MaxVersion) \ {db[r]} : Becomes(r, v)

(* The tenant of a row is looked up by its slug. *)
TenantFound(r) == Owner[r] # None /\ db[Tenants[Owner[r]]] > 0

CreateItem(r) == Table[r] = "items" /\ TenantFound(r) /\ Fresh(r) /\ Becomes(r, 1)
UpdateItem(r) == Table[r] = "items" /\ TenantFound(r) /\ Edit(r)
DeleteItem(r) == Table[r] = "items" /\ TenantFound(r) /\ db[r] > 0 /\ Becomes(r, 0)

(* An upload goes to the root of the uploads, under a new name. *)
UploadFiles(r) == Table[r] = "files" /\ Owner[r] = None /\ Fresh(r) /\ Becomes(r, 1)

(* FilesService.rename and delete, in the directory of a tenant; what      *)
(* exists is not replaced.  Directories are not in bundles.                *)
RenameFile(r, q) == /\ Table[r] = "files" /\ Table[q] = "files" /\ Owner[q] = Owner[r]
                    /\ TenantFound(r) /\ db[r] > 0 /\ db[q] = 0
                    /\ Write([p \in {r, q} |-> IF p = q THEN db[r] ELSE 0])
DeleteFile(r) == Table[r] = "files" /\ TenantFound(r) /\ db[r] > 0 /\ Becomes(r, 0)

(* create_for_tenant, whose address nobody else may have; update_for_tenant *)
(* and the rest, which never delete a user or a role.                       *)
WriteUser(r) ==
    \/ /\ Table[r] = "users" /\ Fresh(r)
       /\ \A q \in Rows : Table[q] = "users" /\ Name[q] = Name[r] => db[q] = 0
       /\ Becomes(r, 1)
    \/ Table[r] \in {"users", "user_tenant_roles"} /\ Edit(r)

(* TenantsService.update, for which there is no delete either. *)
UpdateTenant(r) == Table[r] = "tenants" /\ Edit(r)

(* SettingsRepository.upsert. *)
WriteSetting(r) == /\ Table[r] = "settings"
                   /\ \E v \in (1 .. MaxVersion) \ {db[r]} : Becomes(r, v)

(* The entry that any of these, or a read, leaves. *)
AuditEntry(r) == Table[r] = "audit_log" /\ Fresh(r) /\ Becomes(r, 1)

Request(r) == /\ writes < MaxWrites /\ writes' = writes + 1
              /\ \/ CreateItem(r) \/ UpdateItem(r) \/ DeleteItem(r)
                 \/ UploadFiles(r) \/ DeleteFile(r) \/ \E q \in Rows : RenameFile(r, q)
                 \/ WriteUser(r) \/ UpdateTenant(r) \/ WriteSetting(r) \/ AuditEntry(r)

(* AuditService.log: a row of its own transaction, or nothing. *)
Audit(j, tenant, at) ==
    \/ \E r \in Rows : /\ Table[r] = "audit_log" /\ Owner[r] = tenant /\ db[r] = 0
                       /\ db' = [db EXCEPT ![r] = 1]
                       /\ job' = Soiled([job EXCEPT ![j].at = at, ![j].dirty = @ \cup {r}],
                                        j, {r})
    \/ Goes(j, at) /\ UNCHANGED db

-----------------------------------------------------------------------------
(* Export. *)

Steps(front, scope) == {s \in [c : Contributors(front, scope), k : {1, 2}] : s.k \in DOMAIN Reads(s.c)}

(* One contributor after the other, and the statements of each in turn. *)
Before(s, t) == Registered[s.c] < Registered[t.c] \/ (s.c = t.c /\ s.k < t.k)

BeginExport(j, front, scope, key) ==
    /\ j \in Exports /\ job[j].at = "idle"
    /\ job' = [job EXCEPT ![j] =
         [NoJob EXCEPT !.at = "export", !.front = front, !.scope = scope, !.key = key,
                       !.todo = Steps(front, scope),
                       !.data = [c \in Contributors(front, scope) |-> <<>>]]]
    /\ UNCHANGED <<db, bundles, writes>>

(* POST /export/download (and POST /export): a tenant is looked up by its  *)
(* slug first.                                                             *)
ExportDownload(j) ==
    \E scope \in Scopes, key \in Keys :
        /\ "api" \in Fronts
        /\ scope.kind = "tenant" => db[Tenants[scope.tenant]] > 0
        /\ BeginExport(j, "api", scope, key)

(* scottycore-backup export. *)
CliExport(j) ==
    \E scope \in Scopes, key \in Keys :
        /\ "cli" \in Fronts
        /\ scope.kind = "tenant" => db[Tenants[scope.tenant]] > 0
        /\ BeginExport(j, "cli", scope, key)

Joined(f, g) == [r \in DOMAIN f \cup DOMAIN g |-> IF r \in DOMAIN f THEN f[r] ELSE g[r]]

(* One select of _run_export.  Files that are too large or cannot be read  *)
(* are left out.                                                           *)
RunExport(j) ==
    /\ job[j].at = "export"
    /\ \E s \in job[j].todo :
          /\ ~\E t \in job[j].todo : Before(t, s)
          /\ LET table == Reads(s.c)[s.k]
                 all   == Present({r \in Selected(s.c, table, job[j].scope) : Table[r] = table})
             IN  \E left \in IF s.c = "files" /\ "disk" \in Faults THEN SUBSET all ELSE {{}} :
                   job' = [job EXCEPT ![j].todo = @ \ {s},
                                      ![j].data[s.c] = Joined(@, Dumped(all \ left))]
    /\ UNCHANGED <<db, bundles, writes>>

(* export_platform and export_tenant: an entry in the audit log. *)
ExportAudit(j) ==
    /\ job[j].at = "export" /\ job[j].todo = {}
    /\ Audit(j, job[j].scope.tenant, "pack")
    /\ UNCHANGED <<bundles, writes>>

(* _build_tarball. *)
BuildTarball(j) == [scope |-> job[j].scope, version |-> Supported, data |-> job[j].data]

(* encrypt_bundle, fingerprint. *)
Encrypt(b, key) == [scope |-> b.scope, version |-> b.version, data |-> b.data, key |-> key]

(* The bundle reaches the sink, the browser or a file. *)
Deliver(j) ==
    /\ job[j].at = "pack"
    /\ bundles' = bundles \cup {Encrypt(BuildTarball(j), job[j].key)}
    /\ Goes(j, "done")
    /\ UNCHANGED <<db, writes>>

(* A select, gpg or the sink fails: the request ends with an error. *)
ExportFails(j) ==
    /\ \/ "db" \in Faults /\ job[j].at = "export"
       \/ "disk" \in Faults /\ job[j].at = "pack"
    /\ Goes(j, "refused")
    /\ UNCHANGED <<db, bundles, writes>>

(* scottycore-backup rotate-key. *)
RotateKey(b) ==
    /\ "cli" \in Fronts /\ b.key # None
    /\ \E new \in Keys \ {None, b.key} :
         bundles' = bundles \cup {[b EXCEPT !.key = new]}
    /\ UNCHANGED <<db, job, writes>>

-----------------------------------------------------------------------------
(* Restore. *)

(* decrypt_bundle and opening the archive: plain data is no OpenPGP packet *)
(* and ciphertext no archive.                                              *)
Decrypts(b, passphrase) == b.key = passphrase

(* _extract_bundle: contributors that have a member in the archive. *)
Sections(b) == DOMAIN b.data

(* _resolve_tenant_id_from_bundle: tenant bundles have no tenants section. *)
ResolveTenant(b) == IF /\ b.scope.kind = "tenant" /\ "tenants" \in Sections(b)
                       /\ Tenants[b.scope.tenant] \in DOMAIN b.data["tenants"]
                    THEN b.scope.tenant ELSE None

SupportedVersion(b) == b.version <= Supported

(* restore_bundle up to its loop: a bundle is refused before any write, or *)
(* the contributors of its scope that have a section are called.           *)
BeginRestore(j, front, b, passphrase) ==
    /\ j \in Restores /\ job[j].at = "idle"
    /\ job' = [job EXCEPT ![j] =
         [NoJob EXCEPT !.at    = IF Decrypts(b, passphrase) /\ SupportedVersion(b)
                                 THEN "restore" ELSE "refused",
                       !.front = front, !.scope = b.scope, !.data = b.data, !.base = db,
                       !.key   = ResolveTenant(b),
                       !.todo  = Contributors(front, b.scope) \cap Sections(b)]]
    /\ UNCHANGED <<db, bundles, writes>>

(* POST /restore: the bundle comes from a sink. *)
Restore(j) == \E b \in bundles \ Foreign, p \in Keys :
                 "api" \in Fronts /\ BeginRestore(j, "api", b, p)

(* POST /restore/upload: an operator sends a bundle. *)
RestoreUpload(j) == \E b \in Foreign, p \in Keys :
                 "api" \in Fronts /\ BeginRestore(j, "api", b, p)

(* scottycore-backup restore. *)
CliRestore(j) == \E b \in bundles, p \in Keys :
                 "cli" \in Fronts /\ BeginRestore(j, "cli", b, p)

(* The rows of a section that a contributor writes.  Users and tenants go  *)
(* by the table a row is tagged with, secrets are filtered again.          *)
Only(s, taken) == [r \in DOMAIN s \cap taken |-> s[r]]
UsersRestore(s) == Only(s, {r \in Rows : Table[r] \in {"users", "user_tenant_roles"}})
TenantsRestore(s) == Only(s, {r \in Rows : Table[r] \in {"tenants", "roles"}})
SettingsRestore(s) == s
SecretsRestore(s) == Only(s, Secrets)
ItemsRestore(s) == s
AuditRestore(s) == s
Section(data, c) ==
    LET s == data[c]
    IN  CASE c = "users"     -> UsersRestore(s)
          [] c = "tenants"   -> TenantsRestore(s)
          [] c = "settings"  -> SettingsRestore(s)
          [] c = "secrets"   -> SecretsRestore(s)
          [] c = "items"     -> ItemsRestore(s)
          [] c = "audit_log" -> AuditRestore(s)
          [] OTHER           -> s

(* A unique constraint fails.  The one on settings has scope_id in it,     *)
(* which is NULL for global settings and then never equal.                 *)
Clash(new) ==
    \E a, b \in {r \in Rows : new[r] > 0} :
        /\ a # b /\ Table[a] = Table[b] /\ Name[a] = Name[b]
        /\ Table[a] \in {"tenants", "roles", "users", "user_tenant_roles", "settings"}
        /\ Table[a] = "settings" => Owner[a] = Owner[b] /\ Owner[a] # None

Changed(new) == {r \in Rows : new[r] # db[r]}

Wrote(j, c, new, restored) ==
    /\ db' = new
    /\ job' = Soiled([job EXCEPT ![j].todo = @ \ {c},
                                 ![j].restored = IF restored THEN @ \cup {c} ELSE @,
                                 ![j].warned = IF restored THEN @ ELSE @ \cup {c}],
                     j, Changed(new))
    /\ UNCHANGED <<bundles, writes>>

Restoring(j, c) == /\ job[j].at = "restore" /\ c \in job[j].todo
                   /\ \A d \in job[j].todo : Registered[c] <= Registered[d]

(* Slip: the rows before the one that clashes are committed. *)
SlipRestoreRows(j, c) ==
    LET section == Section(job[j].data, c)
    IN  /\ Restoring(j, c) /\ c # "files"
        /\ \E chosen \in SUBSET DOMAIN section :
             /\ ~Clash(Upserted(section, chosen))
             /\ Wrote(j, c, Upserted(section, chosen), chosen = DOMAIN section)

(* A contributor's restore: all rows in one transaction, or none and a     *)
(* warning.                                                                *)
RestoreRows(j, c) ==
    LET section == Section(job[j].data, c)
        clash   == Clash(Upserted(section, DOMAIN section))
    IN  /\ Restoring(j, c) /\ c # "files"
        /\ \/ ~clash /\ Wrote(j, c, Upserted(section, DOMAIN section), TRUE)
           \/ (clash \/ "db" \in Faults) /\ Wrote(j, c, db, FALSE)

(* FilesContributor.restore: file by file; an error ends it with a warning *)
(* and leaves the files before it in place.                                *)
RestoreFiles(j) ==
    LET section == Section(job[j].data, "files")
    IN  /\ Restoring(j, "files")
        /\ \/ Wrote(j, "files", Upserted(section, DOMAIN section), TRUE)
           \/ /\ "disk" \in Faults
              /\ \E some \in SUBSET DOMAIN section : Wrote(j, "files", Upserted(section, some), FALSE)

(* The end of restore_bundle: the audit entry, under the tenant that was   *)
(* resolved.                                                               *)
RestoreAudit(j) ==
    /\ job[j].at = "restore" /\ job[j].todo = {}
    /\ Audit(j, job[j].key, "done")
    /\ UNCHANGED <<bundles, writes>>

(* The process ends, possibly among the files of a bundle. *)
Crash(j) ==
    /\ "crash" \in Faults
    /\ job[j].at \in {"export", "pack", "restore"}
    /\ \E some \in IF Restoring(j, "files") THEN SUBSET DOMAIN Section(job[j].data, "files") ELSE {{}} :
         LET new == IF some = {} THEN db ELSE Upserted(Section(job[j].data, "files"), some)
         IN  /\ db' = new
             /\ job' = Soiled([job EXCEPT ![j].at = "dead"], j, Changed(new))
    /\ UNCHANGED <<bundles, writes>>

-----------------------------------------------------------------------------
Next == \/ \E r \in Rows : Request(r)
        \/ \E b \in bundles : RotateKey(b)
        \/ \E j \in Jobs :
             \/ ExportDownload(j) \/ CliExport(j) \/ RunExport(j) \/ ExportAudit(j)
             \/ Deliver(j) \/ ExportFails(j)
             \/ Restore(j) \/ RestoreUpload(j) \/ CliRestore(j)
             \/ \E c \in {"tenants", "users", "settings", "secrets", "items", "audit_log"} :
                  RestoreRows(j, c)
             \/ RestoreFiles(j) \/ RestoreAudit(j) \/ Crash(j)

Spec == Init /\ [][Next]_vars

-----------------------------------------------------------------------------
(* Properties. *)

(* What a restore x that has begun has made of row r: the section of the   *)
(* last contributor that carried it, or what was there.  Files of a        *)
(* section that failed half way may be either.                             *)
Carriers(x, r) == {c \in x.restored : r \in DOMAIN Section(x.data, c)}
HalfWay(x, r) == /\ Table[r] = "files" /\ "files" \in DOMAIN x.data /\ r \in DOMAIN x.data["files"]
                 /\ "files" \notin x.restored
                 /\ "files" \in x.warned \/ x.at = "dead"
Last(cs) == {c \in cs : \A d \in cs : Registered[d] <= Registered[c]}
Expected(x, r) ==
    IF Carriers(x, r) # {}
    THEN {Section(x.data, c)[r] : c \in Last(Carriers(x, r))}
    ELSE {x.base[r]} \cup IF HalfWay(x, r) THEN {x.data["files"][r]} ELSE {}

Restored(j) == job[j].base # <<>>

(* At every moment, whatever fails, a restore has put each section in      *)
(* entirely or left it out entirely (single files excepted), has touched   *)
(* no other row, and has written nothing at all when the bundle was        *)
(* refused for its version or passphrase: restore_bundle, one transaction  *)
(* per contributor.                                                        *)
SectionsAreAllOrNothing ==
    \A j \in Jobs : Restored(j) =>
        \A r \in Rows \ job[j].dirty : db[r] \in Expected(job[j], r)

(* A bundle is read over time and the secrets section is read after the    *)
(* settings section, which has the secrets too: after a restore the newer  *)
(* of the two values is in place (registration order in                    *)
(* build_backup_service).                                                  *)
NewerSecretWins ==
    \A j \in Jobs :
        (job[j].at = "done" /\ Restored(j) /\ job[j].warned = {}) =>
            \A r \in Secrets \ job[j].dirty :
                ("secrets" \in DOMAIN job[j].data /\ r \in DOMAIN job[j].data["secrets"]) =>
                    db[r] = job[j].data["secrets"][r]

(* Restoring a tenant's bundle never changes a row of the platform or of   *)
(* another tenant, the audit entry excepted (export filters).              *)
TenantsStayApart ==
    \A j \in Jobs :
        (Restored(j) /\ job[j].scope.kind = "tenant") =>
            \A r \in Rows \ job[j].dirty :
                Owner[r] # job[j].scope.tenant => db[r] = job[j].base[r]
=============================================================================

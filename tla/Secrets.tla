------------------------------ MODULE Secrets ------------------------------
(***************************************************************************)
(* Secrets at rest: the settings row (internal/store/app_settings_store.go,*)
(* internal/http/settings.go), the DNS providers (internal/http/           *)
(* certificates_dns.go), the TLS private keys (internal/acme), and the     *)
(* rotation of the key they are encrypted with (internal/http/             *)
(* security_rotation.go), through the restarts a rotation takes            *)
(* (cmd/server/main.go).                                                   *)
(*                                                                         *)
(* A stored value is [plain, under, ver]: the number of the secret, the    *)
(* keys it is encrypted under, outermost first, and the format.  The first *)
(* configured key encrypts; every configured key decrypts.  Requests load  *)
(* a row and save it whole, in two steps.                                  *)
(***************************************************************************)
EXTENDS Integers, Sequences, FiniteSets

CONSTANTS
    Providers,      \* DNS provider ids; an id is given once
    Admins,         \* administrators' requests in progress
    KeyLists,       \* DATA_ENCRYPTION_SECRET followed by the legacy secrets
    MaxSecrets,     \* bound on the secrets made
    MaxStarts,      \* bound on the starts of the hub
    None

VARIABLES
    boot,           \* where start-up is; "up" when it is done, "down" when off
    keys,           \* the configured keys
    mfaEnv,         \* REQUIRE_MFA_FOR_ADMINS
    settings,       \* the app_settings row
    dns,            \* dns_providers, by id
    tls,            \* the private key of a stored certificate
    edit,           \* rows loaded by requests
    reenc,          \* a re-encryption in progress
    secrets, starts,    \* counters of the bounds
    given,          \* history: the secret last given, by place
    stale,          \* history: places a stale copy was saved over
    rotated,        \* history: active key of the last complete re-encryption
    cleared,        \* history: active key, once the status showed no work left
    refused         \* history: the last start ended on unreadable settings

store == <<settings, dns, tls>>
history == <<given, stale, rotated, cleared, refused>>
vars == <<boot, keys, mfaEnv, store, edit, reenc, secrets, starts, history>>

-----------------------------------------------------------------------------
(* secureconfig.                                                           *)

Fields == {"oidc", "tunnel"}        \* settings; the first is migrated
Places == Fields \union Providers \union {"tls"}

PlainValue(s) == [plain |-> s, under |-> <<>>, ver |-> 2]
IsEncryptedValue(v) == v.under # <<>>
Encrypt(v) == [v EXCEPT !.under = <<keys[1]>> \o @, !.ver = 2]
Elements(s) == {s[i] : i \in DOMAIN s}

\* Decryption with the listed keys; None when none of them fits.
DecryptAuto(ks, v) ==
    IF v.under # <<>> /\ v.under[1] \in Elements(ks) THEN [v EXCEPT !.under = Tail(@)]
    ELSE None

-----------------------------------------------------------------------------
(* AppSettingsStore.                                                       *)

Readable(r) == \A f \in Fields : r[f] # None /\ IsEncryptedValue(r[f]) =>
                    DecryptAuto(keys, r[f]) # None

decryptSecretFields(r) ==
    [f \in DOMAIN r |-> IF f \in Fields /\ r[f] # None /\ IsEncryptedValue(r[f])
                        THEN DecryptAuto(keys, r[f]) ELSE r[f]]

encryptSecretFields(r) ==
    [f \in DOMAIN r |-> IF f \in Fields /\ r[f] # None /\ ~IsEncryptedValue(r[f])
                        THEN Encrypt(r[f]) ELSE r[f]]

\* Get: one field that no key opens makes the whole row unreadable.
Get == IF settings = None THEN "missing"
       ELSE IF Readable(settings) THEN "row" ELSE "error"

\* Upsert of a copy that was decrypted when it was loaded.
Upsert(was, r, own) ==
    /\ settings' = encryptSecretFields(r)
    /\ stale' = (stale \ own) \union
                {f \in Fields \ own : settings # None /\ settings[f] # was[f]}

-----------------------------------------------------------------------------
\* Databases of earlier versions hold the OIDC secret and the TLS keys as
\* text, and provider configurations in the first format.
Init ==
    /\ boot = "down" /\ keys \in KeyLists /\ mfaEnv \in BOOLEAN
    /\ \E old \in BOOLEAN :
        /\ settings = IF old THEN [mfa |-> FALSE, oidc |-> PlainValue(0), tunnel |-> None]
                      ELSE None
        /\ dns = [p \in Providers |->
                    IF old /\ p = CHOOSE q \in Providers : TRUE
                    THEN [plain |-> 0, under |-> <<keys[1]>>, ver |-> 1] ELSE None]
        /\ tls = IF old THEN PlainValue(0) ELSE None
        /\ given = [x \in Places |->
                    IF old /\ (x \in {"oidc", "tls"} \/ (x \in Providers /\ dns[x] # None))
                    THEN 0 ELSE None]
    /\ edit = [a \in Admins |-> None]
    /\ reenc = None
    /\ secrets = 0 /\ starts = 0
    /\ stale = {} /\ rotated = None /\ cleared = None /\ refused = FALSE

-----------------------------------------------------------------------------
(* Start-up, in the order of main.                                         *)

Launch ==
    /\ boot = "down"
    /\ starts < MaxStarts
    /\ starts' = starts + 1
    /\ keys' \in KeyLists
    /\ mfaEnv' \in BOOLEAN
    /\ boot' = "settings"
    /\ refused' = FALSE
    /\ cleared' = IF keys' = <<cleared>> THEN cleared ELSE None
    /\ rotated' = None
    /\ UNCHANGED <<store, edit, reenc, secrets, given, stale>>

\* MigrateStoredSecrets of the settings; only text is encrypted, and of the
\* four secrets only the OIDC secret and the SMTP password.
MigrateSettings ==
    /\ boot = "settings"
    /\ boot' = "seed"
    /\ settings' = IF settings # None /\ settings.oidc # None
                                     /\ ~IsEncryptedValue(settings.oidc)
                   THEN [settings EXCEPT !.oidc = Encrypt(@)] ELSE settings
    /\ UNCHANGED <<keys, mfaEnv, dns, tls, edit, reenc, secrets, starts, history>>

\* A missing row is made from the environment.
SeedRow ==
    /\ Get = "missing"
    /\ secrets < MaxSecrets
    /\ secrets' = secrets + 1
    /\ settings' = encryptSecretFields(
          [mfa |-> mfaEnv, oidc |-> PlainValue(secrets + 1), tunnel |-> None])
    /\ given' = [given EXCEPT !["oidc"] = secrets + 1]

\* SeedDefaults and the check of REQUIRE_MFA_FOR_ADMINS; the process ends
\* when the settings cannot be read or are weaker than the environment.
SeedDefaults ==
    /\ boot = "seed"
    /\ \/ /\ SeedRow
          /\ boot' = "provider"
          /\ UNCHANGED refused
       \/ /\ Get = "error"
          /\ boot' = "down"
          /\ refused' = TRUE
          /\ UNCHANGED <<settings, secrets, given>>
       \/ /\ Get = "row"
          /\ boot' = IF mfaEnv /\ ~settings.mfa THEN "down" ELSE "provider"
          /\ UNCHANGED <<settings, secrets, given, refused>>
    /\ UNCHANGED <<keys, mfaEnv, dns, tls, edit, reenc, starts, stale, rotated, cleared>>

\* A new provider, under an id not used before.
NewProvider(p) ==
    /\ given[p] = None
    /\ secrets < MaxSecrets
    /\ secrets' = secrets + 1
    /\ given' = [given EXCEPT ![p] = secrets + 1]
    /\ dns' = [dns EXCEPT ![p] = Encrypt(PlainValue(secrets + 1))]

\* The provider of the environment, if one is named and there is none yet;
\* start-up goes on when it cannot be made.
seedDNSProviderFromEnv ==
    /\ boot = "provider"
    /\ boot' = "tls"
    /\ \/ (\A q \in Providers : dns[q] = None) /\ \E p \in Providers : NewProvider(p)
       \/ UNCHANGED <<dns, secrets, given>>
    /\ UNCHANGED <<keys, mfaEnv, settings, tls, edit, reenc, starts, stale, rotated,
                   cleared, refused>>

\* MigrateSensitiveValues and MigrateStoredPrivateKeys.
MigrateTLS ==
    /\ boot = "tls"
    /\ boot' = "key"
    /\ tls' = IF tls # None /\ ~IsEncryptedValue(tls) THEN Encrypt(tls) ELSE tls
    /\ UNCHANGED <<keys, mfaEnv, settings, dns, edit, reenc, secrets, starts, history>>

\* EnsureServerKey: a key for the tunnel is made unless there is one.
EnsureServerKey ==
    /\ boot = "key"
    /\ boot' = "dns"
    /\ \/ /\ Get = "row" /\ settings.tunnel = None
          /\ secrets < MaxSecrets
          /\ secrets' = secrets + 1
          /\ given' = [given EXCEPT !["tunnel"] = secrets + 1]
          /\ Upsert(settings, [decryptSecretFields(settings)
                                  EXCEPT !.tunnel = PlainValue(secrets + 1)], {"tunnel"})
       \/ UNCHANGED <<settings, secrets, given, stale>>
    /\ UNCHANGED <<keys, mfaEnv, dns, tls, edit, reenc, starts, rotated, cleared, refused>>

\* Mutant: encrypts what it could not read.
MutEncryptUnread(v) == IF v = None \/ v.ver = 2 THEN v ELSE Encrypt(v)

\* What MigrateDNSProviderSecrets makes of a row: the first format is
\* rewritten when a configured key opens it.
MigratedProvider(v) ==
    IF v = None \/ v.ver = 2 \/ DecryptAuto(keys, v) = None THEN v
    ELSE Encrypt(DecryptAuto(keys, v))

MigrateDNSProviderSecrets ==
    /\ boot = "dns"
    /\ boot' = "up"
    /\ dns' = [p \in Providers |-> MigratedProvider(dns[p])]
    /\ UNCHANGED <<keys, mfaEnv, settings, tls, edit, reenc, secrets, starts, history>>

\* The process ends, by a signal, an error of the database or a crash.
Down ==
    /\ boot # "down"
    /\ boot' = "down"
    /\ edit' = [a \in Admins |-> None]
    /\ reenc' = None
    /\ UNCHANGED <<keys, mfaEnv, store, secrets, starts, history>>

-----------------------------------------------------------------------------
(* Settings requests, and portlyn settings sync, a process of its own.     *)

LoadSettings(a) ==
    /\ boot = "up" /\ edit[a] = None
    /\ Get = "row"
    /\ edit' = [edit EXCEPT ![a] = [at |-> "settings", was |-> settings,
                                    now |-> decryptSecretFields(settings)]]
    /\ UNCHANGED <<boot, keys, mfaEnv, store, reenc, secrets, starts, history>>

\* The rest of handleUpdateAuthSettings or handleUpdateNetworkSettings: an
\* empty secret in the request leaves the stored one, a new one replaces it.
SaveSettings(a, f, own, mfa) ==
    LET c == edit[a] IN
    /\ c # None /\ c.at = "settings"
    /\ secrets + (IF own THEN 1 ELSE 0) <= MaxSecrets
    /\ secrets' = IF own THEN secrets + 1 ELSE secrets
    /\ given' = IF own THEN [given EXCEPT ![f] = secrets + 1] ELSE given
    /\ edit' = [edit EXCEPT ![a] = None]
    /\ Upsert(c.was, [c.now EXCEPT !.mfa = mfa,
                        ![f] = IF own THEN PlainValue(secrets + 1) ELSE @],
              IF own THEN {f} ELSE {})
    /\ UNCHANGED <<boot, keys, mfaEnv, dns, tls, reenc, starts, rotated, cleared, refused>>

\* SeedDefaults and SyncFromEnv, run with the environment of the hub: a row
\* is seeded, or drift from the environment is written.
SettingsSync ==
    /\ \/ SeedRow /\ UNCHANGED stale
       \/ /\ Get = "row"
          /\ settings.mfa # mfaEnv
          /\ Upsert(settings, [decryptSecretFields(settings) EXCEPT !.mfa = mfaEnv], {})
          /\ UNCHANGED <<secrets, given>>
    /\ UNCHANGED <<boot, keys, mfaEnv, dns, tls, edit, reenc, starts, rotated, cleared, refused>>

\* StoreCertificate and StorePEM: a new private key, encrypted.
StorePrivateKey ==
    /\ boot = "up"
    /\ secrets < MaxSecrets
    /\ secrets' = secrets + 1
    /\ given' = [given EXCEPT !["tls"] = secrets + 1]
    /\ tls' = Encrypt(PlainValue(secrets + 1))
    /\ UNCHANGED <<boot, keys, mfaEnv, settings, dns, edit, reenc, starts, stale,
                   rotated, cleared, refused>>

-----------------------------------------------------------------------------
(* DNS providers.                                                          *)

SaveProvider(p, was, v) ==
    /\ dns' = [dns EXCEPT ![p] = v]
    /\ stale' = IF dns[p] = was THEN stale ELSE stale \union {p}

CreateProvider(p) ==
    /\ boot = "up"
    /\ NewProvider(p)
    /\ UNCHANGED <<boot, keys, mfaEnv, settings, tls, edit, reenc, starts, stale,
                   rotated, cleared, refused>>

LoadProvider(a, p) ==
    /\ boot = "up" /\ edit[a] = None
    /\ dns[p] # None
    /\ edit' = [edit EXCEPT ![a] = [at |-> p, was |-> dns[p], now |-> dns[p]]]
    /\ UNCHANGED <<boot, keys, mfaEnv, store, reenc, secrets, starts, history>>

\* handleUpdateDNSProvider with a new configuration; and without one, or
\* handleTestDNSProvider, which both need the stored one to open.
UpdateProvider(a) ==
    LET c == edit[a] IN
    /\ c # None /\ c.at \in Providers
    /\ secrets < MaxSecrets
    /\ secrets' = secrets + 1
    /\ given' = [given EXCEPT ![c.at] = secrets + 1]
    /\ edit' = [edit EXCEPT ![a] = None]
    /\ SaveProvider(c.at, c.was, Encrypt(PlainValue(secrets + 1)))
    /\ UNCHANGED <<boot, keys, mfaEnv, settings, tls, reenc, starts, rotated, cleared, refused>>

TestProvider(a) ==
    LET c == edit[a] IN
    /\ c # None /\ c.at \in Providers
    /\ edit' = [edit EXCEPT ![a] = None]
    /\ IF DecryptAuto(keys, c.was) # None THEN SaveProvider(c.at, c.was, c.was)
       ELSE UNCHANGED <<dns, stale>>
    /\ UNCHANGED <<boot, keys, mfaEnv, settings, tls, reenc, secrets, starts, given,
                   rotated, cleared, refused>>

DeleteProvider(p) ==
    /\ boot = "up"
    /\ dns[p] # None
    /\ dns' = [dns EXCEPT ![p] = None]
    /\ UNCHANGED <<boot, keys, mfaEnv, settings, tls, edit, reenc, secrets, starts, history>>

-----------------------------------------------------------------------------
(* Rotation.                                                               *)

\* Under the active key, in the latest format.
Current(v) == v.ver = 2 /\ DecryptAuto(<<keys[1]>>, v) # None

\* handleRotationStatus: no candidates for re-encryption and no failures.
RotationStatus ==
    /\ boot = "up"
    /\ cleared' = IF \A p \in Providers : dns[p] = None \/ Current(dns[p])
                  THEN keys[1] ELSE None
    /\ UNCHANGED <<boot, keys, mfaEnv, store, edit, reenc, secrets, starts, given, stale,
                   rotated, refused>>

\* handleReencryptDataKey: the rows are listed once and saved one by one.
ReencryptList ==
    /\ boot = "up" /\ reenc = None
    /\ reenc' = [todo |-> {[p |-> p, was |-> dns[p]] : p \in {q \in Providers : dns[q] # None}},
                 failed |-> FALSE]
    /\ UNCHANGED <<boot, keys, mfaEnv, store, edit, secrets, starts, history>>

ReencryptItem(i) ==
    /\ \/ /\ Current(i.was)                                 \* skipped
          /\ reenc' = [reenc EXCEPT !.todo = @ \ {i}]
          /\ UNCHANGED <<dns, stale>>
       \/ /\ ~Current(i.was)
          /\ DecryptAuto(keys, i.was) # None
          /\ reenc' = [reenc EXCEPT !.todo = @ \ {i}]
          /\ SaveProvider(i.p, i.was, Encrypt(DecryptAuto(keys, i.was)))
       \/ /\ ~Current(i.was)             \* no key opens it, or it is not saved
          /\ reenc' = [todo |-> reenc.todo \ {i}, failed |-> TRUE]
          /\ UNCHANGED <<dns, stale>>
    /\ UNCHANGED <<boot, keys, mfaEnv, settings, tls, edit, secrets, starts, given,
                   rotated, cleared, refused>>

ReencryptEnd ==
    /\ reenc # None /\ reenc.todo = {}
    /\ reenc' = None
    /\ rotated' = IF reenc.failed THEN rotated ELSE keys[1]
    /\ UNCHANGED <<boot, keys, mfaEnv, store, edit, secrets, starts, given, stale,
                   cleared, refused>>

Next ==
    \/ Launch \/ MigrateSettings \/ SeedDefaults \/ seedDNSProviderFromEnv \/ MigrateTLS \/ EnsureServerKey
    \/ MigrateDNSProviderSecrets \/ Down
    \/ \E a \in Admins : LoadSettings(a)
    \/ \E a \in Admins, f \in Fields, own, mfa \in BOOLEAN : SaveSettings(a, f, own, mfa)
    \/ SettingsSync \/ StorePrivateKey
    \/ \E p \in Providers : CreateProvider(p) \/ DeleteProvider(p)
    \/ \E a \in Admins, p \in Providers : LoadProvider(a, p)
    \/ \E a \in Admins : UpdateProvider(a) \/ TestProvider(a)
    \/ RotationStatus \/ ReencryptList \/ ReencryptEnd
    \/ \E i \in (IF reenc = None THEN {} ELSE reenc.todo) : ReencryptItem(i)

Spec == Init /\ [][Next]_vars

-----------------------------------------------------------------------------
Stored(x) == IF x = "tls" THEN tls
             ELSE IF x \in Providers THEN dns[x]
             ELSE IF settings = None THEN None ELSE settings[x]

\* Through migrations, key rotations and restarts with any of the key lists,
\* a stored secret is the one last given, under at most one key, so that
\* listing that key again opens it; a stale copy saved over it is excepted
\* (MigrateStoredSecrets, MigrateDNSProviderSecrets, encryptSecretFields).
SecretsKept ==
    \A x \in Places \ stale : Stored(x) # None =>
        /\ Stored(x).plain = given[x]
        /\ Len(Stored(x).under) <= 1

\* While the hub serves, every secret of the settings opens with the keys it
\* was started with, so that no request fails on the settings (SeedDefaults
\* refuses to start otherwise, and every write uses a configured key).
ServingReadsSettings == boot \notin {"down", "settings", "seed"} =>
    settings # None /\ Readable(settings)

\* After a re-encryption without failures, no provider is left under another
\* key, unless a request that had loaded it earlier saved it back.
NothingLeftUnderOldKey ==
    rotated # None => \A p \in Providers \ stale :
        dns[p] # None => dns[p].under = <<rotated>>

\* docs/SECRET-ROTATION.md: once the status shows no candidates, the legacy
\* keys are removed and the hub redeployed; it then starts.
StartsAfterRotation == refused => cleared = None

-----------------------------------------------------------------------------
(* The inductive invariant behind these but the last.                      *)

Keys == UNION {Elements(k) : k \in KeyLists}

\* Nothing is ever encrypted twice.
SecretValue == [plain: Nat, under: {<<>>} \union {<<k>> : k \in Keys}, ver: {1, 2}]
SettingsRow == [mfa: BOOLEAN, oidc: SecretValue \union {None}, tunnel: SecretValue \union {None}]
SettingsCopy == [at: {"settings"}, was: SettingsRow, now: SettingsRow]
ProviderCopy == [at: Providers, was: SecretValue, now: SecretValue]
ReencryptRow == [p: Providers, was: SecretValue]

\* There is a key to encrypt with; places are distinct; None is a value of its own.
SecretAssumption ==
    /\ \A k \in KeyLists : k \in Seq(Keys) /\ k # <<>>
    /\ Providers \cap (Fields \union {"tls", "settings"}) = {}
    /\ None \notin Nat /\ None \notin SecretValue /\ None \notin SettingsRow
    /\ None \notin SettingsCopy /\ None \notin ProviderCopy
    /\ None \notin [todo: SUBSET ReencryptRow, failed: BOOLEAN]

SecretStateOK ==
    /\ keys \in KeyLists /\ mfaEnv \in BOOLEAN
    /\ settings \in SettingsRow \union {None}
    /\ dns \in [Providers -> SecretValue \union {None}]
    /\ tls \in SecretValue \union {None}
    /\ edit \in [Admins -> SettingsCopy \union ProviderCopy \union {None}]
    /\ reenc \in [todo: SUBSET ReencryptRow, failed: BOOLEAN] \union {None}
    /\ secrets \in Nat /\ given \in [Places -> Nat \union {None}]

\* Requests run while the hub serves; a copy of the settings could be read.
CopiesReadable ==
    \A a \in Admins : edit[a] # None =>
        /\ boot = "up"
        /\ edit[a].at = "settings" =>
              Readable(edit[a].was) /\ edit[a].now = decryptSecretFields(edit[a].was)

UnderFirst(v) == v.under = <<keys[1]>>

\* A re-encryption has left behind what it has yet to come to, and what failed.
ReencryptLeaves ==
    reenc # None =>
        /\ boot = "up"
        /\ reenc.failed \/ \A p \in Providers \ stale : dns[p] # None =>
              UnderFirst(dns[p]) \/ [p |-> p, was |-> dns[p]] \in reenc.todo

RotatedLast == rotated # None => rotated = keys[1]

SecretsInv ==
    /\ SecretStateOK /\ CopiesReadable /\ ReencryptLeaves /\ RotatedLast
    /\ SecretsKept /\ ServingReadsSettings /\ NothingLeftUnderOldKey
=============================================================================

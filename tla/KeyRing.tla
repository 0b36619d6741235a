------------------------------- MODULE KeyRing -------------------------------
(***************************************************************************)
(* keymaterial: the keys that sign audit records, membership capabilities, *)
(* service-access capabilities and SSH certificates, and the public keys a *)
(* verifier of the first two trusts, through rotations of those keys.      *)
(*                                                                         *)
(* A configuration is [mode, audit, ssh, membership, service]: the mode of *)
(* the provider and, for each purpose, the configured key id and the file, *)
(* [id, file].  A file stands for the key in it: "" for none, "unreadable" *)
(* for one that cannot be read or parsed, "rsa" for a key that is not      *)
(* ed25519.  A retained directory is a set of files [name, comment, key].  *)
(* A call that may fail is a set with its result, or with nothing.         *)
(***************************************************************************)
EXTENDS Primitives, FiniteSets

CONSTANTS
  Configs,      \* configurations the operator may switch to
  Comments,     \* comments the operator may give a public key file
  MaxFiles      \* bound on the files of both directories

Kept == {"audit", "membership"}              \* purposes with a retained directory
Purposes == Kept \cup {"service", "ssh"}

VARIABLES
  cfg,          \* the configuration in force
  dir,          \* the retained directory of each purpose in Kept
  signed        \* [purpose, id, key]: one thing that was signed: none or one

ringVars == <<cfg, dir, signed>>

-----------------------------------------------------------------------------
(* Signing keys *)

\* The deterministic keys of development, one for each purpose.
devLocalKey ==
  [ audit |-> "dev audit", ssh |-> "dev ssh", membership |-> "dev membership",
    service |-> "dev service" ]

DevLocalKeyID ==
  [ audit |-> "dev-local-ed25519-audit-key", ssh |-> "",
    membership |-> "dev-local-ed25519-membership-key",
    service |-> "dev-local-ed25519-service-access-key" ]

DevLocal(purpose) == [id |-> DevLocalKeyID[purpose], key |-> devLocalKey[purpose]]

readRawPrivateKey(file) == IF file \in {"", "unreadable"} THEN {} ELSE {file}

readEd25519PrivateKey(file) == readRawPrivateKey(file) \ {"rsa"}

\* The provider of audit and SSH keys: mounted secrets only when all of them
\* are configured, or else one that fails closed.
ProviderFromConfig(c) ==
  CASE c.mode \in {"", "dev_local"} -> "DevLocalProvider"
    [] c.mode = "kms_vault" /\ "" \notin {c.audit.id, c.audit.file, c.ssh.file} -> "MountedSecretProvider"
    [] c.mode = "kms_vault" -> "FailClosedProvider"
    [] OTHER -> "error"

AuditSigningMaterial(c) ==
  CASE ProviderFromConfig(c) = "DevLocalProvider" -> {DevLocal("audit")}
    [] ProviderFromConfig(c) = "MountedSecretProvider" ->
         {[id |-> c.audit.id, key |-> key] : key \in readEd25519PrivateKey(c.audit.file)}
    [] OTHER -> {}

\* An SSH authority may have a key of any kind, and has no key id.
SSHCASigner(c) ==
  CASE ProviderFromConfig(c) = "DevLocalProvider" -> {DevLocal("ssh")}
    [] ProviderFromConfig(c) = "MountedSecretProvider" ->
         {[id |-> "", key |-> key] : key \in readRawPrivateKey(c.ssh.file)}
    [] OTHER -> {}

\* The key of a purpose configured on its own.
MaterialFromConfig(c, purpose, defaultId) ==
  CASE c.mode \in {"", "dev_local"} -> {DevLocal(purpose)}
    [] c.mode = "kms_vault" ->
         {[ id |-> IF c[purpose].id = "" THEN defaultId ELSE c[purpose].id, key |-> key ] :
            key \in readEd25519PrivateKey(c[purpose].file)}
    [] OTHER -> {}

MembershipSigningMaterialFromConfig(c) ==
  MaterialFromConfig(c, "membership", "mounted-ed25519-membership-key")

ServiceAccessSigningMaterialFromConfig(c) ==
  MaterialFromConfig(c, "service", "mounted-ed25519-service-access-key")

Material(purpose) ==
  CASE purpose = "audit" -> AuditSigningMaterial(cfg)
    [] purpose = "ssh" -> SSHCASigner(cfg)
    [] purpose = "membership" -> MembershipSigningMaterialFromConfig(cfg)
    [] purpose = "service" -> ServiceAccessSigningMaterialFromConfig(cfg)

-----------------------------------------------------------------------------
(* Trusted keys *)

\* Faulty FileKeyId: the comment is not looked at.
FaultyFileKeyIdName(f) == f.name

\* The comment of the file, or else its name.
FileKeyId(f) == IF f.comment = "" THEN f.name ELSE f.comment

\* LoadAuditPublicKeys and LoadMembershipPublicKeys, which do the same: one
\* ed25519 key per id, from files that all parse.
LoadPublicKeys(files) ==
  IF \/ \E f \in files : f.key \in {"unreadable", "rsa"}
     \/ \E f, g \in files : f # g /\ FileKeyId(f) = FileKeyId(g)
    THEN {}
    ELSE {[ id \in { FileKeyId(f) : f \in files } |->
              (CHOOSE f \in files : FileKeyId(f) = id).key ]}

\* AuditPublicKeys and MembershipPublicKeys: the active key, then every
\* retained key over it.
PublicKeys(active, files) ==
  { [ id \in ({active.id} \ {""}) \cup DOMAIN kept |->
        IF id \in DOMAIN kept THEN kept[id] ELSE active.key ] :
      kept \in LoadPublicKeys(files) }

-----------------------------------------------------------------------------
(* The operator and the signers *)

RingInit ==
  /\ cfg \in Configs
  /\ dir = [purpose \in Kept |-> {}]
  /\ signed = {}

\* The operator puts the public half of the active key in the directory of its
\* purpose; the file may turn out not to hold one.
Retain(purpose, comment) ==
  /\ Cardinality(UNION {{p} \X dir[p] : p \in Kept}) < MaxFiles
  /\ \E m \in Material(purpose) : \E key \in {m.key, "unreadable"} :
       dir' = [dir EXCEPT ![purpose] =
                 @ \cup {[name |-> m.key, comment |-> IF comment = "id" THEN m.id ELSE comment,
                          key |-> key]}]
  /\ UNCHANGED <<cfg, signed>>

Switch(c) == cfg' = c /\ UNCHANGED <<dir, signed>>

Discard(purpose, f) ==
  dir' = [dir EXCEPT ![purpose] = @ \ {f}] /\ UNCHANGED <<cfg, signed>>

\* Something is signed, and remembered in place of what was signed before.
SignOne(purpose) ==
  /\ \E m \in Material(purpose) : signed' = {[purpose |-> purpose, id |-> m.id, key |-> m.key]}
  /\ UNCHANGED <<cfg, dir>>

RingNext ==
  \/ \E purpose \in Kept, comment \in Comments : Retain(purpose, comment)
  \/ \E c \in Configs : Switch(c)
  \/ \E purpose \in Kept : \E f \in dir[purpose] : Discard(purpose, f)
  \/ \E purpose \in Purposes : SignOne(purpose)

RingSpec == RingInit /\ [][RingNext]_ringVars

-----------------------------------------------------------------------------
(* Properties *)

\* The keyrings of a verifier that loads now, with the active key or without.
Current(purpose) ==
  LoadPublicKeys(dir[purpose]) \cup UNION {PublicKeys(m, dir[purpose]) : m \in Material(purpose)}

\* AuditPublicKeys and MembershipPublicKeys: through any number of rotations,
\* what was signed under an id still verifies while its key is retained under
\* that id, whatever is the active key by then.
RetainedKeysStayTrusted ==
  \A x \in {y \in signed : y.purpose \in Kept} : \A T \in Current(x.purpose) :
    (\E f \in dir[x.purpose] : f.key = x.key /\ f.comment = x.id)
      => x.id \in DOMAIN T /\ T[x.id] = x.key

\* MembershipPublicKeys is documented to return the active signer's public key
\* merged with the retained ones: what the active key signs now must verify.
ActiveSignerIsTrusted ==
  \A m \in MembershipSigningMaterialFromConfig(cfg) : \A T \in PublicKeys(m, dir["membership"]) :
    m.id \in DOMAIN T /\ T[m.id] = m.key

=============================================================================

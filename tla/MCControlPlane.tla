--------------------------- MODULE MCControlPlane ---------------------------
(* Small instances of what an operator changes behind the handler: the cache  *)
(* of manifests, the registry of approvals, the order-to-cash pack with the   *)
(* cache it goes through, and the tool that signs manifests.  A behaviour is  *)
(* one part's; the other parts keep their initial state.                      *)
EXTENDS OrderToCash, ApprovalRegistry, ManifestSign

VARIABLE part

controlVars == <<packVars, registryVars, signVars, part>>

ControlInit ==
  /\ part \in {"cache", "registry", "pack", "tool"}
  /\ PackInit /\ RegistryInit /\ SignInit

ControlNext ==
  /\ UNCHANGED part
  /\ \/ part = "cache" /\ CacheNext /\ UNCHANGED <<catalog, registryVars, signVars>>
     \/ part = "registry" /\ RegistryNext /\ UNCHANGED <<packVars, signVars>>
     \/ part = "pack" /\ PackNext /\ UNCHANGED <<registryVars, signVars>>
     \/ part = "tool" /\ SignNext /\ UNCHANGED <<packVars, registryVars>>

ControlSpec == ControlInit /\ [][ControlNext]_controlVars

-----------------------------------------------------------------------------
(* Documents offered to the cache *)

Contract(id, action) ==
  [ id |-> id, version |-> 1, action |-> action, schema |-> 7, maxBytes |-> 2,
    idempotent |-> TRUE, links |-> {"link", ""}, scopes |-> {action},
    topologyAllowed |-> FALSE, complete |-> TRUE ]

Draft(id, expires, contracts) ==
  [ schemaOk |-> TRUE, tenant |-> "local", id |-> id, catalog |-> "cat",
    keyId |-> "k1", issued |-> 1, expires |-> expires, contracts |-> contracts,
    hash |-> NoHash, sig |-> NoSignature ]

MCKeyring == ("k1" :> "pub1") @@ ("k2" :> "pub2")

Order == Contract(1, "submit_purchase_order")
Quote == Contract(1, "submit_quote")
Room == Contract(2, "create_federation_room")

Pair == SignManifest(Draft("pair", 3, <<Room, Order>>), "pub1")

MCDocuments ==
  { Pair,                                                     \* two contracts
    [Pair EXCEPT !.contracts = <<Room, Order>>],              \* the same, out of order
    [Pair EXCEPT !.contracts = <<Order>>],                    \* edited after signing
    [Pair EXCEPT !.keyId = "k2"],                             \* names another signer
    [Pair EXCEPT !.sig.key = "pub2"],                         \* signed by another key
    [Pair EXCEPT !.sig.alg = "none"],
    SignManifest(Draft("pair", 5, <<Room, Order>>), "pub1"),  \* the pair, renewed
    SignManifest(Draft("two", 5, <<Order, Quote>>), "pub1"),  \* one id, two actions
    SignManifest(Draft("dup", 5, <<Order, Order>>), "pub1"),
    SignManifest(Draft("chan", 5, <<Contract(3, "establish_data_channel")>>), "pub1"),
    SignManifest(Draft("scope", 5, <<[Order EXCEPT !.scopes = {"submit_quote"}]>>), "pub1"),
    SignManifest(Draft("late", 1, <<Order>>), "pub1"),        \* expires when issued
    SignManifest(Draft("bare", 4, <<[Order EXCEPT !.links = {""}]>>), "pub1"),
    SignManifest(Draft("solo", 2, <<Quote>>), "pub1") }

-----------------------------------------------------------------------------
(* Two versions of one catalog, filed under one pack version or two, with    *)
(* records that must be refused                                              *)

Approvable(id) ==
  [ tenant |-> "local", catalog |-> "cat", id |-> id, hash |-> Digest(id),
    contracts |-> << [id |-> 1, version |-> 1, schema |-> 7, action |-> "submit_quote"] >> ]

Record(id, pack, state, links) == NewApprovalRecord(Approvable(id), pack, state, links, {1})

MCApprovals ==
  { Record("v1", 1, "approved", {"la", "lb"}),
    Record("v1", 1, "revoked", {}),
    Record("v1", 2, "approved", {"la"}),
    Record("v2", 2, "approved", {"la", ""}),
    Record("v2", 2, "", {"la"}),
    [Record("v2", 2, "", {"la"}) EXCEPT !.state = "", !.links = {"la", ""}, !.binding = NoHash],
    [Record("v2", 2, "approved", {"la"}) EXCEPT !.links = {"lb"}],  \* edited afterwards
    [Record("v2", 2, "approved", {"la"}) EXCEPT !.evidence = FALSE, !.binding = NoHash],
    Record("v3", 3, "approved", {"la", "lb"}),
    Record("v3", 3, "revoked", {"lb"}),
    Record("v2", 2, "approved", {""}) }

PinInput(id, pack, link) ==
  [ tenant |-> "local", link |-> link, catalog |-> "cat", pack |-> pack,
    hash |-> Digest(id), evidence |-> TRUE ]

MCPins ==
  { PinInput(id, pack, link) : id \in {"v1", "v2", "v3"}, pack \in 1..3, link \in {"la", "lb"} }
  \cup { [PinInput("v1", 1, "la") EXCEPT !.evidence = FALSE] }

Stored(id, pack, prev) ==
  [ tenant |-> "local", link |-> "la", catalog |-> "cat", pack |-> pack,
    hash |-> Digest(id), prevPack |-> 0, prevHash |-> prev, evidence |-> TRUE,
    binding |-> NoHash ]

MCPinRecords ==
  { Stored("v1", 1, NoHash),
    [Stored("v2", 2, Digest("v1")) EXCEPT !.binding = PinAuditHash(Stored("v1", 1, NoHash))] }

-----------------------------------------------------------------------------
(* The pack: manifests the cache takes and refuses, options that deprecate,  *)
(* retire and replace, and payloads one defect away from a good one          *)

PackInput(id, tenant, expires, key) ==
  [ id |-> id, tenant |-> tenant, keyId |-> "k1", issued |-> 1, expires |-> expires,
    links |-> {"link", ""}, maxPayload |-> 0, key |-> key ]

MCManifestInputs ==
  { PackInput("o2c", "local", 3, "pub1"),
    [PackInput("o2c", "local", 4, "pub1") EXCEPT !.maxPayload = 100],
    PackInput("o2c", " ", 4, "pub1"),
    PackInput("o2c", "local", 4, "pub2") }

None == <<>>

Options(state, replacement) == [state |-> state, replacement |-> replacement]

MCCatalogOptions ==
  { Options(None, None),
    Options(Invoice :> " deprecated", Invoice :> PaymentStatus),
    Options(Invoice :> " deprecated", Invoice :> Invoice),          \* by itself
    Options(Invoice :> "deprecated", Invoice :> 99),                \* by a foreign entry
    Options((Invoice :> "retired ") @@ (QuoteResponse :> " "), None),
    Options(QuoteResponse :> "paused", None) }

Value(type, texts) == [type |-> type, keys |-> {}, strings |-> texts]

Good(id) == FilledIn(ServiceCatalogEntry("local", Options(None, None), id), PayloadSchema(id).required)

With(payload, key, value) == (key :> value) @@ payload

Without(payload, key) == [k \in DOMAIN payload \ {key} |-> payload[k]]

MCPayloads ==
  { <<>> } \cup
  UNION { { Good(id),
            Without(Good(id), "document_id"),
            With(Good(id), "notes", Value("string", {"plain"})),      \* one schema lists it
            With(Good(id), "currency", Value("number", {})),
            With(Good(id), "document_id", Value("null", {})),
            With(Good(id), "document_id", Value("string", {"call 10.0.0.8"})),
            With(Good(id), "document_id", Value("string", {"Bearer abc"})),
            With(Good(id), "host_ip", Value("string", {"plain"})),
            With(Good(id), "subject", Value("string", {" "})),
            With(Good(id), "transaction_kind", Value("string", {" order_to_cash.invoice"})),
            With(Good(id), "status", Value("string", {"plain"})),
            With(Good(id), "transaction_kind", Value("array", {})) } : id \in Ids }

=============================================================================

----------------------------- MODULE OrderToCash -----------------------------
(***************************************************************************)
(* The order-to-cash pack: seven business documents, each with a contract  *)
(* of a signed manifest, an entry of the service catalog, and a schema its *)
(* payloads are held to.  The pack's manifest goes through the manifest    *)
(* cache like any other; its entries go to a catalog, outside this         *)
(* repository, that keeps what ValidateEntry accepts.                      *)
(*                                                                         *)
(* Contracts are numbered in the order of their identifiers, the entry of  *)
(* contract k is 10 + k, and ContractVersion "1.0.0" is 1.                 *)
(***************************************************************************)
EXTENDS ManifestCache, ServiceCatalog

CONSTANTS
  ManifestInputs,   \* inputs the pack's manifest is built from, with the key that signs it
  CatalogTenants,   \* tenants the pack's entries are published for
  CatalogOptions,   \* states and replacements given to entries
  Payloads          \* payloads a partner may send

ASSUME PackAssumption == \A input \in ManifestInputs : input.expires \in Int

VARIABLE catalog    \* entry id -> the entry the catalog holds

packVars == <<cacheVars, catalog>>

-----------------------------------------------------------------------------
(* The compiled pack *)

Invoice == 1
OrderConfirmation == 2
PaymentStatus == 3
PurchaseOrder == 4
QuoteResponse == 5
RequestForQuote == 6
ShipmentStatus == 7

\* The order the source lists the interactions in.
Listed == << RequestForQuote, QuoteResponse, PurchaseOrder, OrderConfirmation,
             ShipmentStatus, Invoice, PaymentStatus >>

Ids == {Listed[k] : k \in DOMAIN Listed}

Common == {"transaction_kind", "subject", "document_id", "buyer_ref", "seller_ref"}

\* A property has the same type in every schema.
TypeOf(property) ==
  CASE property \in {"total_amount", "invoice_amount", "paid_amount"} -> "number"
    [] property = "line_items" -> "array"
    [] OTHER -> "string"

Interaction(action, kind, required, optional, results) ==
  [ action |-> action, kind |-> kind, results |-> results,
    schema |-> [ required |-> Common \cup required,
                 types |-> [p \in Common \cup required \cup optional |-> TypeOf(p)] ] ]

interactions ==
  [id \in Ids |->
     CASE id = RequestForQuote -> Interaction("request_for_quote", "order_to_cash.request_for_quote",
            {"requested_at", "line_items"},
            {"due_at", "currency", "notes"}, {QuoteResponse})
       [] id = QuoteResponse -> Interaction("submit_quote", "order_to_cash.quote",
            {"rfq_document_id", "quoted_at", "currency", "total_amount", "line_items"},
            {"valid_until", "terms_ref"}, {PurchaseOrder})
       [] id = PurchaseOrder -> Interaction("submit_purchase_order", "order_to_cash.purchase_order",
            {"quote_document_id", "ordered_at", "currency", "total_amount", "line_items"},
            {"delivery_window", "buyer_reference"}, {OrderConfirmation})
       [] id = OrderConfirmation -> Interaction("confirm_order", "order_to_cash.order_confirmation",
            {"purchase_order_document_id", "confirmed_at", "status"},
            {"promised_ship_at", "exception_reason"}, {ShipmentStatus, Invoice})
       [] id = ShipmentStatus -> Interaction("update_shipment_status", "order_to_cash.shipment_status",
            {"purchase_order_document_id", "status", "updated_at"},
            {"carrier_ref", "tracking_ref", "estimated_delivery_at"}, {Invoice})
       [] id = Invoice -> Interaction("issue_invoice", "order_to_cash.invoice",
            {"purchase_order_document_id", "issued_at", "currency", "invoice_amount", "due_at"},
            {"remittance_ref"}, {PaymentStatus})
       [] id = PaymentStatus -> Interaction("update_payment_status", "order_to_cash.payment_status",
            {"invoice_document_id", "status", "updated_at"},
            {"payment_ref", "paid_amount", "currency"}, {})]

PayloadSchema(id) == interactions[id].schema

\* Equal hashes for equal schemas: the first contract that has the schema.
PayloadSchemaHash(id) ==
  CHOOSE k \in Ids : /\ PayloadSchema(k) = PayloadSchema(id)
                     /\ \A j \in Ids : PayloadSchema(j) = PayloadSchema(id) => k <= j

-----------------------------------------------------------------------------
(* The manifest and the catalog entries of the pack *)

ContractFor(input, id) ==
  [ id |-> id, version |-> 1, action |-> "open_federation_transaction",
    schema |-> PayloadSchemaHash(id),
    maxBytes |-> IF input.maxPayload <= 0 THEN 32768 ELSE input.maxPayload,
    idempotent |-> TRUE, links |-> normalizeStringSlice(input.links),
    scopes |-> {"open_federation_transaction"}, topologyAllowed |-> FALSE, complete |-> TRUE ]

Contracts(input) == [k \in DOMAIN Listed |-> ContractFor(input, Listed[k])]

CatalogVersion == "order_to_cash.v1"

Manifest(input) ==
  [ schemaOk |-> TRUE, tenant |-> Trim(input.tenant), id |-> Trim(input.id),
    catalog |-> CatalogVersion, keyId |-> Trim(input.keyId), issued |-> input.issued,
    expires |-> input.expires, contracts |-> Contracts(input),
    hash |-> NoHash, sig |-> NoSignature ]

\* The tenant signs the manifest with a key of its own.
PackDocuments == {SignManifest(Manifest(input), input.key) : input \in ManifestInputs}

ServiceCatalogID(id) == 10 + id

\* A schema as an entry carries it; types and required are what a reader of
\* the JSON learns from it.
SchemaJSON(id) ==
  [ bytes |-> 1, json |-> TRUE,
    keys |-> {"type", "required", "properties", "additionalProperties"}
               \cup DOMAIN PayloadSchema(id).types,
    strings |-> {"object", "string", "number", "array"} \cup PayloadSchema(id).required,
    required |-> PayloadSchema(id).required, types |-> PayloadSchema(id).types ]

\* An option may be absent.  A replacement that is a contract of the pack
\* stands for that contract's entry.
ServiceCatalogEntry(tenant, options, id) ==
  LET state == IF id \in DOMAIN options.state THEN Trim(options.state[id]) ELSE ""
      other == IF id \in DOMAIN options.replacement THEN options.replacement[id] ELSE 0
  IN  [ tenant |-> Trim(tenant), id |-> ServiceCatalogID(id), name |-> "plain", description |-> "",
        kind |-> interactions[id].kind, schema |-> SchemaJSON(id),
        version |-> "order_to_cash.schema.v1", actions |-> <<interactions[id].action>>,
        state |-> IF state = "" THEN "active" ELSE state,
        replacement |-> IF other \in Ids THEN ServiceCatalogID(other) ELSE other ]

ServiceCatalogEntries(tenant, options) ==
  {ServiceCatalogEntry(tenant, options, id) : id \in Ids}

-----------------------------------------------------------------------------
(* Payloads *)

\* A payload maps the keys of a JSON object to values, each its JSON type and
\* the strings and keys in it.  What is no object is <<>>: it names no kind.
StringOf(payload, key) ==
  IF key \in DOMAIN payload /\ payload[key].type = "string"
  THEN Trim(CHOOSE s \in payload[key].strings : TRUE) ELSE ""

\* The pack's own test: it also looks for addresses inside a text, and lets
\* credentials be.
TopologyKeys == {"endpoint", "host_ip"}
TopologyStrings == {"orders.internal", "call 10.0.0.8"}

packContainsPrivateTopology(payload) ==
  \E key \in DOMAIN payload :
    \/ key \in TopologyKeys
    \/ payload[key].keys \cap TopologyKeys # {}
    \/ payload[key].strings \cap TopologyStrings # {}

\* Faulty ValidatePayload: the keys the schema does not list are let through.
FaultyValidatePayloadOpen(id, payload) ==
  /\ StringOf(payload, "transaction_kind") = interactions[id].kind
  /\ StringOf(payload, "subject") # ""
  /\ ~packContainsPrivateTopology(payload)
  /\ PayloadSchema(id).required \subseteq DOMAIN payload

ValidatePayload(id, payload) ==
  LET schema == PayloadSchema(id) IN
  /\ StringOf(payload, "transaction_kind") = interactions[id].kind
  /\ StringOf(payload, "subject") # ""
  /\ ~packContainsPrivateTopology(payload)
  /\ schema.required \subseteq DOMAIN payload
  /\ \A key \in DOMAIN payload :
       key \in DOMAIN schema.types /\ payload[key].type = schema.types[key]

\* PayloadValidator: what the exchange resolved must be the compiled contract
\* behind the narrowed facade.
ValidateGatewayExchangePayload(contract, action, payload) ==
  /\ contract.id \in Ids
  /\ contract.version = 1
  /\ contract.schema = PayloadSchemaHash(contract.id)
  /\ action.action = "open_federation_transaction"
  /\ action.method = "OpenFederationTransaction"
  /\ action.idempotent
  /\ ~action.topologyAllowed
  /\ ValidatePayload(contract.id, payload)

-----------------------------------------------------------------------------
(* The pack in use *)

PackInit == CacheInit /\ catalog = <<>>

\* The pack's entries are published: those that are valid take the place of
\* what the catalog held under their ids.
Publish(tenant, options) ==
  LET valid == {e \in ServiceCatalogEntries(tenant, options) : ValidateEntry(e)} IN
  /\ catalog' = [id \in DOMAIN catalog \cup {e.id : e \in valid} |->
                   IF \E e \in valid : e.id = id THEN CHOOSE e \in valid : e.id = id
                                                 ELSE catalog[id]]
  /\ UNCHANGED cacheVars

PackNext ==
  \/ Tick /\ UNCHANGED catalog
  \/ \E doc \in PackDocuments : PutVerified(doc) /\ UNCHANGED catalog
  \/ \E tenant \in CatalogTenants, options \in CatalogOptions : Publish(tenant, options)

PackSpec == PackInit /\ [][PackNext]_packVars

-----------------------------------------------------------------------------
(* Properties *)

\* The contract of the pack an entry advertises.
Advertised(entry) == CHOOSE id \in Ids : interactions[id].action \in AllowedActions(entry.actions)

\* A payload with the given keys, filled in from what the entry advertises.
FilledIn(entry, keys) ==
  [key \in keys |->
     [ type |-> entry.schema.types[key], keys |-> {},
       strings |-> IF entry.schema.types[key] # "string" THEN {}
                   ELSE IF key = "transaction_kind" THEN {entry.kind} ELSE {"plain"} ]]

\* The exchange manifest the cache resolves contract id of manifest m to.
ResolvedTo(m, id) ==
  UNION {ResolveManifest(ReferenceTo(m, m.contracts[k])) :
           k \in {j \in DOMAIN m.contracts : m.contracts[j].id = id}}

\* Does the validator take the payload under a manifest the cache resolved?
Takes(x, payload) ==
  \E a \in DOMAIN x.actions : ValidateGatewayExchangePayload(x.contract, x.actions[a], payload)

\* Contracts, ServiceCatalogEntries, ResolveManifest and PayloadValidator: what
\* the catalog shows can be done.  However entries and manifests were
\* published, as long as a manifest of the pack has not expired, the contract
\* of every visible entry resolves in it, and so do the contracts its results
\* belong to; a payload filled in from the advertised schema, with or without
\* the optional properties, is taken; and whatever is taken fits that schema
\* and is taken under no other contract.
OffersAreHonoured ==
  \A h \in DOMAIN manifests : \A n \in DOMAIN catalog :
    LET m == manifests[h]
        e == catalog[n]
        id == Advertised(e)
        resolved == [k \in Ids |-> ResolvedTo(m, k)]
    IN  (m.catalog = CatalogVersion /\ nowMS < m.expires /\ VisibleState(e.state)) =>
          /\ \A k \in interactions[id].results : resolved[k] # {}
          /\ \E x \in resolved[id] :
               /\ Takes(x, FilledIn(e, e.schema.required))
               /\ Takes(x, FilledIn(e, DOMAIN e.schema.types))
               /\ \A p \in {q \in Payloads : Takes(x, q)} :
                    /\ e.schema.required \subseteq DOMAIN p
                    /\ \A key \in DOMAIN p :
                         key \in DOMAIN e.schema.types /\ p[key].type = e.schema.types[key]
                    /\ \A k \in Ids \ {id} : \A y \in resolved[k] : ~Takes(y, p)

=============================================================================

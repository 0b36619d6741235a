----------------------------- MODULE MCExchange -----------------------------
(* Small instances of GatewayExchange, ManifestCache and ApprovalRegistry. *)
EXTENDS GatewayExchangeOnce

CONSTANTS r1, r2

-----------------------------------------------------------------------------
(* Documents *)

Contract(id, action) ==
  [ id |-> id, version |-> 1, action |-> action, schema |-> 7, maxBytes |-> 2,
    idempotent |-> action # "get_service_catalog_view", links |-> {"link", ""},
    scopes |-> {action, ""}, topologyAllowed |-> FALSE, complete |-> TRUE ]

Draft(id, expires, contracts) ==
  [ schemaOk |-> TRUE, tenant |-> "local", id |-> id, catalog |-> "cat",
    keyId |-> "k1", issued |-> 1, expires |-> expires, contracts |-> contracts,
    hash |-> NoHash, sig |-> NoSignature ]

MCKeyring == ("k1" :> "pub1") @@ ("k2" :> "pub2")

V1 == SignManifest(Draft("v1", 4, <<Contract(1, "submit_purchase_order")>>), "pub1")
V2 == SignManifest(Draft("v2", 4, <<Contract(1, "submit_purchase_order")>>), "pub1")
View == SignManifest(Draft("view", 4, <<Contract(2, "get_service_catalog_view")>>), "pub1")

-----------------------------------------------------------------------------
(* Sessions and envelopes *)

Active == [ remoteTenant |-> "peer", remoteGateway |-> "gwp", localTenant |-> "local",
            localGateway |-> "gwl", link |-> "link", linkState |-> "active",
            killSwitch |-> FALSE ]

RefTo(doc, i) == ReferenceTo(normalizeManifest(doc), doc.contracts[i])

Envelope(id, idem, expires, action, ref) ==
  [ schemaOk |-> TRUE, id |-> id, idem |-> idem, expires |-> expires, link |-> "link",
    srcTenant |-> "peer", srcGateway |-> "gwp", dstTenant |-> "local", dstGateway |-> "",
    contract |-> ref, action |-> action,
    payload |-> [ encoding |-> "json",
                  size |-> IF action = "discover_contract_manifests" THEN 0 ELSE 1,
                  hashOk |-> TRUE, topology |-> FALSE ] ]

Order(id, idem, expires) ==
  Envelope(id, idem, expires, "submit_purchase_order", RefTo(V1, 1))

AllWired == { "manifests", "approvals", "payloads", "policy", "replay", "facade",
              "datachannel", "discovery", "audit" }

-----------------------------------------------------------------------------
(* Replay: duplicates, shared keys, restarts; the registry is not wired *)

ReplaySessions == { Active, [Active EXCEPT !.killSwitch = TRUE] }
ReplayEnvelopes ==
  LET discovery == Envelope("B", "", 3, "discover_contract_manifests", NoContractRef) IN
  { Order("A", "K", 3), Order("B", "K", 3),
    Envelope("A", "", 3, "establish_data_channel", NoContractRef),
    discovery, [discovery EXCEPT !.payload.size = 1] }
ReplayWirings == { AllWired \ {"approvals"}, AllWired \ {"approvals", "replay"} }
ReplayDocuments == {V1}
NoInputs == {}
OneCode == {"policy_denied"}

-----------------------------------------------------------------------------
(* Validity: approvals, withdrawals and pins race with a call, which may come *)
(* at the edges of the skew, of the manifest and of the type                  *)

ValidityEnvelopes ==
  { Order("A", "K", x) : x \in {0, 1, 6, 7} } \cup
  { Envelope("B", "", x, "get_service_catalog_view", NoContractRef) : x \in {1, 7} }
ValidityWirings == { AllWired, AllWired \ {"approvals"} }
ValidityDocuments == {V1, V2}
Record(m, state) == NewApprovalRecord(m, 1, state, {"link", ""}, {1, 2})
MCApprovals ==
  { Record(V1, "approved"), Record(V1, "revoked"), Record(V2, "approved") }
PinInput(m) == [ tenant |-> "local", link |-> "link", catalog |-> "cat", pack |-> 1,
                 hash |-> m.hash, evidence |-> TRUE ]
MCPins == { PinInput(V1), PinInput(V2) }

-----------------------------------------------------------------------------
(* Gates: one call, every kind of session, envelope and wiring *)

GateSessions ==
  { Active, [Active EXCEPT !.killSwitch = TRUE], [Active EXCEPT !.linkState = "suspended"],
    [Active EXCEPT !.link = ""], [Active EXCEPT !.remoteGateway = "other"] }
GateOrder == Order("A", "K", 3)
GateEnvelopes ==
  { GateOrder,
    [GateOrder EXCEPT !.schemaOk = FALSE],
    [GateOrder EXCEPT !.idem = ""],
    [GateOrder EXCEPT !.dstGateway = "gwx"],
    [GateOrder EXCEPT !.srcTenant = "other"],
    [GateOrder EXCEPT !.contract.schema = 8],
    [GateOrder EXCEPT !.contract = RefTo(View, 1)],
    [GateOrder EXCEPT !.payload.size = 3],
    [GateOrder EXCEPT !.payload.hashOk = FALSE],
    [GateOrder EXCEPT !.payload.topology = TRUE],
    [GateOrder EXCEPT !.contract = NoContractRef],
    Envelope("B", "", 3, "get_service_catalog_view", RefTo(View, 1)),
    Envelope("B", "", 3, "get_service_catalog_view", NoContractRef),
    Envelope("B", "", 3, "establish_data_channel", NoContractRef),
    Envelope("B", "", 3, "discover_contract_manifests", NoContractRef),
    [Envelope("B", "", 3, "discover_contract_manifests", NoContractRef)
       EXCEPT !.payload.size = 1] }
GateWirings == { AllWired } \cup { AllWired \ {part} : part \in AllWired }
GateDocuments == {V1, View}
GateApprovals == { Record(V1, "approved"), Record(View, "approved") }
GatePins == { PinInput(V1) }

=============================================================================

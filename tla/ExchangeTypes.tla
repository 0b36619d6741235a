---------------------------- MODULE ExchangeTypes ----------------------------
(***************************************************************************)
(* The vocabulary the exchange, the manifest cache and the approval        *)
(* registry share: actions, facade methods, denial codes, and the rules    *)
(* that compare an authenticated session with the envelope it carried.     *)
(*                                                                         *)
(* Identifiers are abstracted.  Contract identifiers, versions, schema     *)
(* hashes and pack versions are naturals, ordered as the source orders     *)
(* their strings, with 0 for the empty string; tenants, gateways, links    *)
(* and keys are strings with "" for the empty one.  Every identifier       *)
(* stands for the trimmed string: each entry point trims what it is given  *)
(* before it looks at it.                                                  *)
(***************************************************************************)
EXTENDS Primitives, FiniteSets

NoContractRef == [id |-> 0, version |-> 0, hash |-> NoHash, schema |-> 0]

-----------------------------------------------------------------------------
(* Actions and facade methods *)

\* The seven typed order-to-cash actions; one facade method serves them all.
O2CActions ==
  { "request_for_quote", "submit_quote", "submit_purchase_order",
    "confirm_order", "update_shipment_status", "issue_invoice",
    "update_payment_status" }

\* The exchange action names in the byte order of their strings.
ActionOrder ==
  << "confirm_order", "create_federation_room", "deliver_builder_work_result",
     "discover_contract_manifests", "establish_data_channel",
     "get_service_catalog_view", "issue_invoice",
     "open_federation_transaction", "request_builder_work",
     "request_for_quote", "submit_federation_message",
     "submit_federation_result", "submit_purchase_order", "submit_quote",
     "update_payment_status", "update_shipment_status" >>

Actions == { ActionOrder[i] : i \in DOMAIN ActionOrder }

ActionRank(a) == CHOOSE i \in DOMAIN ActionOrder : ActionOrder[i] = a

\* The facade methods the handler may dispatch to.
allowedFacadeMethods ==
  { "GetServiceCatalogView", "OpenFederationTransaction",
    "CreateFederationRoom", "SubmitFederationMessage", "RequestBuilderWork",
    "SubmitFederationResult", "DeliverBuilderWorkResult",
    "SubmitCommercialEvent", "EstablishDataChannel" }

DenialCodes ==
  { "unauthenticated", "partner_link_denied", "contract_unknown",
    "contract_mismatch", "replay_detected", "replay_unavailable",
    "payload_invalid", "expired", "gateway_unavailable", "policy_denied",
    "kill_switch" }

-----------------------------------------------------------------------------
(* Session and envelope *)

\* The tenant names the source treats as one another's aliases.
TenantAliases ==
  { {"oldco", "uuid-dd0001"}, {"gcpco", "uuid-ee0001"},
    {"org-awsco", "uuid-ee0001"}, {"azureco", "uuid-aa0001"},
    {"uuid-dd0001", "uuid-aa0001"} }

GatewayAliases == { {"gw-3b886348", "gw-e9042823"} }

tenantMatch(e, s) == e = s \/ {e, s} \in TenantAliases

\* An empty destination gateway addresses the organisation, so any gateway of
\* the tenant may take it.
gatewayMatch(e, s) == e = "" \/ e = s \/ {e, s} \in GatewayAliases

sessionMatchesEnvelope(s, e) ==
  /\ "" \notin { s.remoteTenant, s.remoteGateway, s.localTenant,
                 s.localGateway, s.link, e.link }
  /\ s.link = e.link
  /\ tenantMatch(e.srcTenant, s.remoteTenant)
  /\ e.srcGateway = s.remoteGateway
  /\ tenantMatch(e.dstTenant, s.localTenant)
  /\ gatewayMatch(e.dstGateway, s.localGateway)

\* A payload is its encoding, its size, whether the declared hash is that of
\* the bytes, and whether decoding it meets private topology (or fails).
containsPrivateTopology(p) ==
  p.size > 0 /\ p.encoding \in {"", "json"} /\ p.topology

validatePayload(e, act) ==
  /\ act.encoding # "" => e.payload.encoding = act.encoding
  /\ act.maxBytes > 0 => e.payload.size <= act.maxBytes
  /\ e.payload.hashOk
  /\ ~act.topologyAllowed => ~containsPrivateTopology(e.payload)

partnerLinkAllowed(act, link) == link \in act.links

=============================================================================

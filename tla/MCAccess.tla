------------------------------- MODULE MCAccess -------------------------------
(* Small instance of ServiceAccess: two services and a malformed name, a       *)
(* trusted and an untrusted issuer.                                            *)
EXTENDS ServiceAccess

MCResources == { <<"org", "a">>, <<"org", "b">>, <<"org", "">> }
MCTrusted == [id \in {"sa-v1"} |-> "pub1"]
MCIssuers == { [id |-> "sa-v1", key |-> "pub1"], [id |-> "sa-v9", key |-> "pub9"] }

=============================================================================

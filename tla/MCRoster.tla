------------------------------- MODULE MCRoster -------------------------------
(* Small instances of PeerRoster: two daemons, two relays. *)
EXTENDS PeerRoster

Draft(key, wg, ip, issued) ==
  [key |-> key, wg |-> wg, ip |-> ip, name |-> "relay", issued |-> issued, pop |-> NoPoP]

MCIdentity == <<"one", "two">>    \* daemon 1 holds mesh key 1, daemon 2 key 2

\* A daemon registers, registers again at the same time with another tunnel
\* key, and later moves; another daemon registers; one claim is malformed.
MCDrafts ==
  { Draft(1, 10, <<1, 2>>, 1), Draft(1, 12, <<1, 1>>, 1), Draft(1, 11, <<2, 1>>, 2),
    Draft(2, 20, <<2, 1>>, 1), Draft(2, 0, <<2, 1>>, 1) }

\* An order of proofs that is not the order of time: the later is smaller.
MCRank(pop) ==
  LET c == pop.over[1] IN 1000 * c[3] + 100 * c[4][1] + 10 * (9 - c[6]) + c[2]

MCSigners == { [id |-> "mk-v1", key |-> "pub1"], [id |-> "mk-v9", key |-> "pub9"] }
MCTrusted == [id \in {"mk-v1"} |-> "pub1"]

MCTombstones == { <<>>, <<1, 1>>, <<0>> }
OneSigner == { [id |-> "mk-v1", key |-> "pub1"] }
OneTombstone == { <<>>, <<1, 1>> }
OneTTL == {1}

\* Lifetimes that end at the largest time, and past it.
MCTTLs == {0, 1, 3}

=============================================================================

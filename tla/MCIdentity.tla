----------------------------- MODULE MCIdentity -----------------------------
(* Small instance of the identity package: the certificate providers, and the *)
(* path of a certificate from request to handshake.  They share no state, and *)
(* a behaviour is one of the two.                                             *)
EXTENDS WorkloadCA, MutualTLS

VARIABLE part

IdentityInit ==
  /\ CAInit /\ TLSInit
  /\ part \in {"providers", "transport"}
  /\ part = "transport" => kind = "localfs" /\ handed = NoAuthority

IdentityNext ==
  \/ part = "providers" /\ CANext /\ UNCHANGED << tlsVars, part >>
  \/ part = "transport" /\ TLSNext /\ UNCHANGED << caVars, part >>

IdentitySpec == IdentityInit /\ [][IdentityNext]_<< caVars, tlsVars, part >>

-----------------------------------------------------------------------------
(* Texts: blank and padded ones, one cut by a mark, and percent escapes, of   *)
(* which the last is no escape at all                                         *)

MCTexts ==
  Words \cup {" ", " a ", "a ", " a", "a", "b", "c", "n", "n ", "n?x", "p", "q", "p%2Fq", "%zz",
              "s", "t", "srv"}

MCTrimLeft == [t \in MCTexts |-> CASE t = " " -> "" [] t = " a " -> "a " [] t = " a" -> "a"
                                  [] OTHER -> t]
MCTrimRight == [t \in MCTexts |-> CASE t = " " -> "" [] t = " a " -> " a" [] t = "a " -> "a"
                                   [] t = "n " -> "n" [] OTHER -> t]
MCBeforeMark == [t \in MCTexts |-> IF t = "n?x" THEN "n" ELSE t]
MCUnescape == [t \in MCTexts |-> IF t = "p%2Fq" THEN <<"p", "q">> ELSE <<t>>]
MCURLRefuses(path) == \E k \in DOMAIN path : path[k] = <<"%zz">>

-----------------------------------------------------------------------------
(* Providers: what is asked of them, and the authorities they start with *)

Ask(uris, ttl) == [profile |-> "client", cn |-> "w", dns |-> {}, uris |-> uris, ttl |-> ttl]
SpiffeID(host) == Written("spiffe", host, <<>>, FALSE)

MCRequests ==
  { Ask(<<SpiffeID("builders-net")>>, 0), Ask(<<SpiffeID("builders-net")>>, 1),
    Ask(<<[SpiffeID("builders-net") EXCEPT !.lead = TRUE]>>, 5),  \* after a blank
    Ask(<<SpiffeID("builders-net")>>, 5),
    Ask(<<SpiffeID("other")>>, 2),      \* outside the trust domain
    Ask(<<BlankURI>>, 2) }              \* no SAN left

Old == NewAuthority(1, 1, 0, 0)

MCHanded ==
  { NoAuthority, Old,
    [Old EXCEPT !.key = NoKey], [Old EXCEPT !.cert = NoCert],
    LoadCertificateAuthority(Old.cert, 2) }  \* the key of another

-----------------------------------------------------------------------------
(* Transport: an authority that outlasts the clock and one that does not *)

New == NewAuthority(2, 2, 0, 1)
MCAuthorities == { Old, New, LoadCertificateAuthority(Old.cert, 2) }

Gateway(tenant, gateway, principal) ==
  [kind |-> "gateway", tenant |-> tenant, gateway |-> gateway, principal |-> principal]
Agent(tenant, node) == [kind |-> "agent", tenant |-> tenant, project |-> <<"p">>, node |-> node]
Runtime(workload) ==
  [kind |-> "runtime", tenant |-> <<"a">>, project |-> <<"p">>, session |-> <<"s">>,
   workload |-> workload]

Input(ids, cn, ttl) == [profile |-> "client", cn |-> cn, dns |-> {}, ids |-> ids, ttl |-> ttl]

MCCSRInputs == { Input(<<Agent(<<"a">>, <<"n">>)>>, "w", 0), Input(<<>>, "w", 0) }

\* Names with slashes and blanks; a node named "n/", a tenant "a/project/p", no
\* node at all, and names that are no plain text, pasted and escaped.
MCSignInputs ==
  { Input(<<Agent(<<"a">>, <<"n ">>), Gateway(<<"a", "gateway", "b">>, <<"n?x">>, <<" ">>)>>, "", 2),
    Input(<<Agent(<<"a", "project", "p">>, <<"n">>), Agent(<<"b">>, <<"n", "">>)>>, "w", 2),
    Input(<<[Agent(<<"a", "project">>, <<"">>) EXCEPT !.project = <<"node">>], Runtime(<<"n">>)>>, "w", 2),
    Input(<<Agent(<<"a", "project", "p", "node", "n?x">>, <<"n">>)>>, "w", 0),
    Input(<<Agent(<<"p%2Fq">>, <<"n">>), Gateway(<<" a ">>, <<"b">>, <<"">>),
            Gateway(<<"%zz">>, <<"p%2Fq", "">>, <<"s", "", "t">>)>>, "w", 1),
    Input(<<Runtime(<<"%zz">>)>>, "w", 2) }

ServerOpts == [profile |-> "server", cn |-> "srv", dns |-> {"srv"}, uris |-> <<>>, ttl |-> 2]
Pair(result) == [cert |-> result.cert, key |-> result.key]
Pinned == Pair(GenerateSelfSignedServerCertificate(ServerOpts, 6, 6, 0))

MCServerPairs ==
  { Pair(IssueCertificate(Old, ServerOpts, 5, 5, 0)), Pinned, [Pinned EXCEPT !.key = 5] }

MCPools == { {}, {Old.cert}, {Old.cert, New.cert}, {Pinned.cert} }

=============================================================================

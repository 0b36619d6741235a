----------------------------- MODULE SpiffeNames -----------------------------
(***************************************************************************)
(* The SPIFFE URIs that carry a component's identity in its certificate:   *)
(* how identity.go writes an identity into a URI and reads it back.        *)
(*                                                                         *)
(* A name is the sequence of the texts between its slashes, and the path of*)
(* a URI a sequence of names, as URITexts has them.  A name that is escaped*)
(* (url.PathEscape) is one segment, whatever it is made of; one that is    *)
(* pasted in as it stands is a segment for each of its texts.              *)
(***************************************************************************)
EXTENDS URITexts

\* The identities components have.
Identities ==
  [kind : {"runtime"}, tenant : Names, project : Names, session : Names, workload : Names]
  \cup [kind : {"agent"}, tenant : Names, project : Names, node : Names]
  \cup [kind : {"gateway"}, tenant : Names, gateway : Names, principal : Names]

trustDomain == "builders-net"
RelayHost == "relay.b2bautopilot.com"

\* SPIFFE IDs with their names pasted in, and escaped.
Spiffe(path) == Written("spiffe", trustDomain, path, FALSE)
SpiffeEscaped(path) == Written("spiffe", trustDomain, path, TRUE)

\* A name pasted into a path, and one escaped into it; a word of the scheme
\* is a name of one piece.
Pasted(name) == [i \in DOMAIN name |-> <<name[i]>>]
Escaped(name) == << name >>
Word(w) == << <<w>> >>

RuntimeURI(i) ==
  Spiffe(Word("runtime") \o Word("tenant") \o Pasted(i.tenant) \o Word("project")
         \o Pasted(i.project) \o Word("session") \o Pasted(i.session)
         \o Word("workload") \o Pasted(i.workload))

AgentURI(i) ==
  Spiffe(Word("agent") \o Word("tenant") \o Pasted(i.tenant) \o Word("project")
         \o Pasted(i.project) \o Word("node") \o Pasted(i.node))

GatewayURI(i) ==
  SpiffeEscaped(
    Word("federation-gateway") \o Word("tenant") \o Escaped(i.tenant)
      \o Word("gateway") \o Escaped(i.gateway)
      \o (IF Blank(i.principal) THEN <<>>
          ELSE Word("service-principal") \o Escaped(i.principal)))

URIOf(id) ==
  CASE id.kind = "runtime" -> RuntimeURI(id)
    [] id.kind = "agent" -> AgentURI(id)
    [] id.kind = "gateway" -> GatewayURI(id)

\* strings.Split(strings.Trim(path, "/"), "/"): no empty part at either end.
TrimSlashes(parts, empty) ==
  LET kept == {k \in DOMAIN parts : parts[k] # empty}
  IN  IF kept = {} THEN << empty >> ELSE SubSeq(parts, Min(kept), Max(kept))

\* uri.Path is decoded, so that the slashes an escape stood for split it too;
\* uri.EscapedPath() is not.
Decoded(path) ==
  LET pieces[n \in 0..Len(path)] == IF n = 0 THEN <<>> ELSE pieces[n - 1] \o path[n]
  IN  pieces[Len(path)]
PathParts(uri) == TrimSlashes(Decoded(uri.path), "")
EscapedParts(uri) == TrimSlashes(uri.path, <<"">>)

NoIdentity == [kind |-> "none"]

\* Component comp's wanted number of parts, none of them padded.
identityParts(uri, comp, want) ==
  /\ uri.scheme = "spiffe" /\ uri.host = trustDomain
  /\ Len(PathParts(uri)) = want
  /\ PathParts(uri)[1] = comp
  /\ \A k \in 1..want : ~Padded(<<PathParts(uri)[k]>>)

parseRuntimeURI(uri) ==
  LET p == PathParts(uri)
  IN  IF /\ identityParts(uri, "runtime", 9)
         /\ <<p[2], p[4], p[6], p[8]>> = <<"tenant", "project", "session", "workload">>
         /\ "" \notin {p[3], p[5], p[7], p[9]}
      THEN [kind |-> "runtime", tenant |-> <<p[3]>>, project |-> <<p[5]>>,
            session |-> <<p[7]>>, workload |-> <<p[9]>>]
      ELSE NoIdentity

parseAgentURI(uri) ==
  LET p == PathParts(uri)
  IN  IF /\ identityParts(uri, "agent", 7)
         /\ <<p[2], p[4], p[6]>> = <<"tenant", "project", "node">>
         /\ "" \notin {p[3], p[5], p[7]}
      THEN [kind |-> "agent", tenant |-> <<p[3]>>, project |-> <<p[5]>>, node |-> <<p[7]>>]
      ELSE NoIdentity

\* A gateway of the relay's fabric: its names are taken as they are, empty or
\* not, and its service principal is made from the tenant's name.
parseRelayURI(uri) ==
  LET p == EscapedParts(uri)
  IN  IF /\ Len(p) = 8
         /\ <<p[1], p[2], p[3], p[5], p[7]>>
              = Word("fabric") \o Word("b2bautopilot-fed") \o Word("org")
                  \o Word("gateway") \o Word("role")
      THEN [kind |-> "gateway", tenant |-> p[4], gateway |-> p[6],
            principal |-> <<"spn-">> \o p[4] \o <<"-gateway">>]
      ELSE NoIdentity

\* The blanks of an escaped part are escaped, so that the code's check of the
\* parts before they are unescaped never refuses; the one after it does.
parseGatewayURI(uri) ==
  LET p == EscapedParts(uri)
      principal == IF Len(p) = 7 THEN p[7] ELSE <<"">>
  IN  IF uri.scheme # "spiffe" THEN NoIdentity
      ELSE IF uri.host = RelayHost THEN parseRelayURI(uri)
      ELSE IF /\ uri.host = trustDomain
              /\ Len(p) \in {5, 7}
              /\ <<p[1], p[2], p[4]>>
                   = Word("federation-gateway") \o Word("tenant") \o Word("gateway")
              /\ Len(p) = 7 => p[6] = <<"service-principal">> /\ p[7] # <<"">>
              /\ p[3] # <<"">> /\ p[5] # <<"">>
              /\ ~Padded(p[3]) /\ ~Padded(p[5]) /\ ~Padded(principal)
           THEN [kind |-> "gateway", tenant |-> p[3], gateway |-> p[5],
                 principal |-> principal]
      ELSE NoIdentity

\* The first URI of a certificate that reads as an identity of the kind asked
\* for; NoIdentity when there is none.
IdentityFromCertificate(uris, kind) ==
  LET read(u) == CASE kind = "runtime" -> parseRuntimeURI(u)
                   [] kind = "agent" -> parseAgentURI(u)
                   [] kind = "gateway" -> parseGatewayURI(u)
      hits == {k \in DOMAIN uris : read(uris[k]) # NoIdentity}
  IN  IF hits = {} THEN NoIdentity ELSE read(uris[Min(hits)])

\* A URI keeps no blanks at its end, where the last name of an agent or a
\* runtime stands.
TrimEnd(name) == [name EXCEPT ![Len(name)] = TrimRight[@]]

\* An identity as it is meant to be read back: the URI of an agent or a runtime
\* does not keep blanks or slashes at the end of its last name, nor that of a
\* gateway a blank service principal.
Readable(id) ==
  CASE id.kind = "agent" -> [id EXCEPT !.node = TrimSlashes(TrimEnd(@), "")]
    [] id.kind = "runtime" -> [id EXCEPT !.workload = TrimSlashes(TrimEnd(@), "")]
    [] id.kind = "gateway" -> IF Blank(id.principal) THEN [id EXCEPT !.principal = <<"">>] ELSE id

\* The last name of an agent or a runtime is empty or blank, or slashes only.
Nameless(id) ==
  \/ id.kind = "agent" /\ \A k \in DOMAIN id.node : TrimEnd(id.node)[k] = ""
  \/ id.kind = "runtime" /\ \A k \in DOMAIN id.workload : TrimEnd(id.workload)[k] = ""

\* Some name pasted into the URI of an agent or a runtime holds a question mark,
\* a hash or a percent escape, which the URI does not take for part of a name.
Unplain(id) ==
  LET odd(name) == \E k \in DOMAIN name : ~Plain(name[k])
  IN  \/ id.kind = "agent" /\ (odd(id.tenant) \/ odd(id.project) \/ odd(id.node))
      \/ id.kind = "runtime" /\ (\/ odd(id.tenant) \/ odd(id.project)
                                 \/ odd(id.session) \/ odd(id.workload))

=============================================================================

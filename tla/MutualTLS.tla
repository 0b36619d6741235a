------------------------------- MODULE MutualTLS -------------------------------
(***************************************************************************)
(* A component gets a certificate from a request, checks what came back,   *)
(* and connects to a server that verifies it.  The server reads its key    *)
(* pair and its pool of client authorities once, when its credentials are  *)
(* built, and its revocation list (CRL) at every full handshake; the files *)
(* under it change at any time.  A client that kept its session may resume *)
(* it: tls.go leaves session tickets on, and crypto/tls does not call      *)
(* VerifyPeerCertificate again for a resumed session.                      *)
(***************************************************************************)
EXTENDS Certificates, SpiffeNames

CONSTANTS
  CSRInputs,    \* options of the requests components make
  SignInputs,   \* options of the signing authority, with the identities meant
  Authorities,  \* the authorities that sign, as LoadCertificateAuthority reads them
  ServerPairs,  \* certificate and key files of the server
  Pools,        \* contents of the CA files
  ServerName,   \* the name clients dial
  Windows,      \* values of MinValidFor
  MaxLeaves,    \* bounds: leaves signed, requests made, and the clock
  MaxCSRs,
  MaxClock

ASSUME TLSAssumption ==
  /\ Windows \subseteq Nat
  /\ \A pair \in ServerPairs : pair.cert.from \in Int /\ pair.cert.until \in Int
  /\ \A input \in SignInputs : input.ttl \in Int /\ input.ids \in Seq(Identities)

VARIABLES
  now,      \* the clock
  csrs,     \* requests made; their private keys stay with those who made them
  leaves,   \* certificates signed, with the identities the authority meant
  server,   \* the server's credentials, as loaded
  crlFile,  \* what its CRL file holds
  tickets,  \* sessions it would resume: the leaf, and the list it was let in under
  last      \* what the step just taken concluded

tlsVars == << now, csrs, leaves, server, crlFile, tickets, last >>

\* A revocation list names the serials it revokes and who signed it.  The file
\* may also be missing, or hold what does not parse.
NoList == [readable |-> FALSE, signer |-> NoKey, serials |-> {}]

Nothing == [what |-> "nothing"]

Down == [mode |-> "down", pair |-> [cert |-> NoCert, key |-> NoKey], pool |-> {}, crl |-> FALSE]

TLSInit ==
  /\ now = 0
  /\ csrs = {} /\ leaves = {}
  /\ server = Down
  /\ crlFile = NoList
  /\ tickets = {}
  /\ last = Nothing

URIsOf(ids) == [k \in DOMAIN ids |-> URIOf(ids[k])]

\* The options a call is made with, the identities written as URIs.
OptsOf(input) ==
  [ profile |-> input.profile, cn |-> input.cn, dns |-> input.dns,
    uris |-> URIsOf(input.ids), ttl |-> input.ttl ]

MakeCSR(input) ==
  LET csr == GenerateCertificateSigningRequest(OptsOf(input), 20 + Cardinality(csrs))
  IN  /\ Cardinality(csrs) < MaxCSRs
      /\ csrs' = csrs \cup ({csr} \ {NoCSR})
      /\ last' = Nothing
      /\ UNCHANGED << now, leaves, server, crlFile, tickets >>

\* The authority signs a request, as it was made or damaged on the way.
SignCSR(csr, damaged, input, ca) ==
  LET serial == 30 + Cardinality(leaves)
      seen == IF damaged THEN [csr EXCEPT !.signer = NoKey] ELSE csr
      result == SignCertificateRequest(ca, seen, OptsOf(input), serial, now)
  IN  /\ Cardinality(leaves) < MaxLeaves
      /\ leaves' = IF result.ok THEN leaves \cup {[cert |-> result.cert, ids |-> input.ids]}
                   ELSE leaves
      /\ last' = Nothing
      /\ UNCHANGED << now, csrs, server, crlFile, tickets >>

\* VerifyIssuedCertificateForCSR on a leaf and any request, against a CA file,
\* before anybody connects with it.
VerifyIssued(leaf, csr, pool, window) ==
  /\ server = Down
  /\ last' = IF VerifyIssuedCertificateForCSR("client", leaf.cert, csr, TRUE, pool, window, now)
             THEN [what |-> "verified", cert |-> leaf.cert, key |-> csr.key, pool |-> pool,
                   until |-> now + window]
             ELSE Nothing
  /\ UNCHANGED << now, csrs, leaves, server, crlFile, tickets >>

\* CheckCertificateMaterial on the server's files, before it starts with them.
CheckServerMaterial(pair, pool, window) ==
  /\ server = Down
  /\ last' = IF CheckCertificateMaterial("server", pair.cert, pair.key, pool, ServerName, window, now)
             THEN [what |-> "checked", cert |-> pair.cert, key |-> pair.key, pool |-> pool,
                   until |-> now + window]
             ELSE Nothing
  /\ UNCHANGED << now, csrs, leaves, server, crlFile, tickets >>

-----------------------------------------------------------------------------
(* Transport credentials *)

\* ServerTransportCredentials; a pair that does not match or a CA file without
\* certificates is an error, and the server does not start.
ServerTransportCredentials(pair, pool, crl) ==
  IF LoadX509KeyPair(pair.cert, pair.key) /\ pool # {}
  THEN [mode |-> "mtls", pair |-> pair, pool |-> pool, crl |-> crl] ELSE Down

\* ServerTLSOnlyCredentials: no client certificate is asked for.
ServerTLSOnlyCredentials(pair) ==
  IF LoadX509KeyPair(pair.cert, pair.key)
  THEN [mode |-> "oneway", pair |-> pair, pool |-> {}, crl |-> FALSE] ELSE Down

\* The keys of the session tickets are the running server's own.
StartServer(credentials) ==
  /\ server' = credentials /\ tickets' = {}
  /\ last' = Nothing
  /\ UNCHANGED << now, csrs, leaves, crlFile >>

\* Faulty VerifyPeerCertificate: who signed the list is not looked at.
FaultyVerifyPeerAnyList(list, chains) ==
  list.readable /\ \A chain \in chains : chain[1].serial \notin list.serials

\* The callback on a verified peer: the list is read anew, must be signed by
\* the leaf's issuer in every chain that has one, and must not name the leaf.
VerifyPeerCertificate(list, chains) ==
  /\ list.readable
  /\ \A chain \in chains :
       /\ Len(chain) > 1 => list.signer = chain[2].key
       /\ chain[1].serial \notin list.serials

\* The client's side of the handshake: its own pair loads, and the server's
\* certificate chains to the client's roots, for the name it dials.
ClientAccepts(cert, key, roots) ==
  /\ LoadX509KeyPair(cert, key) /\ roots # {}
  /\ verifyCertificateChain(roots, server.pair.cert, "server", now)
  /\ ServerName \in server.pair.cert.dns

ServerAccepts(cert) ==
  /\ verifyCertificateChain(server.pool, cert, "client", now)
  /\ server.crl => VerifyPeerCertificate(crlFile, Chains(cert, server.pool, now))

\* What a handler can learn of an admitted peer is what its certificate says, by
\* kind.
Admitted(session, resumed) ==
  [ what |-> "admitted", leaf |-> session.leaf, list |-> session.list, resumed |-> resumed,
    as |-> [kind \in {"runtime", "agent", "gateway"}
              |-> IdentityFromCertificate(session.leaf.cert.uris, kind)] ]

\* A client connects with a leaf and the private key of a request: a full
\* handshake.  With one-way TLS there is no certificate to read.
Connect(leaf, csr, roots) ==
  LET welcome == ClientAccepts(leaf.cert, csr.key, roots)
      admitted == welcome /\ server.mode = "mtls" /\ ServerAccepts(leaf.cert)
      session == [leaf |-> leaf, list |-> IF server.crl THEN crlFile ELSE NoList]
  IN  /\ server.mode # "down"
      /\ tickets' = IF admitted THEN tickets \cup {session} ELSE tickets
      /\ last' = IF admitted THEN Admitted(session, FALSE)
                 ELSE IF welcome /\ server.mode = "oneway" THEN [what |-> "anonymous"]
                 ELSE Nothing
      /\ UNCHANGED << now, csrs, leaves, server, crlFile >>

\* A client resumes a session.  The clients of this package keep none; others may.
\* crypto/tls looks at the expiry of the leaf, and in its later versions at the
\* rest of the chain, and gives a ticket seven days: both only resume less.
Resume(session) ==
  /\ now <= session.leaf.cert.until
  /\ last' = Admitted(session, TRUE)
  /\ UNCHANGED << now, csrs, leaves, server, crlFile, tickets >>

-----------------------------------------------------------------------------
(* Files and time, outside the code *)

ReplaceCRL(list) ==
  /\ crlFile' = list /\ last' = Nothing
  /\ UNCHANGED << now, csrs, leaves, server, tickets >>

Tick ==
  /\ now < MaxClock
  /\ now' = now + 1 /\ last' = Nothing
  /\ UNCHANGED << csrs, leaves, server, crlFile, tickets >>

Lists ==
  {NoList} \cup [ readable : {TRUE}, signer : {a.key : a \in Authorities},
                  serials : {{}} \cup {{l.cert.serial} : l \in leaves} ]

TLSNext ==
  \/ \E input \in CSRInputs : MakeCSR(input)
  \/ \E csr \in csrs, damaged \in BOOLEAN, input \in SignInputs, ca \in Authorities :
       SignCSR(csr, damaged, input, ca)
  \/ \E leaf \in leaves, csr \in csrs, pool \in Pools, window \in Windows :
       VerifyIssued(leaf, csr, pool, window)
  \/ \E pair \in ServerPairs, pool \in Pools, window \in Windows :
       CheckServerMaterial(pair, pool, window)
  \/ \E pair \in ServerPairs, pool \in Pools, crl \in BOOLEAN :
       StartServer(ServerTransportCredentials(pair, pool, crl))
  \/ \E pair \in ServerPairs : StartServer(ServerTLSOnlyCredentials(pair))
  \/ \E leaf \in leaves, csr \in csrs, roots \in Pools : Connect(leaf, csr, roots)
  \/ \E session \in tickets : Resume(session)
  \/ \E list \in Lists : ReplaceCRL(list)
  \/ Tick

TLSSpec == TLSInit /\ [][TLSNext]_tlsVars

-----------------------------------------------------------------------------
(* Properties *)

\* Whoever a handler takes its peer for, the authority that signed the peer's
\* certificate meant it to be: never what the request asked for, never an
\* identity of another kind, and never one whose names other names run into
\* when they are written into a URI.  The URI of a gateway, whose names are
\* escaped, has no exception.  That of an agent or a runtime has two, and what
\* is read is then another agent, or runtime, than was meant.  Its last name is
\* empty: with the slash trimmed, the word before it is read for it, and the
\* slashes of the other names make up the count.  Or one of its names, pasted in
\* as it stands, holds a question mark or a hash, where the path ends, or a
\* percent escape, which is decoded.
AdmittedIdentityWasMeant ==
  last.what = "admitted" =>
    \A kind \in DOMAIN last.as :
      \/ last.as[kind] = NoIdentity
      \/ last.as[kind] \in {Readable(id) : id \in Elements(last.leaf.ids)}
      \/ \E id \in Elements(last.leaf.ids) : id.kind = kind /\ (Nameless(id) \/ Unplain(id))

\* With a CRL configured, every admitted peer was once let in, by the server that
\* is running now, under a list that could be read, that did not name it and that
\* its own issuer had signed (unless the leaf itself is one of the server's
\* trusted certificates), and its leaf has not expired since.  At a full handshake
\* that list is the one in force.  A resumed session is not looked up again: a
\* list that names the peer since does not end it, a restart or the leaf's expiry
\* does.
AdmissionsObeyTheirList ==
  last.what = "admitted" /\ server.crl =>
    LET cert == last.leaf.cert
        list == last.list
    IN  /\ list.readable
        /\ cert.serial \notin list.serials
        /\ list.signer = cert.signer \/ cert \in server.pool
        /\ now <= cert.until
        /\ last.resumed \/ list = crlFile

\* What the two checking commands accept is accepted by the code that loads and
\* verifies it, at once and for as long as the rotation window they checked:
\* the pair loads; and for a returned leaf, a server that trusts the same CA
\* file verifies it until the window ends or the authority itself expires.
ChecksPredictService ==
  /\ last.what \in {"verified", "checked"} =>
       /\ LoadX509KeyPair(last.cert, last.key)
       /\ \A t \in now..last.until : ValidAt(last.cert, t)
  /\ last.what = "checked" =>
       ServerTransportCredentials([cert |-> last.cert, key |-> last.key], last.pool, FALSE) # Down
  /\ last.what = "verified" =>
       \A t \in now..last.until :
         \/ verifyCertificateChain(last.pool, last.cert, "client", t)
         \/ \E ca \in last.pool : ca.key = last.cert.signer /\ ~ValidAt(ca, t)

=============================================================================

----------------------------- MODULE Certificates -----------------------------
(***************************************************************************)
(* X.509 material as the identity package makes, signs, checks and loads   *)
(* it.  A certificate records the key it binds, the key that signed it, its*)
(* names, its one extended usage and its validity; a request (CSR) the same*)
(* without the validity.  crypto/x509 is modelled from how it is used here.*)
(*                                                                         *)
(* Keys and serials are drawn by the caller of each operator, fresh.  The  *)
(* failures of crypto/rand and of the PEM and PKCS#8 encoders end in the   *)
(* same refusal as the checks do.                                          *)
(***************************************************************************)
EXTENDS Integers, URITexts

CONSTANTS
  DefaultCATTL,   \* lifetime of an authority nobody gave a lifetime: 365 days
  DefaultLeafTTL  \* and of a leaf: 90 days

ASSUME CertificateAssumption == DefaultCATTL \in Nat /\ DefaultLeafTTL \in Nat

NoKey == 0
Profiles == {"server", "client"}

NoCert ==
  [ serial |-> 0, key |-> NoKey, signer |-> NoKey, isCA |-> FALSE, usage |-> "",
    cn |-> "", dns |-> {}, uris |-> <<>>, from |-> 0, until |-> 0 ]

\* What an issuing call returns: a leaf, with its private key when the call
\* made it, or an error.
Refused == [ok |-> FALSE, cert |-> NoCert, key |-> NoKey]
Issued(cert, key) == [ok |-> TRUE, cert |-> cert, key |-> key]

\* Blanks are trimmed, and what nothing is left of is dropped.
cleanStrings(names) == {TrimLeft[TrimRight[n]] : n \in names} \ {""}
cleanURIs(uris) ==
  LET out[n \in 0..Len(uris)] ==
        IF n = 0 THEN <<>>
        ELSE IF uris[n] = BlankURI THEN out[n - 1]
        ELSE Append(out[n - 1], trimURI(uris[n]))
  IN  out[Len(uris)]
parseURIs(uris) ==
  LET clean == cleanURIs(uris) IN [k \in DOMAIN clean |-> urlParse(clean[k])]

Elements(seq) == {seq[k] : k \in DOMAIN seq}

ttlOr(ttl, default) == IF ttl <= 0 THEN default ELSE ttl

\* x509.CreateCertificate: the template, signed for a public key.  It refuses a
\* private key that is not the parent's.
CreateCertificate(template, parentKey, publicKey, privateKey) ==
  IF parentKey # privateKey THEN NoCert
  ELSE [template EXCEPT !.key = publicKey, !.signer = privateKey]

NewAuthority(key, serial, now, ttl) ==
  [ cert |-> [NoCert EXCEPT !.serial = serial, !.key = key, !.signer = key,
                !.isCA = TRUE, !.cn = "ca", !.from = now,
                !.until = now + ttlOr(ttl, DefaultCATTL)],
    key |-> key ]

NoAuthority == [cert |-> NoCert, key |-> NoKey]

\* Reads the two files of an authority.  Nothing checks that the key is the
\* certificate's.
LoadCertificateAuthority(certFile, keyFile) ==
  IF certFile # NoCert /\ certFile.isCA /\ keyFile # NoKey
  THEN [cert |-> certFile, key |-> keyFile] ELSE NoAuthority

-----------------------------------------------------------------------------
(* Issuing *)

\* The SANs of a leaf come only from the caller's options.
newLeafTemplate(opts, cn, serial, now) ==
  LET dns == cleanStrings(opts.dns)
      uris == parseURIs(opts.uris)
  IN  IF \/ BrokenURI \in Elements(uris)
         \/ opts.profile \notin Profiles
         \/ opts.profile = "server" /\ dns = {}
         \/ opts.profile = "client" /\ uris = <<>>
      THEN NoCert
      ELSE [NoCert EXCEPT !.serial = serial, !.usage = opts.profile, !.cn = cn,
              !.dns = dns, !.uris = uris, !.from = now,
              !.until = now + ttlOr(opts.ttl, DefaultLeafTTL)]

\* The leaf of options opts under authority ca, for a public key.
Sign(ca, opts, cn, publicKey, serial, now) ==
  LET template == newLeafTemplate(opts, cn, serial, now)
      cert == CreateCertificate(template, ca.cert.key, publicKey, ca.key)
  IN  IF \/ ca.cert = NoCert \/ ca.key = NoKey
         \/ cn = "" \/ template = NoCert \/ cert = NoCert
      THEN NoCert ELSE cert

IssueCertificate(ca, opts, key, serial, now) ==
  LET cert == Sign(ca, opts, opts.cn, key, serial, now)
  IN  IF cert = NoCert THEN Refused ELSE Issued(cert, key)

\* Faulty SignCertificateRequest: the URIs are the ones the request asks for.
FaultySignRequestedURIs(ca, csr, opts, serial, now) ==
  LET cn == IF opts.cn = "" THEN csr.cn ELSE opts.cn
      cert == Sign(ca, opts, cn, csr.key, serial, now)
  IN  IF csr.key = NoKey \/ csr.signer # csr.key \/ cert = NoCert
      THEN Refused ELSE Issued([cert EXCEPT !.uris = csr.uris], NoKey)

\* Signs somebody else's request: its key, its common name when the options
\* give none, and nothing else of what it asks.  The key stays with them.
SignCertificateRequest(ca, csr, opts, serial, now) ==
  LET cn == IF opts.cn = "" THEN csr.cn ELSE opts.cn
      cert == Sign(ca, opts, cn, csr.key, serial, now)
  IN  IF csr.key = NoKey \/ csr.signer # csr.key \/ cert = NoCert
      THEN Refused ELSE Issued(cert, NoKey)

\* A leaf that is its own issuer, for one-way TLS; at least one SAN.
GenerateSelfSignedServerCertificate(opts, key, serial, now) ==
  LET dns == cleanStrings(opts.dns)
  IN  IF opts.cn = "" \/ dns = {} THEN Refused
      ELSE Issued([NoCert EXCEPT !.serial = serial, !.key = key, !.signer = key,
                     !.usage = "server", !.cn = opts.cn, !.dns = dns, !.from = now,
                     !.until = now + ttlOr(opts.ttl, DefaultLeafTTL)], key)

NoCSR == [key |-> NoKey, signer |-> NoKey, cn |-> "", dns |-> {}, uris |-> <<>>, usage |-> ""]

GenerateCertificateSigningRequest(opts, key) ==
  LET dns == cleanStrings(opts.dns)
      uris == parseURIs(opts.uris)
  IN  IF \/ opts.profile \notin Profiles \/ opts.cn = ""
         \/ BrokenURI \in Elements(uris)
         \/ opts.profile = "server" /\ dns = {}
         \/ opts.profile = "client" /\ uris = <<>>
      THEN NoCSR
      ELSE [key |-> key, signer |-> key, cn |-> opts.cn, dns |-> dns, uris |-> uris,
            usage |-> opts.profile]

-----------------------------------------------------------------------------
(* Checking and loading *)

ValidAt(cert, now) == cert.from <= now /\ now <= cert.until

\* The chains crypto/x509 builds from a leaf to a pool of trusted certificates:
\* the leaf alone when it is itself in the pool, else the leaf and each
\* authority of the pool that signed it; all of it valid now.  The intermediate
\* certificates a file or a peer may send along are left out: no authority here
\* signs one.
Chains(leaf, pool, now) ==
  IF ~ValidAt(leaf, now) THEN {}
  ELSE IF leaf \in pool THEN {<<leaf>>}
  ELSE {<<leaf, ca>> : ca \in {c \in pool : c.isCA /\ c.key = leaf.signer /\ ValidAt(c, now)}}

\* x509.Verify takes a leaf without usages, or with "any", for every purpose.
AllowsUsage(leaf, usage) == leaf.usage \in {usage, "any", ""}
certificateHasExplicitUsage(leaf, usage) == leaf.usage \in {usage, "any"}

verifyCertificateChain(pool, leaf, profile, now) ==
  pool # {} /\ Chains(leaf, pool, now) # {} /\ AllowsUsage(leaf, profile)

\* Faulty VerifyIssuedCertificateForCSR: the rotation window is not looked at.
FaultyVerifyIssuedNoWindow(profile, leaf, csr, caFile, pool, minValidFor, now) ==
  /\ profile \in Profiles /\ leaf # NoCert /\ csr # NoCSR
  /\ csr.signer = csr.key /\ leaf.key = csr.key
  /\ csr.cn # "" => leaf.cn = csr.cn
  /\ leaf.from <= now /\ now < leaf.until
  /\ certificateHasExplicitUsage(leaf, profile) /\ csr.usage = profile
  /\ csr.dns \subseteq leaf.dns
  /\ Elements(csr.uris) \subseteq Elements(leaf.uris)
  /\ caFile => verifyCertificateChain(pool, leaf, profile, now)

\* The leaf a caller got back, against the request it sent.  pool is what the
\* CA file holds; no CA file, no chain.
VerifyIssuedCertificateForCSR(profile, leaf, csr, caFile, pool, minValidFor, now) ==
  /\ profile \in Profiles /\ leaf # NoCert /\ csr # NoCSR
  /\ csr.signer = csr.key
  /\ leaf.key = csr.key
  /\ csr.cn # "" => leaf.cn = csr.cn
  /\ leaf.from <= now /\ now < leaf.until
  /\ minValidFor > 0 => now + minValidFor <= leaf.until
  /\ profile = "server" => csr.dns # {}
  /\ profile = "client" => csr.uris # <<>>
  /\ certificateHasExplicitUsage(leaf, profile) /\ csr.usage = profile
  /\ csr.dns \subseteq leaf.dns
  /\ Elements(csr.uris) \subseteq Elements(leaf.uris)
  /\ caFile => verifyCertificateChain(pool, leaf, profile, now)

\* tls.LoadX509KeyPair refuses a key that is not the certificate's.
LoadX509KeyPair(certFile, keyFile) == certFile # NoCert /\ keyFile # NoKey /\ certFile.key = keyFile

\* The deep check of installed material: the pair, its window, its usage and,
\* for a server, its name.  The CA file only has to hold certificates.
CheckCertificateMaterial(profile, leaf, keyFile, pool, expectedDNS, minValidFor, now) ==
  /\ profile \in Profiles
  /\ LoadX509KeyPair(leaf, keyFile)
  /\ pool # {}
  /\ leaf.from <= now /\ now < leaf.until
  /\ minValidFor > 0 => now + minValidFor <= leaf.until
  /\ AllowsUsage(leaf, profile)
  /\ profile = "server" /\ expectedDNS # "" => expectedDNS \in leaf.dns

=============================================================================

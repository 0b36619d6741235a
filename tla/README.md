# Verification of xx-federation-contracts

TLA+ models of this module: the exchange through which federated gateways call
each other, the caches, registries and contract pack it consults, the signed
capabilities and rosters of the mesh fabric, the identities and certificates
its peers connect with, the keys that sign for them, and the commands that
leave release evidence. TLC checks every model on small instances; TLAPS proves
the results that matter most for all instances.

`PROJECT.json` maps every definition to the source lines it models, and lists
components, runs, mutants, findings, hazards and theorems.

## Inventory

| Part (source) | State | Operations | Talks to | What is hard |
|---|---|---|---|---|
| exchange handler (`contracts/exchange`) | replay cache; the call's own locals | `Handle`: three preflights, audit, dispatch; manifest discovery | manifest cache, approval registry, payload validator, policy, audit sink, facade | one goroutine per call; claims, approvals and expiry race; parties fail half-way; restarts empty the replay cache |
| manifest cache (`contracts/contractmanifest`) | manifests by hash | `Sign`, `Verify`, `PutVerified`, `ResolveManifest` | exchange | documents change hands before they are cached; expiry between caching and use; normalisation before hashing |
| approval registry (`contracts/contractapproval`) | records by hash, pins by tenant, link and catalog | `PutApproval`, `PutPin`, `Pin`, `AuthorizeContractApproval` | exchange, control plane | approvals, withdrawals and pins arrive in any order |
| manifest signing tool (`contracts/cmd/manifestsign`) | four files | `mint`, `sign` | manifest cache (through the files) | killed between or within writes, then run again |
| peer roster (`membershipcap`: meshregistration, assemble, peerroster) | verified claims (at the caller), signed rosters | `SignMeshRegistration`, `AsVerified`, `BuildFabricPeerRoster`, `SignFabricPeerRoster`, `Verify` | daemons, relays | order and ties of registrations, replays, delayed and altered rosters, overflow |
| membership fence (`membershipcap`: capability, revocation) | capabilities, lists | `Sign`, `Verify`, `SignRevocationList`, `Check` | control plane, connection gater | stale lists, duplicates, re-enrolment |
| service access (`serviceaccesscap`) | capabilities, tombstones | `Challenge`, `Sign`, `Verify`, `BindsPublicKey`, `AuthorizesResource`, `SignTombstone` | issuer, terminus | expiry against collection of tombstones; proofs and capabilities carried over |
| key material (`keymaterial`) | configuration, retained directories | providers and signers from configuration, trust sets from directories | issuers, verifiers | rotation, colliding key ids |
| order-to-cash pack, service catalog (`contracts/contractpacks`, `contracts/servicecatalog`) | none of their own; a manifest in the cache, entries in a catalog | manifest, entries, `ValidateEntry`, `ValidateGatewayExchangePayload` | manifest cache, exchange, catalog | three views of one table, published at different times |
| identity (`identity`) | a lazily generated CA; credentials loaded once; files | issue, sign and verify requests, trust roots, credentials, identities of peers | Vault, callers, TLS | unlocked first use; lifetimes; names that run into each other in a URI; lists and files that change under a server, sessions that outlive them |
| release (`release`) | files in an output directory | `version`, `release-manifest`, `acceptance-record`, `production-evidence` | file system | writes that stop half-way, runs that share a directory, two validations of one release |
| errors (`apperrors`) | none | | | |

Correctness properties, per part: *exchange*: an effect happens at most once,
behind every gate, with a truthful audit trail, and every call ends;
*manifests*: a hash stands for one authentic content; *approvals*: one version
per link, moved only by pins; *pack and catalog*: what the catalog offers is
honoured; *roster*: it is made of the freshest attested registrations, is
the same everywhere and lasts as long as was asked; *fence*: a lost peer is shut out within one list lifetime;
*service access*: what is revoked stays revoked, and nothing can be carried
over; *key ring*: rotation loses no retained key; *signing tool*: one
authority, matching outputs; *identity*: roots vouch for leaves, a peer is who
its signer meant, let in under the list then in force, and what is checked is
served; *release*: a reported fragment stands on its evidence, and nothing
unsafe is kept.

## Modules

| Module | Models | State and actions |
|---|---|---|
| `Primitives` | SHA-256, ed25519 | A digest is its content; a signature is the pair of key and content. Both are as strong as the code assumes. |
| `ExchangeTypes` | constants and pure helpers of `exchange` | actions, facade methods, denial codes, session and payload checks |
| `ManifestCache` | `contractmanifest` | `manifests`, `nowMS`; `PutVerified`, `Tick`; `ResolveManifest` is a query |
| `ApprovalRegistry` | `contractapproval` | `records`, `pins`; `PutApproval`, `PutPin`, `Pin`; `AuthorizeContractApproval` is a query |
| `GatewayExchange` | `Handler.Handle` and `MemoryReplayCache`, composed with the two above | `seen` and, for each call, its place, session, envelope, manifest, decision, audit records |
| `DispatchOnce` | what the exchange promises about effects | abstract specification that `GatewayExchange` implements |
| `OrderToCash`, `ServiceCatalog` | the contract pack and the validation of catalog entries, on top of `ManifestCache` | `catalog` beside the cache; `Publish` |
| `PeerRoster` | registration, assembly, rosters, relays | `sent`, `claims`, `published`, `applied` |
| `MembershipFence` | capabilities and revocation lists | `bindings`, `caps`, `lists`, `fence` |
| `ServiceAccess` | service capabilities and tombstones | `asked`, `caps`, `tombstones`, `revoked` |
| `KeyRing` | providers, signers of four purposes, two trust sets | `cfg`, `dir`, `signed`; `Retain`, `Switch`, `Discard`, `SignOne` |
| `ManifestSign` | `manifestsign` | the four files and the run in progress |
| `URITexts` | `strings.TrimSpace` and `url.Parse`, as the identity package uses them | pure |
| `SpiffeNames` | the SPIFFE URIs of `identity.go` | pure: writing and parsing |
| `Certificates` | `certissue.go`, `csrverify.go`, `certcheck.go` | pure: issuing, signing and checking |
| `WorkloadCA` | the three providers of `provider.go` | `localCA` and the calls of several goroutines |
| `MutualTLS` | `tls.go`, with requests, leaves and peers | `server`, `crlFile`, `tickets`, `csrs`, `leaves`, the clock |
| `ReleaseRecords` | validation and building in `release` | pure |
| `EvidenceStore` | the two evidence commands | `runs`, `disk`; one step per file |
| `GatewayExchangeOnce` | the refinement mapping from `GatewayExchange` to `DispatchOnce` | |
| `Clock` | the clock in milliseconds of the modules that have one | `nowMS`, `MaxTime` |
| `GatewayExchangeProofs`, `GatewayExchangeGates`, `GatewayExchangeRefines` | proofs about `GatewayExchange`; the last holds the refinement | |
| `ControlPlaneProofs` | proofs about `ApprovalRegistry`, `ManifestSign`, `PeerRoster` | |
| `SignedRecordProofs` | proofs about `ManifestCache`, `OrderToCash`, `MembershipFence`, `KeyRing` | |
| `AccessEvidenceProofs` | proofs about `ServiceAccess`, `ReleaseRecords`, `EvidenceStore` | |
| `IdentityProofs` | proofs about `SpiffeNames`, `MutualTLS` | |
| `WorkloadCAProofs` | proofs about `WorkloadCA` | |

Each `MC*` module defines the inputs of the runs of one specification.
`MCControlPlane`, `MCMembership` and `MCIdentity` hold several parts that do not
act on each other's state; a behaviour is one part's, and the others keep their
initial state.

### The exchange

An element of `Requests` is one call of `Handle`. The call is cut into steps
exactly where it reads or writes what another goroutine or an outside party
can change, and each step is everything `Handle` does up to the next such
point:

    new -> resolve -> approve -> check -> consult -> claim -> audit
        -> dispatch -> reaudit -> answered | failed

`get_service_catalog_view` and `establish_data_channel` without a contract
skip to `check`; discovery goes `check, claim, lookup, audit`. The order of the
early returns of each stretch of code is the order of the pairs given to
`FirstDenial`. `MemoryReplayCache.Claim` and the methods of the cache and the
registry hold a lock, and are atomic. In `ResolveManifest` the lookup and the
verification are one step: a cached document never changes under its hash
(`CachedContentNeverChanges`), so nothing can come between them but time.

A nil field of the Handler is an element missing from `wired`. The payload
validator, the policy, the audit sink, discovery and the facade are outside
this repository and may answer anything at any call, including a facade that
did its work and then reported an error. A sink that fails has recorded
nothing. `Restart` ends the calls in flight and empties the replay cache, the
manifest cache and the registry, all of which live in memory.

### Identity

`WorkloadCA` cuts `SpireWorkloadCAProvider` at every unsynchronised access to
`LocalCA`: the test, the making of an authority, the assignment, and the read
that issues. The assignment of the struct is one write per field in either
order, so that a torn read, a data race of the code, sees any mixture the build
can produce. A call to Vault is a request and a later answer or failure.

A name in a SPIFFE URI is the sequence of texts between its slashes, so that
pasting a name into a path (`RuntimeURI`, `AgentURI`) and escaping it
(`GatewayURI`) differ the way they do in the code, and a parser splits and
counts what the URI really has. Which characters a text has is left to the
constants of `URITexts`: what trimming makes of it, where its first `?` or `#`
is, and what its percent escapes decode to. The options of a request or a
signature hold URIs as written; `cleanURIs` trims them and `parseURIs` parses
them, so that a name pasted in as it stands may end the path or be decoded into
another. A key is a number; a certificate is a record with its holder's key, its
signer's, its names, usages and validity. `x509.Certificate.Verify` and the
handshake are external.

`ServerTransportCredentials` leaves session tickets on, and `crypto/tls` does
not call `VerifyPeerCertificate` for a resumed session. `Connect` is a full
handshake and leaves a ticket; `Resume` takes one up and looks at nothing but the
expiry of its leaf; a restarted server knows no tickets. The clients of this
package keep no sessions; others may.

### Release evidence

A run of `production-evidence` reads its inputs, builds its fragment, writes
each evidence file, writes the fragment, reads it back and reports. Each write
may fail before the file is opened, or leave it cut short; a run may also stop
for good at any point, since nothing forces a step. Two writes to one file that
overlap in time are taken one after the other. Texts are representatives of
the patterns of the scanners, among them one that a scanner only objects to
once it is encoded as JSON.

### Abstractions

Trimming and letter case are left out: every name stands for its normal form,
except in the documents, records, entries and names given unsorted, padded or
with blanks on purpose, to exercise the normalisers and parsers. JSON is the identity on records without their
signature field, which is what the canonical-bytes functions compute. A
payload is its size, its encoding and whether its hash matches and it holds
private topology. The texts of errors are left out; denial codes are kept.
Times are small numbers; where sums can overflow, they wrap at `MaxInt`.

The mesh and service packages are pure functions: the store, the relay, the
gater, the issuer, the terminus, the service catalog's store and the operator
are in other repositories.
They are modelled from what the packages' comments ask of their callers, and
are marked external in the map. In particular a relay ignores a roster whose
epoch is not above the one it is on, a verifier a list whose generation is
below its own, and a terminus collects a tombstone once its retention is over.

## Runs

| Run | Instance | Shows |
|---|---|---|
| `replay` | 2 calls, repeated and clashing envelopes, a discovery with a payload, a session with its kill switch thrown, 1 restart | `TypeOK`, `AtMostOnce`, `RefusalsBurnNoKey`, `EveryCallEnds`, `OnceRefinement` |
| `validity` | 1 call, 2 versions, approvals, withdrawals and pins at any time of a 4-bit clock, skew 2 | `CallsWereApproved`, `CallsWereFresh` |
| `gates` | 1 call, every gate failing in turn, missing Handler fields, all three paths | `MutatingCallsAreGuarded`, `AuditTrailTellsTheTruth` |
| `controlplane` | signed, tampered, unsorted and expiring documents; 3 versions of one catalog, 2 links, restored pins; the pack's 7 contracts, deprecated, retired and replaced entries, payloads one defect from a good one; 5 runs of the tool cut short anywhere | `CachedDocumentsAuthentic`, `CachedContentNeverChanges`, `DeclaredContractsResolve`, `OneVersionPerLink`, `OnlyPinsMoveLinks`, `OffersAreHonoured`, `SignedPairVerifies`, `OneAuthority` |
| `roster` | 2 claims in any order, ties, respelt addresses; 2 relays, 2 epochs, trusted and untrusted signer, lifetimes up to and past the largest time | `FreshestClaimsWin`, `VerifiedClaimsAssemble`, `EntriesAreAttested`, `RelaysAgree`, `RostersLiveAsAsked` |
| `membership` | 1 peer through 4 states, 2 lists, 3 instants, 2 signers; rotations among 6 configurations, 3 retained files | `AdmissionLagIsBounded`, `AdmittedWereIssued`, `FenceNeverReadmits`, `RetainedKeysStayTrusted` |
| `access` | 2 consumers, 2 services and a malformed name, 2 capabilities, a tombstone, an untrusted issuer | `RevokedStaysRevoked`, `SplicesWereAskedFor` |
| `identity` | 2 callers, 4 calls, 5 ways to construct a provider, lifetimes around an hour; 2 requests, a leaf of either of 2 authorities or of a mismatched pair, 4 CA files, lists of any signer, resumed sessions, names with blanks, slashes, marks and escapes, a clock past an expiry | `RootsVouchForLeaves`, `SettledAuthorityStands`, `LifetimesAreAsAsked`, `AdmittedIdentityWasMeant`, `AdmissionsObeyTheirList`, `ChecksPredictService` |
| `release` | 2 runs over 2 directories, 2 evidence files beside summary and fragment, 13 inputs, 6 builds, 9 pilot records | `EvidenceStands`, `RetainedEvidenceIsSafe`, `ProductionImpliesPilot`, `AcceptedArtifactsAccountedFor` |

The runs `replay`, `membership` and `access` check a type invariant along; that of
`replay` covers the cache and the registry. Three more runs show that a
comment of the source does not hold of the code; see Findings.

**Bounds.** The races of the exchange over a key are between pairs: two calls,
or a call and a restart; two calls and one restart produce each of them. The
gates, the approvals and the clock concern one call at a time, so `gates` and
`validity` have one and spend their states on inputs. A clock of eight instants
with skew two lets the expiry sum wrap and not wrap, for both expiries. Two
claims are an earlier and a later, or two tied ones, in either order; the
assembly compares claims two at a time. Two epochs let a relay be handed an old
roster after a new one; with a largest time of three, a roster can end at it or
be refused for ending past it. Two lists and four states of the binding let a list
be overtaken, and a peer be revoked, enrolled again and revoked again. Two proofs are one that
was asked for and one carried over. Five runs of the signing tool are an
interrupted mint, a repeated one, and signs before and after. The race over
`LocalCA` is between two first uses; two more calls are those that find what
they left. A server meets one leaf at a time, so one leaf, two requests (its
own and another's) and a clock that passes one authority's expiry are enough
for each check to disagree with the next. Two evidence runs either share their
directory or do not, with the same component or not; two evidence files are a
first and a last. Each mutant in
`PROJECT.json` changes a definition the way a slip in the code would, and is
caught within the same bounds.

**Fairness.** Only `GatewayExchange` has any: weak fairness of the steps of
each call that has begun. `Handle` has no loop and holds no lock while it waits
for another party, so a call is always able to go on once the party it asked
has answered; that parties answer is assumed, and the context deadline their
implementations take is what makes it reasonable. Nothing forces calls,
approvals or restarts to happen.

**Deadlock.** The bounded instances stop when calls have ended and counters
have reached their bounds, so deadlock is not checked. Nothing in the code
waits for another party while it holds a lock.

## Properties worth a word

`AtMostOnce` is within one life of the process: the replay cache is in memory,
and the model lets an effect be repeated across a restart. It speaks of calls
guarded by a replay cache, and the handler refuses mutating calls without one.

`RefusalsBurnNoKey` has one exception. Manifest discovery claims its keys before
it looks whether there is anything to discover, and the lookup, its encoding and
its result can still fail: a discovery refused after its claim keeps its keys,
and must be sent anew under others. Of every other call, and of a discovery up
to its claim, the property says that a key in the cache was filed by a call
whose session matched it and was active, whose envelope had an expiry (and, of a
discovery, no payload), and that was not refused.

`CallsWereApproved` is what a check before the dispatch can promise: the
registry allowed the call at some moment of the call's own life. A withdrawal
can be overtaken by the calls in flight and by no others.

`AdmissionLagIsBounded` holds of a verifier that uses a list only while
`Verify` accepts it. `FenceNeverReadmits` compares lists of different
generations: two lists made in the same millisecond have the same generation,
and may replace each other. It speaks of capabilities that were over when the
first of the two lists was made: what a list refuses for another reason, such
as a stale duplicate entry, the next list may read as valid.

`RevokedStaysRevoked` speaks of tombstones whose retention reaches their
capability's expiry, as the comment on `NotAfterMS` asks. `SignTombstone`
cannot check that, and does not.

`OneAuthority` holds when the read of an existing key file does not fail. `mint`
takes any error of that read for the absence of the file and writes a new key;
with `ReadFaults = TRUE` the property does not hold.

`OffersAreHonoured` composes the pack with the manifest cache: every visible
entry's contract resolves in every unexpired manifest of the pack, takes what
its advertised schema asks for and nothing else, and no payload is taken under
two contracts.

`RootsVouchForLeaves` leaves out what the code does not promise: overlapping
first uses of the SPIRE provider, and one constructed with a certificate and
no key, which `TrustRoots` returns and `IssueCertificate` replaces. Its first
conjunct holds even then, torn reads included: `x509.CreateCertificate` refuses
a parent whose key is not the signer's. `SettledAuthorityStands` says that the
damage ends with the last of the overlapping assignments.

`LifetimesAreAsAsked` starts at one hour for Vault: less than that is asked as
"0h", and Vault grants its own default.

`AdmittedIdentityWasMeant` has two exceptions, both of agents and runtimes,
whose names `AgentURI` and `RuntimeURI` paste in unescaped. The parsers trim
slashes, so one whose last name is empty, blank or all slashes loses its last
part, and names with slashes before it can make up the count. And `url.Parse`
ends the path at a question mark or a hash and decodes percent escapes, so one
with such a character in a name is written as other names. Both are then read
as another identity of their kind. A gateway's names are escaped, and it has no
exception.

`AdmissionsObeyTheirList` ties a peer to the list it was let in under. At a full
handshake that is the list in force. A session resumed later is not looked up
again, so a peer revoked in between stays until the server restarts, its leaf
expires or its client drops the session.

`RostersLiveAsAsked` speaks of exact numbers, while `NotAfter` wraps as `int64`
does: without the overflow check of `BuildFabricPeerRoster` a published roster
would have expired before any relay could take it.

`DeclaredContractsResolve` speaks of contracts that share identifier and version
with no other contract of their document. `findContract` takes the first of two
that do.

`RetainedEvidenceIsSafe` speaks of whole files. A file cut short in its own
write was scanned as a whole, and a cut can end a word early and so make a
pattern match that did not before.

`ChecksPredictService` allows a leaf to stop chaining inside its window when
the authority itself expires, which `VerifyIssuedCertificateForCSR` does not
look at.

`EvidenceStands` speaks of a run until another one writes into its directory.
Evidence files have fixed names and only the fragment's name has the component,
so a second run with the same `--out-dir` replaces the evidence of the first;
the code neither locks the directory nor clears it.

`RetainedKeysStayTrusted` follows one signature at a time; `signed` forgets the
one before it. The signature is arbitrary, so nothing is lost.

## Findings

| Run | What it shows |
|---|---|
| `roster_order` | `AssembleFabricPeerRoster` is documented as fully order-independent. The proof of possession binds the canonical mesh address, and the roster entry copies the address as spelt; of two verified claims that differ only in spelling, the first to come is kept. |
| `keyring_rotation` | `MembershipPublicKeys` is documented as returning the active key merged with the retained ones. A retained key with the active key's id replaces it, and the default id is the same before and after a rotation. |
| `manifestsign_mint` | `mint` is documented as idempotent. Once it has begun to write `manifest-ca.key` and stops before `manifest-ca.pub` is written, no later run writes `manifest-ca.pub`. In the trace it stops within the write of the key, which is left cut short and reported as reused by the next run; stopping between the two writes ends the same way. |

## Proofs

Proved for all values of the constants, under the named assumptions on them
and nothing else:

| Module | Theorem | States |
|---|---|---|
| `GatewayExchangeProofs` | `TypeCorrect` | `Spec => []TypeOK` |
| `GatewayExchangeRefines` | `AtMostOnceHolds` | `Spec => []AtMostOnce` |
| `GatewayExchangeProofs` | `AuditTrailHolds` | `Spec => []AuditTrailTellsTheTruth` |
| `GatewayExchangeRefines` | `RefusalsBurnNoKeyHolds` | `Spec => []RefusalsBurnNoKey` |
| `GatewayExchangeGates` | `MutatingCallsAreGuardedHolds` | `Spec => []MutatingCallsAreGuarded` |
| `GatewayExchangeGates` | `CallsWereApprovedHolds` | `Spec => []CallsWereApproved` |
| `GatewayExchangeGates` | `CallsWereFreshHolds` | `Spec => []CallsWereFresh` |
| `GatewayExchangeRefines` | `ImplementsDispatchOnce` | `Spec => OnceRefinement` |
| `ControlPlaneProofs` | `OneVersionPerLinkAlways` | `RegistrySpec => []OneVersionPerLink` |
| `ControlPlaneProofs` | `OnlyPinsMoveLinksAlways` | `RegistrySpec => OnlyPinsMoveLinks` |
| `ControlPlaneProofs` | `SignedPairVerifiesAlways` | `SignSpec => []SignedPairVerifies` |
| `ControlPlaneProofs` | `OneAuthorityAlways` | with `ReadFaults = FALSE`, `SignSpec => []OneAuthority` |
| `AccessEvidenceProofs` | `SplicesWereAskedForAlways` | `AccessSpec => []SplicesWereAskedFor` |
| `AccessEvidenceProofs` | `RevokedStaysRevokedAlways` | `AccessSpec => []RevokedStaysRevoked` |
| `SignedRecordProofs` | `RetainedKeysStayTrustedAlways` | `RingSpec => []RetainedKeysStayTrusted` |
| `AccessEvidenceProofs` | `AccessTypeCorrect` | `AccessSpec => []AccessTypeOK` |
| `ControlPlaneProofs` | `RelaysAgreeAlways` | `RosterSpec => []RelaysAgree` |
| `ControlPlaneProofs` | `EntriesAreAttestedAlways` | `RosterSpec => []EntriesAreAttested` |
| `ControlPlaneProofs` | `VerifiedClaimsAssembleAlways` | `RosterSpec => []VerifiedClaimsAssemble` |
| `ControlPlaneProofs` | `RostersLiveAsAskedAlways` | `RosterSpec => []RostersLiveAsAsked` |
| `ControlPlaneProofs` | `FreshestClaimsWinAlways` | `RosterSpec => []FreshestClaimsWin` |
| `SignedRecordProofs` | `FenceTypeCorrect` | `FenceSpec => []FenceTypeOK` |
| `SignedRecordProofs` | `AdmissionLagIsBoundedAlways` | `FenceSpec => []AdmissionLagIsBounded` |
| `SignedRecordProofs` | `AdmittedWereIssuedAlways` | `FenceSpec => []AdmittedWereIssued` |
| `SignedRecordProofs` | `FenceNeverReadmitsHolds` | `FenceSpec => FenceNeverReadmits` |
| `WorkloadCAProofs` | `RootsVouchForLeavesAlways` | `CASpec => []RootsVouchForLeaves` |
| `WorkloadCAProofs` | `LifetimesAreAsAskedAlways` | `CASpec => []LifetimesAreAsAsked` |
| `WorkloadCAProofs` | `SettledAuthorityStandsAlways` | `CASpec => SettledAuthorityStands` |
| `IdentityProofs` | `AdmittedIdentityWasMeantAlways` | `TLSSpec => []AdmittedIdentityWasMeant` |
| `IdentityProofs` | `AdmissionsObeyTheirListAlways` | `TLSSpec => []AdmissionsObeyTheirList` |
| `IdentityProofs` | `ChecksPredictServiceAlways` | `TLSSpec => []ChecksPredictService` |
| `SignedRecordProofs` | `CachedDocumentsAuthenticAlways` | `CacheSpec => []CachedDocumentsAuthentic` |
| `SignedRecordProofs` | `CachedContentNeverChangesHolds` | `CacheSpec => CachedContentNeverChanges` |
| `SignedRecordProofs` | `DeclaredContractsResolveAlways` | `CacheSpec => []DeclaredContractsResolve` |
| `SignedRecordProofs` | `OffersAreHonouredAlways` | `PackSpec => []OffersAreHonoured` |
| `AccessEvidenceProofs` | `RetainedEvidenceIsSafeAlways` | `StoreSpec => []RetainedEvidenceIsSafe` |
| `AccessEvidenceProofs` | `EvidenceStandsAlways` | `StoreSpec => []EvidenceStands` |
| `AccessEvidenceProofs` | `ProductionImpliesPilotAlways` | `StoreSpec => []ProductionImpliesPilot` |
| `AccessEvidenceProofs` | `AcceptedArtifactsAccountedForAlways` | `StoreSpec => []AcceptedArtifactsAccountedFor` |

The assumptions say what the constants are: `ExchangeAssumption`,
`TimesAssumption` and those of the modules the exchange extends; in
`AccessAssumption`, `FenceAssumption`, `CertificateAssumption`, `TLSAssumption`
and `CommitAssumption`, that times, lifetimes and lengths are numbers. Those that
say more are these. `RosterAssumption`: the order by which ties are broken tells
two different proofs of possession apart, as `bytes.Compare` does of signatures.
`TextAssumption`: the words of the URIs hold no blank, mark or escape, and
trimming puts none into a text.
`DocumentsAssumption`: a document has the fields of the Go struct, with any hash
and signature in it, and its contracts are a list. `PackAssumption`: an expiry
given to the pack is a number.
`CAAssumption`: an authority handed to a provider is a CA certificate, as
`LoadCertificateAuthority` requires, and has not expired: `WorkloadCA` has no
clock. `EvidenceAssumption` and
`InputAssumption`: the file names of a run differ, as the constants of
`production_evidence.go` do, and options have the fields of their Go struct.

*Exchange.* `AtMostOnce` is not inductive: it says nothing of calls that have
claimed and not yet dispatched. The invariant is `IInv = TypeInv /\ (\A r :
CallInv(r)) /\ KeyInv`. `CallInv` ties the place of a call to its decision and
its audit records: a call at `dispatch` is allowed and recorded so, a call at
`reaudit` has one record and a denial to add. `KeyInv` says that the keys of a
call that holds its grant are in `seen` while the process lives, and that two
calls of one life that hold a grant, or have run, have disjoint keys. A claim
then keeps it because it takes only keys that are not in `seen`, and a restart
because it ends every call that holds a grant. Under the refinement mapping
defined in `GatewayExchangeOnce`, each step of a call opens it, keeps its phase,
ends it, grants it keys or runs it.

The other theorems about calls each add to `IInv` what a call carries along.
`FiledInv`: every key in `seen` is that of a call that got past its claim, and
such a call is a discovery or has an allowance, first as its decision and then
as its first audit record. `GatedInv`: a call that got as far as its claim had
an active session and an envelope in order when it began, and keeps both. `GateInv`: by how far a call got, it has resolved
the contract it names, was approved at some moment of its life, has the
idempotency key its action needs, and met a payload validator, a policy, a sink
and a facade; only the claim hands out a grant (`OnlyClaimGrants`), so what
holds at the claim holds at the dispatch. `FreshInv`: what a call resolved had
not expired when the call began, and the envelope had not either. The sum of
expiry and skew may wrap, but wrapping only makes an expiry earlier
(`PlusNeverExtends`), so the exact bound follows.

*Registry.* Records are filed under their hash and pins under their key
(`FiledByHash`, `FiledByKey`); then a link uses no version but the one its pin
names (`UsesOnlyItsPin`), from which both follow.

*Manifest cache.* A document is normalised when it is hashed, signed, verified and
filed, so everything rests on the normal form being one. `StablyBefore` is a
strict total order on the positions of a list, whatever ties the key order
leaves. The place of a position is the number of those before it; so places
follow the order, they fill `1..n` (a one-to-one map of a finite set into
itself), and the sort rearranges without losing or repeating an entry
(`SortPermutes`), leaves a sorted list alone (`SortKeepsSorted`) and changes
nothing the second time (`SortTwice`, `NormalDocument`). `CacheInv`: what is
filed is a document in normal form, under its own hash, and authentic. Two
documents under one hash then have the same content, since the hash is that
content; and a search of a list for an identifier and version that occur once
in it finds that contract (`Resolves`).

*Pack.* `PackInv` adds that every manifest in the cache has the whole pack, in
some order, and that every catalog entry shows a contract of it. `Compiled` and
`Distinct` go through the table once: each interaction has its own contract
identifier and a schema in the required form. From the form alone follow that a
payload filled in from the schema is taken (`FilledInIsValid`) and that what is
taken fits the schema (`TakenIsValid`).

*Signing tool.* `SignInv` says what a run knows at each place: from the moment
it has read or written the key it holds what the file holds. `KeyStays` adds
that, with reads that do not fail, the key file once written whole is never
written again.

*Service access.* `AskedInv`: every signed capability came from a request whose
proof verified, and a capability changed on the way no longer verifies, because
a digest is its content. `RevokedInv`: an applied tombstone is in the
revocation set until its time is over, by when its capability has expired.

*Key ring.* `SignedNamed`: nothing is signed under an empty id; then a file whose
comment is that id is loaded under it and prevails over the active key.

*Roster.* `FreshestClaimsWin` is about a loop over claims and holds of any
sequence: `Kept`, the loop's invariant, says that after the first n claims there
is one in hand for every key registered and not de-peered, and that none of
those n is newer. `RosterInv` carries a claim from the daemon to the relay. What
is in flight is bound by its proof to the identity whose key made it
(`SentInv`), what the control plane kept verified with a proof some daemon made
(`ClaimsInv`), so that only the spelling of an address can have changed; a
signed roster holds only such entries and is the only one of its epoch
(`PublishedInv`); a relay is on one of those (`AppliedInv`). `LastsInv` adds that
a published roster is valid and ends a positive lifetime after its issue, by
the exact sum, since a sum that is not refused does not wrap (`LifetimeEnds`).

*Fence.* The lag is bounded because of what a list knows. `Covers`: for every
peer a published list has an entry, and where that entry does not supersede a
state that is over, the list was made before that end, so that both its lifetime
and its generation are counted from before it. With `EndedInv` (what is over is
behind the binding) this survives every change, and the list in force is a
published one up to the order of its entries (`FenceInv`). A list is dated by the
newest binding, of which there always is one (`NewestInv`). The bound on
admissions, and that a later list does not take an ended capability back, both
follow.

*Workload CAs.* `CallsInv` says what a call has made sure of at each place, with
the fields of `LocalCA` it still has to assign; `LeavesInv` that each leaf chains
to the certificate it was issued under, whatever became of `LocalCA` since.
`AgreementInv`: unless first uses overlapped or a key was missing, all leaves
and roots are of the present authority (`OneAuthority`), and one caller at most
is making it, with nothing assigned before (`OneFirstUse`).

*Names and TLS.* That a name reads back as what was written is a fact about
sequences of any length: trimming slashes, joining the pieces of a path and
splitting it again. The lemmas of `IdentityProofs` go from the trimming and
joining functions up to one reading lemma for each pair of a kind written and a
kind asked for: a URI of one kind is never read as another, and reads back as
the names meant once trimmed slashes and blanks are allowed for (`Readable`),
provided that every text pasted in is plain, so that parsing leaves it as it
was (`PlainParts`). They
proceed by well-founded induction on the length of the path, with the induction
predicate given as a set. `TLSInv` ties every signed leaf's URIs to the
identities its signer meant, and every ticket to a handshake of the running
server that was allowed under the list the ticket notes (`Vouched`); the three
properties are then about the step just taken.

*Evidence.* `DiskShape` and `SafeDisk`: each write changes one file, to one that
was scanned or one that is cut short. `StoreIndInv` adds that the fragment in a
run's hands refers to exactly the files it has written (`RunsInv`), that an
undisturbed directory holds those files (`StandInv`), and that a fragment on
disk is whole (`WholeDisk`). `ProductionImpliesPilot` compares two validators
condition by condition, after the defaults of the pilot's options have been
filled in.

### Model-checked only

- `EveryCallEnds`: liveness under fairness is not handled by the prover.
- The three properties of Findings, which do not hold.

## Not modelled

X.509, PEM, SSH and JSON encodings, the TLS handshake, intermediate certificates
(`verifyCertificateChain` and a peer may bring some; no authority here signs
one), two spellings of one URI path that decode to the same, HTTP to Vault beyond its
outcome, certificate fingerprints and IP addresses in certificates, and the
recognition of private addresses in text (a text is a representative of a
pattern, or plain). Of the references in an evidence fragment, the retained list
is modelled; the fields of the single gates repeat its members. The wording of records, evidence and errors. `apperrors`
has no state, and no decision of the modelled code depends on more of an error
than that there is one. The README of the repository names other SPIFFE
schemes than the code writes and parses; the model follows the code.

## Running

    tlc -workers 2 -config MCExchange_replay.cfg MCExchange
    tlapm GatewayExchangeProofs.tla

and likewise for the other runs of `PROJECT.json` and the other proof modules.
`SignedRecordProofs` and `IdentityProofs` take about a quarter of an hour from nothing, the others
between two and ten minutes; a proof run should not share the machine with
another.

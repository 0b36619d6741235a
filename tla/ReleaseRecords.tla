---------------------------- MODULE ReleaseRecords ----------------------------
(***************************************************************************)
(* What the release package states about a build: the version and manifest *)
(* outputs, the acceptance record of a pilot release, and the fragment of  *)
(* production evidence of a component.  Both records are built from the    *)
(* options of a command and the metadata linked into the binary, or are    *)
(* refused.                                                                *)
(*                                                                         *)
(* A text is known by what the scanners and the blank tests tell apart, and*)
(* a commit by its hex digits.  The fixed wording of the records passes the*)
(* scanners and is left out.                                               *)
(***************************************************************************)
EXTENDS Integers, Sequences, Functions

CONSTANTS
  CommitLengths  \* how long an abbreviated commit may be: 7..40 digits

ASSUME CommitAssumption == CommitLengths \subseteq Nat \ {0}

\* Texts: private ones match acceptanceUnsafeEvidence as they stand, or only
\* once encoded as JSON (a newline after "a:" becomes the path "a:\n"); the two
\* others match the patterns that only production evidence is held to.
Blank == {"", " "}
Private == {"private", ".internal"}
PrivateInJSON == Private \cup {"a:<newline>"}
Unsigned == {"unsigned build"}
BodyIdentity == {"request body accepted"}
Local == {"local"}

\* The scanners: they accept, or refuse.
ScanAcceptanceEvidence(text) == text \notin Private
ScanAcceptanceValue(texts) == texts \cap PrivateInJSON = {}
scanProductionEvidence(texts) == texts \cap (Unsigned \cup BodyIdentity \cup Private) = {}

Backend == {"builders-control", "builders-agent", "builders-federation-gateway"}

\* strings.TrimSpace of a component; only one padded name is used.
Padded == " builders-control"
TrimComponent(component) == IF component = Padded THEN "builders-control" ELSE component

-----------------------------------------------------------------------------
(* Build metadata, and the outputs derived from it *)

\* A replaced module: the path of the replacement, private when it is one of
\* this machine, and its version; no replacement has no version either.
publicReplacement(replacement) ==
  IF replacement.version \in {"", "(devel)"} \/ replacement.path = "private"
  THEN "" ELSE replacement.path

\* The texts of the two outputs beside their fixed fields; the manifest is JSON.
BuildManifest(build) ==
  {build.version} \cup {d.path : d \in build.deps} \cup {publicReplacement(d.replace) : d \in build.deps}
WriteVersion(build) == {build.version}

\* Both outputs are hashed after both were scanned.
acceptanceEvidenceHashes(build, component) ==
  IF /\ \A text \in WriteVersion(build) : ScanAcceptanceEvidence(text)
     /\ ScanAcceptanceValue(BuildManifest(build))
  THEN [version |-> <<component, WriteVersion(build)>>, manifest |-> <<component, BuildManifest(build)>>]
  ELSE [version |-> <<>>, manifest |-> <<>>]

CommitPattern(commit) == Len(commit) \in CommitLengths

HasPrefix(s, prefix) == Len(prefix) <= Len(s) /\ SubSeq(s, 1, Len(prefix)) = prefix

validateAcceptanceBuildMetadata(build, mergeCommit) ==
  /\ build.version \notin Blank \cup {"0.0.0-dev"}
  /\ CommitPattern(build.commit)
  /\ build.dated
  /\ mergeCommit # <<>> =>
       HasPrefix(mergeCommit, build.commit) \/ HasPrefix(build.commit, mergeCommit)

-----------------------------------------------------------------------------
(* The acceptance record *)

\* Options hold texts by field; dates and times, which are "" or "good" or
\* "bad"; the digests, all well formed or not; and what was read of the artifact.
PilotTexts ==
  { "release-id", "owner", "decision-by", "pilot-environment", "tag-or-build-label",
    "artifact", "artifact-platform" }
AllTexts == PilotTexts \cup {"signed-by", "unsigned-exception", "exception-owner"}

DefaultTexts(text) ==
  [text EXCEPT
     !["decision-by"] = IF @ = "" THEN text["owner"] ELSE @,
     !["pilot-environment"] = IF @ = "" THEN "two-company-pilot-fixture" ELSE @]

normalizeAcceptanceOptions(opts) ==
  [opts EXCEPT !.component = TrimComponent(@), !.text = DefaultTexts(opts.text)]

\* Faulty SigningStated: signed only when both halves of it are there.
FaultySigningBothHalves(opts) ==
  LET exception == << opts.text["unsigned-exception"], opts.text["exception-owner"], opts.expires >>
  IN  IF opts.text["signed-by"] # "" /\ opts.signedAt # ""
      THEN opts.signedAt = "good" /\ exception = << "", "", "" >>
      ELSE (\A k \in 1..3 : exception[k] # "") /\ opts.expires = "good"

\* Signed, or excepted from signing: one or the other, and that one complete.
\* A blank signer or exception counts as given.
SigningStated(opts) ==
  LET exception == << opts.text["unsigned-exception"], opts.text["exception-owner"], opts.expires >>
  IN  IF opts.text["signed-by"] # "" \/ opts.signedAt # ""
      THEN /\ opts.text["signed-by"] # "" /\ opts.signedAt = "good"
           /\ exception = << "", "", "" >>
      ELSE /\ \A k \in 1..3 : exception[k] # ""
           /\ opts.expires = "good"

validateAcceptanceOptions(build, opts) ==
  /\ opts.component \in Backend
  /\ validateAcceptanceBuildMetadata(build, opts.mergeCommit)
  /\ \A f \in PilotTexts : opts.text[f] \notin Blank
  /\ opts.releaseDate = "good" /\ opts.restoredAt = "good"
  /\ CommitPattern(opts.mergeCommit) /\ CommitPattern(opts.docCommit)
  /\ opts.pr \in {"pull/7", "pull/0"}
  /\ opts.digests
  /\ opts.size > 0
  /\ SigningStated(opts)
  /\ \A f \in AllTexts : ScanAcceptanceEvidence(opts.text[f])

NoRecord == [component |-> ""]

BuildAcceptanceRecord(build, raw) ==
  LET opts == normalizeAcceptanceOptions(raw)
      hashes == acceptanceEvidenceHashes(build, opts.component)
      signed == opts.text["signed-by"] # ""
      record == [ component |-> opts.component, mergeCommit |-> opts.mergeCommit,
                  size |-> opts.size, hashes |-> hashes,
                  by |-> opts.text["decision-by"],
                  signed |-> signed, signer |-> opts.text["signed-by"],
                  exception |-> IF signed THEN << >>
                                ELSE << opts.text["unsigned-exception"],
                                        opts.text["exception-owner"], opts.expires >> ]
  IN  IF /\ validateAcceptanceOptions(build, opts)
         /\ hashes.version # <<>>
         /\ ScanAcceptanceValue({opts.text[f] : f \in PilotTexts}
                                \cup {record.signer} \cup Range(record.exception))
      THEN record ELSE NoRecord

-----------------------------------------------------------------------------
(* The fragment of production evidence *)

SummaryTexts ==
  {"release-id", "artifact", "artifact-platform", "signed-by", "signature-verifier"}
ReleaseTexts == SummaryTexts \cup {"owner", "tag-or-build-label"}

\* Faulty validateProductionEvidenceOptions: the build's own metadata is only
\* held to the rule for production versions.
FaultyValidateAnyBuild(build, opts) ==
  /\ opts.component \in Backend
  /\ build.version \notin Local \cup Blank
  /\ \A f \in ReleaseTexts : opts.text[f] \notin Blank /\ ScanAcceptanceEvidence(opts.text[f])
  /\ opts.releaseDate = "good" /\ opts.signedAt = "good"
  /\ opts.pr = "pull/7" /\ opts.size > 0
  /\ \A e \in DOMAIN opts.evidence :
       opts.evidence[e].text \notin Blank /\ scanProductionEvidence({opts.evidence[e].text})

validateProductionEvidenceOptions(build, opts) ==
  /\ opts.component \in Backend
  /\ validateAcceptanceBuildMetadata(build, opts.mergeCommit)
  /\ build.version \notin Local
  /\ \A f \in ReleaseTexts : opts.text[f] \notin Blank
  /\ opts.releaseDate = "good" /\ opts.signedAt = "good"
  /\ CommitPattern(opts.mergeCommit)
  /\ opts.pr = "pull/7"
  /\ {opts.text["release-id"], opts.text["tag-or-build-label"]} \cap Local = {}
  /\ opts.size > 0
  /\ \A f \in ReleaseTexts : ScanAcceptanceEvidence(opts.text[f])
  /\ \A e \in DOMAIN opts.evidence :
       /\ opts.evidence[e].text \notin Blank
       /\ scanProductionEvidence({opts.evidence[e].text})

NoFragment == [component |-> ""]

\* The fragment before its evidence references are known.
BuildProductionEvidenceFragment(build, raw) ==
  LET opts == [raw EXCEPT !.component = TrimComponent(@)]
      hashes == acceptanceEvidenceHashes(build, opts.component)
  IN  IF /\ validateProductionEvidenceOptions(build, opts)
         /\ hashes.version # <<>>
         /\ ScanAcceptanceValue({opts.text[f] : f \in ReleaseTexts})
      THEN [ component |-> opts.component, mergeCommit |-> opts.mergeCommit,
             texts |-> {opts.text[f] : f \in ReleaseTexts}, hashes |-> hashes,
             refs |-> <<>> ]
      ELSE NoFragment

\* The lines of the signing summary, as far as a scanner could object to them.
productionSigningSummary(opts) ==
  [component |-> opts.component, texts |-> {opts.text[f] : f \in SummaryTexts}]

=============================================================================

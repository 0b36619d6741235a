----------------------------- MODULE ManifestSign -----------------------------
(***************************************************************************)
(* cmd/manifestsign: the tool that mints the manifest-signing key and      *)
(* signs manifests under it.  One run at a time; a run may be killed       *)
(* between any two file operations, or in the middle of a write, which     *)
(* leaves the file torn.                                                   *)
(*                                                                         *)
(* A file holds a value, is "absent" or "torn".  Keys are numbers, each    *)
(* generated once; the signed manifest is [id, by], the key id it names    *)
(* and the key that signed it; the keyring is [id, pub].                   *)
(***************************************************************************)
EXTENDS Integers

CONSTANTS
  KeyIds,      \* signing key ids that may be given on the command line
  ReadFaults,  \* whether reading a file that exists may fail
  MaxRuns      \* bound on runs

VARIABLES
  keyFile, pubFile,   \* manifest-ca.key and manifest-ca.pub
  outFile, ringFile,  \* the signed manifest and the keyring
  runCmd, runAt,      \* the run in progress, and where it is: "" when there is none
  runId, runKey,      \* the key id it was given and the key it holds
  runs,               \* runs started
  generated,          \* keys generated
  finished,           \* [cmd, how]: which run ended last, and how
  shipped             \* (history) what completed sign runs produced

signVars == <<keyFile, pubFile, outFile, ringFile, runCmd, runAt, runId, runKey, runs,
              generated, finished, shipped>>
files == <<keyFile, pubFile, outFile, ringFile>>

NoRun == [cmd |-> "", how |-> ""]
Absent == 0      \* no such file
Torn == -1       \* cut short, or empty

NoDoc == [id |-> "", by |-> Absent]
TornDoc == [id |-> "", by |-> Torn]

-----------------------------------------------------------------------------
(* Runs *)

SignInit ==
  /\ keyFile = Absent /\ pubFile = Absent
  /\ outFile = NoDoc /\ ringFile = NoDoc
  /\ runCmd = "" /\ runAt = "" /\ runId = "" /\ runKey = 0
  /\ runs = 0 /\ generated = 0
  /\ finished = NoRun
  /\ shipped = {}

Start(c, id) ==
  /\ runCmd = ""
  /\ runs < MaxRuns
  /\ runCmd' = c /\ runAt' = "read key" /\ runId' = id /\ runKey' = 0
  /\ runs' = runs + 1
  /\ finished' = NoRun
  /\ UNCHANGED <<files, generated, shipped>>

End(how) ==
  /\ runCmd' = "" /\ runAt' = "" /\ runId' = "" /\ runKey' = 0
  /\ finished' = [cmd |-> runCmd, how |-> how]

At(c, place) == runCmd = c /\ runAt = place

GoTo(place, k) == runAt' = place /\ runKey' = k /\ UNCHANGED <<runCmd, runId, finished>>

\* Faulty MintReadKey: whether there is a key is read off the public file.
FaultyMintReadPub ==
  /\ At("mint", "read key")
  /\ IF pubFile = Absent
       THEN GoTo("write key", generated + 1) /\ generated' = generated + 1
       ELSE End("ok") /\ UNCHANGED generated
  /\ UNCHANGED <<files, runs, shipped>>

\* mint: a key file that can be read is reused and nothing else is looked at;
\* any error of the read, not only that the file is missing, generates a key.
\* A torn file that decodes to half a key or more is reported as reused, any
\* other ends the run.
MintReadKey ==
  /\ At("mint", "read key")
  /\ \/ /\ keyFile = Absent \/ ReadFaults
        /\ GoTo("write key", generated + 1)
        /\ generated' = generated + 1
     \/ /\ keyFile # Absent
        /\ End("ok") \/ (keyFile = Torn /\ End("err"))
        /\ UNCHANGED generated
  /\ UNCHANGED <<files, runs, shipped>>

MintWriteKey ==
  /\ At("mint", "write key")
  /\ keyFile' = runKey
  /\ GoTo("write pub", runKey)
  /\ UNCHANGED <<pubFile, outFile, ringFile, runs, generated, shipped>>

MintWritePub ==
  /\ At("mint", "write pub")
  /\ pubFile' = runKey
  /\ End("ok")
  /\ UNCHANGED <<keyFile, outFile, ringFile, runs, generated, shipped>>

\* sign: the key is read, then the manifest, which may be missing, malformed
\* or refused by contractmanifest.Sign.
SignReadKey ==
  /\ At("sign", "read key")
  /\ \/ keyFile \notin {Absent, Torn} /\ GoTo("write out", keyFile)
     \/ End("err")
  /\ UNCHANGED <<files, runs, generated, shipped>>

SignWriteOut ==
  /\ At("sign", "write out")
  /\ outFile' = [id |-> runId, by |-> runKey]
  /\ GoTo("write ring", runKey)
  /\ UNCHANGED <<keyFile, pubFile, ringFile, runs, generated, shipped>>

\* Faulty SignWriteRing: the public key is taken from manifest-ca.pub.
FaultySignWriteRingPub ==
  /\ At("sign", "write ring")
  /\ ringFile' = [id |-> runId, by |-> pubFile]
  /\ shipped' = shipped \cup {outFile}
  /\ End("ok")
  /\ UNCHANGED <<keyFile, pubFile, outFile, runs, generated>>

\* The keyring holds the public half of the key that was read.
SignWriteRing ==
  /\ At("sign", "write ring")
  /\ ringFile' = [id |-> runId, by |-> runKey]
  /\ shipped' = shipped \cup {outFile}
  /\ End("ok")
  /\ UNCHANGED <<keyFile, pubFile, outFile, runs, generated>>

\* The process is killed, or a file operation fails.
Killed ==
  /\ runCmd # ""
  /\ \E how \in {"killed", "err"} : End(how)
  /\ \/ UNCHANGED files
     \/ At("mint", "write key") /\ keyFile' = Torn /\ UNCHANGED <<pubFile, outFile, ringFile>>
     \/ At("mint", "write pub") /\ pubFile' = Torn /\ UNCHANGED <<keyFile, outFile, ringFile>>
     \/ At("sign", "write out") /\ outFile' = TornDoc /\ UNCHANGED <<keyFile, pubFile, ringFile>>
     \/ At("sign", "write ring") /\ ringFile' = TornDoc /\ UNCHANGED <<keyFile, pubFile, outFile>>
  /\ UNCHANGED <<runs, generated, shipped>>

SignNext ==
  \/ Start("mint", "")
  \/ \E id \in KeyIds : Start("sign", id)
  \/ MintReadKey \/ MintWriteKey \/ MintWritePub
  \/ SignReadKey \/ SignWriteOut \/ SignWriteRing
  \/ Killed

SignSpec == SignInit /\ [][SignNext]_signVars

-----------------------------------------------------------------------------
(* Properties *)

\* sign: when it reports success the manifest on disk verifies under the keyring
\* on disk, whatever earlier runs were cut short.
SignedPairVerifies ==
  finished = [cmd |-> "sign", how |-> "ok"] => outFile = ringFile /\ outFile.by > 0

\* mint, "Generate ONE ed25519 manifest-signing keypair": every manifest that is
\* ever shipped was signed by the same key, so no run of mint, complete or
\* not, makes gateways reject what they already hold.  It needs reads of
\* existing files not to fail.
OneAuthority == \A x, y \in shipped : x.by = y.by

\* mint is documented as idempotent: run again, it leaves what one complete run
\* leaves, the key and its public half.
MintIsIdempotent ==
  finished = [cmd |-> "mint", how |-> "ok"] => keyFile > 0 /\ pubFile = keyFile

=============================================================================

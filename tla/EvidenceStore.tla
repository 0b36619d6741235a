----------------------------- MODULE EvidenceStore -----------------------------
(***************************************************************************)
(* The commands of the release package at work: acceptance-record, which   *)
(* prints a record, and production-evidence, which fills a directory one   *)
(* file at a time and writes the fragment that refers to them last.  Runs  *)
(* of it may share a directory, overlap, fail at any file, and be killed   *)
(* between any two steps or in the middle of a write, which is a failure   *)
(* nobody is told of; a retry is one more run.  The evidence files have the*)
(* same names whatever the component, only the fragment's name tells.      *)
(* Two runs do not write one file at the same moment.                      *)
(***************************************************************************)
EXTENDS ReleaseRecords

CONSTANTS
  Runs,         \* production-evidence commands
  Dirs,         \* output directories
  Evidence,     \* the evidence files, in the order they are written
  RunInputs,    \* what a command reads: its options and every file named
  PilotInputs,  \* options of the acceptance-record commands
  Builds        \* metadata that may be linked into the binary

Summary == "production-signing-summary.txt"

\* <component>-production-evidence.json, with the component as it was given.
FragmentName(opts) == opts.component

OptionFields ==
  { "component", "releaseDate", "restoredAt", "pr", "mergeCommit", "docCommit", "digests",
    "size", "signedAt", "expires", "text", "evidence" }

\* No two files of a run have one name, and every evidence file was read.
ASSUME EvidenceAssumption ==
  /\ Evidence \in Seq(STRING) /\ Len(Evidence) > 0 /\ IsInjective(Evidence)
  /\ Summary \notin Range(Evidence)
  /\ \A in \in RunInputs :
       /\ FragmentName(in.opts) \notin {Summary} \cup Range(Evidence)
       /\ DOMAIN in.opts.evidence = Range(Evidence)
       /\ \A e \in Range(Evidence) : {"text", "id", "newline"} \subseteq DOMAIN in.opts.evidence[e]

\* The shape of what a command reads.
ASSUME InputAssumption ==
  /\ \A in \in RunInputs \cup PilotInputs :
       /\ DOMAIN in.opts = OptionFields
       /\ DOMAIN in.opts.text = AllTexts \cup ReleaseTexts
       /\ in.opts.mergeCommit \in Seq(Nat)
  /\ \A b \in Builds : b.commit \in Seq(Nat)

VARIABLES
  build,      \* the binary's Version, Commit, Date and dependencies
  runs,       \* run -> where it is, its directory, options and fragment
  disk,       \* directory -> file name -> what the file holds
  disturbed,  \* runs in whose directory another one has written since they began to
  printed     \* the acceptance record the last step printed, with its options

storeVars == << build, runs, disk, disturbed, printed >>

FileNames ==
  {Summary} \cup Range(Evidence) \cup {FragmentName(in.opts) : in \in RunInputs}

Absent == [kind |-> "absent"]
Torn == [kind |-> "torn"]
Nothing == [record |-> NoRecord]

Unstarted == [pc |-> "unstarted", dir |-> "", opts |-> <<>>, fragment |-> NoFragment, next |-> 0]

StoreInit ==
  /\ build \in Builds
  /\ runs = [r \in Runs |-> Unstarted]
  /\ disk = [d \in Dirs |-> [f \in FileNames |-> Absent]]
  /\ disturbed = {}
  /\ printed = Nothing

\* Run r has left a file in its directory.
Writing(r) == runs[r].next > 1

\* Run r, now at state run, leaves file in its directory under a name.
Put(r, name, file, run) ==
  /\ disk' = [disk EXCEPT ![runs[r].dir][name] = file]
  /\ runs' = [runs EXCEPT ![r] = run]
  /\ disturbed' = disturbed \cup {q \in Runs \ {r} : Writing(q) /\ runs[q].dir = runs[r].dir}
  /\ printed' = Nothing
  /\ UNCHANGED build

Move(r, run) ==
  /\ runs' = [runs EXCEPT ![r] = run]
  /\ printed' = Nothing
  /\ UNCHANGED << build, disk, disturbed >>

Fail(r) == Move(r, [runs[r] EXCEPT !.pc = "failed"])

\* A write that does not complete: nothing is opened, or the file is cut short.
WriteFails(r, name) ==
  \/ Fail(r)
  \/ Put(r, name, Torn, [runs[r] EXCEPT !.pc = "failed"])

-----------------------------------------------------------------------------
(* production-evidence *)

\* ParseProductionEvidenceArgs: every path must be given and every file be
\* read.  The inputs are whatever the reads returned, in one go or with the
\* files changing between them.
Parse(r, in, dir) ==
  /\ runs[r].pc = "unstarted"
  /\ Move(r, IF in.complete /\ in.readable
             THEN [Unstarted EXCEPT !.pc = "build", !.dir = dir, !.opts = in.opts]
             ELSE [Unstarted EXCEPT !.pc = "failed"])

\* BuildProductionEvidenceFragment, then MkdirAll.
Build(r) ==
  LET fragment == BuildProductionEvidenceFragment(build, runs[r].opts)
  IN  /\ runs[r].pc = "build"
      /\ \/ /\ fragment # NoFragment
            /\ Move(r, [runs[r] EXCEPT !.pc = "files", !.fragment = fragment, !.next = 1])
         \/ Fail(r)

ensureTrailingNewline(content) == [content EXCEPT !.newline = TRUE]

\* The k-th file of a run: the signing summary, then the evidence in order.
NameOf(k) == IF k = 1 THEN Summary ELSE Evidence[k - 1]
DataOf(opts, k) ==
  IF k = 1 THEN [kind |-> "evidence", data |-> productionSigningSummary(opts)]
  ELSE [kind |-> "evidence", data |-> ensureTrailingNewline(opts.evidence[Evidence[k - 1]])]
TextsOf(data) == IF "texts" \in DOMAIN data THEN data.texts ELSE {data.text}

\* Faulty WriteEvidenceFile: scanned once it is on disk.
FaultyWriteThenScan(r) ==
  LET k == runs[r].next
      file == DataOf(runs[r].opts, k)
      ref == [path |-> NameOf(k), digest |-> file.data]
      last == k = 1 + Len(Evidence)
      run == [runs[r] EXCEPT !.fragment.refs = Append(@, ref), !.next = k + 1,
                             !.pc = IF ~scanProductionEvidence(TextsOf(file.data)) THEN "failed"
                                    ELSE IF last THEN "fragment" ELSE "files"]
  IN  runs[r].pc = "files" /\ Put(r, NameOf(k), file, run)

\* Faulty WriteEvidenceFile: the digest is taken before the newline is added.
FaultyWriteDigestEarly(r) ==
  LET k == runs[r].next
      file == DataOf(runs[r].opts, k)
      data == IF k = 1 THEN file.data ELSE runs[r].opts.evidence[NameOf(k)]
      run == [runs[r] EXCEPT !.fragment.refs = Append(@, [path |-> NameOf(k), digest |-> data]),
                             !.next = k + 1,
                             !.pc = IF k = 1 + Len(Evidence) THEN "fragment" ELSE "files"]
  IN  /\ runs[r].pc = "files"
      /\ IF scanProductionEvidence(TextsOf(file.data)) THEN Put(r, NameOf(k), file, run) ELSE Fail(r)

\* writeProductionEvidenceFile: scanned first, then written; the reference
\* returned holds the digest and the size of what was written.
WriteEvidenceFile(r) ==
  LET k == runs[r].next
      file == DataOf(runs[r].opts, k)
      ref == [path |-> NameOf(k), digest |-> file.data]
      run == [runs[r] EXCEPT !.fragment.refs = Append(@, ref), !.next = k + 1,
                             !.pc = IF k = 1 + Len(Evidence) THEN "fragment" ELSE "files"]
  IN  /\ runs[r].pc = "files"
      /\ IF scanProductionEvidence(TextsOf(file.data))
         THEN Put(r, NameOf(k), file, run) \/ WriteFails(r, NameOf(k))
         ELSE Fail(r)

\* The fragment, complete now, is scanned and written under the component as
\* it was given, not as trimmed.
WriteFragment(r) ==
  LET name == FragmentName(runs[r].opts)
  IN  /\ runs[r].pc = "fragment"
      /\ IF ScanAcceptanceValue(runs[r].fragment.texts)
         THEN \/ Put(r, name, [kind |-> "fragment", data |-> runs[r].fragment],
                     [runs[r] EXCEPT !.pc = "readback"])
              \/ WriteFails(r, name)
         ELSE Fail(r)

\* What is on disk is read again and scanned; then its path is printed.
ReadBack(r) ==
  LET file == disk[runs[r].dir][FragmentName(runs[r].opts)]
      safe == file.kind = "fragment" => ScanAcceptanceValue(file.data.texts)
  IN  /\ runs[r].pc = "readback"
      /\ \/ safe /\ Move(r, [runs[r] EXCEPT !.pc = "reported"])
         \/ Fail(r)

-----------------------------------------------------------------------------
(* acceptance-record *)

\* ParseAcceptanceRecordArgs, BuildAcceptanceRecord and the printing of it.
AcceptanceRecord(in) ==
  LET record == BuildAcceptanceRecord(build, in.opts)
  IN  /\ in.readable /\ record # NoRecord
      /\ printed' = [record |-> record, opts |-> in.opts]
      /\ UNCHANGED << build, runs, disk, disturbed >>

StoreNext ==
  \/ \E r \in Runs :
       \/ \E in \in RunInputs, dir \in Dirs : Parse(r, in, dir)
       \/ Build(r) \/ WriteEvidenceFile(r) \/ WriteFragment(r) \/ ReadBack(r)
  \/ \E in \in PilotInputs : AcceptanceRecord(in)

StoreSpec == StoreInit /\ [][StoreNext]_storeVars

-----------------------------------------------------------------------------
(* Properties *)

\* A fragment stands on its evidence.  Whenever the fragment of a run is on
\* disk, and so when the run has reported it, each of its references finds its
\* file with the digest it names, and the files hold what the run read; a run
\* that died, at whatever file, left no fragment that promises what is not
\* there.  This lasts until another run writes into the same directory: the
\* code neither locks it nor clears it.
EvidenceStands ==
  \A r \in {q \in Runs : Writing(q)} \ disturbed :
    LET run == runs[r]
        files == disk[run.dir]
        stands == files[FragmentName(run.opts)] = [kind |-> "fragment", data |-> run.fragment]
    IN  /\ run.pc = "reported" => stands
        /\ stands =>
             /\ {ref.path : ref \in Range(run.fragment.refs)} = {Summary} \cup Range(Evidence)
             /\ \A ref \in Range(run.fragment.refs) :
                  files[ref.path] = [kind |-> "evidence", data |-> ref.digest]
             /\ \A e \in Range(Evidence) : files[e].data.id = run.opts.evidence[e].id

\* No whole file a scanner would refuse is ever left on disk under a final name,
\* by a run that ends well or by one that fails halfway, its signing summary and
\* its fragment, which are put together after the options were validated,
\* included.  Of a file cut short in its own write nothing is said: the scanner
\* saw the whole text, and the cut may end a word that went on.
RetainedEvidenceIsSafe ==
  \A d \in Dirs, f \in FileNames :
    LET file == disk[d][f]
    IN  /\ file.kind = "evidence" => scanProductionEvidence(TextsOf(file.data))
        /\ file.kind = "fragment" => ScanAcceptanceValue(file.data.texts)

\* The options of the acceptance record of the release a run is about.
PilotOpts(opts) ==
  [ component |-> opts.component, releaseDate |-> opts.releaseDate, restoredAt |-> "good",
    pr |-> opts.pr, mergeCommit |-> opts.mergeCommit, docCommit |-> opts.mergeCommit,
    digests |-> TRUE, size |-> opts.size, signedAt |-> opts.signedAt, expires |-> "",
    text |-> [f \in AllTexts |-> IF f \in ReleaseTexts THEN opts.text[f] ELSE ""] ]

\* Production evidence is no laxer than the record of a pilot: whatever release
\* a fragment is built for, the acceptance-record command of the same binary
\* accepts too, as signed, with the same version and manifest digests.
ProductionImpliesPilot ==
  \A r \in Runs :
    runs[r].fragment # NoFragment =>
      LET record == BuildAcceptanceRecord(build, PilotOpts(runs[r].opts))
      IN  /\ record # NoRecord
          /\ record.signed
          /\ record.hashes = runs[r].fragment.hashes

\* Every artifact accepted for a pilot is accounted for: signed, with the time
\* it was signed stated and no exception dropped on the way, or excepted, with
\* the reason, the owner and the expiry in the record; by somebody, and of the
\* commit the binary was built from.
AcceptedArtifactsAccountedFor ==
  printed # Nothing =>
    LET record == printed.record
        opts == printed.opts
        exception == << opts.text["unsigned-exception"], opts.text["exception-owner"], opts.expires >>
    IN  /\ record.exception = IF record.signed THEN << >> ELSE exception
        /\ IF record.signed THEN opts.signedAt = "good" /\ Range(exception) = {""}
           ELSE "" \notin Range(exception)
        /\ record.by \notin Blank
        /\ \E c \in {build.commit, record.mergeCommit} :
             HasPrefix(build.commit, c) /\ HasPrefix(record.mergeCommit, c)

=============================================================================

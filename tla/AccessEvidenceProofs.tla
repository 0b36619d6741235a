------------------------ MODULE AccessEvidenceProofs ------------------------
(***************************************************************************)
(* Release evidence: the files the production-evidence command leaves, for *)
(* any number of runs that share directories, overlap, fail and are killed,*)
(* and the acceptance records.  Service access: the splices of a terminus, *)
(* for any consumers, services, issuers and lifetimes, however many        *)
(* capabilities and tombstones there are.                                  *)
(***************************************************************************)
EXTENDS EvidenceStore, ServiceAccess, TLAPS

-----------------------------------------------------------------------------
(* Release evidence: what is on disk is safe *)

\* Directories of files: a name in every directory, if only of an absent file.
Shaped(tree, D, F) == tree = [d \in D |-> [f \in F |-> tree[d][f]]]

DiskShape == Shaped(disk, Dirs, FileNames)

\* What RetainedEvidenceIsSafe says of one file.
Safe(file) ==
  /\ file.kind = "evidence" => scanProductionEvidence(TextsOf(file.data))
  /\ file.kind = "fragment" => ScanAcceptanceValue(file.data.texts)

SafeDisk == \A d \in Dirs, f \in FileNames : Safe(disk[d][f])

\* A write changes one file of one directory.
Written(tree, dir, name, file) == [tree EXCEPT ![dir][name] = file]

\* A write adds no name and no directory.
LEMMA WrittenShaped ==
  ASSUME NEW D, NEW F, NEW tree, Shaped(tree, D, F), NEW dir, NEW name, NEW file
  PROVE  Shaped(Written(tree, dir, name, file), D, F)
BY Zenon DEF Shaped, Written

\* The file written is the one read back.
LEMMA WrittenThere ==
  ASSUME NEW D, NEW F, NEW tree, Shaped(tree, D, F), NEW dir \in D, NEW name \in F, NEW file
  PROVE  Written(tree, dir, name, file)[dir][name] = file
BY DEF Shaped, Written

\* No other file changes.
LEMMA WrittenElsewhere ==
  ASSUME NEW D, NEW F, NEW tree, Shaped(tree, D, F), NEW dir, NEW name, NEW file,
         NEW d \in D, NEW f \in F, d # dir \/ f # name
  PROVE  Written(tree, dir, name, file)[d][f] = tree[d][f]
BY DEF Shaped, Written

\* A step that writes a safe file leaves a safe disk.
LEMMA PutIsSafe ==
  ASSUME DiskShape, SafeDisk, NEW r, NEW name, NEW file, NEW run, Put(r, name, file, run), Safe(file)
  PROVE  DiskShape' /\ SafeDisk'
<1>1. disk' = Written(disk, runs[r].dir, name, file)
  BY Zenon DEF Put, Written
<1>2. Shaped(disk, Dirs, FileNames)
  BY Zenon DEF DiskShape
<1>3. Shaped(disk', Dirs, FileNames)
  BY <1>1, <1>2, WrittenShaped, Zenon
<1>4. ASSUME NEW d \in Dirs, NEW f \in FileNames PROVE Safe(disk'[d][f])
  <2>1. CASE d = runs[r].dir /\ f = name
    <3>1. Written(disk, d, f, file)[d][f] = file
      BY <1>2, <1>4, WrittenThere
    <3>2. QED BY <1>1, <2>1, <3>1, Zenon
  <2>2. CASE d # runs[r].dir \/ f # name
    <3>1. Written(disk, runs[r].dir, name, file)[d][f] = disk[d][f]
      BY <1>2, <1>4, <2>2, WrittenElsewhere
    <3>2. QED BY <1>1, <1>4, <3>1, Zenon DEF SafeDisk
  <2>3. QED BY <2>1, <2>2, Zenon
<1>5. QED BY <1>3, <1>4, Zenon DEF DiskShape, SafeDisk

\* A file cut short is not one a scanner is shown.
LEMMA TornIsSafe == Safe(Torn)
<1>1. Torn.kind = "torn"
  BY DEF Torn
<1>2. QED BY <1>1, Zenon DEF Safe

\* The file WriteEvidenceFile writes is an evidence file.
LEMMA DataIsEvidence ==
  ASSUME NEW opts, NEW k
  PROVE  DataOf(opts, k).kind = "evidence"
BY DEF DataOf

\* Every step keeps the disk safe: writeProductionEvidenceFile and the writing of
\* the fragment scan what they write before they write it, and no other step
\* touches a file.
LEMMA SafeStep ==
  ASSUME DiskShape, SafeDisk, [StoreNext]_storeVars
  PROVE  DiskShape' /\ SafeDisk'
<1>1. CASE disk' = disk
  BY <1>1, Zenon DEF DiskShape, SafeDisk
<1>2. ASSUME NEW r, NEW name, WriteFails(r, name) PROVE DiskShape' /\ SafeDisk'
  <2>1. CASE Fail(r)
    BY <1>1, <2>1, Zenon DEF Fail, Move
  <2>2. CASE Put(r, name, Torn, [runs[r] EXCEPT !.pc = "failed"])
    BY <2>2, TornIsSafe, PutIsSafe, Zenon
  <2>3. QED BY <1>2, <2>1, <2>2, Zenon DEF WriteFails
<1>3. ASSUME NEW r \in Runs, WriteEvidenceFile(r) PROVE DiskShape' /\ SafeDisk'
  <2> DEFINE k == runs[r].next
             file == DataOf(runs[r].opts, k)
  <2>1. CASE Fail(r)
    BY <1>1, <2>1, Zenon DEF Fail, Move
  <2>2. ASSUME NEW run, scanProductionEvidence(TextsOf(file.data)), Put(r, NameOf(k), file, run)
        PROVE  DiskShape' /\ SafeDisk'
    <3>1. file.kind = "evidence"
      BY DataIsEvidence, Zenon
    <3>2. Safe(file)
      BY <2>2, <3>1, Zenon DEF Safe
    <3>3. QED BY <2>2, <3>2, PutIsSafe, Zenon
  <2>3. QED BY <1>2, <1>3, <2>1, <2>2, Zenon DEF WriteEvidenceFile
<1>4. ASSUME NEW r \in Runs, WriteFragment(r) PROVE DiskShape' /\ SafeDisk'
  <2> DEFINE name == FragmentName(runs[r].opts)
             file == [kind |-> "fragment", data |-> runs[r].fragment]
  <2>1. CASE Fail(r)
    BY <1>1, <2>1, Zenon DEF Fail, Move
  <2>2. ASSUME NEW run, ScanAcceptanceValue(runs[r].fragment.texts), Put(r, name, file, run)
        PROVE  DiskShape' /\ SafeDisk'
    <3>1. file.kind = "fragment" /\ file.data = runs[r].fragment
      BY Zenon
    <3>2. Safe(file)
      BY <2>2, <3>1, Zenon DEF Safe
    <3>3. QED BY <2>2, <3>2, PutIsSafe, Zenon
  <2>3. QED BY <1>2, <1>4, <2>1, <2>2, Zenon DEF WriteFragment
<1>5. QED BY <1>1, <1>3, <1>4, Zenon
         DEF StoreNext, storeVars, Parse, Build, ReadBack, AcceptanceRecord, Fail, Move

\* Nothing a scanner would refuse is ever left on disk under a final name, for
\* any inputs, by any number of runs of production-evidence that share
\* directories and fail or die anywhere.
THEOREM RetainedEvidenceIsSafeAlways == StoreSpec => []RetainedEvidenceIsSafe
<1>1. StoreInit => DiskShape /\ SafeDisk
  <2>1. SUFFICES ASSUME StoreInit PROVE DiskShape /\ SafeDisk
    OBVIOUS
  <2>2. DiskShape
    BY <2>1 DEF StoreInit, DiskShape, Shaped
  <2>3. ASSUME NEW d \in Dirs, NEW f \in FileNames PROVE disk[d][f].kind = "absent"
    BY <2>1, <2>3 DEF StoreInit, Absent
  <2>4. SafeDisk
    BY <2>3, Zenon DEF SafeDisk, Safe
  <2>5. QED BY <2>2, <2>4
<1>2. DiskShape /\ SafeDisk /\ [StoreNext]_storeVars => DiskShape' /\ SafeDisk'
  BY SafeStep
<1>3. SafeDisk => RetainedEvidenceIsSafe
  BY Zenon DEF SafeDisk, Safe, RetainedEvidenceIsSafe
<1>4. QED BY <1>1, <1>2, <1>3, PTL DEF StoreSpec

-----------------------------------------------------------------------------
(* Where a run is, what its fragment says and what it left *)

Given == {in.opts : in \in RunInputs}

\* How many evidence files a run writes, and the reference to the k-th.
Total == 1 + Len(Evidence)
Ref(opts, k) == [path |-> NameOf(k), digest |-> DataOf(opts, k).data]
Refs(opts, n) == [k \in 1..n |-> Ref(opts, k)]

\* The fragment of a run that has written n evidence files.
Fragment(opts, n) ==
  [ component |-> TrimComponent(opts.component), mergeCommit |-> opts.mergeCommit,
    texts |-> {opts.text[f] : f \in ReleaseTexts},
    hashes |-> acceptanceEvidenceHashes(build, TrimComponent(opts.component)),
    refs |-> Refs(opts, n) ]

Buildable(opts) == BuildProductionEvidenceFragment(build, opts) # NoFragment

RunInv(run) ==
  /\ DOMAIN run = {"pc", "dir", "opts", "fragment", "next"}
  /\ run.next \in 0..(Total + 1)
  /\ run.pc = "build" => run.next = 0
  /\ run.pc = "files" => run.next \in 1..Total
  /\ run.pc \in {"fragment", "readback", "reported"} => run.next = Total + 1
  /\ run.pc = "build" \/ run.next > 0 => run.dir \in Dirs /\ run.opts \in Given
  /\ run.next = 0 => run.fragment = NoFragment
  /\ run.next > 0 => Buildable(run.opts) /\ run.fragment = Fragment(run.opts, run.next - 1)

RunsInv == DOMAIN runs = Runs /\ \A r \in Runs : RunInv(runs[r])

\* What the directory of an undisturbed run holds.
Stands(run, files) ==
  /\ \A k \in 1..(run.next - 1) : files[NameOf(k)] = DataOf(run.opts, k)
  /\ run.pc \in {"readback", "reported"} =>
       files[FragmentName(run.opts)] = [kind |-> "fragment", data |-> run.fragment]

StandInv == \A r \in Runs : Writing(r) /\ r \notin disturbed => Stands(runs[r], disk[runs[r].dir])

\* A fragment on disk is one whose run had written every file.
Whole(file) == file.kind = "fragment" => Len(file.data.refs) = Total

WholeDisk == \A d \in Dirs, f \in FileNames : Whole(disk[d][f])

StoreIndInv == DiskShape /\ build \in Builds /\ RunsInv /\ StandInv /\ WholeDisk

-----------------------------------------------------------------------------
(* Names and references *)

\* Files 2 and on are the evidence files, in the order they are given.
LEMMA EvidenceRange ==
  ASSUME NEW k \in 2..Total
  PROVE  Evidence[k - 1] \in Range(Evidence) /\ k - 1 \in DOMAIN Evidence
<1>1. DOMAIN Evidence = 1..Len(Evidence) /\ Len(Evidence) \in Nat
  BY EvidenceAssumption
<1>2. k - 1 \in 1..Len(Evidence)
  BY <1>1 DEF Total
<1>3. QED BY <1>1, <1>2 DEF Range

\* The files of a run have different names, that of its fragment included.
LEMMA NamesApart ==
  /\ \A j, k \in 1..Total : NameOf(j) = NameOf(k) => j = k
  /\ \A k \in 1..Total : NameOf(k) \in FileNames
  /\ \A opts \in Given :
       /\ FragmentName(opts) \in FileNames
       /\ \A k \in 1..Total : NameOf(k) # FragmentName(opts)
<1>1. Total \in Nat /\ Len(Evidence) \in Nat
  BY EvidenceAssumption DEF Total
<1>2. \A k \in 1..Total : k = 1 \/ k \in 2..Total
  BY <1>1
<1>3. NameOf(1) = Summary
  BY DEF NameOf
<1>4. \A k \in 2..Total : NameOf(k) = Evidence[k - 1] /\ NameOf(k) \in Range(Evidence)
  BY <1>1, EvidenceRange DEF NameOf
<1>5. ASSUME NEW j \in 1..Total, NEW k \in 1..Total, NameOf(j) = NameOf(k) PROVE j = k
  <2>1. CASE j = 1 \/ k = 1
    BY <1>2, <1>3, <1>4, <1>5, <2>1, EvidenceAssumption
  <2>2. CASE j \in 2..Total /\ k \in 2..Total
    <3>1. Evidence[j - 1] = Evidence[k - 1] /\ j - 1 \in DOMAIN Evidence /\ k - 1 \in DOMAIN Evidence
      BY <1>4, <1>5, <2>2, EvidenceRange
    <3>2. j - 1 = k - 1
      BY <3>1, EvidenceAssumption DEF IsInjective
    <3>3. QED BY <3>2
  <2>3. QED BY <1>2, <2>1, <2>2
<1>6. \A k \in 1..Total : NameOf(k) \in {Summary} \cup Range(Evidence)
  BY <1>2, <1>3, <1>4
<1>7. \A opts \in Given : FragmentName(opts) \notin {Summary} \cup Range(Evidence)
  BY EvidenceAssumption, Zenon DEF Given
<1>8. \A opts \in Given : FragmentName(opts) \in FileNames
  BY Zenon DEF Given, FileNames
<1>9. QED BY <1>5, <1>6, <1>7, <1>8 DEF FileNames

\* The digests a fragment states are those of its component.
LEMMA FragmentHashes ==
  ASSUME NEW opts, NEW n
  PROVE  Fragment(opts, n).hashes = acceptanceEvidenceHashes(build, TrimComponent(opts.component))
BY DEF Fragment

\* A written file adds one reference.
LEMMA RefsGrow ==
  ASSUME NEW opts, NEW n \in Nat
  PROVE  /\ Append(Refs(opts, n), Ref(opts, n + 1)) = Refs(opts, n + 1)
         /\ Len(Refs(opts, n)) = n /\ Refs(opts, 0) = <<>>
<1> DEFINE X == {Ref(opts, k) : k \in 1..(n + 1)}
           s == Refs(opts, n)
           t == Refs(opts, n + 1)
           x == Ref(opts, n + 1)
<1>1. \A k \in 1..(n + 1) : Ref(opts, k) \in X
  OBVIOUS
<1> HIDE DEF X
<1>2. s \in Seq(X) /\ Len(s) = n /\ \A k \in 1..n : s[k] = Ref(opts, k)
  BY <1>1 DEF Refs
<1>3. t \in Seq(X) /\ Len(t) = n + 1 /\ \A k \in 1..(n + 1) : t[k] = Ref(opts, k)
  BY <1>1 DEF Refs
<1>4. x \in X
  BY <1>1
<1>5. \A k \in 1..(n + 1) : Append(s, x)[k] = Ref(opts, k)
  <2>1. ASSUME NEW k \in 1..(n + 1) PROVE Append(s, x)[k] = Ref(opts, k)
    <3>1. CASE k = n + 1
      BY <1>2, <1>4, <3>1
    <3>2. CASE k \in 1..n
      BY <1>2, <1>4, <3>2
    <3>3. k = n + 1 \/ k \in 1..n
      OBVIOUS
    <3>4. QED BY <3>1, <3>2, <3>3, Zenon
  <2>2. QED BY <2>1, Zenon
<1>6. Append(s, x) \in Seq(X) /\ Len(Append(s, x)) = n + 1
  BY <1>2, <1>4
<1>7. Append(s, x) = t
  <2> DEFINE a == Append(s, x)
  <2>1. a \in Seq(X) /\ Len(a) = n + 1 /\ \A k \in 1..(n + 1) : a[k] = t[k]
    BY <1>3, <1>5, <1>6
  <2> HIDE DEF a, t, s, x
  <2>2. a = t
    BY <1>3, <2>1
  <2>3. QED BY <2>2 DEF a
<1>8. Refs(opts, 0) = <<>>
  BY DEF Refs
<1>9. QED BY <1>2, <1>7, <1>8

\* What BuildProductionEvidenceFragment builds for options it accepts.
LEMMA FragmentBuilt ==
  ASSUME NEW opts \in Given, Buildable(opts)
  PROVE  BuildProductionEvidenceFragment(build, opts) = Fragment(opts, 0)
<1> DEFINE trimmed == [opts EXCEPT !.component = TrimComponent(@)]
<1>1. DOMAIN opts = OptionFields
  BY InputAssumption, Zenon DEF Given
<1>2. /\ trimmed.component = TrimComponent(opts.component)
      /\ trimmed.mergeCommit = opts.mergeCommit /\ trimmed.text = opts.text
  BY <1>1 DEF OptionFields
<1>3. Refs(opts, 0) = <<>>
  BY RefsGrow
<1> HIDE DEF trimmed
<1>4. BuildProductionEvidenceFragment(build, opts)
        = [ component |-> trimmed.component, mergeCommit |-> trimmed.mergeCommit,
            texts |-> {trimmed.text[f] : f \in ReleaseTexts},
            hashes |-> acceptanceEvidenceHashes(build, trimmed.component),
            refs |-> <<>> ]
  BY Zenon DEF Buildable, BuildProductionEvidenceFragment, trimmed
<1>5. QED BY <1>2, <1>3, <1>4, Zenon DEF Fragment

-----------------------------------------------------------------------------
(* Steps that write nothing, and steps that write one file *)

\* Only run r's state changes, to one it may be in.
LEMMA RunsChange ==
  ASSUME RunsInv, NEW r \in Runs, NEW run, RunInv(run), UNCHANGED build,
         runs' = [runs EXCEPT ![r] = run]
  PROVE  /\ RunsInv' /\ runs'[r] = run
         /\ \A q \in Runs \ {r} : runs'[q] = runs[q]
<1>1. DOMAIN runs' = Runs /\ runs'[r] = run /\ \A q \in Runs \ {r} : runs'[q] = runs[q]
  BY DEF RunsInv
<1>2. \A q \in Runs : RunInv(runs'[q])
  BY <1>1 DEF RunsInv
<1>3. \A q \in Runs : RunInv(runs[q])'
  BY <1>2 DEF RunInv, Buildable, Fragment
<1>4. QED BY <1>1, <1>3 DEF RunsInv

\* Each other run is as it was, in a directory that is as it was, or disturbed.
LEMMA OthersStand ==
  ASSUME StandInv, NEW r \in Runs, NEW dir, NEW name, NEW file,
         \A q \in Runs \ {r} : runs'[q] = runs[q],
         DiskShape, RunsInv, disk' = Written(disk, dir, name, file), disturbed \subseteq disturbed',
         {q \in Runs \ {r} : Writing(q) /\ runs[q].dir = dir} \subseteq disturbed',
         NEW q \in Runs \ {r}, Writing(q)', q \notin disturbed'
  PROVE  Stands(runs[q], disk[runs[q].dir])'
<1>1. runs'[q] = runs[q] /\ runs[q].next > 1
  BY DEF Writing
<1>2. q \notin disturbed /\ runs[q].dir # dir
  BY <1>1 DEF Writing
<1>3. RunInv(runs[q]) /\ runs[q].dir \in Dirs
  BY <1>1 DEF RunsInv, RunInv
<1>4. Stands(runs[q], disk[runs[q].dir])
  BY <1>1, <1>2 DEF StandInv, Writing
<1>5. disk'[runs[q].dir] = disk[runs[q].dir]
  BY <1>2, <1>3 DEF DiskShape, Shaped, Written
<1>6. QED BY <1>1, <1>4, <1>5 DEF Stands

\* A write into a directory keeps the invariant when its run is as it should be and
\* its files stand.
LEMMA PutKeeps ==
  ASSUME StoreIndInv, NEW r \in Runs, NEW name \in FileNames, NEW file, NEW run,
         Put(r, name, file, run), RunInv(run), Whole(file),
         runs[r].dir \in Dirs, run.dir = runs[r].dir,
         run.next > 1 /\ r \notin disturbed => Stands(run, [disk[run.dir] EXCEPT ![name] = file])
  PROVE  StoreIndInv'
<1> DEFINE dir == runs[r].dir
<1>1. /\ disk' = Written(disk, dir, name, file) /\ runs' = [runs EXCEPT ![r] = run]
      /\ disturbed' = disturbed \cup {q \in Runs \ {r} : Writing(q) /\ runs[q].dir = dir}
      /\ UNCHANGED build
  BY Zenon DEF Put, Written
<1>2. RunsInv' /\ runs'[r] = run /\ \A q \in Runs \ {r} : runs'[q] = runs[q]
  BY <1>1, RunsChange, Zenon DEF StoreIndInv
<1>3. Shaped(disk, Dirs, FileNames)
  BY DEF StoreIndInv, DiskShape
<1>4. DiskShape'
  <2>1. Shaped(disk', Dirs, FileNames)
    BY <1>1, <1>3, WrittenShaped, Zenon
  <2>2. QED BY <2>1 DEF DiskShape
<1>5. WholeDisk'
  <2>1. ASSUME NEW d \in Dirs, NEW f \in FileNames PROVE Whole(disk'[d][f])
    <3>1. CASE d = dir /\ f = name
      <4>1. Written(disk, d, f, file)[d][f] = file
        BY <1>3, WrittenThere
      <4>2. QED BY <1>1, <3>1, <4>1, Zenon
    <3>2. CASE d # dir \/ f # name
      <4>1. Written(disk, dir, name, file)[d][f] = disk[d][f]
        BY <1>3, <3>2, WrittenElsewhere
      <4>2. QED BY <1>1, <4>1, Zenon DEF StoreIndInv, WholeDisk
    <3>3. QED BY <3>1, <3>2, Zenon
  <2>2. QED BY <2>1, Zenon DEF WholeDisk
<1>6. StandInv'
  <2>1. ASSUME NEW q \in Runs, Writing(q)', q \notin disturbed'
        PROVE  Stands(runs[q], disk[runs[q].dir])'
    <3>1. CASE q # r
      <4>1. disturbed \subseteq disturbed'
        BY <1>1
      <4>2. {p \in Runs \ {r} : Writing(p) /\ runs[p].dir = dir} \subseteq disturbed'
        BY <1>1
      <4>3. q \in Runs \ {r}
        BY <3>1
      <4>4. StandInv /\ DiskShape /\ RunsInv
        BY DEF StoreIndInv
      <4>5. QED BY <1>1, <1>2, <2>1, <4>1, <4>2, <4>3, <4>4, OthersStand, Zenon
    <3>2. CASE q = r
      <4>1. run.next > 1 /\ r \notin disturbed
        BY <1>1, <1>2, <2>1, <3>2 DEF Writing
      <4>2. disk'[dir] = [disk[dir] EXCEPT ![name] = file]
        BY <1>1, <1>3 DEF Shaped, Written
      <4>3. QED BY <1>2, <3>2, <4>1, <4>2, Zenon DEF Stands
    <3>3. QED BY <3>1, <3>2
  <2>2. QED BY <2>1 DEF StandInv
<1>7. QED BY <1>1, <1>2, <1>4, <1>5, <1>6 DEF StoreIndInv

\* So does a step of a run that writes nothing.
LEMMA MoveKeeps ==
  ASSUME StoreIndInv, NEW r \in Runs, NEW run, Move(r, run), RunInv(run),
         run.next > 1 /\ r \notin disturbed => Stands(run, disk[run.dir])
  PROVE  StoreIndInv'
<1>1. runs' = [runs EXCEPT ![r] = run] /\ UNCHANGED << build, disk, disturbed >>
  BY DEF Move
<1>2. RunsInv' /\ runs'[r] = run /\ \A q \in Runs \ {r} : runs'[q] = runs[q]
  BY <1>1, RunsChange, Zenon DEF StoreIndInv
<1>3. StandInv'
  <2>1. ASSUME NEW q \in Runs, Writing(q)', q \notin disturbed'
        PROVE  Stands(runs[q], disk[runs[q].dir])'
    <3>1. CASE q # r
      BY <1>1, <1>2, <2>1, <3>1 DEF StoreIndInv, StandInv, Writing, Stands
    <3>2. CASE q = r
      BY <1>1, <1>2, <2>1, <3>2 DEF Writing, Stands
    <3>3. QED BY <3>1, <3>2
  <2>2. QED BY <2>1 DEF StandInv
<1>4. QED BY <1>1, <1>2, <1>3 DEF StoreIndInv, DiskShape, WholeDisk

-----------------------------------------------------------------------------
(* One lemma per action *)

\* A run that fails keeps all but its place.
LEMMA Failed ==
  ASSUME NEW run, RunInv(run)
  PROVE  LET failed == [run EXCEPT !.pc = "failed"]
         IN  /\ RunInv(failed) /\ failed.dir = run.dir /\ failed.opts = run.opts
             /\ failed.next = run.next /\ failed.pc = "failed"
<1> DEFINE failed == [run EXCEPT !.pc = "failed"]
<1>1. DOMAIN run = {"pc", "dir", "opts", "fragment", "next"}
  BY DEF RunInv
<1>2. /\ DOMAIN failed = {"pc", "dir", "opts", "fragment", "next"}
      /\ failed.pc = "failed" /\ failed.dir = run.dir /\ failed.opts = run.opts
      /\ failed.fragment = run.fragment /\ failed.next = run.next
  BY <1>1
<1> HIDE DEF failed
<1>3. RunInv(failed)
  BY <1>2 DEF RunInv
<1>4. QED BY <1>2, <1>3 DEF failed

\* Failing keeps the invariant.
LEMMA FailKeeps ==
  ASSUME StoreIndInv, NEW r \in Runs, Fail(r) PROVE StoreIndInv'
<1> DEFINE failed == [runs[r] EXCEPT !.pc = "failed"]
<1>1. RunInv(runs[r])
  BY DEF StoreIndInv, RunsInv
<1>2. /\ RunInv(failed) /\ failed.dir = runs[r].dir /\ failed.opts = runs[r].opts
      /\ failed.next = runs[r].next /\ failed.pc = "failed"
  BY <1>1, Failed, Zenon
<1>3. Move(r, failed)
  BY Zenon DEF Fail
<1> HIDE DEF failed
<1>4. failed.next > 1 /\ r \notin disturbed => Stands(failed, disk[failed.dir])
  BY <1>2, Zenon DEF StoreIndInv, StandInv, Stands, Writing
<1>5. QED BY <1>2, <1>3, <1>4, MoveKeeps

\* A write that fails, before the file is opened or half-way, keeps the invariant:
\* the file is none the run has written yet.
LEMMA WriteFailsKeeps ==
  ASSUME StoreIndInv, NEW r \in Runs, NEW name \in FileNames, WriteFails(r, name),
         runs[r].dir \in Dirs, runs[r].pc \notin {"readback", "reported"},
         \A k \in 1..(runs[r].next - 1) : NameOf(k) # name
  PROVE  StoreIndInv'
<1> DEFINE failed == [runs[r] EXCEPT !.pc = "failed"]
           files == disk[runs[r].dir]
<1>1. RunInv(runs[r])
  BY DEF StoreIndInv, RunsInv
<1>2. /\ RunInv(failed) /\ failed.dir = runs[r].dir /\ failed.opts = runs[r].opts
      /\ failed.next = runs[r].next /\ failed.pc = "failed"
  BY <1>1, Failed, Zenon
<1>3. CASE Put(r, name, Torn, failed)
  <2> HIDE DEF failed
  <2>1. Whole(Torn)
    BY DEF Whole, Torn
  <2>2. failed.next > 1 /\ r \notin disturbed => Stands(failed, [disk[failed.dir] EXCEPT ![name] = Torn])
    <3>1. SUFFICES ASSUME failed.next > 1, r \notin disturbed
                   PROVE  Stands(failed, [files EXCEPT ![name] = Torn])
      BY <1>2
    <3>2. Stands(runs[r], files)
      BY <1>2, <3>1 DEF StoreIndInv, StandInv, Writing
    <3>3. DOMAIN files = FileNames
      BY DEF StoreIndInv, DiskShape, Shaped
    <3>4. runs[r].next - 1 <= Total /\ runs[r].next \in Nat /\ Total \in Nat
      BY <1>1, EvidenceAssumption DEF RunInv, Total
    <3> HIDE DEF files
    <3>5. ASSUME NEW k \in 1..(runs[r].next - 1)
          PROVE  [files EXCEPT ![name] = Torn][NameOf(k)] = DataOf(runs[r].opts, k)
      <4>1. NameOf(k) \in FileNames
        BY <3>4, NamesApart
      <4>2. QED BY <3>2, <3>3, <4>1 DEF Stands
    <3>6. QED BY <1>2, <3>5 DEF Stands
  <2>3. QED BY <1>2, <1>3, <2>1, <2>2, PutKeeps
<1>4. CASE Fail(r)
  BY <1>4, FailKeeps
<1>5. QED BY <1>3, <1>4, Zenon DEF WriteFails

\* Reading the options keeps the invariant.
LEMMA ParseKeeps ==
  ASSUME StoreIndInv, NEW r \in Runs, NEW in \in RunInputs, NEW dir \in Dirs, Parse(r, in, dir)
  PROVE  StoreIndInv'
<1> DEFINE begun == [Unstarted EXCEPT !.pc = "build", !.dir = dir, !.opts = in.opts]
           failed == [Unstarted EXCEPT !.pc = "failed"]
<1>1. Move(r, begun) \/ Move(r, failed)
  BY Zenon DEF Parse
<1>2. in.opts \in Given
  BY DEF Given
<1>3. Total \in Nat
  BY EvidenceAssumption DEF Total
<1>4. /\ DOMAIN begun = {"pc", "dir", "opts", "fragment", "next"} /\ begun.pc = "build"
      /\ begun.dir = dir /\ begun.opts = in.opts /\ begun.fragment = NoFragment /\ begun.next = 0
  BY DEF Unstarted
<1>5. /\ DOMAIN failed = {"pc", "dir", "opts", "fragment", "next"} /\ failed.pc = "failed"
      /\ failed.fragment = NoFragment /\ failed.next = 0
  BY DEF Unstarted
<1> HIDE DEF begun, failed
<1>6. RunInv(begun)
  BY <1>2, <1>3, <1>4 DEF RunInv
<1>7. RunInv(failed)
  BY <1>3, <1>5 DEF RunInv
<1>8. QED BY <1>1, <1>4, <1>5, <1>6, <1>7, MoveKeeps

\* Building the fragment, or refusing to, keeps the invariant.
LEMMA BuildKeeps ==
  ASSUME StoreIndInv, NEW r \in Runs, Build(r) PROVE StoreIndInv'
<1> DEFINE opts == runs[r].opts
           fragment == BuildProductionEvidenceFragment(build, opts)
           run == [runs[r] EXCEPT !.pc = "files", !.fragment = fragment, !.next = 1]
<1>1. runs[r].pc = "build" /\ ((fragment # NoFragment /\ Move(r, run)) \/ Fail(r))
  BY Zenon DEF Build
<1>2. CASE Fail(r)
  BY <1>2, FailKeeps
<1>3. CASE fragment # NoFragment /\ Move(r, run)
  <2>1. RunInv(runs[r])
    BY DEF StoreIndInv, RunsInv
  <2>2. opts \in Given /\ runs[r].dir \in Dirs
    BY <1>1, <2>1 DEF RunInv
  <2>3. Buildable(opts)
    BY <1>3 DEF Buildable
  <2>4. fragment = Fragment(opts, 0)
    BY <2>2, <2>3, FragmentBuilt
  <2>5. DOMAIN runs[r] = {"pc", "dir", "opts", "fragment", "next"}
    BY <2>1 DEF RunInv
  <2> HIDE DEF fragment
  <2>6. /\ DOMAIN run = {"pc", "dir", "opts", "fragment", "next"} /\ run.pc = "files"
        /\ run.dir = runs[r].dir /\ run.opts = opts /\ run.fragment = fragment /\ run.next = 1
    BY <2>5
  <2> HIDE DEF run, opts
  <2>7. Total \in Nat /\ Total >= 1 /\ 1 - 1 = 0
    BY EvidenceAssumption DEF Total
  <2>8. RunInv(run)
    BY <2>2, <2>3, <2>4, <2>6, <2>7 DEF RunInv
  <2>9. ~(run.next > 1)
    BY <2>6
  <2>10. QED BY <1>3, <2>8, <2>9, MoveKeeps
<1>4. QED BY <1>1, <1>2, <1>3

\* The fragment gains a reference.
LEMMA FragmentGrows ==
  ASSUME NEW opts, NEW n, NEW m, NEW x, Append(Refs(opts, n), x) = Refs(opts, m)
  PROVE  [Fragment(opts, n) EXCEPT !.refs = Append(@, x)] = Fragment(opts, m)
<1> DEFINE a == TrimComponent(opts.component)
           b == opts.mergeCommit
           c == {opts.text[f] : f \in ReleaseTexts}
           d == acceptanceEvidenceHashes(build, a)
           F(s) == [component |-> a, mergeCommit |-> b, texts |-> c, hashes |-> d, refs |-> s]
<1>1. Fragment(opts, n) = F(Refs(opts, n)) /\ Fragment(opts, m) = F(Refs(opts, m))
  BY Zenon DEF Fragment
<1> HIDE DEF a, b, c, d
<1>2. [F(Refs(opts, n)) EXCEPT !.refs = Append(@, x)] = F(Append(Refs(opts, n), x))
  BY SMTT(30)
<1> HIDE DEF F
<1>3. QED BY <1>1, <1>2, Zenon

\* The state of a run that has written one more file.
LEMMA Advanced ==
  ASSUME NEW run, DOMAIN run = {"pc", "dir", "opts", "fragment", "next"}, NEW x, NEW n, NEW p
  PROVE  LET s == [run EXCEPT !.fragment.refs = Append(@, x), !.next = n, !.pc = p]
         IN  /\ DOMAIN s = {"pc", "dir", "opts", "fragment", "next"}
             /\ s.pc = p /\ s.dir = run.dir /\ s.opts = run.opts /\ s.next = n
             /\ s.fragment = [run.fragment EXCEPT !.refs = Append(@, x)]
<1> DEFINE f == [run.fragment EXCEPT !.refs = Append(@, x)]
           s == [run EXCEPT !.fragment = f, !.next = n, !.pc = p]
<1>1. [run EXCEPT !.fragment.refs = Append(@, x), !.next = n, !.pc = p] = s
  OBVIOUS
<1> HIDE DEF f
<1>2. /\ DOMAIN s = {"pc", "dir", "opts", "fragment", "next"}
      /\ s.pc = p /\ s.dir = run.dir /\ s.opts = run.opts /\ s.next = n /\ s.fragment = f
  OBVIOUS
<1> HIDE DEF s
<1>3. QED BY <1>1, <1>2, Zenon DEF f

\* Writing one evidence file, whole or not, keeps the invariant.
LEMMA WriteEvidenceKeeps ==
  ASSUME StoreIndInv, NEW r \in Runs, WriteEvidenceFile(r) PROVE StoreIndInv'
<1> DEFINE k == runs[r].next
           opts == runs[r].opts
           file == DataOf(opts, k)
           ref == [path |-> NameOf(k), digest |-> file.data]
           run == [runs[r] EXCEPT !.fragment.refs = Append(@, ref), !.next = k + 1,
                                  !.pc = IF k = 1 + Len(Evidence) THEN "fragment" ELSE "files"]
<1>1. /\ runs[r].pc = "files"
      /\ Put(r, NameOf(k), file, run) \/ WriteFails(r, NameOf(k)) \/ Fail(r)
  BY Zenon DEF WriteEvidenceFile
<1>2. RunInv(runs[r])
  BY DEF StoreIndInv, RunsInv
<1>3. Total \in Nat /\ k \in 1..Total /\ k \in Nat
  BY <1>1, <1>2, EvidenceAssumption DEF RunInv, Total
<1>4. runs[r].dir \in Dirs /\ opts \in Given /\ Buildable(opts) /\ runs[r].fragment = Fragment(opts, k - 1)
  BY <1>2, <1>3 DEF RunInv
<1>5. NameOf(k) \in FileNames
  BY <1>3, NamesApart
<1>6. \A j \in 1..(k - 1) : NameOf(j) # NameOf(k)
  BY <1>3, NamesApart
<1>7. CASE Put(r, NameOf(k), file, run)
  <2>1. DOMAIN runs[r] = {"pc", "dir", "opts", "fragment", "next"}
    BY <1>2 DEF RunInv
  <2>2. ref = Ref(opts, k)
    BY DEF Ref
  <2>3. Append(Refs(opts, k - 1), Ref(opts, k)) = Refs(opts, k)
    <3>1. k - 1 \in Nat /\ (k - 1) + 1 = k
      BY <1>3
    <3>2. QED BY <3>1, RefsGrow, Zenon
  <2> HIDE DEF ref, k, opts, file
  <2>4. /\ DOMAIN run = {"pc", "dir", "opts", "fragment", "next"}
        /\ run.pc = IF k = Total THEN "fragment" ELSE "files"
        /\ run.dir = runs[r].dir /\ run.opts = opts /\ run.next = k + 1
        /\ run.fragment = [runs[r].fragment EXCEPT !.refs = Append(@, ref)]
    BY <2>1, Advanced, Zenon DEF Total, opts
  <2> HIDE DEF run
  <2>5. [Fragment(opts, k - 1) EXCEPT !.refs = Append(@, ref)] = Fragment(opts, k)
    BY <2>2, <2>3, FragmentGrows, Zenon
  <2>6. run.fragment = Fragment(opts, k)
    BY <1>4, <2>4, <2>5
  <2>7. RunInv(run)
    <3>1. (k + 1) - 1 = k /\ k + 1 \in 0..(Total + 1) /\ k + 1 > 0 /\ k + 1 # 0
      BY <1>3
    <3>2. k = Total \/ k + 1 \in 1..Total
      BY <1>3
    <3>3. (run.pc = "fragment" /\ k = Total) \/ (run.pc = "files" /\ k + 1 \in 1..Total)
      BY <2>4, <3>2
    <3>4. QED BY <1>4, <2>4, <2>6, <3>1, <3>3, Zenon DEF RunInv
  <2>8. Whole(file)
    <3>1. file.kind = "evidence"
      BY DataIsEvidence DEF file
    <3>2. QED BY <3>1 DEF Whole
  <2>9. ASSUME r \notin disturbed
        PROVE  Stands(run, [disk[run.dir] EXCEPT ![NameOf(k)] = file])
    <3> DEFINE files == disk[run.dir]
               after == [files EXCEPT ![NameOf(k)] = file]
    <3>1. DOMAIN files = FileNames
      BY <1>4, <2>4 DEF StoreIndInv, DiskShape, Shaped
    <3>2. \A j \in 1..(k - 1) : files[NameOf(j)] = DataOf(opts, j)
      <4>1. CASE k > 1
        <5>1. Stands(runs[r], disk[runs[r].dir])
          BY <2>9, <4>1 DEF StoreIndInv, StandInv, Writing, k
        <5>2. QED BY <2>4, <5>1 DEF Stands, k, opts
      <4>2. CASE ~(k > 1)
        BY <1>3, <4>2
      <4>3. QED BY <4>1, <4>2
    <3> HIDE DEF files
    <3>3. after[NameOf(k)] = DataOf(opts, k)
      BY <1>5, <3>1 DEF file
    <3>4. ASSUME NEW j \in 1..k PROVE after[NameOf(j)] = DataOf(opts, j)
      <4>1. CASE j = k
        BY <3>3, <4>1
      <4>2. CASE j \in 1..(k - 1)
        <5>1. NameOf(j) # NameOf(k) /\ NameOf(j) \in FileNames
          BY <1>3, <1>6, <4>2, NamesApart
        <5>2. QED BY <3>1, <3>2, <4>2, <5>1
      <4>3. j = k \/ j \in 1..(k - 1)
        BY <1>3
      <4>4. QED BY <4>1, <4>2, <4>3, Zenon
    <3> HIDE DEF after
    <3>5. run.pc \notin {"readback", "reported"} /\ run.next - 1 = k
      BY <1>3, <2>4
    <3>6. Stands(run, after)
      BY <2>4, <3>4, <3>5 DEF Stands
    <3>7. QED BY <3>6 DEF after, files
  <2>10. QED BY <1>4, <1>5, <1>7, <2>4, <2>7, <2>8, <2>9, PutKeeps, Zenon
<1>8. CASE WriteFails(r, NameOf(k))
  BY <1>1, <1>4, <1>5, <1>6, <1>8, WriteFailsKeeps
<1>9. CASE Fail(r)
  BY <1>9, FailKeeps
<1>10. QED BY <1>1, <1>7, <1>8, <1>9

\* Writing the fragment keeps the invariant: every file it refers to is there.
LEMMA WriteFragmentKeeps ==
  ASSUME StoreIndInv, NEW r \in Runs, WriteFragment(r) PROVE StoreIndInv'
<1> DEFINE opts == runs[r].opts
           name == FragmentName(opts)
           file == [kind |-> "fragment", data |-> runs[r].fragment]
           run == [runs[r] EXCEPT !.pc = "readback"]
<1>1. /\ runs[r].pc = "fragment"
      /\ Put(r, name, file, run) \/ WriteFails(r, name) \/ Fail(r)
  BY Zenon DEF WriteFragment
<1>2. RunInv(runs[r])
  BY DEF StoreIndInv, RunsInv
<1>3. Total \in Nat /\ Total >= 1 /\ runs[r].next = Total + 1 /\ runs[r].next > 1 /\ runs[r].next - 1 = Total
  BY <1>1, <1>2, EvidenceAssumption DEF RunInv, Total
<1>4. runs[r].dir \in Dirs /\ opts \in Given /\ Buildable(opts) /\ runs[r].fragment = Fragment(opts, Total)
  BY <1>2, <1>3 DEF RunInv
<1>5. name \in FileNames /\ \A k \in 1..Total : NameOf(k) # name /\ NameOf(k) \in FileNames
  BY <1>4, NamesApart
<1>6. CASE Put(r, name, file, run)
  <2>1. DOMAIN runs[r] = {"pc", "dir", "opts", "fragment", "next"}
    BY <1>2 DEF RunInv
  <2>2. /\ DOMAIN run = {"pc", "dir", "opts", "fragment", "next"} /\ run.pc = "readback"
        /\ run.dir = runs[r].dir /\ run.opts = opts /\ run.fragment = runs[r].fragment
        /\ run.next = runs[r].next
    BY <2>1
  <2> HIDE DEF run
  <2>3. RunInv(run)
    BY <1>2, <1>3, <2>2 DEF RunInv
  <2>4. Whole(file)
    <3>1. file.kind = "fragment" /\ file.data = Fragment(opts, Total)
      BY <1>4, Zenon
    <3>2. Fragment(opts, Total).refs = Refs(opts, Total)
      BY DEF Fragment
    <3>3. QED BY <1>3, <3>1, <3>2, RefsGrow DEF Whole
  <2>5. ASSUME r \notin disturbed PROVE Stands(run, [disk[run.dir] EXCEPT ![name] = file])
    <3> DEFINE files == disk[run.dir]
               after == [files EXCEPT ![name] = file]
    <3>1. DOMAIN files = FileNames
      BY <1>4, <2>2 DEF StoreIndInv, DiskShape, Shaped
    <3>2. Stands(runs[r], files)
      BY <1>3, <2>2, <2>5 DEF StoreIndInv, StandInv, Writing
    <3> HIDE DEF files, name, file
    <3>3. after[name] = file
      BY <1>5, <3>1
    <3>4. \A k \in 1..Total : after[NameOf(k)] = DataOf(opts, k)
      BY <1>3, <1>5, <3>1, <3>2 DEF Stands
    <3> HIDE DEF after
    <3>5. Stands(run, after)
      BY <1>3, <2>2, <3>3, <3>4 DEF Stands, name, file
    <3>6. QED BY <3>5 DEF after, files
  <2> HIDE DEF name, file
  <2>6. QED BY <1>4, <1>5, <1>6, <2>2, <2>3, <2>4, <2>5, PutKeeps
<1>7. CASE WriteFails(r, name)
  BY <1>1, <1>3, <1>4, <1>5, <1>7, WriteFailsKeeps
<1>8. CASE Fail(r)
  BY <1>8, FailKeeps
<1>9. QED BY <1>1, <1>6, <1>7, <1>8

\* Reading the fragment back and reporting it keeps the invariant.
LEMMA ReadBackKeeps ==
  ASSUME StoreIndInv, NEW r \in Runs, ReadBack(r) PROVE StoreIndInv'
<1> DEFINE run == [runs[r] EXCEPT !.pc = "reported"]
<1>1. runs[r].pc = "readback" /\ (Move(r, run) \/ Fail(r))
  BY Zenon DEF ReadBack
<1>2. RunInv(runs[r])
  BY DEF StoreIndInv, RunsInv
<1>3. CASE Move(r, run)
  <2>1. DOMAIN runs[r] = {"pc", "dir", "opts", "fragment", "next"}
    BY <1>2 DEF RunInv
  <2>2. /\ DOMAIN run = {"pc", "dir", "opts", "fragment", "next"} /\ run.pc = "reported"
        /\ run.dir = runs[r].dir /\ run.opts = runs[r].opts /\ run.fragment = runs[r].fragment
        /\ run.next = runs[r].next
    BY <2>1
  <2> HIDE DEF run
  <2>3. RunInv(run)
    BY <1>1, <1>2, <2>2, Zenon DEF RunInv
  <2>4. run.next > 1 /\ r \notin disturbed => Stands(run, disk[run.dir])
    BY <1>1, <2>2 DEF StoreIndInv, StandInv, Stands, Writing
  <2>5. QED BY <1>3, <2>3, <2>4, MoveKeeps
<1>4. CASE Fail(r)
  BY <1>4, FailKeeps
<1>5. QED BY <1>1, <1>3, <1>4

-----------------------------------------------------------------------------
(* The invariant holds, and what follows from it *)

\* The invariant holds before any command has run.
LEMMA StoreInitHolds == StoreInit => StoreIndInv
<1> SUFFICES ASSUME StoreInit PROVE StoreIndInv
  OBVIOUS
<1>1. DiskShape
  BY DEF StoreInit, DiskShape, Shaped
<1>2. ASSUME NEW d \in Dirs, NEW f \in FileNames PROVE disk[d][f].kind = "absent"
  BY DEF StoreInit, Absent
<1>3. WholeDisk
  BY <1>2, Zenon DEF WholeDisk, Whole
<1>4. /\ DOMAIN Unstarted = {"pc", "dir", "opts", "fragment", "next"} /\ Unstarted.pc = "unstarted"
      /\ Unstarted.fragment = NoFragment /\ Unstarted.next = 0
  BY DEF Unstarted
<1>5. Total \in Nat
  BY EvidenceAssumption DEF Total
<1>6. RunInv(Unstarted)
  BY <1>4, <1>5 DEF RunInv
<1>7. RunsInv
  BY <1>6 DEF StoreInit, RunsInv
<1>8. StandInv
  BY <1>4 DEF StoreInit, StandInv, Writing
<1>9. QED BY <1>1, <1>3, <1>7, <1>8 DEF StoreIndInv, StoreInit

\* Every step of a command keeps the invariant.
LEMMA StoreStepKeeps == StoreIndInv /\ [StoreNext]_storeVars => StoreIndInv'
<1> SUFFICES ASSUME StoreIndInv, [StoreNext]_storeVars PROVE StoreIndInv'
  OBVIOUS
<1>1. CASE UNCHANGED << build, runs, disk, disturbed >>
  <2>1. DiskShape' /\ WholeDisk' /\ build' \in Builds
    BY <1>1, Zenon DEF StoreIndInv, DiskShape, WholeDisk
  <2>2. ASSUME NEW run, RunInv(run) PROVE RunInv(run)'
    BY <1>1, <2>2, Zenon DEF RunInv, Buildable, Fragment
  <2>3. RunsInv'
    BY <1>1, <2>2, Zenon DEF StoreIndInv, RunsInv
  <2>4. StandInv'
    BY <1>1, Zenon DEF StoreIndInv, StandInv, Stands, Writing
  <2>5. QED BY <2>1, <2>3, <2>4, Zenon DEF StoreIndInv
<1>2. CASE UNCHANGED storeVars
  BY <1>1, <1>2 DEF storeVars
<1>3. ASSUME NEW in \in PilotInputs, AcceptanceRecord(in) PROVE StoreIndInv'
  BY <1>1, <1>3, Zenon DEF AcceptanceRecord
<1>4. CASE StoreNext
  BY <1>3, <1>4, ParseKeeps, BuildKeeps, WriteEvidenceKeeps, WriteFragmentKeeps, ReadBackKeeps, Zenon
     DEF StoreNext
<1>5. QED BY <1>2, <1>4

\* The invariant always holds.
LEMMA StoreInvariant == StoreSpec => []StoreIndInv
BY StoreInitHolds, StoreStepKeeps, PTL DEF StoreSpec

\* A newline at the end does not make a file another one.
LEMMA TrailingNewlineKeepsId ==
  ASSUME NEW content, "id" \in DOMAIN content
  PROVE  ensureTrailingNewline(content).id = content.id
BY DEF ensureTrailingNewline

\* The fragment of a run that stands on disk has found every one of its files.
LEMMA StandingIsWhole ==
  ASSUME StoreIndInv, NEW r \in Runs, Writing(r), r \notin disturbed,
         disk[runs[r].dir][FragmentName(runs[r].opts)] = [kind |-> "fragment", data |-> runs[r].fragment]
  PROVE  LET run == runs[r]
             files == disk[run.dir]
         IN  /\ {ref.path : ref \in Range(run.fragment.refs)} = {Summary} \cup Range(Evidence)
             /\ \A ref \in Range(run.fragment.refs) :
                  files[ref.path] = [kind |-> "evidence", data |-> ref.digest]
             /\ \A e \in Range(Evidence) : files[e].data.id = run.opts.evidence[e].id
<1> DEFINE run == runs[r]
           files == disk[run.dir]
           opts == run.opts
           refs == Refs(opts, Total)
<1>1. RunInv(run) /\ run.next > 1 /\ run.next \in Nat /\ Total \in Nat /\ Total >= 1
  BY EvidenceAssumption, SMTT(30) DEF StoreIndInv, RunsInv, RunInv, Writing, Total
<1>2. run.dir \in Dirs /\ opts \in Given /\ run.fragment = Fragment(opts, run.next - 1)
  BY <1>1, SMTT(30) DEF RunInv
<1>3. FragmentName(opts) \in FileNames
  BY <1>2, NamesApart
<1>4. Whole([kind |-> "fragment", data |-> run.fragment])
  BY <1>2, <1>3, Zenon DEF StoreIndInv, WholeDisk
<1>5. Len(run.fragment.refs) = Total
  BY <1>4 DEF Whole
<1>6. run.next - 1 = Total
  <2>1. run.fragment.refs = Refs(opts, run.next - 1)
    BY <1>2 DEF Fragment
  <2>2. run.next - 1 \in Nat
    BY <1>1
  <2>3. QED BY <1>5, <2>1, <2>2, RefsGrow
<1>7. run.fragment.refs = refs
  BY <1>2, <1>6 DEF Fragment
<1>8. \A k \in 1..Total : files[NameOf(k)] = DataOf(opts, k)
  BY <1>1, <1>6 DEF StoreIndInv, StandInv, Stands
<1> HIDE DEF files, opts, run
<1>9. Range(refs) = {Ref(opts, k) : k \in 1..Total}
  BY DEF Range, Refs
<1>10. \A k \in 1..Total : Ref(opts, k).path = NameOf(k) /\ Ref(opts, k).digest = DataOf(opts, k).data
  BY DEF Ref
<1>11. \A k \in 1..Total : k = 1 \/ k \in 2..Total
  BY <1>1
<1>12. NameOf(1) = Summary /\ \A k \in 2..Total : NameOf(k) = Evidence[k - 1]
  BY <1>1 DEF NameOf
<1>13. \A e \in Range(Evidence) : \E k \in 2..Total : e = Evidence[k - 1]
  <2>1. ASSUME NEW e \in Range(Evidence) PROVE \E k \in 2..Total : e = Evidence[k - 1]
    <3>1. DOMAIN Evidence = 1..Len(Evidence) /\ Len(Evidence) \in Nat
      BY EvidenceAssumption
    <3>2. PICK j \in 1..Len(Evidence) : e = Evidence[j]
      BY <3>1 DEF Range
    <3>3. j + 1 \in 2..Total /\ (j + 1) - 1 = j
      BY <3>1 DEF Total
    <3>4. QED BY <3>2, <3>3
  <2>2. QED BY <2>1
<1>14. {NameOf(k) : k \in 1..Total} = {Summary} \cup Range(Evidence)
  <2>1. \A k \in 1..Total : NameOf(k) \in {Summary} \cup Range(Evidence)
    BY <1>11, <1>12, EvidenceRange
  <2>2. 1 \in 1..Total /\ \A k \in 2..Total : k \in 1..Total
    BY <1>1
  <2>3. \A e \in {Summary} \cup Range(Evidence) : \E k \in 1..Total : e = NameOf(k)
    BY <1>12, <1>13, <2>2
  <2>4. QED BY <2>1, <2>3
<1>15. {ref.path : ref \in Range(refs)} = {Summary} \cup Range(Evidence)
  BY <1>9, <1>10, <1>14
<1>16. \A ref \in Range(refs) : files[ref.path] = [kind |-> "evidence", data |-> ref.digest]
  <2>1. ASSUME NEW k \in 1..Total
        PROVE  DataOf(opts, k) = [kind |-> "evidence", data |-> DataOf(opts, k).data]
    BY DEF DataOf
  <2>2. QED BY <1>8, <1>9, <1>10, <2>1
<1>17. ASSUME NEW e \in Range(Evidence) PROVE files[e].data.id = opts.evidence[e].id
  <2>1. PICK k \in 2..Total : e = Evidence[k - 1]
    BY <1>13
  <2>2. k \in 1..Total /\ NameOf(k) = e /\ k # 1
    BY <1>1, <1>12, <2>1
  <2>3. files[e] = [kind |-> "evidence", data |-> ensureTrailingNewline(opts.evidence[e])]
    BY <1>8, <2>1, <2>2 DEF DataOf
  <2>4. files[e].data = ensureTrailingNewline(opts.evidence[e])
    BY <2>3
  <2>5. "id" \in DOMAIN opts.evidence[e]
    BY <1>2, EvidenceAssumption, Zenon DEF Given, opts
  <2>6. QED BY <2>4, <2>5, TrailingNewlineKeepsId
<1>18. QED BY <1>7, <1>15, <1>16, <1>17, Zenon DEF files, opts, run

\* A fragment on disk is backed by its files, for any number of runs of
\* production-evidence that share directories, overlap, fail and die anywhere:
\* until another run writes where it did, every reference of the fragment finds
\* its file with the digest it names.
THEOREM EvidenceStandsAlways == StoreSpec => []EvidenceStands
<1>1. StoreIndInv => EvidenceStands
  <2> SUFFICES ASSUME StoreIndInv, NEW r \in {q \in Runs : Writing(q)} \ disturbed
               PROVE  LET run == runs[r]
                          files == disk[run.dir]
                          stands == files[FragmentName(run.opts)] = [kind |-> "fragment", data |-> run.fragment]
                      IN  /\ run.pc = "reported" => stands
                          /\ stands =>
                               /\ {ref.path : ref \in Range(run.fragment.refs)} = {Summary} \cup Range(Evidence)
                               /\ \A ref \in Range(run.fragment.refs) :
                                    files[ref.path] = [kind |-> "evidence", data |-> ref.digest]
                               /\ \A e \in Range(Evidence) : files[e].data.id = run.opts.evidence[e].id
    BY Zenon DEF EvidenceStands
  <2>1. r \in Runs /\ Writing(r) /\ r \notin disturbed
    OBVIOUS
  <2>2. runs[r].pc = "reported" =>
          disk[runs[r].dir][FragmentName(runs[r].opts)] = [kind |-> "fragment", data |-> runs[r].fragment]
    BY <2>1, Zenon DEF StoreIndInv, StandInv, Stands
  <2>3. QED BY <2>1, <2>2, StandingIsWhole, Zenon
<1>2. QED BY <1>1, StoreInvariant, PTL

-----------------------------------------------------------------------------
(* Production evidence and the acceptance record *)

\* What BuildProductionEvidenceFragment checked of options it accepts.
LEMMA BuildableChecked ==
  ASSUME NEW opts \in Given, Buildable(opts)
  PROVE  LET component == TrimComponent(opts.component)
         IN  /\ component \in Backend /\ validateAcceptanceBuildMetadata(build, opts.mergeCommit)
             /\ \A f \in ReleaseTexts : opts.text[f] \notin Blank /\ ScanAcceptanceEvidence(opts.text[f])
             /\ opts.releaseDate = "good" /\ opts.signedAt = "good" /\ opts.pr = "pull/7"
             /\ CommitPattern(opts.mergeCommit) /\ opts.size > 0
             /\ acceptanceEvidenceHashes(build, component).version # <<>>
             /\ ScanAcceptanceValue({opts.text[f] : f \in ReleaseTexts})
<1> DEFINE trimmed == [opts EXCEPT !.component = TrimComponent(@)]
<1>1. DOMAIN opts = OptionFields
  BY InputAssumption, Zenon DEF Given
<1>2. /\ trimmed.component = TrimComponent(opts.component)
      /\ trimmed.mergeCommit = opts.mergeCommit /\ trimmed.text = opts.text
      /\ trimmed.releaseDate = opts.releaseDate /\ trimmed.signedAt = opts.signedAt
      /\ trimmed.pr = opts.pr /\ trimmed.size = opts.size
  BY <1>1 DEF OptionFields
<1> HIDE DEF trimmed
<1>3. /\ validateProductionEvidenceOptions(build, trimmed)
      /\ acceptanceEvidenceHashes(build, trimmed.component).version # <<>>
      /\ ScanAcceptanceValue({trimmed.text[f] : f \in ReleaseTexts})
  BY Zenon DEF Buildable, BuildProductionEvidenceFragment, trimmed
<1>4. QED BY <1>2, <1>3, Zenon DEF validateProductionEvidenceOptions

\* The texts of the acceptance record of the same release.
LEMMA PilotOptsNormalized ==
  ASSUME NEW opts
  PROVE  LET n == normalizeAcceptanceOptions(PilotOpts(opts))
         IN  /\ n.component = TrimComponent(opts.component) /\ n.mergeCommit = opts.mergeCommit
             /\ n.docCommit = opts.mergeCommit /\ n.releaseDate = opts.releaseDate
             /\ n.restoredAt = "good" /\ n.pr = opts.pr /\ n.digests = TRUE /\ n.size = opts.size
             /\ n.signedAt = opts.signedAt /\ n.expires = ""
             /\ \A f \in {"release-id", "owner", "tag-or-build-label", "artifact",
                          "artifact-platform", "signed-by"} : n.text[f] = opts.text[f]
             /\ n.text["decision-by"] = opts.text["owner"]
             /\ n.text["pilot-environment"] = "two-company-pilot-fixture"
             /\ n.text["unsigned-exception"] = "" /\ n.text["exception-owner"] = ""
<1> DEFINE e == ""
           raw == PilotOpts(opts)
           t == [f \in AllTexts |-> IF f \in ReleaseTexts THEN opts.text[f] ELSE e]
           u == [t EXCEPT !["decision-by"] = IF @ = e THEN t["owner"] ELSE @,
                          !["pilot-environment"] = IF @ = e THEN "two-company-pilot-fixture" ELSE @]
           n == [raw EXCEPT !.component = TrimComponent(@), !.text = u]
<1>1. raw = [ component |-> opts.component, releaseDate |-> opts.releaseDate, restoredAt |-> "good",
              pr |-> opts.pr, mergeCommit |-> opts.mergeCommit, docCommit |-> opts.mergeCommit,
              digests |-> TRUE, size |-> opts.size, signedAt |-> opts.signedAt, expires |-> e,
              text |-> t ]
  BY Zenon DEF PilotOpts
<1>2. /\ normalizeAcceptanceOptions(raw)
           = [raw EXCEPT !.component = TrimComponent(@), !.text = DefaultTexts(raw.text)]
      /\ DefaultTexts(t) = u
  BY Zenon DEF normalizeAcceptanceOptions, DefaultTexts
<1> HIDE DEF raw, e
<1>3. raw.text = t /\ DOMAIN raw = {"component", "releaseDate", "restoredAt", "pr", "mergeCommit",
        "docCommit", "digests", "size", "signedAt", "expires", "text"}
  <2> HIDE DEF t
  <2>1. QED BY <1>1
<1>4. DOMAIN t = AllTexts /\ \A f \in AllTexts : t[f] = IF f \in ReleaseTexts THEN opts.text[f] ELSE e
  OBVIOUS
<1> HIDE DEF t
<1>6. /\ \A f \in {"release-id", "owner", "tag-or-build-label", "artifact",
                   "artifact-platform", "signed-by"} : t[f] = opts.text[f]
      /\ t["decision-by"] = e /\ t["pilot-environment"] = e
      /\ t["unsigned-exception"] = e /\ t["exception-owner"] = e
  BY <1>4 DEF AllTexts, PilotTexts, ReleaseTexts, SummaryTexts
<1>7. /\ \A f \in {"release-id", "owner", "tag-or-build-label", "artifact",
                   "artifact-platform", "signed-by"} : u[f] = t[f]
      /\ u["decision-by"] = t["owner"] /\ u["pilot-environment"] = "two-company-pilot-fixture"
      /\ u["unsigned-exception"] = t["unsigned-exception"] /\ u["exception-owner"] = t["exception-owner"]
  BY <1>3, <1>4, <1>6 DEF AllTexts, PilotTexts
<1> HIDE DEF u
<1>5. normalizeAcceptanceOptions(raw) = n
  BY <1>2, <1>3, Zenon
<1>8. /\ n.component = TrimComponent(raw.component) /\ n.mergeCommit = raw.mergeCommit
      /\ n.docCommit = raw.docCommit /\ n.releaseDate = raw.releaseDate
      /\ n.restoredAt = raw.restoredAt /\ n.pr = raw.pr /\ n.digests = raw.digests
      /\ n.size = raw.size /\ n.signedAt = raw.signedAt /\ n.expires = raw.expires /\ n.text = u
  BY <1>3
<1>9. /\ raw.component = opts.component /\ raw.mergeCommit = opts.mergeCommit
      /\ raw.docCommit = opts.mergeCommit /\ raw.releaseDate = opts.releaseDate
      /\ raw.restoredAt = "good" /\ raw.pr = opts.pr /\ raw.digests = TRUE
      /\ raw.size = opts.size /\ raw.signedAt = opts.signedAt /\ raw.expires = e
  BY <1>1
<1> HIDE DEF n
<1>10. /\ \A f \in {"release-id", "owner", "tag-or-build-label", "artifact",
                    "artifact-platform", "signed-by"} : n.text[f] = opts.text[f]
       /\ n.text["decision-by"] = opts.text["owner"]
       /\ n.text["pilot-environment"] = "two-company-pilot-fixture"
       /\ n.text["unsigned-exception"] = e /\ n.text["exception-owner"] = e
  BY <1>6, <1>7, <1>8
<1>11. QED BY <1>5, <1>8, <1>9, <1>10, Zenon DEF e, raw

\* The acceptance-record command accepts the release of a fragment, as signed.
LEMMA PilotAccepts ==
  ASSUME NEW opts \in Given, Buildable(opts)
  PROVE  LET record == BuildAcceptanceRecord(build, PilotOpts(opts))
         IN  /\ record # NoRecord /\ record.signed
             /\ record.hashes = acceptanceEvidenceHashes(build, TrimComponent(opts.component))
<1> DEFINE n == normalizeAcceptanceOptions(PilotOpts(opts))
           hashes == acceptanceEvidenceHashes(build, n.component)
           signed == n.text["signed-by"] # ""
           exception == << n.text["unsigned-exception"], n.text["exception-owner"], n.expires >>
           record == [ component |-> n.component, mergeCommit |-> n.mergeCommit,
                       size |-> n.size, hashes |-> hashes, by |-> n.text["decision-by"],
                       signed |-> signed, signer |-> n.text["signed-by"],
                       exception |-> IF signed THEN << >> ELSE exception ]
           Copied == {"release-id", "owner", "tag-or-build-label", "artifact",
                      "artifact-platform", "signed-by"}
           fixture == "two-company-pilot-fixture"
           scanned == {n.text[f] : f \in PilotTexts} \cup {record.signer} \cup Range(record.exception)
<1>1. /\ n.component = TrimComponent(opts.component) /\ n.mergeCommit = opts.mergeCommit
      /\ n.docCommit = opts.mergeCommit /\ n.releaseDate = opts.releaseDate
      /\ n.restoredAt = "good" /\ n.pr = opts.pr /\ n.digests = TRUE /\ n.size = opts.size
      /\ n.signedAt = opts.signedAt /\ n.expires = ""
      /\ \A f \in Copied : n.text[f] = opts.text[f]
      /\ n.text["decision-by"] = opts.text["owner"] /\ n.text["pilot-environment"] = fixture
      /\ n.text["unsigned-exception"] = "" /\ n.text["exception-owner"] = ""
  BY PilotOptsNormalized, Zenon
<1>2. /\ n.component \in Backend /\ validateAcceptanceBuildMetadata(build, opts.mergeCommit)
      /\ \A f \in ReleaseTexts : opts.text[f] \notin Blank /\ ScanAcceptanceEvidence(opts.text[f])
      /\ opts.releaseDate = "good" /\ opts.signedAt = "good" /\ opts.pr = "pull/7"
      /\ CommitPattern(opts.mergeCommit) /\ opts.size > 0
      /\ hashes.version # <<>>
      /\ ScanAcceptanceValue({opts.text[f] : f \in ReleaseTexts})
  BY <1>1, BuildableChecked, Zenon
<1>3. BuildAcceptanceRecord(build, PilotOpts(opts)) =
        IF /\ validateAcceptanceOptions(build, n) /\ hashes.version # <<>>
           /\ ScanAcceptanceValue(scanned)
        THEN record ELSE NoRecord
  BY Zenon DEF BuildAcceptanceRecord
<1>4. \A f \in Copied : f \in ReleaseTexts
  BY Zenon DEF ReleaseTexts, SummaryTexts
<1>5. \A f \in PilotTexts : f \in Copied \/ f = "decision-by" \/ f = "pilot-environment"
  BY Zenon DEF PilotTexts
<1>6. \A f \in AllTexts : f \in PilotTexts \/ f = "signed-by" \/ f = "unsigned-exception" \/ f = "exception-owner"
  BY Zenon DEF AllTexts
<1>7. fixture \notin Blank /\ fixture \notin PrivateInJSON /\ ScanAcceptanceEvidence(fixture) /\ ScanAcceptanceEvidence("")
  BY Zenon DEF Blank, PrivateInJSON, Private, ScanAcceptanceEvidence
<1>8. \A f \in Copied : n.text[f] \notin Blank /\ ScanAcceptanceEvidence(n.text[f])
  BY <1>1, <1>2, <1>4, Zenon
<1>9. "owner" \in Copied /\ "signed-by" \in Copied
  BY Zenon
<1>10. opts.text["owner"] \notin Blank /\ ScanAcceptanceEvidence(opts.text["owner"])
  BY <1>2, <1>4, <1>9, Zenon
<1>11. \A f \in PilotTexts : n.text[f] \notin Blank /\ ScanAcceptanceEvidence(n.text[f])
  <2> HIDE DEF n, Copied, fixture
  <2>1. QED BY <1>1, <1>5, <1>7, <1>8, <1>10, Zenon
<1>12. \A f \in AllTexts : ScanAcceptanceEvidence(n.text[f])
  <2> HIDE DEF n, Copied, fixture
  <2>1. QED BY <1>1, <1>6, <1>7, <1>8, <1>9, <1>11, Zenon
<1>13. signed
  <2>1. "" \in Blank
    BY Zenon DEF Blank
  <2>2. QED BY <1>8, <1>9, <2>1, Zenon
<1>14. SigningStated(n)
  <2> HIDE DEF n
  <2>1. n.signedAt = "good" /\ exception = << "", "", "" >>
    BY <1>1, <1>2, Zenon
  <2>2. QED BY <1>13, <2>1, Zenon DEF SigningStated
<1>15. validateAcceptanceOptions(build, n)
  <2>1. n.pr \in {"pull/7", "pull/0"}
    BY <1>1, <1>2, Zenon
  <2> HIDE DEF n
  <2>2. QED BY <1>1, <1>2, <1>11, <1>12, <1>14, <2>1, Zenon DEF validateAcceptanceOptions
<1>16. ScanAcceptanceValue(scanned)
  <2>1. record.signer = n.text["signed-by"] /\ record.exception = << >>
    BY <1>13, Zenon
  <2>2. Range(<< >>) = {}
    BY DEF Range
  <2>3. \A f \in ReleaseTexts : opts.text[f] \notin PrivateInJSON
    BY <1>2, Zenon DEF ScanAcceptanceValue
  <2>4. \A f \in Copied : n.text[f] \notin PrivateInJSON
    BY <1>1, <1>4, <2>3, Zenon
  <2>5. opts.text["owner"] \notin PrivateInJSON
    BY <1>4, <1>9, <2>3, Zenon
  <2> HIDE DEF n, Copied, fixture, record
  <2>6. \A f \in PilotTexts : n.text[f] \notin PrivateInJSON
    BY <1>1, <1>5, <1>7, <2>4, <2>5, Zenon
  <2>7. \A x \in scanned : x \notin PrivateInJSON
    BY <1>9, <2>1, <2>2, <2>4, <2>6, Zenon
  <2> HIDE DEF scanned
  <2>8. QED BY <2>7, Zenon DEF ScanAcceptanceValue
<1>17. BuildAcceptanceRecord(build, PilotOpts(opts)) = record
  <2> HIDE DEF record, scanned, n, hashes
  <2>1. QED BY <1>2, <1>3, <1>15, <1>16, Zenon
<1>18. record.component \in Backend /\ record.signed /\ record.hashes = hashes
  BY <1>2, <1>13, Zenon
<1>19. record # NoRecord
  <2>1. NoRecord.component = "" /\ "" \notin Backend
    BY Zenon DEF NoRecord, Backend
  <2> HIDE DEF record
  <2>2. QED BY <1>18, <2>1, Zenon
<1> HIDE DEF record, n
<1>20. QED BY <1>1, <1>17, <1>18, <1>19, Zenon

\* Whatever release BuildProductionEvidenceFragment accepts, BuildAcceptanceRecord
\* of the same binary accepts too, as signed and with the same digests.
THEOREM ProductionImpliesPilotAlways == StoreSpec => []ProductionImpliesPilot
<1>1. StoreIndInv => ProductionImpliesPilot
  <2> SUFFICES ASSUME StoreIndInv, NEW r \in Runs, runs[r].fragment # NoFragment
               PROVE  LET record == BuildAcceptanceRecord(build, PilotOpts(runs[r].opts))
                      IN  record # NoRecord /\ record.signed /\ record.hashes = runs[r].fragment.hashes
    BY Zenon DEF ProductionImpliesPilot
  <2>1. RunInv(runs[r]) /\ Total \in Nat
    BY EvidenceAssumption DEF StoreIndInv, RunsInv, Total
  <2>2. runs[r].next > 0
    BY <2>1 DEF RunInv
  <2>3. /\ runs[r].opts \in Given /\ Buildable(runs[r].opts)
        /\ runs[r].fragment = Fragment(runs[r].opts, runs[r].next - 1)
    BY <2>1, <2>2 DEF RunInv
  <2>4. runs[r].fragment.hashes = acceptanceEvidenceHashes(build, TrimComponent(runs[r].opts.component))
    BY <2>3, FragmentHashes, Zenon
  <2>5. QED BY <2>3, <2>4, PilotAccepts, Zenon
<1>2. QED BY <1>1, StoreInvariant, PTL

-----------------------------------------------------------------------------
(* The printed acceptance records *)

\* A triple, entry by entry.
LEMMA Triple ==
  ASSUME NEW s, NEW a, NEW b, NEW c, NEW e, s = << a, b, c >>
  PROVE  /\ Range(s) = {a, b, c}
         /\ (\A k \in 1..3 : s[k] # e) => e \notin {a, b, c}
         /\ s = << e, e, e >> => {a, b, c} = {e}
<1>1. DOMAIN s = {1, 2, 3} /\ s[1] = a /\ s[2] = b /\ s[3] = c
  OBVIOUS
<1>2. Range(s) = {a, b, c}
  BY <1>1 DEF Range
<1>3. s = << e, e, e >> => {a, b, c} = {e}
  OBVIOUS
<1>4. QED BY <1>1, <1>2, <1>3

\* One of two commits of which one is a prefix of the other is a prefix of both.
LEMMA CommonPrefix ==
  ASSUME NEW s \in Seq(Nat), NEW t \in Seq(Nat), HasPrefix(s, t) \/ HasPrefix(t, s)
  PROVE  \E c \in {t, s} : HasPrefix(t, c) /\ HasPrefix(s, c)
<1>1. HasPrefix(s, s) /\ HasPrefix(t, t)
  BY DEF HasPrefix
<1>2. QED BY <1>1, Zenon

\* What the defaults leave of the options of an acceptance record.
LEMMA DefaultsKeep ==
  ASSUME NEW opts, DOMAIN opts = OptionFields, AllTexts \subseteq DOMAIN opts.text
  PROVE  LET n == normalizeAcceptanceOptions(opts)
         IN  /\ n.mergeCommit = opts.mergeCommit /\ n.signedAt = opts.signedAt
             /\ n.expires = opts.expires
             /\ \A f \in {"signed-by", "unsigned-exception", "exception-owner"} :
                  n.text[f] = opts.text[f]
<1> DEFINE u == DefaultTexts(opts.text)
           n == [opts EXCEPT !.component = TrimComponent(@), !.text = u]
<1>1. normalizeAcceptanceOptions(opts) = n
  BY Zenon DEF normalizeAcceptanceOptions
<1>2. \A f \in {"signed-by", "unsigned-exception", "exception-owner"} : u[f] = opts.text[f]
  <2> DEFINE e == ""
             by == IF opts.text["decision-by"] = e THEN opts.text["owner"] ELSE opts.text["decision-by"]
             env == IF opts.text["pilot-environment"] = e THEN "two-company-pilot-fixture"
                    ELSE opts.text["pilot-environment"]
  <2>1. u = [opts.text EXCEPT !["decision-by"] = IF @ = e THEN opts.text["owner"] ELSE @,
                              !["pilot-environment"] = IF @ = e THEN "two-company-pilot-fixture" ELSE @]
    BY Zenon DEF DefaultTexts
  <2> HIDE DEF e, u
  <2>2. \A f \in {"signed-by", "unsigned-exception", "exception-owner"} : f \in DOMAIN opts.text
    BY Zenon DEF AllTexts
  <2>3. QED BY <2>1, <2>2
<1> HIDE DEF u
<1>3. /\ n.mergeCommit = opts.mergeCommit /\ n.signedAt = opts.signedAt
      /\ n.expires = opts.expires /\ n.text = u
  BY DEF OptionFields
<1> HIDE DEF n
<1>4. QED BY <1>1, <1>2, <1>3, Zenon

\* An acceptance record that BuildAcceptanceRecord returns accounts for its artifact.
LEMMA RecordAccounts ==
  ASSUME NEW in \in PilotInputs, build \in Builds, BuildAcceptanceRecord(build, in.opts) # NoRecord
  PROVE  LET record == BuildAcceptanceRecord(build, in.opts)
             exception == << in.opts.text["unsigned-exception"], in.opts.text["exception-owner"],
                             in.opts.expires >>
         IN  /\ record.exception = IF record.signed THEN << >> ELSE exception
             /\ IF record.signed THEN in.opts.signedAt = "good" /\ Range(exception) = {""}
                ELSE "" \notin Range(exception)
             /\ record.by \notin Blank
             /\ \E c \in {build.commit, record.mergeCommit} :
                  HasPrefix(build.commit, c) /\ HasPrefix(record.mergeCommit, c)
<1> DEFINE opts == in.opts
           n == normalizeAcceptanceOptions(opts)
           hashes == acceptanceEvidenceHashes(build, n.component)
           signed == n.text["signed-by"] # ""
           a == n.text["unsigned-exception"]
           b == n.text["exception-owner"]
           given == << a, b, n.expires >>
           record == [ component |-> n.component, mergeCommit |-> n.mergeCommit,
                       size |-> n.size, hashes |-> hashes, by |-> n.text["decision-by"],
                       signed |-> signed, signer |-> n.text["signed-by"],
                       exception |-> IF signed THEN << >> ELSE given ]
<1>1. BuildAcceptanceRecord(build, opts) = record /\ validateAcceptanceOptions(build, n)
  BY Zenon DEF BuildAcceptanceRecord
<1>2. /\ validateAcceptanceBuildMetadata(build, n.mergeCommit)
      /\ n.text["decision-by"] \notin Blank
      /\ CommitPattern(n.mergeCommit) /\ SigningStated(n)
  <2>1. "decision-by" \in PilotTexts
    BY Zenon DEF PilotTexts
  <2> HIDE DEF n
  <2>2. QED BY <1>1, <2>1, Zenon DEF validateAcceptanceOptions
<1>3. /\ DOMAIN opts = OptionFields /\ DOMAIN opts.text = AllTexts \cup ReleaseTexts
      /\ opts.mergeCommit \in Seq(Nat) /\ build.commit \in Seq(Nat)
  BY InputAssumption, Zenon
<1>4. /\ n.mergeCommit = opts.mergeCommit /\ n.signedAt = opts.signedAt /\ n.expires = opts.expires
      /\ \A f \in {"signed-by", "unsigned-exception", "exception-owner"} : n.text[f] = opts.text[f]
  BY <1>3, DefaultsKeep, Zenon
<1>5. given = << opts.text["unsigned-exception"], opts.text["exception-owner"], opts.expires >>
  BY <1>4, Zenon
<1>6. /\ record.mergeCommit = n.mergeCommit /\ record.by = n.text["decision-by"]
      /\ record.signed = signed /\ record.exception = IF signed THEN << >> ELSE given
  BY Zenon
<1> HIDE DEF n
<1>7. IF signed THEN n.signedAt = "good" /\ Range(given) = {""} ELSE "" \notin Range(given)
  <2> DEFINE c == n.expires
             e == ""
  <2>1. /\ Range(given) = {a, b, c}
        /\ (\A k \in 1..3 : given[k] # e) => e \notin {a, b, c}
        /\ given = << e, e, e >> => {a, b, c} = {e}
    <3>1. given = << a, b, c >>
      BY Zenon
    <3> HIDE DEF given, a, b, c, e
    <3>2. Range(given) = {a, b, c}
      BY <3>1, Triple
    <3>3. given = << e, e, e >> => {a, b, c} = {e}
      BY <3>1, Triple
    <3>4. (\A k \in 1..3 : given[k] # e) => e \notin {a, b, c}
      BY <3>1, Triple
    <3>5. QED BY <3>2, <3>3, <3>4, Zenon
  <2>2. IF signed \/ n.signedAt # e
        THEN signed /\ n.signedAt = "good" /\ given = << e, e, e >>
        ELSE \A k \in 1..3 : given[k] # e
    BY <1>2, Zenon DEF SigningStated
  <2> HIDE DEF signed, given, a, b, c
  <2>3. QED BY <2>1, <2>2, Zenon
<1>8. n.mergeCommit # << >>
  BY <1>2, CommitAssumption DEF CommitPattern
<1>9. \E c \in {build.commit, n.mergeCommit} : HasPrefix(build.commit, c) /\ HasPrefix(n.mergeCommit, c)
  <2>1. HasPrefix(n.mergeCommit, build.commit) \/ HasPrefix(build.commit, n.mergeCommit)
    BY <1>2, <1>8, Zenon DEF validateAcceptanceBuildMetadata
  <2>2. n.mergeCommit \in Seq(Nat)
    BY <1>3, <1>4, Zenon
  <2>3. QED BY <1>3, <2>1, <2>2, CommonPrefix, Zenon
<1> HIDE DEF record, signed, given
<1>10. QED BY <1>1, <1>2, <1>4, <1>5, <1>6, <1>7, <1>9, Zenon DEF opts

\* For any options and any binary, every acceptance record ever printed accounts
\* for its artifact: signed or excepted, completely, by somebody, and of the
\* commit the binary was built from.
THEOREM AcceptedArtifactsAccountedForAlways == StoreSpec => []AcceptedArtifactsAccountedFor
<1>1. StoreInit => AcceptedArtifactsAccountedFor
  BY Zenon DEF StoreInit, AcceptedArtifactsAccountedFor
<1>2. ASSUME StoreIndInv, AcceptedArtifactsAccountedFor, [StoreNext]_storeVars
      PROVE  AcceptedArtifactsAccountedFor'
  <2>1. CASE printed' = Nothing
    BY <2>1, Zenon DEF AcceptedArtifactsAccountedFor, Nothing, NoRecord
  <2>2. CASE UNCHANGED storeVars
    BY <1>2, <2>2, Zenon DEF AcceptedArtifactsAccountedFor, storeVars
  <2>3. ASSUME NEW in \in PilotInputs, AcceptanceRecord(in) PROVE AcceptedArtifactsAccountedFor'
    <3> DEFINE record == BuildAcceptanceRecord(build, in.opts)
    <3>1. record # NoRecord /\ printed' = [record |-> record, opts |-> in.opts] /\ build' = build
      BY <2>3, Zenon DEF AcceptanceRecord
    <3>2. build \in Builds
      BY <1>2, Zenon DEF StoreIndInv
    <3> DEFINE exception == << in.opts.text["unsigned-exception"], in.opts.text["exception-owner"],
                               in.opts.expires >>
    <3>3. /\ record.exception = IF record.signed THEN << >> ELSE exception
          /\ IF record.signed THEN in.opts.signedAt = "good" /\ Range(exception) = {""}
             ELSE "" \notin Range(exception)
          /\ record.by \notin Blank
          /\ \E c \in {build.commit, record.mergeCommit} :
               HasPrefix(build.commit, c) /\ HasPrefix(record.mergeCommit, c)
      BY <3>1, <3>2, RecordAccounts, Zenon
    <3> HIDE DEF record
    <3>4. printed'.record = record /\ printed'.opts = in.opts
      BY <3>1, Zenon
    <3>5. QED BY <3>1, <3>3, <3>4, Zenon DEF AcceptedArtifactsAccountedFor
  <2>4. QED
    <3>1. ASSUME NEW r \in Runs, NEW name, NEW file, NEW run, Put(r, name, file, run) PROVE printed' = Nothing
      BY <3>1, Zenon DEF Put
    <3>2. ASSUME NEW r \in Runs, NEW run, Move(r, run) PROVE printed' = Nothing
      BY <3>2, Zenon DEF Move
    <3>3. ASSUME NEW r \in Runs, Fail(r) PROVE printed' = Nothing
      BY <3>2, <3>3, Zenon DEF Fail
    <3>4. ASSUME NEW r \in Runs, NEW name, WriteFails(r, name) PROVE printed' = Nothing
      BY <3>1, <3>3, <3>4, Zenon DEF WriteFails
    <3>5. ASSUME NEW r \in Runs, NEW in \in RunInputs, NEW dir \in Dirs, Parse(r, in, dir) PROVE printed' = Nothing
      BY <3>2, <3>5, Zenon DEF Parse
    <3>6. ASSUME NEW r \in Runs, Build(r) PROVE printed' = Nothing
      BY <3>2, <3>3, <3>6, Zenon DEF Build
    <3>7. ASSUME NEW r \in Runs, WriteEvidenceFile(r) PROVE printed' = Nothing
      BY <3>1, <3>3, <3>4, <3>7, Zenon DEF WriteEvidenceFile
    <3>8. ASSUME NEW r \in Runs, WriteFragment(r) PROVE printed' = Nothing
      BY <3>1, <3>3, <3>4, <3>8, Zenon DEF WriteFragment
    <3>9. ASSUME NEW r \in Runs, ReadBack(r) PROVE printed' = Nothing
      BY <3>2, <3>3, <3>9, Zenon DEF ReadBack
    <3>10. QED BY <1>2, <2>1, <2>2, <2>3, <3>5, <3>6, <3>7, <3>8, <3>9, Zenon DEF StoreNext
<1>3. QED BY <1>1, <1>2, StoreInvariant, PTL DEF StoreSpec

-----------------------------------------------------------------------------
(* Service access: nothing that was changed after it was signed verifies *)

Capability(k, r, i, e, id, n, sig) ==
  [ key |-> k, resource |-> r, issued |-> i, expires |-> e, issuer |-> id, nonce |-> n,
    sig |-> sig ]

\* c has the fields of a capability.
IsCap(c) == \E k, r, i, e, id, n, sig : c = Capability(k, r, i, e, id, n, sig)

SameRequest(c, d) ==
  /\ c.key = d.key /\ c.resource = d.resource /\ c.nonce = d.nonce
  /\ c.issued = d.issued /\ c.expires = d.expires

\* Sign stamps the issuer, which changes no other field.
LEMMA Stamping ==
  ASSUME NEW x, IsCap(x), NEW v, NEW y, y = [x EXCEPT !.issuer = v]
  PROVE  IsCap(y) /\ SameRequest(y, x)
<1>1. PICK k, r, i, e, id, n, sig : x = Capability(k, r, i, e, id, n, sig)
  BY Zenon DEF IsCap
<1>2. y = Capability(k, r, i, e, v, n, sig)
  BY <1>1 DEF Capability
<1>3. IsCap(y)
  BY <1>2 DEF IsCap
<1>4. SameRequest(y, x)
  BY <1>1, <1>2 DEF SameRequest, Capability
<1>5. QED BY <1>3, <1>4

\* The signature is not among the bytes it covers.
LEMMA Signing ==
  ASSUME NEW x, IsCap(x), NEW v, NEW y, y = [x EXCEPT !.sig = v]
  PROVE  IsCap(y) /\ SameRequest(y, x) /\ y.sig = v /\ canonicalBytes(y) = canonicalBytes(x)
<1>1. PICK k, r, i, e, id, n, sig : x = Capability(k, r, i, e, id, n, sig)
  BY Zenon DEF IsCap
<1>2. y = Capability(k, r, i, e, id, n, v)
  BY <1>1 DEF Capability
<1>3. IsCap(y)
  BY <1>2 DEF IsCap
<1>4. SameRequest(y, x) /\ y.sig = v
  BY <1>1, <1>2 DEF SameRequest, Capability
<1>5. [y EXCEPT !.sig = NoSig] = [x EXCEPT !.sig = NoSig]
  BY <1>1, <1>2, Zenon DEF Capability
<1>6. QED BY <1>3, <1>4, <1>5, Zenon DEF canonicalBytes

IsSigned(c) == IsCap(c) /\ \E by : c.sig = Ed25519Sign(by, canonicalBytes(c))

\* No two contents have one digest.
LEMMA DigestInjective ==
  ASSUME NEW a, NEW b, Digest(a) = Digest(b)
  PROVE  a = b
<1>1. Digest(a)[1] = a /\ Digest(b)[1] = b
  BY DEF Digest
<1>2. QED BY <1>1, Zenon

\* A capability edited after it was signed carries the signature it had.
LEMMA ChangedKeepsSignature ==
  ASSUME NEW p, IsCap(p), NEW k2, NEW e2, NEW c, c = [p EXCEPT !.key = k2] \/ c = [p EXCEPT !.expires = e2]
  PROVE  c.sig = p.sig
<1>1. PICK k, r, i, e, id, n, sig : p = Capability(k, r, i, e, id, n, sig)
  BY Zenon DEF IsCap
<1>2. QED BY <1>1 DEF Capability

\* What a signature covers: a capability that differs in its key or its expiry
\* has other bytes.
LEMMA SameBytes ==
  ASSUME NEW p, IsCap(p), NEW k2, NEW e2, NEW c, c = [p EXCEPT !.key = k2] \/ c = [p EXCEPT !.expires = e2],
         canonicalBytes(c) = canonicalBytes(p)
  PROVE  c = p
<1>1. PICK k, r, i, e, id, n, sig : p = Capability(k, r, i, e, id, n, sig)
  BY Zenon DEF IsCap
<1>2. PICK k3, e3 : c = Capability(k3, r, i, e3, id, n, sig)
  <2>1. CASE c = [p EXCEPT !.key = k2]
    <3>1. c = Capability(k2, r, i, e, id, n, sig)
      BY <1>1, <2>1 DEF Capability
    <3>2. QED BY <3>1, Zenon
  <2>2. CASE c = [p EXCEPT !.expires = e2]
    <3>1. c = Capability(k, r, i, e2, id, n, sig)
      BY <1>1, <2>2 DEF Capability
    <3>2. QED BY <3>1, Zenon
  <2>3. QED BY <2>1, <2>2
<1>3. canonicalBytes(c) = Digest(Capability(k3, r, i, e3, id, n, NoSig))
  BY <1>2 DEF canonicalBytes, Capability
<1>4. canonicalBytes(p) = Digest(Capability(k, r, i, e, id, n, NoSig))
  BY <1>1 DEF canonicalBytes, Capability
<1>5. k3 = k /\ e3 = e
  <2>1. Capability(k3, r, i, e3, id, n, NoSig) = Capability(k, r, i, e, id, n, NoSig)
    BY <1>3, <1>4, DigestInjective, Zenon
  <2>2. QED BY <2>1 DEF Capability
<1>6. QED BY <1>1, <1>2, <1>5, Zenon

\* A capability that was presented and verifies is one that was issued.
LEMMA PresentedVerbatim ==
  ASSUME NEW p, IsSigned(p), NEW c \in Presented(p), NEW by,
         c.sig = Ed25519Sign(by, canonicalBytes(c))
  PROVE  c = p
<1>1. CASE c = p
  BY <1>1
<1>2. ASSUME NEW k2, NEW e2, c = [p EXCEPT !.key = k2] \/ c = [p EXCEPT !.expires = e2]
      PROVE  c = p
  <2>1. c.sig = p.sig
    BY <1>2, ChangedKeepsSignature, Zenon DEF IsSigned
  <2>2. PICK b : p.sig = Ed25519Sign(b, canonicalBytes(p))
    BY Zenon DEF IsSigned
  <2>3. canonicalBytes(c) = canonicalBytes(p)
    BY <2>1, <2>2 DEF Ed25519Sign
  <2>4. QED BY <1>2, <2>3, SameBytes, Zenon DEF IsSigned
<1>3. QED BY <1>1, <1>2, Zenon DEF Presented

-----------------------------------------------------------------------------
(* A splice goes back to a request *)

AskedForThis(c) == Ed25519Sign(c.key, Challenge(c.resource, c.key, c.nonce)) \in asked

AskedInv ==
  /\ nowMS \in Int
  /\ \A c \in caps : IsSigned(c) /\ c.expires \in Int /\ AskedForThis(c)
  /\ SplicesWereAskedFor

\* What Sign makes of a request.
LEMMA SignMakes ==
  ASSUME NEW d, IsCap(d), NEW s, NEW c, c \in Sign(s, d)
  PROVE  IsSigned(c) /\ SameRequest(c, d)
<1>1. PICK y : /\ y = [d EXCEPT !.issuer = s.id]
               /\ c = [y EXCEPT !.sig = Ed25519Sign(s.key, canonicalBytes(y))]
  BY Zenon DEF Sign
<1>2. IsCap(y) /\ SameRequest(y, d)
  BY <1>1, Stamping, Zenon
<1>3. /\ IsCap(c) /\ SameRequest(c, y)
      /\ canonicalBytes(c) = canonicalBytes(y) /\ c.sig = Ed25519Sign(s.key, canonicalBytes(y))
  BY <1>1, <1>2, Signing, Zenon
<1>4. QED BY <1>2, <1>3, Zenon DEF IsSigned, SameRequest

\* What has been asked and issued is never forgotten, and new streams are what
\* the terminus checks.
LEMMA AskedKept ==
  ASSUME AskedInv, caps \subseteq caps', asked \subseteq asked', spliced' = spliced
  PROVE  SplicesWereAskedFor'
BY Zenon DEF AskedInv, SplicesWereAskedFor

\* Every step keeps the invariant.
LEMMA AskedStep ==
  ASSUME AskedInv, [AccessNext]_accessVars
  PROVE  AskedInv'
<1>1. CASE UNCHANGED <<nowMS, asked, caps, spliced>>
  BY <1>1, Zenon DEF AskedInv, AskedForThis, SplicesWereAskedFor
<1>2. ASSUME NEW k, NEW resource, NEW nonce, Ask(k, resource, nonce) PROVE AskedInv'
  <2>1. asked \subseteq asked' /\ caps' = caps /\ spliced' = spliced /\ nowMS' = nowMS
    BY <1>2, Zenon DEF Ask
  <2>2. SplicesWereAskedFor'
    BY <2>1, AskedKept, Zenon
  <2>3. QED BY <2>1, <2>2, Zenon DEF AskedInv, AskedForThis
<1>3. ASSUME NEW k, NEW resource, NEW nonce, NEW pop \in asked, NEW ttl \in Lifetimes, NEW s,
             Issue(k, resource, nonce, pop, ttl, s)
      PROVE  AskedInv'
  <2>0. nowMS + ttl \in Int
    <3>1. nowMS \in Int /\ ttl \in Int
      BY <1>3, AccessAssumption, Zenon DEF AskedInv
    <3>2. QED BY <3>1
  <2>1. PICK c \in Sign(s, Capability(k, resource, nowMS, nowMS + ttl, "", nonce, NoSig)) :
          caps' = caps \cup {c}
    BY <1>3, Zenon DEF Issue, Capability
  <2>2. /\ IsSigned(c)
        /\ c.key = k /\ c.resource = resource /\ c.expires = nowMS + ttl /\ c.nonce = nonce
    <3>1. IsCap(Capability(k, resource, nowMS, nowMS + ttl, "", nonce, NoSig))
      BY Zenon DEF IsCap
    <3>2. IsSigned(c) /\ SameRequest(c, Capability(k, resource, nowMS, nowMS + ttl, "", nonce, NoSig))
      BY <2>1, <3>1, SignMakes, Zenon
    <3>3. QED BY <3>2, Zenon DEF SameRequest, Capability
  <2>3. asked' = asked /\ spliced' = spliced /\ nowMS' = nowMS
    BY <1>3, Zenon DEF Issue
  <2>4. pop = Ed25519Sign(k, Challenge(resource, k, nonce))
    BY <1>3, Zenon DEF Issue, VerifyProofOfPossession
  <2>5. AskedForThis(c)
    BY <1>3, <2>2, <2>4, Zenon DEF AskedForThis
  <2>6. SplicesWereAskedFor'
    BY <2>1, <2>3, AskedKept, Zenon
  <2>7. QED BY <2>0, <2>1, <2>2, <2>3, <2>5, <2>6, Zenon DEF AskedInv, AskedForThis
<1>4. ASSUME NEW k, NEW served, NEW p \in caps, NEW c \in Presented(p), Splice(k, served, c)
      PROVE  AskedInv'
  <2>1. /\ c.issuer \in DOMAIN Trusted
        /\ c.sig = Ed25519Sign(Trusted[c.issuer], canonicalBytes(c))
        /\ c.key = k /\ c.resource = served
        /\ nowMS' = nowMS /\ asked' = asked /\ caps' = caps
    BY <1>4, Zenon DEF Splice, Verify, BindsPublicKey, AuthorizesResource
  <2>2. c \in caps /\ AskedForThis(c)
    <3>1. IsSigned(p) /\ AskedForThis(p)
      BY <1>4, Zenon DEF AskedInv
    <3>2. c = p
      BY <1>4, <2>1, <3>1, PresentedVerbatim
    <3>3. QED BY <1>4, <3>1, <3>2, Zenon
  <2>3. c.sig.by = Trusted[c.issuer]
    BY <2>1 DEF Ed25519Sign
  <2>4. PICK dead : spliced' = spliced \cup {[key |-> k, served |-> served, cap |-> c, dead |-> dead]}
    BY <1>4, Zenon DEF Splice
  <2>5. SUFFICES ASSUME NEW x \in spliced'
        PROVE  /\ x.cap \in caps
               /\ \E id \in DOMAIN Trusted : x.cap.issuer = id /\ x.cap.sig.by = Trusted[id]
               /\ Ed25519Sign(x.key, Challenge(x.served, x.key, x.cap.nonce)) \in asked
    BY <2>1, Zenon DEF AskedInv, AskedForThis, SplicesWereAskedFor
  <2>6. CASE x \in spliced
    BY <2>6, Zenon DEF AskedInv, SplicesWereAskedFor
  <2>7. CASE x = [key |-> k, served |-> served, cap |-> c, dead |-> dead]
    <3>1. x.key = k /\ x.served = served /\ x.cap = c
      BY <2>7
    <3>2. QED BY <2>1, <2>2, <2>3, <3>1, Zenon DEF AskedForThis
  <2>8. QED BY <2>4, <2>5, <2>6, <2>7, Zenon
<1>5. CASE Tick
  <2>1. nowMS' \in Int
    BY <1>5 DEF Tick, AskedInv
  <2>2. QED BY <1>5, <2>1, Zenon DEF Tick, AskedInv, AskedForThis, SplicesWereAskedFor
<1>6. QED BY <1>1, <1>2, <1>3, <1>4, <1>5, Zenon
          DEF AccessNext, accessVars, Entomb, ApplyTombstone, Collect

\* From Challenge through Sign to the checks of the terminus: for any keys,
\* services and issuers, a stream is let through only for a peer that asked
\* for that service with its own key and was granted it by a trusted issuer.
THEOREM SplicesWereAskedForAlways == AccessSpec => []SplicesWereAskedFor
<1>1. AccessInit => AskedInv
  BY DEF AccessInit, AskedInv, SplicesWereAskedFor
<1>2. AskedInv /\ [AccessNext]_accessVars => AskedInv'
  BY AskedStep
<1>3. AskedInv => SplicesWereAskedFor
  BY DEF AskedInv
<1>4. QED BY <1>1, <1>2, <1>3, PTL DEF AccessSpec

-----------------------------------------------------------------------------
(* A revocation lasts as long as what it revokes *)

\* A tombstone leaves the revocation set only once its time has passed.
RevokedInv ==
  /\ \A t \in tombstones : t.notAfter \in Int
  /\ applied \subseteq tombstones
  /\ \A t \in applied : t \in revoked \/ nowMS >= t.notAfter
  /\ RevokedStaysRevoked

\* Times passed stay passed; a tombstone kept until a capability expires is not
\* past its time while the capability is good.
LEMMA Times ==
  /\ \A now, n \in Int : now >= n => now + 1 >= n
  /\ \A now, n, e \in Int : ~(now >= n /\ n >= e /\ now < e)
OBVIOUS

\* SignTombstone keeps what it is given.
LEMMA TombstoneKept ==
  ASSUME NEW r, NEW n, NEW notAfter, NEW blank, NEW none, NEW id, NEW sig, NEW t,
         t = [[[resource |-> r, nonce |-> n, notAfter |-> notAfter, issuer |-> blank, sig |-> none]
                 EXCEPT !.issuer = id] EXCEPT !.sig = sig]
  PROVE  t.resource = r /\ t.nonce = n /\ t.notAfter = notAfter
OBVIOUS

\* Every step keeps it: Collect waits until the time of a tombstone has passed,
\* and Splice lets through only what is still good and not in the set.
LEMMA RevokedStep ==
  ASSUME AskedInv, RevokedInv, [AccessNext]_accessVars
  PROVE  RevokedInv'
<1>1. CASE UNCHANGED <<nowMS, tombstones, revoked, applied, spliced>>
  BY <1>1, Zenon DEF RevokedInv, RevokedStaysRevoked
<1>2. ASSUME NEW resource, NEW nonce, NEW notAfter \in Retentions, NEW s,
             Entomb(resource, nonce, notAfter, s)
      PROVE  RevokedInv'
  <2>1. PICK t \in SignTombstone(s, [ resource |-> resource, nonce |-> nonce,
                                      notAfter |-> notAfter, issuer |-> "", sig |-> NoSig ]) :
          tombstones' = tombstones \cup {t}
    BY <1>2, Zenon DEF Entomb
  <2>2. t.notAfter = notAfter
    BY <2>1, TombstoneKept, Zenon DEF SignTombstone
  <2>3. notAfter \in Int
    BY <1>2, AccessAssumption, Zenon
  <2>4. QED BY <1>2, <2>1, <2>2, <2>3, Zenon DEF Entomb, RevokedInv, RevokedStaysRevoked
<1>3. ASSUME NEW t \in tombstones, ApplyTombstone(t) PROVE RevokedInv'
  BY <1>3, Zenon DEF ApplyTombstone, RevokedInv, RevokedStaysRevoked
<1>4. ASSUME NEW t, Collect(t) PROVE RevokedInv'
  BY <1>4, Zenon DEF Collect, RevokedInv, RevokedStaysRevoked
<1>5. ASSUME NEW k, NEW served, NEW p \in caps, NEW c \in Presented(p), Splice(k, served, c)
      PROVE  RevokedInv'
  <2>1. /\ c.sig = Ed25519Sign(Trusted[c.issuer], canonicalBytes(c)) /\ nowMS < c.expires
        /\ \A t \in revoked : ~Targets(t, c)
    BY <1>5, Zenon DEF Splice, Verify
  <2>2. IsSigned(p) /\ p.expires \in Int /\ nowMS \in Int
    BY <1>5, Zenon DEF AskedInv
  <2>3. c = p
    BY <1>5, <2>1, <2>2, PresentedVerbatim
  <2>4. ASSUME NEW t \in applied, Targets(t, c), t.notAfter >= c.expires PROVE FALSE
    <3>1. nowMS >= t.notAfter /\ t.notAfter \in Int
      BY <2>1, <2>4, Zenon DEF RevokedInv
    <3>2. QED BY <2>1, <2>2, <2>3, <2>4, <3>1, Times, Zenon
  <2>5. PICK dead : /\ spliced' = spliced \cup {[key |-> k, served |-> served, cap |-> c, dead |-> dead]}
                    /\ dead = (\E t \in applied : Targets(t, c) /\ t.notAfter >= c.expires)
    BY <1>5, Zenon DEF Splice
  <2>6. ~dead
    BY <2>4, <2>5, Zenon
  <2>7. [key |-> k, served |-> served, cap |-> c, dead |-> dead].dead = dead
    BY Zenon
  <2>8. RevokedStaysRevoked'
    BY <2>5, <2>6, <2>7, Zenon DEF RevokedInv, RevokedStaysRevoked
  <2>9. QED BY <1>5, <2>8, Zenon DEF Splice, RevokedInv
<1>6. CASE Tick
  <2>1. \A t \in applied' : t \in revoked' \/ nowMS' >= t.notAfter
    BY <1>6, Times, Zenon DEF Tick, AskedInv, RevokedInv
  <2>2. QED BY <1>6, <2>1, Zenon DEF Tick, RevokedInv, RevokedStaysRevoked
<1>7. QED BY <1>1, <1>2, <1>3, <1>4, <1>5, <1>6, Zenon DEF AccessNext, accessVars, Ask, Issue

\* Verify against the collection of tombstones: for any lifetimes and
\* retentions, a capability revoked by a tombstone that is kept until the
\* capability expires is never let through again.
THEOREM RevokedStaysRevokedAlways == AccessSpec => []RevokedStaysRevoked
<1>1. AccessInit => AskedInv /\ RevokedInv
  BY DEF AccessInit, AskedInv, RevokedInv, RevokedStaysRevoked, SplicesWereAskedFor
<1>2. AskedInv /\ RevokedInv /\ [AccessNext]_accessVars => AskedInv' /\ RevokedInv'
  BY AskedStep, RevokedStep
<1>3. RevokedInv => RevokedStaysRevoked
  BY DEF RevokedInv
<1>4. QED BY <1>1, <1>2, <1>3, PTL DEF AccessSpec

-----------------------------------------------------------------------------
(* What is issued and what is kept is well formed *)

\* Whatever is asked of Sign and SignTombstone, only well-formed capabilities and
\* tombstones come of it, and the terminus holds only tombstones it verified.
THEOREM AccessTypeCorrect == AccessSpec => []AccessTypeOK
<1>1. AccessInit => AccessTypeOK
  <2>1. AccessInit => nowMS \in 1..MaxTime
    BY AccessAssumption DEF AccessInit
  <2>2. QED BY <2>1, Zenon DEF AccessInit, AccessTypeOK
<1>2. ASSUME AccessTypeOK, [AccessNext]_accessVars PROVE AccessTypeOK'
  <2>1. CASE UNCHANGED <<nowMS, caps, tombstones, revoked, applied>>
    BY <1>2, <2>1, Zenon DEF AccessTypeOK
  <2>2. ASSUME NEW k, NEW resource, NEW nonce, NEW pop, NEW ttl, NEW s,
               Issue(k, resource, nonce, pop, ttl, s)
        PROVE  AccessTypeOK'
    <3> DEFINE blank == ""
               d == Capability(k, resource, nowMS, nowMS + ttl, blank, nonce, NoSig)
    <3>1. PICK c \in Sign(s, d) : caps' = caps \cup {c}
      BY <2>2, Zenon DEF Issue, Capability
    <3>2. IsCap(d)
      BY Zenon DEF IsCap
    <3> HIDE DEF d
    <3>3. SameRequest(c, d)
      BY <3>1, <3>2, SignMakes, Zenon
    <3>4. ParseResource(d.resource) /\ d.expires > d.issued
      BY <3>1, Zenon DEF Sign
    <3>5. ParseResource(c.resource) /\ c.expires > c.issued
      BY <3>3, <3>4, Zenon DEF SameRequest
    <3>6. QED BY <1>2, <2>2, <3>1, <3>5, Zenon DEF Issue, AccessTypeOK
  <2>3. ASSUME NEW resource, NEW nonce, NEW notAfter, NEW s, Entomb(resource, nonce, notAfter, s)
        PROVE  AccessTypeOK'
    <3> DEFINE blank == ""
               d == [ resource |-> resource, nonce |-> nonce, notAfter |-> notAfter,
                      issuer |-> blank, sig |-> NoSig ]
    <3>1. PICK t \in SignTombstone(s, d) : tombstones' = tombstones \cup {t}
      BY <2>3, Zenon DEF Entomb
    <3>2. TombstoneShape(d) /\ \E sig : t = [[d EXCEPT !.issuer = s.id] EXCEPT !.sig = sig]
      BY <3>1, Zenon DEF SignTombstone
    <3>3. t.resource = resource /\ t.nonce = nonce /\ t.notAfter = notAfter
      BY <3>2, TombstoneKept, Zenon
    <3>4. d.resource = resource /\ d.nonce = nonce /\ d.notAfter = notAfter
      BY Zenon
    <3> HIDE DEF d
    <3>5. TombstoneShape(t)
      BY <3>2, <3>3, <3>4, Zenon DEF TombstoneShape
    <3>6. QED BY <1>2, <2>3, <3>1, <3>5, Zenon DEF Entomb, AccessTypeOK
  <2>4. ASSUME NEW t \in tombstones, ApplyTombstone(t) PROVE AccessTypeOK'
    BY <1>2, <2>4, Zenon DEF ApplyTombstone, AccessTypeOK
  <2>5. ASSUME NEW t, Collect(t) PROVE AccessTypeOK'
    BY <1>2, <2>5, Zenon DEF Collect, AccessTypeOK
  <2>6. CASE Tick
    <3>1. nowMS' \in 1..MaxTime
      BY <1>2, <2>6, AccessAssumption DEF Tick, AccessTypeOK
    <3>2. QED BY <1>2, <2>6, <3>1, Zenon DEF Tick, AccessTypeOK
  <2>7. QED BY <1>2, <2>1, <2>2, <2>3, <2>4, <2>5, <2>6, Zenon
            DEF AccessNext, accessVars, Ask, Splice
<1>3. QED BY <1>1, <1>2, PTL DEF AccessSpec

=============================================================================

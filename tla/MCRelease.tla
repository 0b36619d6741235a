------------------------------ MODULE MCRelease ------------------------------
(* Small instance of the release commands: two runs, which may share a     *)
(* directory, over two evidence files.                                        *)
EXTENDS EvidenceStore, TLC

\* Options with every field in order, and some of them changed.
Text == [f \in AllTexts \cup ReleaseTexts |->
           IF f \in {"unsigned-exception", "exception-owner", "decision-by", "pilot-environment"}
           THEN "" ELSE "plain"]
With(field, text) == [Text EXCEPT ![field] = text]

MCEvidence == <<"smoke", "sbom">>
Content(text, id) == [text |-> text, id |-> id, newline |-> id = 1]
Files(text, id) == ("smoke" :> Content(text, id)) @@ ("sbom" :> Content("plain", 1))

Opts ==
  [ component |-> "builders-control", releaseDate |-> "good", restoredAt |-> "good",
    pr |-> "pull/7", mergeCommit |-> <<1, 2, 3>>, docCommit |-> <<1, 2>>, digests |-> TRUE,
    size |-> 1, signedAt |-> "good", expires |-> "", text |-> Text,
    evidence |-> Files("plain", 2) ]

Read(opts) == [complete |-> TRUE, readable |-> TRUE, opts |-> opts]

MCRunInputs ==
  { Read(Opts), [Read(Opts) EXCEPT !.complete = FALSE],
    Read([Opts EXCEPT !.component = "builders-agent", !.evidence = Files("plain", 3)]),
    Read([Opts EXCEPT !.component = Padded, !.evidence = Files("plain", 1)]),
    Read([Opts EXCEPT !.component = "relay"]),
    Read([Opts EXCEPT !.mergeCommit = <<1, 3>>]),
    Read([Opts EXCEPT !.pr = "pull/0"]), Read([Opts EXCEPT !.size = 0]),
    Read([Opts EXCEPT !.text = With("signed-by", "unsigned build")]),
    Read([Opts EXCEPT !.text = With("owner", "a:<newline>")]),
    Read([Opts EXCEPT !.text = With("release-id", "local")]),
    Read([Opts EXCEPT !.evidence = Files("request body accepted", 2)]),
    Read([Opts EXCEPT !.evidence = Files(" ", 2)]) }

Excepted ==
  [Opts EXCEPT !.signedAt = "", !.expires = "good",
     !.text = [Text EXCEPT !["signed-by"] = "", !["unsigned-exception"] = "why",
                           !["exception-owner"] = "who"]]

MCPilotInputs ==
  { Read(Opts), Read(Excepted), [Read(Opts) EXCEPT !.readable = FALSE],
    Read([Excepted EXCEPT !.text["signed-by"] = "plain"]),
    Read([Excepted EXCEPT !.signedAt = "good"]), Read([Excepted EXCEPT !.expires = "bad"]),
    Read([Opts EXCEPT !.text = With("signed-by", " ")]),
    Read([Opts EXCEPT !.text = With("decision-by", "a:<newline>")]),
    Read([Opts EXCEPT !.mergeCommit = <<2, 2>>]) }

Dep(path, version) == [path |-> "plain", replace |-> [path |-> path, version |-> version]]
Build0 == [version |-> "1.2", commit |-> <<1, 2>>, dated |-> TRUE, deps |-> {}]

MCBuilds ==
  { Build0, [Build0 EXCEPT !.version = "local"], [Build0 EXCEPT !.version = "0.0.0-dev"],
    [Build0 EXCEPT !.deps = {Dep("private", "(devel)"), Dep("plain", "v2")}],
    [Build0 EXCEPT !.deps = {Dep(".internal", "v2")}],
    [Build0 EXCEPT !.commit = <<2, 2>>] }

=============================================================================

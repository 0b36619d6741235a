------------------------------- MODULE URITexts -------------------------------
(***************************************************************************)
(* URIs as texts: what strings.TrimSpace and url.Parse make of the URI that *)
(* a caller of the identity package writes.                                 *)
(*                                                                         *)
(* A text is what stands between two slashes, and a name is the sequence of *)
(* the texts between its slashes: <<"a", "b">> is "a/b", <<"a", "">> is "a/"*)
(* and <<"">> the empty name.  Which characters a text has is left to the   *)
(* constants; what matters of them is what trimming, a question mark or a   *)
(* hash, and the percent escapes do to it.                                  *)
(*                                                                         *)
(* The path of a written URI is a sequence of names, one for each segment.  *)
(* Where the names were escaped (url.PathEscape) a segment is the name it   *)
(* escapes, and no character of it means anything to the URI; where they    *)
(* were pasted in as they stand, each segment is one text, as it stands.    *)
(***************************************************************************)
EXTENDS Naturals, Sequences, FiniteSetsExt

CONSTANTS
  Texts,       \* strings without a slash
  TrimLeft,    \* a text without the blanks at its start, and at its end
  TrimRight,
  BeforeMark,  \* what stands before its first question mark or hash
  Unescape,    \* the name it is once its percent escapes are decoded; a %2F splits it
  URLRefuses(_) \* url.Parse fails on a path of these texts: a bad escape, a control character

\* A text that says itself in a URI: no mark, no escape.
Plain(t) == BeforeMark[t] = t /\ Unescape[t] = <<t>>

\* The words identities are written with.
Words == {"", "runtime", "agent", "federation-gateway", "tenant", "project", "session",
          "workload", "node", "gateway", "service-principal"}

ASSUME TextAssumption ==
  /\ Words \subseteq Texts
  /\ TrimLeft \in [Texts -> Texts] /\ TrimRight \in [Texts -> Texts]
  /\ BeforeMark \in [Texts -> Texts]
  /\ Unescape \in [Texts -> Seq(Texts) \ {<<>>}]
  /\ \A w \in Words : Plain(w) /\ TrimLeft[w] = w /\ TrimRight[w] = w
  /\ \A t \in Texts : Plain(t) => Plain(TrimRight[t])

Names == Seq(Texts) \ {<<>>}

\* strings.TrimSpace(name) != name, and strings.TrimSpace(name) == "".
Padded(name) == \/ TrimLeft[name[1]] # name[1]
                \/ TrimRight[name[Len(name)]] # name[Len(name)]
Blank(name) == Len(name) = 1 /\ TrimRight[name[1]] = ""

\* A URI as written; lead says that blanks stand before it.
Written(scheme, host, path, escaped) ==
  [scheme |-> scheme, host |-> host, path |-> path, escaped |-> escaped, lead |-> FALSE]

\* Nothing but blanks.
BlankURI == Written("", "", <<>>, FALSE)

\* strings.TrimSpace of a URI.  One that ends in an escaped name ends in no blank.
trimURI(uri) ==
  LET path == uri.path
      end == Len(path)
  IN  [uri EXCEPT !.lead = FALSE,
         !.path = IF uri.escaped \/ path = <<>> THEN path
                  ELSE [path EXCEPT ![end] = <<TrimRight[path[end][1]]>>]]

\* What url.Parse returns with an error.
BrokenURI == [scheme |-> "", host |-> "", path |-> <<>>, rest |-> <<"error">>]

\* url.Parse: the path ends at the first mark, and its escapes are decoded; what
\* follows is the query and the fragment.  A blank before the scheme is an error.
\* Two spellings of one path, as %41 and A, are one URI here.
urlParse(uri) ==
  LET path == uri.path
      marked == {k \in DOMAIN path : BeforeMark[path[k][1]] # path[k][1]}
      cut == ~uri.escaped /\ marked # {}
      end == IF cut THEN Min(marked) ELSE Len(path)
  IN  IF uri.lead \/ (~uri.escaped /\ URLRefuses(path)) THEN BrokenURI
      ELSE [ scheme |-> uri.scheme, host |-> uri.host,
             path |-> [k \in 1..end |-> IF uri.escaped THEN path[k]
                                        ELSE Unescape[BeforeMark[path[k][1]]]],
             rest |-> IF cut THEN SubSeq(path, end, Len(path)) ELSE <<>> ]

=============================================================================

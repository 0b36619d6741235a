--------------------------- MODULE IdentityProofs ----------------------------
(***************************************************************************)
(* What the identity package reads back from the URIs it writes, for names *)
(* of any length with slashes, blanks and marks anywhere; and, from a      *)
(* request to a handshake or a resumed session, for any identities, files, *)
(* lists and clocks: who a peer is taken for was meant by the authority    *)
(* that signed for it, the revocation list in force at the handshake was   *)
(* obeyed, and a check that passed predicts the service.                   *)
(***************************************************************************)
EXTENDS MutualTLS, FiniteSetTheorems, WellFoundedInduction, TLAPS

-----------------------------------------------------------------------------
(* What Sign makes *)

\* A leaf that Sign makes names the key that signed it, which is the key of the
\* authority's certificate, has the URIs of the options, and lives as long as asked.
LEMMA SignedAt ==
  ASSUME NEW ca, NEW opts, NEW cn, NEW pub, NEW serial, NEW at,
         Sign(ca, opts, cn, pub, serial, at) # NoCert
  PROVE  LET leaf == Sign(ca, opts, cn, pub, serial, at) IN
         /\ ca.cert # NoCert /\ ca.key = ca.cert.key /\ leaf.signer = ca.key
         /\ leaf.from = at /\ leaf.until = at + ttlOr(opts.ttl, DefaultLeafTTL)
         /\ leaf.uris = parseURIs(opts.uris)
<1> DEFINE template == newLeafTemplate(opts, cn, serial, at)
           leaf == Sign(ca, opts, cn, pub, serial, at)
<1>1. /\ leaf = CreateCertificate(template, ca.cert.key, pub, ca.key)
      /\ ca.cert # NoCert /\ template # NoCert
  BY Zenon DEF Sign
<1>2. /\ ca.cert.key = ca.key
      /\ leaf = [template EXCEPT !.key = pub, !.signer = ca.key]
  BY <1>1 DEF CreateCertificate
<1>3. template = [NoCert EXCEPT !.serial = serial, !.usage = opts.profile, !.cn = cn,
                    !.dns = cleanStrings(opts.dns), !.uris = parseURIs(opts.uris), !.from = at,
                    !.until = at + ttlOr(opts.ttl, DefaultLeafTTL)]
  BY <1>1 DEF newLeafTemplate
<1>4. /\ template.from = at /\ template.until = at + ttlOr(opts.ttl, DefaultLeafTTL)
      /\ template.uris = parseURIs(opts.uris)
  BY <1>3, Zenon DEF NoCert
<1>5. {"from", "until", "key", "signer", "uris"} \subseteq DOMAIN template
  BY <1>3, Zenon DEF NoCert
<1> HIDE DEF template, leaf
<1>6. /\ leaf.signer = ca.key /\ leaf.from = template.from /\ leaf.until = template.until
      /\ leaf.uris = template.uris
  BY <1>2, <1>5
<1>7. QED BY <1>1, <1>2, <1>4, <1>6 DEF leaf

\* The same, with a name for the leaf.
LEMMA SignedCert ==
  ASSUME NEW ca, NEW opts, NEW cn, NEW pub, NEW serial, NEW at, NEW cert,
         cert = Sign(ca, opts, cn, pub, serial, at), cert # NoCert
  PROVE  /\ cert.from = at /\ cert.until = at + ttlOr(opts.ttl, DefaultLeafTTL)
         /\ cert.uris = parseURIs(opts.uris)
BY SignedAt

\* A set with an element is not empty.
LEMMA NotEmpty == ASSUME NEW S, NEW x \in S PROVE S # {}
OBVIOUS

-----------------------------------------------------------------------------
(* Reading an identity back: least and greatest positions *)

\* A set of naturals that has 0, and the successor of each of its members, has
\* every natural.
LEMMA SetInduction ==
  ASSUME NEW S, 0 \in S, \A n \in Nat : n \in S => n + 1 \in S
  PROVE  Nat \subseteq S
<1>1. SUFFICES ASSUME Nat \ S # {} PROVE FALSE
  OBVIOUS
<1>2. PICK x \in Nat \ S : \A y \in Nat \ S : <<y, x>> \notin OpToRel(<, Nat)
  <2>1. Nat \ S \subseteq Nat
    OBVIOUS
  <2>2. QED BY <1>1, <2>1, WFMin, NatLessThanWellFounded, Zenon
<1>3. x # 0 /\ x - 1 \in Nat /\ x - 1 < x
  OBVIOUS
<1>4. x - 1 \in S
  BY <1>2, <1>3, Zenon DEF OpToRel
<1>5. (x - 1) + 1 = x
  BY <1>3
<1>6. QED BY <1>2, <1>3, <1>4, <1>5, Zenon

\* Min of numbers is the least of them.
LEMMA MinIsLeast ==
  ASSUME NEW S \in SUBSET Nat, S # {}
  PROVE  Min(S) \in S /\ \A y \in S : Min(S) <= y
<1>1. PICK x \in S : \A y \in S : <<y, x>> \notin OpToRel(<, Nat)
  BY WFMin, NatLessThanWellFounded, Zenon
<1>2. x \in Nat /\ \A y \in S : y \in Nat /\ ~(y < x)
  BY <1>1, Zenon DEF OpToRel
<1>3. \A y \in S : x <= y
  BY <1>2
<1>4. QED BY <1>1, <1>3, Zenon DEF Min

\* Max of numbers up to n is the greatest of them.
LEMMA MaxIsGreatest ==
  ASSUME NEW n \in Nat, NEW S \in SUBSET (1..n), S # {}
  PROVE  Max(S) \in S /\ \A y \in S : Max(S) >= y
<1> DEFINE T == {k \in Nat : \A y \in S : k >= y}
<1>1. n \in T
  OBVIOUS
<1>2. Min(T) \in T /\ \A y \in T : Min(T) <= y
  BY <1>1, MinIsLeast
<1>3. ASSUME Min(T) \notin S PROVE FALSE
  <2>1. PICK y \in S : TRUE
    BY Zenon
  <2>2. Min(T) >= y /\ y >= 1 /\ Min(T) \in Nat
    BY <1>2, <2>1
  <2>3. Min(T) - 1 \in Nat
    BY <2>2
  <2>4. \A z \in S : Min(T) - 1 >= z
    BY <1>2, <1>3, <2>2
  <2>5. Min(T) - 1 \in T
    BY <2>3, <2>4
  <2>6. QED BY <1>2, <2>2, <2>5
<1>4. Min(T) \in S /\ \A y \in S : Min(T) >= y
  BY <1>2, <1>3
<1> HIDE DEF T
<1>5. QED BY <1>4, Zenon DEF Max

\* TrimSlashes of parts that do not begin with an empty one: all of them up to
\* the last that is not empty.
LEMMA Trimmed ==
  ASSUME NEW X, NEW parts \in Seq(X), NEW empty, Len(parts) >= 1, parts[1] # empty
  PROVE  \E m \in 1..Len(parts) :
           /\ parts[m] # empty /\ \A i \in 1..Len(parts) : parts[i] # empty => i <= m
           /\ TrimSlashes(parts, empty) \in Seq(X) /\ Len(TrimSlashes(parts, empty)) = m
           /\ \A i \in 1..m : TrimSlashes(parts, empty)[i] = parts[i]
<1> DEFINE kept == {k \in DOMAIN parts : parts[k] # empty}
<1>1. Len(parts) \in Nat /\ DOMAIN parts = 1..Len(parts)
  OBVIOUS
<1>2. kept \in SUBSET (1..Len(parts)) /\ kept \in SUBSET Nat /\ 1 \in kept
  BY <1>1
<1>3. kept # {}
  BY <1>2
<1>4. Max(kept) \in kept /\ \A y \in kept : Max(kept) >= y
  BY <1>1, <1>2, <1>3, MaxIsGreatest, Zenon
<1>5. Min(kept) = 1
  <2>1. Min(kept) \in kept /\ \A y \in kept : Min(kept) <= y
    BY <1>2, <1>3, MinIsLeast, Zenon
  <2>2. Min(kept) \in Nat /\ Min(kept) >= 1 /\ Min(kept) <= 1
    BY <1>1, <1>2, <2>1
  <2>3. QED BY <2>2
<1>6. TrimSlashes(parts, empty) = SubSeq(parts, 1, Max(kept))
  BY <1>3, <1>5, Zenon DEF TrimSlashes
<1> DEFINE m == Max(kept)
<1>7. m \in 1..Len(parts) /\ parts[m] # empty
  BY <1>1, <1>4
<1>8. \A i \in 1..Len(parts) : parts[i] # empty => i <= m
  <2>1. ASSUME NEW i \in 1..Len(parts), parts[i] # empty PROVE i <= m
    <3>1. i \in kept
      BY <1>1, <2>1
    <3>2. QED BY <1>4, <1>7, <3>1
  <2>2. QED BY <2>1
<1> HIDE DEF m
<1>9. /\ SubSeq(parts, 1, m) \in Seq(X) /\ Len(SubSeq(parts, 1, m)) = m
      /\ \A i \in 1..m : SubSeq(parts, 1, m)[i] = parts[i]
  BY <1>1, <1>7
<1>10. TrimSlashes(parts, empty) = SubSeq(parts, 1, m)
  BY <1>6 DEF m
<1>11. QED BY <1>7, <1>8, <1>9, <1>10

-----------------------------------------------------------------------------
(* The two loops over URIs and over the names of a path *)

Decodes(f, n, path) ==
  f = [i \in 0..n |-> IF i = 0 THEN <<>> ELSE f[i - 1] \o path[i]]

\* The loop of Decoded can be followed for any number of parts.
LEMMA DecodesRuns ==
  ASSUME NEW path
  PROVE  \A n \in Nat : \E f : Decodes(f, n, path)
<1> DEFINE S == {n \in Nat : \E f : Decodes(f, n, path)}
<1>1. 0 \in S
  <2>1. Decodes([i \in 0..0 |-> <<>>], 0, path)
    BY DEF Decodes
  <2>2. QED BY <2>1
<1>2. ASSUME NEW n \in Nat, n \in S PROVE n + 1 \in S
  <2>1. PICK f : Decodes(f, n, path)
    BY <1>2
  <2> DEFINE end == f[n] \o path[n + 1]
             g == [i \in 0..(n + 1) |-> IF i = n + 1 THEN end ELSE f[i]]
  <2>2. \A i \in 0..n : g[i] = f[i]
    OBVIOUS
  <2>3. \A i \in 0..n : f[i] = IF i = 0 THEN <<>> ELSE f[i - 1] \o path[i]
    BY <2>1, SMTT(30) DEF Decodes
  <2>4. ASSUME NEW i \in 0..(n + 1)
        PROVE  g[i] = IF i = 0 THEN <<>> ELSE g[i - 1] \o path[i]
    <3>1. CASE i = n + 1
      <4>1. g[i] = end /\ g[i - 1] = f[n] /\ i # 0
        BY <3>1
      <4>2. QED BY <3>1, <4>1, Zenon
    <3>2. CASE i \in 0..n
      <4>1. i # 0 => i - 1 \in 0..n
        BY <3>2
      <4>2. g[i] = f[i] /\ (i # 0 => g[i - 1] = f[i - 1])
        BY <2>2, <3>2, <4>1
      <4> HIDE DEF g
      <4>3. QED BY <2>3, <3>2, <4>2
    <3>3. QED BY <3>1, <3>2
  <2>5. Decodes(g, n + 1, path)
    <3>1. g = [i \in 0..(n + 1) |-> g[i]]
      OBVIOUS
    <3> HIDE DEF g
    <3>2. QED BY <2>4, <3>1, Zenon DEF Decodes
  <2>6. QED BY <2>5
<1>3. Nat \subseteq S
  BY <1>1, <1>2, SetInduction, Zenon
<1>4. QED BY <1>3

\* What Decoded returns is the last value of a run of the loop.
LEMMA DecodesEnds ==
  ASSUME NEW path, Len(path) \in Nat
  PROVE  \E f : Decodes(f, Len(path), path) /\ Decoded(path) = f[Len(path)]
<1> DEFINE L == CHOOSE f : Decodes(f, Len(path), path)
<1>1. Decodes(L, Len(path), path)
  BY DecodesRuns
<1>2. Decoded(path) = L[Len(path)]
  BY Zenon DEF Decoded, Decodes
<1>3. QED BY <1>1, <1>2, Zenon

\* The empty text.
Empty == ""

\* A name is a sequence of one or more texts.
LEMMA NameType ==
  ASSUME NEW name \in Names
  PROVE  /\ name \in Seq(Texts) /\ Len(name) \in Nat /\ Len(name) >= 1
         /\ \A i \in 1..Len(name) : name[i] \in Texts
BY DEF Names

\* The words are plain texts without blanks.
LEMMA WordType ==
  ASSUME NEW w \in Words
  PROVE  /\ w \in Texts /\ BeforeMark[w] = w /\ Unescape[w] = <<w>>
         /\ TrimLeft[w] = w /\ TrimRight[w] = w
BY TextAssumption, Zenon DEF Plain

\* A path of names, decoded: it begins with the first piece of the first name,
\* and where every name is one piece it is those pieces.
LEMMA DecodedPath ==
  ASSUME NEW path \in Seq(Names), Len(path) >= 1
  PROVE  /\ Decoded(path) \in Seq(Texts) /\ Len(Decoded(path)) >= 1
         /\ Decoded(path)[1] = path[1][1]
         /\ (\A i \in 1..Len(path) : Len(path[i]) = 1) =>
              Len(Decoded(path)) = Len(path) /\ \A i \in 1..Len(path) : Decoded(path)[i] = path[i][1]
<1>1. Len(path) \in Nat /\ DOMAIN path = 1..Len(path)
  OBVIOUS
<1>2. \A i \in 1..Len(path) : path[i] \in Seq(Texts) /\ Len(path[i]) >= 1
  BY <1>1 DEF Names
<1>3. PICK f : Decodes(f, Len(path), path) /\ Decoded(path) = f[Len(path)]
  BY <1>1, DecodesEnds
<1>4. \A i \in 0..Len(path) : f[i] = IF i = 0 THEN <<>> ELSE f[i - 1] \o path[i]
  BY <1>3 DEF Decodes
<1> DEFINE Good(n) ==
             /\ f[n] \in Seq(Texts)
             /\ n >= 1 => Len(f[n]) >= 1 /\ f[n][1] = path[1][1]
             /\ (\A i \in 1..Len(path) : Len(path[i]) = 1) =>
                   Len(f[n]) = n /\ \A i \in 1..n : f[n][i] = path[i][1]
           S == {n \in Nat : n <= Len(path) => Good(n)}
<1>5. 0 \in S
  <2>1. f[0] = <<>>
    BY <1>1, <1>4
  <2>2. Good(0)
    BY <2>1
  <2>3. QED BY <2>2
<1>6. ASSUME NEW n \in Nat, n \in S PROVE n + 1 \in S
  <2> SUFFICES ASSUME n + 1 <= Len(path) PROVE Good(n + 1)
    OBVIOUS
  <2>1. n + 1 \in 0..Len(path) /\ n + 1 # 0 /\ (n + 1) - 1 = n /\ n + 1 \in 1..Len(path) /\ n <= Len(path)
    BY <1>1
  <2>2. f[n + 1] = f[n] \o path[n + 1]
    BY <1>4, <2>1, Zenon
  <2>3. Good(n)
    BY <1>6, <2>1
  <2>4. path[n + 1] \in Seq(Texts) /\ Len(path[n + 1]) >= 1
    BY <1>2, <2>1
  <2> DEFINE s == f[n]
             t == path[n + 1]
  <2>5. /\ s \in Seq(Texts) /\ t \in Seq(Texts) /\ f[n + 1] = s \o t /\ t = path[n + 1]
        /\ n >= 1 => Len(s) >= 1 /\ s[1] = path[1][1]
        /\ n = 0 => Len(s) = 0 /\ Len(t) >= 1 /\ t[1] = path[1][1]
    <3>1. f[0] = <<>>
      BY <1>1, <1>4
    <3>2. QED BY <2>2, <2>3, <2>4, <3>1
  <2>6. /\ s \o t \in Seq(Texts) /\ Len(s \o t) = Len(s) + Len(t)
        /\ \A i \in 1..Len(s) : (s \o t)[i] = s[i]
        /\ \A i \in 1..Len(t) : (s \o t)[Len(s) + i] = t[i]
    <3> HIDE DEF s, t
    <3>1. QED BY <2>5
  <2>7. Len(f[n + 1]) >= 1 /\ f[n + 1][1] = path[1][1]
    <3> HIDE DEF s, t
    <3>1. Len(s) \in Nat /\ Len(t) \in Nat
      BY <2>5
    <3>2. CASE n = 0
      <4>1. Len(s) = 0 /\ Len(t) >= 1 /\ t[1] = path[1][1]
        BY <2>5, <3>2
      <4>2. 1 \in 1..Len(t) /\ Len(s) + 1 = 1
        BY <3>1, <4>1
      <4>3. (s \o t)[Len(s) + 1] = t[1]
        BY <2>6, <4>2
      <4>4. QED BY <2>5, <2>6, <3>1, <4>1, <4>2, <4>3
    <3>3. CASE n # 0
      <4>1. Len(s) >= 1 /\ s[1] = path[1][1]
        BY <2>5, <3>3
      <4>2. 1 \in 1..Len(s)
        BY <3>1, <4>1
      <4>3. (s \o t)[1] = s[1]
        BY <2>6, <4>2
      <4>4. QED BY <2>5, <2>6, <3>1, <4>1, <4>3
    <3>4. QED BY <3>2, <3>3
  <2>8. ASSUME \A i \in 1..Len(path) : Len(path[i]) = 1
        PROVE  Len(f[n + 1]) = n + 1 /\ \A i \in 1..(n + 1) : f[n + 1][i] = path[i][1]
    <3>1. Len(s) = n /\ Len(t) = 1 /\ \A i \in 1..n : s[i] = path[i][1]
      BY <2>1, <2>3, <2>8
    <3>2. Len(f[n + 1]) = n + 1
      BY <2>2, <2>6, <3>1
    <3>3. ASSUME NEW i \in 1..(n + 1) PROVE f[n + 1][i] = path[i][1]
      <4>1. CASE i \in 1..n
        BY <2>2, <2>6, <3>1, <4>1, Zenon
      <4>2. CASE i = n + 1
        <5>1. 1 \in 1..Len(t)
          BY <3>1
        <5>2. (s \o t)[Len(s) + 1] = t[1]
          BY <2>6, <5>1, Zenon
        <5>3. QED BY <2>2, <3>1, <4>2, <5>2
      <4>3. QED BY <4>1, <4>2
    <3>4. QED BY <3>2, <3>3
  <2>9. f[n + 1] \in Seq(Texts)
    BY <2>2, <2>6
  <2>10. QED BY <2>7, <2>8, <2>9
<1>7. Nat \subseteq S
  BY <1>5, <1>6, SetInduction, Zenon
<1>8. Good(Len(path))
  BY <1>1, <1>7
<1>9. QED BY <1>3, <1>8

-----------------------------------------------------------------------------
(* Paths made of one-piece names *)

Singles(s) == s \in Seq(Names) /\ \A i \in 1..Len(s) : Len(s[i]) = 1

\* A sequence of length one is its element.
LEMMA OneLong ==
  ASSUME NEW X, NEW s \in Seq(X), Len(s) = 1
  PROVE  s = <<s[1]>>
OBVIOUS

\* A sequence of one element has it first, and is not empty.
LEMMA OneElement ==
  ASSUME NEW X, NEW x \in X
  PROVE  <<x>> \in Seq(X) /\ Len(<<x>>) = 1 /\ <<x>>[1] = x /\ <<x>> # <<>>
OBVIOUS

\* A word is a part of one piece.
LEMMA SingleName ==
  ASSUME NEW w \in Texts
  PROVE  <<w>> \in Names /\ Len(<<w>>) = 1 /\ <<w>>[1] = w
BY OneElement, Zenon DEF Names

\* A word makes a path of one part.
LEMMA WordPath ==
  ASSUME NEW w \in Texts
  PROVE  Singles(Word(w)) /\ Len(Word(w)) = 1 /\ Word(w)[1] = <<w>>
<1> DEFINE n == <<w>>
<1>1. n \in Names /\ Len(n) = 1
  BY SingleName
<1>2. Word(w) = <<n>>
  BY DEF Word
<1> HIDE DEF n
<1>3. <<n>> \in Seq(Names) /\ Len(<<n>>) = 1 /\ <<n>>[1] = n
  BY <1>1
<1>4. \A i \in 1..1 : i = 1
  OBVIOUS
<1>5. Singles(Word(w))
  BY <1>1, <1>2, <1>3, <1>4 DEF Singles
<1>6. QED BY <1>2, <1>3, <1>5 DEF n

\* A pasted name makes a path of one part for every piece.
LEMMA PastedPath ==
  ASSUME NEW name \in Names
  PROVE  /\ Singles(Pasted(name)) /\ Len(Pasted(name)) = Len(name)
         /\ \A i \in 1..Len(name) : Pasted(name)[i] = <<name[i]>>
<1>1. /\ name \in Seq(Texts) /\ Len(name) \in Nat /\ DOMAIN name = 1..Len(name)
      /\ \A i \in 1..Len(name) : name[i] \in Texts
  BY NameType
<1>2. \A i \in 1..Len(name) : <<name[i]>> \in Names /\ Len(<<name[i]>>) = 1
  BY <1>1, SingleName
<1>3. Pasted(name) = [i \in 1..Len(name) |-> <<name[i]>>]
  BY <1>1 DEF Pasted
<1>4. Pasted(name) \in Seq(Names) /\ Len(Pasted(name)) = Len(name)
  BY <1>1, <1>2, <1>3
<1>5. \A i \in 1..Len(name) : Pasted(name)[i] = <<name[i]>>
  BY <1>3
<1>6. QED BY <1>2, <1>4, <1>5, Zenon DEF Singles

\* Paths of single pieces can be joined, and their parts are found where they were put.
LEMMA Joined ==
  ASSUME NEW s, NEW t, Singles(s), Singles(t)
  PROVE  /\ Singles(s \o t) /\ Len(s) \in Nat /\ Len(t) \in Nat /\ Len(s \o t) = Len(s) + Len(t)
         /\ \A i \in 1..Len(s) : (s \o t)[i] = s[i]
         /\ \A i \in 1..Len(t) : (s \o t)[Len(s) + i] = t[i]
<1>1. s \in Seq(Names) /\ t \in Seq(Names) /\ Len(s) \in Nat /\ Len(t) \in Nat
  BY DEF Singles
<1>2. /\ s \o t \in Seq(Names) /\ Len(s \o t) = Len(s) + Len(t)
      /\ \A i \in 1..Len(s) : (s \o t)[i] = s[i]
      /\ \A i \in 1..Len(t) : (s \o t)[Len(s) + i] = t[i]
  BY <1>1
<1>3. ASSUME NEW i \in 1..Len(s \o t) PROVE Len((s \o t)[i]) = 1
  <2>1. CASE i <= Len(s)
    BY <1>1, <1>2, <2>1 DEF Singles
  <2>2. CASE i > Len(s)
    <3>1. i - Len(s) \in 1..Len(t) /\ Len(s) + (i - Len(s)) = i
      BY <1>1, <1>2, <2>2
    <3>2. (s \o t)[i] = t[i - Len(s)]
      BY <1>2, <3>1
    <3>3. QED BY <3>1, <3>2 DEF Singles
  <2>3. QED BY <1>1, <1>2, <2>1, <2>2
<1>4. QED BY <1>1, <1>2, <1>3 DEF Singles

\* The path grown by a word and a pasted name: where it stood it stands, and the
\* pieces of the name follow the word.
LEMMA Grows ==
  ASSUME NEW s, Singles(s), NEW w \in Texts, NEW name \in Names
  PROVE  LET g == s \o Word(w) \o Pasted(name) IN
         /\ Singles(g) /\ Len(g) = Len(s) + 1 + Len(name) /\ Len(s) \in Nat
         /\ \A i \in 1..Len(s) : g[i] = s[i]
         /\ \A i \in 1..Len(name) : g[Len(s) + 1 + i] = <<name[i]>>
<1> DEFINE v == Word(w)
           p == Pasted(name)
           h == s \o v
<1>1. Singles(v) /\ Len(v) = 1 /\ Singles(p) /\ Len(p) = Len(name) /\ Len(name) \in Nat
  BY WordPath, PastedPath, NameType
<1>2. \A i \in 1..Len(name) : p[i] = <<name[i]>>
  BY PastedPath
<1> HIDE DEF v, p
<1>3. /\ Singles(h) /\ Len(h) = Len(s) + 1 /\ Len(s) \in Nat
      /\ \A i \in 1..Len(s) : h[i] = s[i]
  <2>1. /\ Singles(h) /\ Len(h) = Len(s) + Len(v) /\ Len(s) \in Nat
        /\ \A i \in 1..Len(s) : h[i] = s[i]
    BY <1>1, Joined, Zenon
  <2> HIDE DEF h
  <2>2. QED BY <1>1, <2>1
<1> HIDE DEF h
<1>4. /\ Singles(h \o p) /\ Len(h \o p) = Len(h) + Len(p)
      /\ \A i \in 1..Len(h) : (h \o p)[i] = h[i]
      /\ \A i \in 1..Len(p) : (h \o p)[Len(h) + i] = p[i]
  BY <1>1, <1>3, Joined
<1>5. \A i \in 1..Len(s) : (h \o p)[i] = s[i]
  <2>1. ASSUME NEW i \in 1..Len(s) PROVE (h \o p)[i] = s[i]
    <3>1. i \in 1..Len(h)
      BY <1>3
    <3>2. QED BY <1>3, <1>4, <3>1
  <2>2. QED BY <2>1, Zenon
<1>6. \A i \in 1..Len(name) : (h \o p)[Len(s) + 1 + i] = <<name[i]>>
  <2>1. ASSUME NEW i \in 1..Len(name) PROVE (h \o p)[Len(s) + 1 + i] = <<name[i]>>
    <3>1. i \in 1..Len(p)
      BY <1>1
    <3>2. (h \o p)[Len(h) + i] = p[i]
      BY <1>4, <3>1
    <3>3. QED BY <1>2, <1>3, <3>2
  <2>2. QED BY <2>1, Zenon
<1>7. Len(h \o p) = Len(s) + 1 + Len(name)
  BY <1>1, <1>3, <1>4
<1>8. QED BY <1>3, <1>4, <1>5, <1>6, <1>7, Zenon DEF h, v, p

-----------------------------------------------------------------------------
(* Agents *)

Agents == [kind : {"agent"}, tenant : Names, project : Names, node : Names]

\* The fields of a URI as written.
LEMMA SpiffeFields ==
  ASSUME NEW path
  PROVE  /\ Spiffe(path).scheme = "spiffe" /\ Spiffe(path).host = trustDomain
         /\ Spiffe(path).path = path /\ Spiffe(path).escaped = FALSE /\ Spiffe(path).lead = FALSE
         /\ SpiffeEscaped(path).scheme = "spiffe" /\ SpiffeEscaped(path).host = trustDomain
         /\ SpiffeEscaped(path).path = path /\ SpiffeEscaped(path).escaped = TRUE
BY DEF Spiffe, SpiffeEscaped, Written

\* A path of one-piece names, decoded.
LEMMA DecodedSingles ==
  ASSUME NEW path, Singles(path), Len(path) >= 1
  PROVE  /\ Decoded(path) \in Seq(Texts) /\ Len(Decoded(path)) = Len(path)
         /\ \A i \in 1..Len(path) : Decoded(path)[i] = path[i][1]
BY DecodedPath DEF Singles

\* The decoded path of an agent has its words and names one after another.
LEMMA AgentDecoded ==
  ASSUME NEW id \in Agents
  PROVE  LET path == AgentURI(id).path
             dec == Decoded(path)
             T == Len(id.tenant)
             P == Len(id.project)
             N == Len(id.node)
         IN  /\ path \in Seq(Names) /\ Len(path) >= 1 /\ path[1] = <<"agent">>
             /\ dec \in Seq(Texts) /\ Len(dec) = 4 + T + P + N
             /\ dec[1] = "agent"
             /\ \A k \in 1..T : dec[2 + k] = id.tenant[k]
             /\ \A k \in 1..P : dec[3 + T + k] = id.project[k]
             /\ \A k \in 1..N : dec[4 + T + P + k] = id.node[k]
<1> DEFINE T == Len(id.tenant)
           P == Len(id.project)
           N == Len(id.node)
           a == Word("agent")
           b == a \o Word("tenant") \o Pasted(id.tenant)
           c == b \o Word("project") \o Pasted(id.project)
           d == c \o Word("node") \o Pasted(id.node)
<1>0. "agent" \in Texts /\ "tenant" \in Texts /\ "project" \in Texts /\ "node" \in Texts
  BY WordType, Zenon DEF Words
<1>1. /\ id.tenant \in Names /\ id.project \in Names /\ id.node \in Names
      /\ T \in Nat /\ P \in Nat /\ N \in Nat
  BY NameType DEF Agents
<1>2. AgentURI(id).path = d
  BY SpiffeFields, Zenon DEF AgentURI
<1>3. Singles(a) /\ Len(a) = 1 /\ a[1] = <<"agent">>
  BY <1>0, WordPath
<1> HIDE DEF a
<1>4. /\ Singles(b) /\ Len(b) = Len(a) + 1 + T
      /\ \A i \in 1..Len(a) : b[i] = a[i]
      /\ \A i \in 1..T : b[Len(a) + 1 + i] = <<id.tenant[i]>>
  <2>1. Singles(a)
    BY <1>3
  <2>2. QED BY <1>0, <1>1, <2>1, Grows, ZenonT(30)
<1> HIDE DEF b
<1>5. /\ Singles(c) /\ Len(c) = Len(b) + 1 + P
      /\ \A i \in 1..Len(b) : c[i] = b[i]
      /\ \A i \in 1..P : c[Len(b) + 1 + i] = <<id.project[i]>>
  BY <1>0, <1>1, <1>4, Grows, ZenonT(30)
<1> HIDE DEF c
<1>6. /\ Singles(d) /\ Len(d) = Len(c) + 1 + N
      /\ \A i \in 1..Len(c) : d[i] = c[i]
      /\ \A i \in 1..N : d[Len(c) + 1 + i] = <<id.node[i]>>
  BY <1>0, <1>1, <1>5, Grows, ZenonT(30)
<1> HIDE DEF d, T, P, N
<1>7. Len(b) = 2 + T /\ Len(c) = 3 + T + P /\ Len(d) = 4 + T + P + N
  BY <1>1, <1>3, <1>4, <1>5, <1>6
<1>8. /\ Decoded(d) \in Seq(Texts) /\ Len(Decoded(d)) = Len(d)
      /\ \A i \in 1..Len(d) : Decoded(d)[i] = d[i][1]
  <2>1. Len(d) >= 1
    BY <1>1, <1>7
  <2>2. QED BY <1>6, <2>1, DecodedSingles
<1>9. /\ Decoded(d)[1] = "agent"
      /\ d \in Seq(Names) /\ Len(d) >= 1 /\ d[1] = <<"agent">>
  <2>1. 1 \in 1..Len(a) /\ 1 \in 1..Len(b) /\ 1 \in 1..Len(c) /\ 1 \in 1..Len(d)
    BY <1>1, <1>3, <1>7
  <2>2. d[1] = <<"agent">>
    BY <1>3, <1>4, <1>5, <1>6, <2>1, Zenon
  <2>3. Decoded(d)[1] = "agent"
    BY <1>8, <2>1, <2>2
  <2>4. d \in Seq(Names)
    BY <1>6 DEF Singles
  <2>5. Len(d) >= 1
    BY <1>1, <1>7
  <2>6. QED BY <2>2, <2>3, <2>4, <2>5
<1>10. ASSUME NEW k \in 1..T PROVE Decoded(d)[2 + k] = id.tenant[k]
  <2>1. 2 + k \in 1..Len(b) /\ 2 + k \in 1..Len(c) /\ 2 + k \in 1..Len(d) /\ Len(a) + 1 + k = 2 + k
    BY <1>1, <1>3, <1>7
  <2>2. d[2 + k] = <<id.tenant[k]>>
    BY <1>4, <1>5, <1>6, <2>1, Zenon DEF T
  <2>3. QED BY <1>8, <2>1, <2>2
<1>11. ASSUME NEW k \in 1..P PROVE Decoded(d)[3 + T + k] = id.project[k]
  <2>1. 3 + T + k \in 1..Len(c) /\ 3 + T + k \in 1..Len(d) /\ Len(b) + 1 + k = 3 + T + k
    BY <1>1, <1>7
  <2>2. d[3 + T + k] = <<id.project[k]>>
    BY <1>5, <1>6, <2>1, Zenon DEF P
  <2>3. QED BY <1>8, <2>1, <2>2
<1>12. ASSUME NEW k \in 1..N PROVE Decoded(d)[4 + T + P + k] = id.node[k]
  <2>1. 4 + T + P + k \in 1..Len(d) /\ Len(c) + 1 + k = 4 + T + P + k
    BY <1>1, <1>7, SMTT(30)
  <2>2. d[4 + T + P + k] = <<id.node[k]>>
    BY <1>6, <2>1 DEF N
  <2>3. QED BY <1>8, <2>1, <2>2
<1>13. QED BY <1>2, <1>7, <1>8, <1>9, <1>10, <1>11, <1>12, Zenon DEF T, P, N

\* A name whose only piece that is not empty is its first one, trimmed.
LEMMA TrimmedToOne ==
  ASSUME NEW X, NEW name \in Seq(X), NEW empty, Len(name) >= 1, name[1] # empty,
         \A k \in 1..Len(name) : name[k] # empty => k <= 1
  PROVE  TrimSlashes(name, empty) = <<name[1]>>
<1> DEFINE t == TrimSlashes(name, empty)
<1>1. Len(name) \in Nat
  OBVIOUS
<1>2. PICK m \in 1..Len(name) :
        /\ name[m] # empty /\ \A i \in 1..Len(name) : name[i] # empty => i <= m
        /\ t \in Seq(X) /\ Len(t) = m
        /\ \A i \in 1..m : t[i] = name[i]
  BY Trimmed
<1> HIDE DEF t
<1>3. m = 1
  BY <1>1, <1>2
<1>4. 1 \in 1..m /\ t[1] = name[1]
  BY <1>2, <1>3
<1>5. t = <<t[1]>>
  BY <1>2, <1>3, OneLong
<1>6. QED BY <1>4, <1>5 DEF t

\* A name of agents and runtimes that is not just slashes has a piece.
LEMMA HasPiece ==
  ASSUME NEW X, NEW name \in Seq(X), NEW empty, Len(name) >= 1, ~(\A k \in DOMAIN name : name[k] = empty)
  PROVE  \E k \in 1..Len(name) : name[k] # empty
OBVIOUS

\* What parseAgentURI reads from the path of an agent is that agent.
LEMMA AgentReads ==
  ASSUME NEW id \in Agents, ~(\A k \in DOMAIN id.node : id.node[k] = Empty),
         parseAgentURI(AgentURI(id)) # NoIdentity
  PROVE  parseAgentURI(AgentURI(id)) = [id EXCEPT !.node = TrimSlashes(id.node, Empty)]
<1> DEFINE uri == AgentURI(id)
           dec == Decoded(uri.path)
           p == PathParts(uri)
           T == Len(id.tenant)
           P == Len(id.project)
           N == Len(id.node)
           e == Empty
<1>1. /\ id.tenant \in Names /\ id.project \in Names /\ id.node \in Names /\ id.kind = "agent"
      /\ T \in Nat /\ P \in Nat /\ N \in Nat /\ T >= 1 /\ P >= 1 /\ N >= 1
      /\ id.tenant \in Seq(Texts) /\ id.project \in Seq(Texts) /\ id.node \in Seq(Texts)
  BY NameType DEF Agents
<1>2. /\ dec \in Seq(Texts) /\ Len(dec) = 4 + T + P + N /\ dec[1] = "agent"
      /\ \A k \in 1..T : dec[2 + k] = id.tenant[k]
      /\ \A k \in 1..P : dec[3 + T + k] = id.project[k]
      /\ \A k \in 1..N : dec[4 + T + P + k] = id.node[k]
  BY AgentDecoded, Zenon
<1>3. /\ Len(p) = 7
      /\ parseAgentURI(uri) = [kind |-> "agent", tenant |-> <<p[3]>>, project |-> <<p[5]>>, node |-> <<p[7]>>]
  BY Zenon DEF parseAgentURI, identityParts
<1>4. p = TrimSlashes(dec, e)
  BY Zenon DEF PathParts, Empty
<1>e. "agent" # e /\ ~(\A k \in DOMAIN id.node : id.node[k] = e)
  BY Zenon DEF Empty
<1> HIDE DEF dec, p, T, P, N, e
<1>5. PICK m \in 1..Len(dec) :
        /\ dec[m] # e /\ \A i \in 1..Len(dec) : dec[i] # e => i <= m
        /\ p \in Seq(Texts) /\ Len(p) = m
        /\ \A i \in 1..m : p[i] = dec[i]
  <2>1. Len(dec) >= 1 /\ dec[1] # e
    BY <1>1, <1>2, <1>e
  <2>2. QED BY <1>2, <1>4, <2>1, Trimmed
<1>6. m = 7
  BY <1>3, <1>5, Zenon
<1>7. \A k \in 1..N : id.node[k] # e => T + P + k <= 3
  <2>1. ASSUME NEW k \in 1..N, id.node[k] # e PROVE T + P + k <= 3
    <3>1. 4 + T + P + k \in 1..Len(dec)
      BY <1>1, <1>2
    <3>2. dec[4 + T + P + k] # e
      BY <1>2, <2>1
    <3>3. 4 + T + P + k <= 7
      BY <1>5, <1>6, <3>1, <3>2
    <3>4. QED BY <1>1, <3>3
  <2>2. QED BY <2>1
<1>8. PICK k \in 1..N : id.node[k] # e
  BY <1>1, <1>e, HasPiece DEF N
<1>9. T = 1 /\ P = 1
  BY <1>1, <1>7, <1>8
<1>10. \A j \in 1..N : id.node[j] # e => j <= 1
  BY <1>1, <1>7, <1>9
<1>11. k = 1
  BY <1>1, <1>8, <1>10
<1>12. TrimSlashes(id.node, e) = <<id.node[1]>>
  BY <1>1, <1>8, <1>10, <1>11, TrimmedToOne DEF N
<1>13. p[3] = id.tenant[1] /\ p[5] = id.project[1] /\ p[7] = id.node[1]
  <2>1. 3 \in 1..m /\ 5 \in 1..m /\ 7 \in 1..m /\ 1 \in 1..T /\ 1 \in 1..P /\ 1 \in 1..N
    BY <1>1, <1>6, <1>9
  <2>2. dec[2 + 1] = id.tenant[1] /\ dec[3 + T + 1] = id.project[1] /\ dec[4 + T + P + 1] = id.node[1]
    BY <1>2, <2>1
  <2>3. 2 + 1 = 3 /\ 3 + T + 1 = 5 /\ 4 + T + P + 1 = 7
    BY <1>9
  <2>4. QED BY <1>5, <2>1, <2>2, <2>3
<1>14. id.tenant = <<id.tenant[1]>> /\ id.project = <<id.project[1]>>
  BY <1>1, <1>9, OneLong DEF T, P
<1>15. [id EXCEPT !.node = TrimSlashes(id.node, Empty)] = [id EXCEPT !.node = <<id.node[1]>>]
  BY <1>12, Zenon DEF e
<1>16. [id EXCEPT !.node = <<id.node[1]>>]
         = [kind |-> "agent", tenant |-> id.tenant, project |-> id.project, node |-> <<id.node[1]>>]
  BY DEF Agents
<1>17. QED BY <1>3, <1>13, <1>14, <1>15, <1>16

-----------------------------------------------------------------------------
(* Runtimes *)

Runtimes ==
  [kind : {"runtime"}, tenant : Names, project : Names, session : Names, workload : Names]

\* The decoded path of a runtime has its words and names one after another.
LEMMA RuntimeDecoded ==
  ASSUME NEW id \in Runtimes
  PROVE  LET path == RuntimeURI(id).path
             dec == Decoded(path)
             T == Len(id.tenant)
             P == Len(id.project)
             S == Len(id.session)
             N == Len(id.workload)
         IN  /\ path \in Seq(Names) /\ Len(path) >= 1 /\ path[1] = <<"runtime">>
             /\ dec \in Seq(Texts) /\ Len(dec) = 5 + T + P + S + N
             /\ dec[1] = "runtime"
             /\ \A k \in 1..T : dec[2 + k] = id.tenant[k]
             /\ \A k \in 1..P : dec[3 + T + k] = id.project[k]
             /\ \A k \in 1..S : dec[4 + T + P + k] = id.session[k]
             /\ \A k \in 1..N : dec[5 + T + P + S + k] = id.workload[k]
<1> DEFINE T == Len(id.tenant)
           P == Len(id.project)
           S == Len(id.session)
           N == Len(id.workload)
           a == Word("runtime")
           b == a \o Word("tenant") \o Pasted(id.tenant)
           c == b \o Word("project") \o Pasted(id.project)
           d == c \o Word("session") \o Pasted(id.session)
           f == d \o Word("workload") \o Pasted(id.workload)
<1>0. /\ "runtime" \in Texts /\ "tenant" \in Texts /\ "project" \in Texts
      /\ "session" \in Texts /\ "workload" \in Texts
  BY WordType, Zenon DEF Words
<1>1. /\ id.tenant \in Names /\ id.project \in Names /\ id.session \in Names /\ id.workload \in Names
      /\ T \in Nat /\ P \in Nat /\ S \in Nat /\ N \in Nat
  BY NameType DEF Runtimes
<1>2. RuntimeURI(id).path = f
  BY SpiffeFields, Zenon DEF RuntimeURI
<1>3. Singles(a) /\ Len(a) = 1 /\ a[1] = <<"runtime">>
  BY <1>0, WordPath
<1> HIDE DEF a
<1>4. /\ Singles(b) /\ Len(b) = Len(a) + 1 + T
      /\ \A i \in 1..Len(a) : b[i] = a[i]
      /\ \A i \in 1..T : b[Len(a) + 1 + i] = <<id.tenant[i]>>
  <2>1. Singles(a)
    BY <1>3
  <2>2. "tenant" \in Texts
    BY <1>0
  <2>3. id.tenant \in Names
    BY <1>1
  <2>4. QED BY <2>1, <2>2, <2>3, Grows, Zenon
<1> HIDE DEF b
<1>5. /\ Singles(c) /\ Len(c) = Len(b) + 1 + P
      /\ \A i \in 1..Len(b) : c[i] = b[i]
      /\ \A i \in 1..P : c[Len(b) + 1 + i] = <<id.project[i]>>
  <2>1. Singles(b)
    BY <1>4
  <2>2. "project" \in Texts
    BY <1>0
  <2>3. id.project \in Names
    BY <1>1
  <2>4. QED BY <2>1, <2>2, <2>3, Grows, Zenon
<1> HIDE DEF c
<1>6. /\ Singles(d) /\ Len(d) = Len(c) + 1 + S
      /\ \A i \in 1..Len(c) : d[i] = c[i]
      /\ \A i \in 1..S : d[Len(c) + 1 + i] = <<id.session[i]>>
  <2>1. Singles(c)
    BY <1>5
  <2>2. "session" \in Texts
    BY <1>0
  <2>3. id.session \in Names
    BY <1>1
  <2>4. QED BY <2>1, <2>2, <2>3, Grows, Zenon
<1> HIDE DEF d
<1>7. /\ Singles(f) /\ Len(f) = Len(d) + 1 + N
      /\ \A i \in 1..Len(d) : f[i] = d[i]
      /\ \A i \in 1..N : f[Len(d) + 1 + i] = <<id.workload[i]>>
  <2>1. Singles(d)
    BY <1>6
  <2>2. "workload" \in Texts
    BY <1>0
  <2>3. id.workload \in Names
    BY <1>1
  <2>4. QED BY <2>1, <2>2, <2>3, Grows, Zenon
<1> HIDE DEF f, T, P, S, N
<1>8. /\ Len(b) = 2 + T /\ Len(c) = 3 + T + P /\ Len(d) = 4 + T + P + S
      /\ Len(f) = 5 + T + P + S + N
  BY <1>1, <1>3, <1>4, <1>5, <1>6, <1>7
<1>9. /\ Decoded(f) \in Seq(Texts) /\ Len(Decoded(f)) = Len(f)
      /\ \A i \in 1..Len(f) : Decoded(f)[i] = f[i][1]
  <2>1. Len(f) >= 1
    BY <1>1, <1>8
  <2>2. QED BY <1>7, <2>1, DecodedSingles
<1>10. /\ Decoded(f)[1] = "runtime"
      /\ f \in Seq(Names) /\ Len(f) >= 1 /\ f[1] = <<"runtime">>
  <2>1. /\ 1 \in 1..Len(a) /\ 1 \in 1..Len(b) /\ 1 \in 1..Len(c) /\ 1 \in 1..Len(d)
        /\ 1 \in 1..Len(f)
    BY <1>1, <1>3, <1>8
  <2>2. f[1] = <<"runtime">>
    BY <1>3, <1>4, <1>5, <1>6, <1>7, <2>1, Zenon
  <2>3. Decoded(f)[1] = "runtime"
    BY <1>9, <2>1, <2>2
  <2>4. f \in Seq(Names)
    BY <1>7 DEF Singles
  <2>5. Len(f) >= 1
    BY <1>1, <1>8
  <2>6. QED BY <2>2, <2>3, <2>4, <2>5
<1>11. ASSUME NEW k \in 1..T PROVE Decoded(f)[2 + k] = id.tenant[k]
  <2>1. /\ 2 + k \in 1..Len(b) /\ 2 + k \in 1..Len(c) /\ 2 + k \in 1..Len(d) /\ 2 + k \in 1..Len(f)
        /\ Len(a) + 1 + k = 2 + k
    BY <1>1, <1>3, <1>8
  <2>2. f[2 + k] = <<id.tenant[k]>>
    <3>1. b[2 + k] = <<id.tenant[k]>>
      BY <1>4, <2>1
    <3>2. c[2 + k] = b[2 + k] /\ d[2 + k] = c[2 + k] /\ f[2 + k] = d[2 + k]
      BY <1>5, <1>6, <1>7, <2>1
    <3>3. QED BY <3>1, <3>2
  <2>3. QED BY <1>9, <2>1, <2>2
<1>12. ASSUME NEW k \in 1..P PROVE Decoded(f)[3 + T + k] = id.project[k]
  <2>1. /\ 3 + T + k \in 1..Len(c) /\ 3 + T + k \in 1..Len(d) /\ 3 + T + k \in 1..Len(f)
        /\ Len(b) + 1 + k = 3 + T + k
    BY <1>1, <1>8
  <2>2. f[3 + T + k] = <<id.project[k]>>
    BY <1>5, <1>6, <1>7, <2>1, ZenonT(30) DEF P
  <2>3. QED BY <1>9, <2>1, <2>2
<1>13. ASSUME NEW k \in 1..S PROVE Decoded(f)[4 + T + P + k] = id.session[k]
  <2>1. /\ 4 + T + P + k \in 1..Len(d) /\ 4 + T + P + k \in 1..Len(f)
        /\ Len(c) + 1 + k = 4 + T + P + k
    BY <1>1, <1>8
  <2>2. f[4 + T + P + k] = <<id.session[k]>>
    BY <1>6, <1>7, <2>1, Zenon DEF S
  <2>3. QED BY <1>9, <2>1, <2>2
<1>14. ASSUME NEW k \in 1..N PROVE Decoded(f)[5 + T + P + S + k] = id.workload[k]
  <2>1. 5 + T + P + S + k \in 1..Len(f) /\ Len(d) + 1 + k = 5 + T + P + S + k
    BY <1>1, <1>8
  <2>2. f[5 + T + P + S + k] = <<id.workload[k]>>
    BY <1>7, <2>1 DEF N
  <2>3. QED BY <1>9, <2>1, <2>2
<1>15. QED BY <1>2, <1>8, <1>9, <1>10, <1>11, <1>12, <1>13, <1>14, Zenon DEF T, P, S, N

\* What parseRuntimeURI reads from the URI of a runtime is that runtime.
LEMMA RuntimeReads ==
  ASSUME NEW id \in Runtimes, ~(\A k \in DOMAIN id.workload : id.workload[k] = Empty),
         parseRuntimeURI(RuntimeURI(id)) # NoIdentity
  PROVE  parseRuntimeURI(RuntimeURI(id)) = [id EXCEPT !.workload = TrimSlashes(id.workload, Empty)]
<1> DEFINE uri == RuntimeURI(id)
           dec == Decoded(uri.path)
           p == PathParts(uri)
           T == Len(id.tenant)
           P == Len(id.project)
           S == Len(id.session)
           N == Len(id.workload)
           e == Empty
<1>1. /\ id.tenant \in Names /\ id.project \in Names /\ id.session \in Names /\ id.workload \in Names
      /\ id.kind = "runtime"
      /\ T \in Nat /\ P \in Nat /\ S \in Nat /\ N \in Nat /\ T >= 1 /\ P >= 1 /\ S >= 1 /\ N >= 1
      /\ id.tenant \in Seq(Texts) /\ id.project \in Seq(Texts) /\ id.session \in Seq(Texts)
      /\ id.workload \in Seq(Texts)
  BY NameType DEF Runtimes
<1>2. /\ dec \in Seq(Texts) /\ Len(dec) = 5 + T + P + S + N /\ dec[1] = "runtime"
      /\ \A k \in 1..T : dec[2 + k] = id.tenant[k]
      /\ \A k \in 1..P : dec[3 + T + k] = id.project[k]
      /\ \A k \in 1..S : dec[4 + T + P + k] = id.session[k]
      /\ \A k \in 1..N : dec[5 + T + P + S + k] = id.workload[k]
  BY RuntimeDecoded, Zenon
<1>3. /\ Len(p) = 9
      /\ parseRuntimeURI(uri) = [kind |-> "runtime", tenant |-> <<p[3]>>, project |-> <<p[5]>>,
                                 session |-> <<p[7]>>, workload |-> <<p[9]>>]
  BY Zenon DEF parseRuntimeURI, identityParts
<1>4. p = TrimSlashes(dec, e)
  BY Zenon DEF PathParts, Empty
<1>e. "runtime" # e /\ ~(\A k \in DOMAIN id.workload : id.workload[k] = e)
  BY Zenon DEF Empty
<1> HIDE DEF dec, p, T, P, S, N, e
<1>5. PICK m \in 1..Len(dec) :
        /\ dec[m] # e /\ \A i \in 1..Len(dec) : dec[i] # e => i <= m
        /\ p \in Seq(Texts) /\ Len(p) = m
        /\ \A i \in 1..m : p[i] = dec[i]
  <2>1. Len(dec) >= 1 /\ dec[1] # e
    BY <1>1, <1>2, <1>e
  <2>2. QED BY <1>2, <1>4, <2>1, Trimmed
<1>6. m = 9
  BY <1>3, <1>5, Zenon
<1>7. \A k \in 1..N : id.workload[k] # e => T + P + S + k <= 4
  <2>1. ASSUME NEW k \in 1..N, id.workload[k] # e PROVE T + P + S + k <= 4
    <3>1. 5 + T + P + S + k \in 1..Len(dec)
      BY <1>1, <1>2
    <3>2. dec[5 + T + P + S + k] # e
      BY <1>2, <2>1
    <3>3. 5 + T + P + S + k <= 9
      BY <1>5, <1>6, <3>1, <3>2
    <3>4. QED BY <1>1, <3>3, SMTT(30)
  <2>2. QED BY <2>1
<1>8. PICK k \in 1..N : id.workload[k] # e
  BY <1>1, <1>e, HasPiece DEF N
<1>9. T = 1 /\ P = 1 /\ S = 1
  BY <1>1, <1>7, <1>8
<1>10. \A j \in 1..N : id.workload[j] # e => j <= 1
  BY <1>1, <1>7, <1>9
<1>11. k = 1
  BY <1>1, <1>8, <1>10
<1>12. TrimSlashes(id.workload, e) = <<id.workload[1]>>
  BY <1>1, <1>8, <1>10, <1>11, TrimmedToOne DEF N
<1>13. /\ p[3] = id.tenant[1] /\ p[5] = id.project[1] /\ p[7] = id.session[1]
       /\ p[9] = id.workload[1]
  <2>1. /\ 3 \in 1..m /\ 5 \in 1..m /\ 7 \in 1..m /\ 9 \in 1..m
        /\ 1 \in 1..T /\ 1 \in 1..P /\ 1 \in 1..S /\ 1 \in 1..N
    BY <1>1, <1>6, <1>9
  <2>2. /\ dec[2 + 1] = id.tenant[1] /\ dec[3 + T + 1] = id.project[1]
        /\ dec[4 + T + P + 1] = id.session[1] /\ dec[5 + T + P + S + 1] = id.workload[1]
    BY <1>2, <2>1
  <2>3. 2 + 1 = 3 /\ 3 + T + 1 = 5 /\ 4 + T + P + 1 = 7 /\ 5 + T + P + S + 1 = 9
    BY <1>9
  <2>4. QED BY <1>5, <2>1, <2>2, <2>3
<1>14. /\ id.tenant = <<id.tenant[1]>> /\ id.project = <<id.project[1]>>
       /\ id.session = <<id.session[1]>>
  BY <1>1, <1>9, OneLong DEF T, P, S
<1>15. [id EXCEPT !.workload = TrimSlashes(id.workload, Empty)] = [id EXCEPT !.workload = <<id.workload[1]>>]
  BY <1>12, Zenon DEF e
<1>16. [id EXCEPT !.workload = <<id.workload[1]>>]
         = [kind |-> "runtime", tenant |-> id.tenant, project |-> id.project,
            session |-> id.session, workload |-> <<id.workload[1]>>]
  BY DEF Runtimes
<1>17. QED BY <1>3, <1>13, <1>14, <1>15, <1>16

-----------------------------------------------------------------------------
(* Gateways, and the kinds told apart *)

Gateways == [kind : {"gateway"}, tenant : Names, gateway : Names, principal : Names]

\* Joining the empty sequence changes nothing.
LEMMA NothingMore ==
  ASSUME NEW X, NEW s \in Seq(X)
  PROVE  s \o <<>> = s
OBVIOUS

\* Five joined parts are found in their order.
LEMMA FivePath ==
  ASSUME NEW X, NEW a \in X, NEW b \in X, NEW c \in X, NEW d \in X, NEW e \in X
  PROVE  LET s == <<a>> \o <<b>> \o <<c>> \o <<d>> \o <<e>>
         IN  /\ s \in Seq(X) /\ Len(s) = 5
             /\ s[1] = a /\ s[2] = b /\ s[3] = c /\ s[4] = d /\ s[5] = e
OBVIOUS

\* The elements of two joined sequences are found where they were put.
LEMMA Concatenated ==
  ASSUME NEW X, NEW s \in Seq(X), NEW t \in Seq(X)
  PROVE  /\ s \o t \in Seq(X) /\ Len(s \o t) = Len(s) + Len(t)
         /\ \A i \in 1..Len(s) : (s \o t)[i] = s[i]
         /\ \A i \in 1..Len(t) : (s \o t)[Len(s) + i] = t[i]
OBVIOUS

\* The parts a gateway with a principal is read from, in five parts and two more.
LEMMA FiveAndTwo ==
  ASSUME NEW X, NEW s \in Seq(X), NEW u \in Seq(X)
  PROVE  Len(s) = 5 /\ Len(u) = 2 =>
         /\ s \o u \in Seq(X) /\ Len(s \o u) = 7
         /\ (s \o u)[1] = s[1] /\ (s \o u)[3] = s[3] /\ (s \o u)[5] = s[5] /\ (s \o u)[7] = u[2]
<1> DEFINE t == s \o u
<1>1. s \o u \in Seq(X) /\ Len(s \o u) = Len(s) + Len(u)
  BY Concatenated, Zenon
<1>2. \A i \in 1..Len(s) : (s \o u)[i] = s[i]
  BY Concatenated, Zenon
<1>3. \A i \in 1..Len(u) : (s \o u)[Len(s) + i] = u[i]
  OBVIOUS
<1>4. /\ t \in Seq(X) /\ Len(t) = Len(s) + Len(u) /\ \A i \in 1..Len(s) : t[i] = s[i]
      /\ \A i \in 1..Len(u) : t[Len(s) + i] = u[i]
  BY <1>1, <1>2, <1>3, Zenon
<1> HIDE DEF t
<1> SUFFICES ASSUME Len(s) = 5, Len(u) = 2
             PROVE  /\ t \in Seq(X) /\ Len(t) = 7
                    /\ t[1] = s[1] /\ t[3] = s[3] /\ t[5] = s[5] /\ t[7] = u[2]
  BY Zenon DEF t
<1>5. 1 \in 1..Len(s) /\ 3 \in 1..Len(s) /\ 5 \in 1..Len(s) /\ 2 \in 1..Len(u) /\ Len(s) + 2 = 7
  OBVIOUS
<1>6. QED BY <1>4, <1>5

\* Two joined parts.
LEMMA TwoPath ==
  ASSUME NEW X, NEW x \in X, NEW y \in X
  PROVE  <<x>> \o <<y>> \in Seq(X) /\ Len(<<x>> \o <<y>>) = 2 /\ (<<x>> \o <<y>>)[2] = y
OBVIOUS

\* Five parts and the two of a principal.
LEMMA SevenPath ==
  ASSUME NEW X, NEW s \in Seq(X), Len(s) = 5, NEW x \in X, NEW y \in X
  PROVE  LET t == s \o (<<x>> \o <<y>>)
         IN  /\ t \in Seq(X) /\ Len(t) = 7
             /\ t[1] = s[1] /\ t[3] = s[3] /\ t[5] = s[5] /\ t[7] = y
<1> DEFINE u == <<x>> \o <<y>>
<1>1. u \in Seq(X) /\ Len(u) = 2 /\ u[2] = y
  BY TwoPath
<1> HIDE DEF u
<1>2. /\ s \o u \in Seq(X) /\ Len(s \o u) = 7
      /\ (s \o u)[1] = s[1] /\ (s \o u)[3] = s[3] /\ (s \o u)[5] = s[5] /\ (s \o u)[7] = u[2]
  BY <1>1, FiveAndTwo
<1>3. QED BY <1>1, <1>2, Zenon DEF u

\* The path of a gateway's URI: five segments, or seven with a service principal.
LEMMA GatewayPath ==
  ASSUME NEW id \in Gateways
  PROVE  LET path == GatewayURI(id).path
         IN  /\ path \in Seq(Names) /\ Len(path) >= 1
             /\ path[1] = <<"federation-gateway">> /\ path[3] = id.tenant /\ path[5] = id.gateway
             /\ Blank(id.principal) => Len(path) = 5
             /\ ~Blank(id.principal) => Len(path) = 7 /\ path[7] = id.principal
<1> DEFINE a == <<"federation-gateway">>
           b == <<"tenant">>
           c == <<"gateway">>
           d == <<"service-principal">>
           s == <<a>> \o <<b>> \o <<id.tenant>> \o <<c>> \o <<id.gateway>>
           t == s \o (<<d>> \o <<id.principal>>)
<1>1. id.tenant \in Names /\ id.gateway \in Names /\ id.principal \in Names
  BY DEF Gateways
<1>2. a \in Names /\ b \in Names /\ c \in Names /\ d \in Names
  <2>1. /\ "federation-gateway" \in Texts /\ "tenant" \in Texts /\ "gateway" \in Texts
        /\ "service-principal" \in Texts
    BY WordType, Zenon DEF Words
  <2>2. QED BY <2>1, SingleName
<1>3. GatewayURI(id).path = s \o (IF Blank(id.principal) THEN <<>> ELSE <<d>> \o <<id.principal>>)
  BY SpiffeFields, Zenon DEF GatewayURI, Word, Escaped
<1> HIDE DEF a, b, c, d
<1>4. /\ s \in Seq(Names) /\ Len(s) = 5
      /\ s[1] = a /\ s[3] = id.tenant /\ s[5] = id.gateway
  BY <1>1, <1>2, FivePath
<1> HIDE DEF s
<1>5. /\ t \in Seq(Names) /\ Len(t) = 7
      /\ t[1] = s[1] /\ t[3] = s[3] /\ t[5] = s[5] /\ t[7] = id.principal
  BY <1>1, <1>2, <1>4, SevenPath
<1> HIDE DEF t
<1>6. CASE Blank(id.principal)
  <2>1. GatewayURI(id).path = s
    <3>1. s \o <<>> = s
      BY <1>4, NothingMore
    <3>2. QED BY <1>3, <1>6, <3>1, Zenon
  <2>2. Len(s) >= 1
    BY <1>4
  <2>3. QED BY <1>4, <1>6, <2>1, <2>2, Zenon DEF a
<1>7. CASE ~Blank(id.principal)
  <2>1. GatewayURI(id).path = t
    BY <1>3, <1>7, Zenon DEF t
  <2>2. Len(t) >= 1
    BY <1>5
  <2>3. QED BY <1>4, <1>5, <1>7, <2>1, <2>2, Zenon DEF a
<1>8. QED BY <1>6, <1>7

\* Trimming keeps a first part that is not empty.
LEMMA FirstTrimmed ==
  ASSUME NEW X, NEW parts \in Seq(X), NEW empty, Len(parts) >= 1, parts[1] # empty
  PROVE  TrimSlashes(parts, empty)[1] = parts[1]
<1> DEFINE t == TrimSlashes(parts, empty)
<1>1. PICK m \in 1..Len(parts) :
        /\ parts[m] # empty /\ \A i \in 1..Len(parts) : parts[i] # empty => i <= m
        /\ t \in Seq(X) /\ Len(t) = m
        /\ \A i \in 1..m : t[i] = parts[i]
  BY Trimmed
<1> HIDE DEF t
<1>2. 1 \in 1..m
  OBVIOUS
<1>3. QED BY <1>1, <1>2 DEF t

\* The first part of a path that starts with a word, decoded or not, is that word.
LEMMA FirstPart ==
  ASSUME NEW uri, NEW w, w # "", NEW path \in Seq(Names), uri.path = path, Len(path) >= 1,
         path[1] = <<w>>
  PROVE  PathParts(uri)[1] = w /\ EscapedParts(uri)[1] = <<w>>
<1>1. /\ Decoded(path) \in Seq(Texts) /\ Len(Decoded(path)) >= 1
      /\ Decoded(path)[1] = path[1][1]
  BY DecodedPath, Zenon
<1>2. path[1][1] = w
  <2>1. <<w>>[1] = w
    BY Zenon
  <2>2. QED BY <2>1, Zenon
<1>3. TrimSlashes(Decoded(path), "")[1] = Decoded(path)[1]
  BY <1>1, <1>2, FirstTrimmed, Zenon
<1>4. path[1] # <<"">>
  <2>1. <<w>>[1] = w /\ <<"">>[1] = ""
    BY Zenon
  <2>2. QED BY <2>1, Zenon
<1>5. TrimSlashes(path, <<"">>)[1] = path[1]
  BY <1>4, FirstTrimmed, Zenon
<1>6. QED BY <1>1, <1>2, <1>3, <1>5, Zenon DEF PathParts, EscapedParts

\* The first of three joined parts.
LEMMA FirstOfThree ==
  ASSUME NEW a, NEW b, NEW c, NEW x, NEW y, NEW z,
         <<a, b, c>> = <<x>> \o <<y>> \o <<z>>
  PROVE  a = x
OBVIOUS

\* Each reader of URIs accepts only paths that start with the word of its kind.
LEMMA ReadersTellKinds ==
  ASSUME NEW w \in {"runtime", "agent", "federation-gateway"}, NEW path \in Seq(Names),
         Len(path) >= 1, path[1] = <<w>>,
         NEW uri, uri.path = path, uri.host = trustDomain, uri.scheme = "spiffe"
  PROVE  /\ parseRuntimeURI(uri) # NoIdentity => w = "runtime"
         /\ parseAgentURI(uri) # NoIdentity => w = "agent"
         /\ parseGatewayURI(uri) # NoIdentity => w = "federation-gateway"
<1>1. uri.path = path /\ uri.host = trustDomain /\ uri.scheme = "spiffe"
  OBVIOUS
<1>2. PathParts(uri)[1] = w /\ EscapedParts(uri)[1] = <<w>>
  <2>1. w # ""
    BY Zenon
  <2>2. QED BY <1>1, <2>1, FirstPart, Zenon
<1>3. parseRuntimeURI(uri) # NoIdentity => w = "runtime"
  BY <1>2, Zenon DEF parseRuntimeURI, identityParts
<1>4. parseAgentURI(uri) # NoIdentity => w = "agent"
  BY <1>2, Zenon DEF parseAgentURI, identityParts
<1>5. ASSUME parseGatewayURI(uri) # NoIdentity PROVE w = "federation-gateway"
  <2> DEFINE p == EscapedParts(uri)
  <2>1. uri.host # RelayHost
    BY <1>1, Zenon DEF trustDomain, RelayHost
  <2>2. <<p[1], p[2], p[4]>> = Word("federation-gateway") \o Word("tenant") \o Word("gateway")
    BY <1>1, <1>5, <2>1, Zenon DEF parseGatewayURI
  <2> HIDE DEF p
  <2>3. p[1] = <<"federation-gateway">>
    BY <2>2, FirstOfThree, Zenon DEF Word
  <2>4. <<w>>[1] = w /\ <<"federation-gateway">>[1] = "federation-gateway"
    BY Zenon
  <2>5. QED BY <1>2, <2>3, <2>4, Zenon DEF p
<1>6. QED BY <1>3, <1>4, <1>5

\* What parseGatewayURI reads from the URI of a gateway is that gateway.
LEMMA GatewayReads ==
  ASSUME NEW id \in Gateways, parseGatewayURI(GatewayURI(id)) # NoIdentity
  PROVE  parseGatewayURI(GatewayURI(id)) = Readable(id)
<1> DEFINE uri == GatewayURI(id)
           path == uri.path
           p == EscapedParts(uri)
           e == <<"">>
           principal == IF Len(p) = 7 THEN p[7] ELSE e
<1>1. /\ path \in Seq(Names) /\ Len(path) >= 1
      /\ path[1] = <<"federation-gateway">> /\ path[3] = id.tenant /\ path[5] = id.gateway
      /\ Blank(id.principal) => Len(path) = 5
      /\ ~Blank(id.principal) => Len(path) = 7 /\ path[7] = id.principal
  BY GatewayPath, Zenon
<1>2. uri.host # RelayHost
  <2>1. uri.host = trustDomain
    BY SpiffeFields, Zenon DEF GatewayURI
  <2>2. QED BY <2>1, Zenon DEF trustDomain, RelayHost
<1>3. /\ Len(p) \in {5, 7}
      /\ parseGatewayURI(uri) = [kind |-> "gateway", tenant |-> p[3], gateway |-> p[5],
                                 principal |-> principal]
  <2> DEFINE c == /\ uri.host = trustDomain
                  /\ Len(p) \in {5, 7}
                  /\ <<p[1], p[2], p[4]>>
                       = Word("federation-gateway") \o Word("tenant") \o Word("gateway")
                  /\ Len(p) = 7 => p[6] = <<"service-principal">> /\ p[7] # <<"">>
                  /\ p[3] # <<"">> /\ p[5] # <<"">>
                  /\ ~Padded(p[3]) /\ ~Padded(p[5]) /\ ~Padded(principal)
             r == [kind |-> "gateway", tenant |-> p[3], gateway |-> p[5], principal |-> principal]
  <2>1. parseGatewayURI(uri) =
          IF uri.scheme # "spiffe" THEN NoIdentity
          ELSE IF uri.host = RelayHost THEN parseRelayURI(uri)
          ELSE IF c THEN r ELSE NoIdentity
    BY Zenon DEF parseGatewayURI
  <2>2. c => Len(p) \in {5, 7}
    BY Zenon
  <2> HIDE DEF c, r
  <2>3. c /\ parseGatewayURI(uri) = r
    BY <1>2, <2>1, Zenon
  <2>4. QED BY <2>2, <2>3, Zenon DEF r
<1>4. p = TrimSlashes(path, e)
  BY Zenon DEF EscapedParts
<1>5. path[1] # e
  <2>1. <<"federation-gateway">>[1] = "federation-gateway" /\ <<"">>[1] = ""
    BY Zenon
  <2>2. QED BY <1>1, <2>1, Zenon
<1>6. ~Blank(id.principal) => id.principal # e
  <2>1. Len(e) = 1 /\ e[1] = ""
    OBVIOUS
  <2>2. TrimRight[""] = ""
    BY WordType, Zenon DEF Words
  <2>3. Blank(e)
    BY <2>1, <2>2, Zenon DEF Blank
  <2>4. QED BY <2>3, Zenon
<1>7. id.kind = "gateway"
  BY DEF Gateways
<1>8. Readable(id) = IF Blank(id.principal) THEN [id EXCEPT !.principal = e] ELSE id
  BY <1>7, Zenon DEF Readable
<1> HIDE DEF path, p, e
<1>9. PICK m \in 1..Len(path) :
        /\ path[m] # e /\ \A i \in 1..Len(path) : path[i] # e => i <= m
        /\ p \in Seq(Names) /\ Len(p) = m
        /\ \A i \in 1..m : p[i] = path[i]
  <2>1. path \in Seq(Names) /\ Len(path) >= 1
    BY <1>1
  <2>2. QED BY <1>4, <1>5, <2>1, Trimmed
<1>10. CASE Blank(id.principal)
  <2>a. Len(path) = 5 /\ Len(p) \in {5, 7}
    BY <1>1, <1>3, <1>10, Zenon
  <2>1. Len(p) = 5 /\ 3 \in 1..m /\ 5 \in 1..m
    BY <1>9, <2>a
  <2>2. p[3] = id.tenant /\ p[5] = id.gateway
    BY <1>1, <1>9, <2>1
  <2>3. principal = e
    BY <2>1
  <2>4. [id EXCEPT !.principal = e]
          = [kind |-> "gateway", tenant |-> id.tenant, gateway |-> id.gateway, principal |-> e]
    BY DEF Gateways
  <2>5. QED BY <1>3, <1>8, <1>10, <2>2, <2>3, <2>4, Zenon
<1>11. CASE ~Blank(id.principal)
  <2>1. m = 7
    <3>1. Len(path) = 7 /\ path[7] # e
      BY <1>1, <1>6, <1>11, Zenon
    <3>2. 7 \in 1..Len(path)
      BY <3>1
    <3>3. QED BY <1>9, <3>1, <3>2
  <2>2. p[3] = id.tenant /\ p[5] = id.gateway /\ p[7] = id.principal /\ Len(p) = 7
    <3>1. 3 \in 1..m /\ 5 \in 1..m /\ 7 \in 1..m
      BY <2>1
    <3>2. QED BY <1>1, <1>9, <1>11, <2>1, <3>1, Zenon
  <2>3. id = [kind |-> "gateway", tenant |-> id.tenant, gateway |-> id.gateway,
              principal |-> id.principal]
    BY DEF Gateways
  <2>4. principal = id.principal
    BY <2>2
  <2>5. QED BY <1>3, <1>8, <1>11, <2>2, <2>3, <2>4, Zenon
<1>12. QED BY <1>10, <1>11

-----------------------------------------------------------------------------
(* What trimming and parsing make of a URI as it was written *)

\* What url.Parse makes of a URI whose names were pasted in: a path that begins
\* where the written one does, and the written path itself when all of it is plain.
LEMMA PastedParsed ==
  ASSUME NEW uri, uri.escaped = FALSE, Singles(uri.path), Len(uri.path) >= 1,
         urlParse(uri) # BrokenURI
  PROVE  LET u == urlParse(uri) IN
         /\ u.scheme = uri.scheme /\ u.host = uri.host
         /\ u.path \in Seq(Names) /\ Len(u.path) >= 1
         /\ u.path[1] = Unescape[BeforeMark[uri.path[1][1]]]
         /\ (\A k \in 1..Len(uri.path) : Plain(uri.path[k][1])) => u.path = uri.path
<1> DEFINE path == uri.path
           marked == {k \in DOMAIN path : BeforeMark[path[k][1]] # path[k][1]}
           cut == ~uri.escaped /\ marked # {}
           end == IF cut THEN Min(marked) ELSE Len(path)
           parsed == [k \in 1..end |-> IF uri.escaped THEN path[k]
                                       ELSE Unescape[BeforeMark[path[k][1]]]]
           rest == IF cut THEN SubSeq(path, end, Len(path)) ELSE <<>>
           u == urlParse(uri)
<1>1. u = [scheme |-> uri.scheme, host |-> uri.host, path |-> parsed, rest |-> rest]
  BY Zenon DEF urlParse
<1>2. u.scheme = uri.scheme /\ u.host = uri.host /\ u.path = parsed
  <2> HIDE DEF parsed, rest, u
  <2>1. QED BY <1>1
<1>3. /\ path \in Seq(Names) /\ Len(path) \in Nat /\ Len(path) >= 1 /\ DOMAIN path = 1..Len(path)
      /\ \A k \in 1..Len(path) : path[k] \in Names /\ Len(path[k]) = 1
  BY DEF Singles
<1>4. \A k \in 1..Len(path) : path[k][1] \in Texts
  BY <1>3, NameType, SMTT(30)
<1>5. end \in 1..Len(path)
  <2>1. CASE cut
    <3>1. marked \in SUBSET Nat /\ marked # {}
      BY <1>3, <2>1
    <3>2. Min(marked) \in marked
      BY <3>1, MinIsLeast, Zenon
    <3>3. QED BY <1>3, <2>1, <3>2
  <2>2. CASE ~cut
    BY <1>3, <2>2
  <2>3. QED BY <2>1, <2>2, SMTT(30)
<1>6. parsed = [k \in 1..end |-> Unescape[BeforeMark[path[k][1]]]]
  BY Zenon
<1>7. (\A k \in 1..Len(path) : Plain(path[k][1])) => end = Len(path)
  BY <1>3 DEF Plain
<1> HIDE DEF path, end, u
<1>8. \A k \in 1..end : Unescape[BeforeMark[path[k][1]]] \in Names
  <2>1. ASSUME NEW k \in 1..end PROVE Unescape[BeforeMark[path[k][1]]] \in Names
    <3>1. path[k][1] \in Texts
      BY <1>3, <1>4, <1>5
    <3>2. BeforeMark[path[k][1]] \in Texts
      BY <3>1, TextAssumption, Zenon
    <3>3. QED BY <3>2, TextAssumption, Zenon DEF Names
  <2>2. QED BY <2>1
<1>9. parsed \in Seq(Names) /\ Len(parsed) = end /\ parsed[1] = Unescape[BeforeMark[path[1][1]]]
  BY <1>3, <1>5, <1>6, <1>8
<1>10. ASSUME \A k \in 1..Len(path) : Plain(path[k][1]) PROVE parsed = path
  <2>1. ASSUME NEW k \in 1..Len(path) PROVE Unescape[BeforeMark[path[k][1]]] = path[k]
    <3>1. Unescape[BeforeMark[path[k][1]]] = <<path[k][1]>>
      BY <1>10, Zenon DEF Plain
    <3>2. path[k] \in Seq(Texts) /\ Len(path[k]) = 1
      BY <1>3, NameType
    <3>3. path[k] = <<path[k][1]>>
      BY <3>2, OneLong
    <3>4. QED BY <3>1, <3>3, Zenon
  <2>2. path = [k \in 1..Len(path) |-> path[k]]
    BY <1>3
  <2>3. end = Len(path)
    BY <1>7, <1>10
  <2>4. QED BY <1>6, <2>1, <2>2, <2>3, Zenon
<1>11. Len(parsed) >= 1
  BY <1>3, <1>5, <1>9
<1>12. QED BY <1>2, <1>9, <1>10, <1>11, Zenon DEF path, u

\* A URI whose names were escaped is parsed into the path it was written with.
LEMMA EscapedParsed ==
  ASSUME NEW uri, uri.escaped = TRUE, NEW X, uri.path \in Seq(X), urlParse(uri) # BrokenURI
  PROVE  LET u == urlParse(uri) IN
         u.scheme = uri.scheme /\ u.host = uri.host /\ u.path = uri.path
<1> DEFINE path == uri.path
           marked == {k \in DOMAIN path : BeforeMark[path[k][1]] # path[k][1]}
           cut == ~uri.escaped /\ marked # {}
           end == IF cut THEN Min(marked) ELSE Len(path)
           parsed == [k \in 1..end |-> IF uri.escaped THEN path[k]
                                       ELSE Unescape[BeforeMark[path[k][1]]]]
           rest == IF cut THEN SubSeq(path, end, Len(path)) ELSE <<>>
           u == urlParse(uri)
<1>1. u = [scheme |-> uri.scheme, host |-> uri.host, path |-> parsed, rest |-> rest]
  BY Zenon DEF urlParse
<1>2. u.scheme = uri.scheme /\ u.host = uri.host /\ u.path = parsed
  <2> HIDE DEF parsed, rest, u
  <2>1. QED BY <1>1
<1>3. parsed = path
  <2>1. end = Len(path)
    BY Zenon
  <2>2. parsed = [k \in 1..Len(path) |-> path[k]]
    BY <2>1, Zenon
  <2> HIDE DEF parsed
  <2>3. QED BY <2>2
<1>4. QED BY <1>2, <1>3, Zenon

\* A name without the blanks at its end is a name, of as many texts, and plain if
\* it was.
LEMMA TrimEndName ==
  ASSUME NEW name \in Names
  PROVE  LET t == TrimEnd(name) IN
         /\ t \in Names /\ Len(t) = Len(name)
         /\ \A i \in 1..Len(name) : t[i] = IF i = Len(name) THEN TrimRight[name[i]] ELSE name[i]
         /\ (\A i \in 1..Len(name) : Plain(name[i])) => \A i \in 1..Len(name) : Plain(t[i])
<1> DEFINE t == TrimEnd(name)
<1>1. /\ name \in Seq(Texts) /\ Len(name) \in Nat /\ Len(name) >= 1
      /\ \A i \in 1..Len(name) : name[i] \in Texts
  BY NameType
<1>2. t = [name EXCEPT ![Len(name)] = TrimRight[name[Len(name)]]]
  BY Zenon DEF TrimEnd
<1>3. TrimRight[name[Len(name)]] \in Texts
  BY <1>1, TextAssumption, SMTT(30)
<1> HIDE DEF t
<1>4. t \in Seq(Texts) /\ Len(t) = Len(name)
  BY <1>1, <1>2, <1>3
<1>5. \A i \in 1..Len(name) : t[i] = IF i = Len(name) THEN TrimRight[name[i]] ELSE name[i]
  BY <1>1, <1>2
<1>6. ASSUME \A i \in 1..Len(name) : Plain(name[i]), NEW i \in 1..Len(name) PROVE Plain(t[i])
  <2>1. Plain(name[i]) /\ name[i] \in Texts
    BY <1>1, <1>6
  <2>2. Plain(TrimRight[name[i]])
    BY <2>1, TextAssumption, Zenon
  <2>3. QED BY <1>5, <2>1, <2>2, Zenon
<1>7. t \in Names
  BY <1>1, <1>4 DEF Names
<1>8. QED BY <1>4, <1>5, <1>6, <1>7, Zenon DEF t

\* Trimming a path that ends in a pasted name trims the end of that name.
LEMMA TrimPasted ==
  ASSUME NEW f, Singles(f), NEW name \in Names
  PROVE  LET g == f \o Pasted(name)
             h == f \o Pasted(TrimEnd(name))
         IN  [g EXCEPT ![Len(g)] = <<TrimRight[g[Len(g)][1]]>>] = h
<1> DEFINE t == TrimEnd(name)
           p == Pasted(name)
           q == Pasted(t)
           g == f \o p
           h == f \o q
           r == [g EXCEPT ![Len(g)] = <<TrimRight[g[Len(g)][1]]>>]
<1>1. /\ t \in Names /\ Len(t) = Len(name) /\ Len(name) \in Nat /\ Len(name) >= 1
      /\ \A i \in 1..Len(name) : t[i] = IF i = Len(name) THEN TrimRight[name[i]] ELSE name[i]
  BY TrimEndName, NameType
<1> HIDE DEF t
<1>2. /\ Singles(p) /\ Len(p) = Len(name) /\ \A i \in 1..Len(name) : p[i] = <<name[i]>>
  BY PastedPath
<1>3. /\ Singles(q) /\ Len(q) = Len(name) /\ \A i \in 1..Len(name) : q[i] = <<t[i]>>
  BY <1>1, PastedPath
<1> HIDE DEF p, q
<1>4. /\ Singles(g) /\ Len(f) \in Nat /\ Len(g) = Len(f) + Len(name)
      /\ \A i \in 1..Len(f) : g[i] = f[i]
      /\ \A i \in 1..Len(name) : g[Len(f) + i] = p[i]
  <2>1. /\ Singles(g) /\ Len(f) \in Nat /\ Len(g) = Len(f) + Len(p)
        /\ \A i \in 1..Len(f) : g[i] = f[i]
        /\ \A i \in 1..Len(p) : g[Len(f) + i] = p[i]
    BY <1>2, Joined
  <2> HIDE DEF g
  <2>2. QED BY <1>2, <2>1, Zenon
<1>5. /\ Singles(h) /\ Len(h) = Len(f) + Len(name)
      /\ \A i \in 1..Len(f) : h[i] = f[i]
      /\ \A i \in 1..Len(name) : h[Len(f) + i] = q[i]
  <2>1. /\ Singles(h) /\ Len(f) \in Nat /\ Len(h) = Len(f) + Len(q)
        /\ \A i \in 1..Len(f) : h[i] = f[i]
        /\ \A i \in 1..Len(q) : h[Len(f) + i] = q[i]
    BY <1>3, Joined
  <2> HIDE DEF h
  <2>2. QED BY <1>3, <2>1, Zenon
<1> HIDE DEF g, h
<1>6. g \in Seq(Names) /\ h \in Seq(Names)
  BY <1>4, <1>5 DEF Singles
<1>7. Len(g) \in Nat /\ DOMAIN g = 1..Len(g) /\ h = [i \in 1..Len(g) |-> h[i]]
  BY <1>1, <1>4, <1>5, <1>6
<1>8. r = [i \in 1..Len(g) |-> IF i = Len(g) THEN <<TrimRight[g[i][1]]>> ELSE g[i]]
  BY <1>7
<1>9. ASSUME NEW i \in 1..Len(g)
      PROVE  h[i] = IF i = Len(g) THEN <<TrimRight[g[i][1]]>> ELSE g[i]
  <2>1. CASE i <= Len(f)
    <3>1. i \in 1..Len(f) /\ i # Len(g)
      BY <1>1, <1>4, <2>1
    <3>2. QED BY <1>4, <1>5, <3>1, Zenon
  <2>2. CASE i > Len(f)
    <3>1. PICK j \in 1..Len(name) : i = Len(f) + j /\ (i = Len(g) <=> j = Len(name))
      <4>1. i - Len(f) \in 1..Len(name) /\ i = Len(f) + (i - Len(f))
        BY <1>1, <1>4, <2>2
      <4>2. i = Len(g) <=> i - Len(f) = Len(name)
        BY <1>1, <1>4, <2>2
      <4>3. QED BY <4>1, <4>2
    <3>2. g[i] = <<name[j]>> /\ h[i] = <<t[j]>>
      BY <1>2, <1>3, <1>4, <1>5, <3>1, Zenon
    <3>3. g[i][1] = name[j]
      BY <3>2, SMT
    <3>4. t[j] = IF i = Len(g) THEN TrimRight[name[j]] ELSE name[j]
      BY <1>1, <3>1, Zenon
    <3>5. QED BY <3>2, <3>3, <3>4, Zenon
  <2>3. QED BY <1>4, <2>1, <2>2
<1>10. r = h
  BY <1>7, <1>8, <1>9, Zenon
<1>11. QED BY <1>10, Zenon DEF g, h, p, q, t

\* A path whose texts all say themselves.
PlainPath(s) == Singles(s) /\ \A i \in 1..Len(s) : Plain(s[i][1])

PlainName(name) == \A i \in 1..Len(name) : Plain(name[i])

\* Two such paths in a row are one.
LEMMA PlainJoined ==
  ASSUME NEW s, NEW t, PlainPath(s), PlainPath(t)
  PROVE  PlainPath(s \o t)
<1> DEFINE g == s \o t
<1>1. /\ Singles(g) /\ Len(s) \in Nat /\ Len(t) \in Nat /\ Len(g) = Len(s) + Len(t)
      /\ \A i \in 1..Len(s) : g[i] = s[i]
      /\ \A i \in 1..Len(t) : g[Len(s) + i] = t[i]
  BY Joined DEF PlainPath
<1>2. /\ \A i \in 1..Len(s) : Plain(s[i][1])
      /\ \A i \in 1..Len(t) : Plain(t[i][1])
  BY DEF PlainPath
<1> HIDE DEF g
<1>3. ASSUME NEW i \in 1..Len(g) PROVE Plain(g[i][1])
  <2>1. CASE i <= Len(s)
    <3>1. i \in 1..Len(s)
      BY <1>1, <2>1
    <3>2. QED BY <1>1, <1>2, <3>1, Zenon
  <2>2. CASE i > Len(s)
    <3>1. i - Len(s) \in 1..Len(t) /\ i = Len(s) + (i - Len(s))
      BY <1>1, <2>2
    <3>2. QED BY <1>1, <1>2, <3>1, Zenon
  <2>3. QED BY <1>1, <2>1, <2>2
<1>4. QED BY <1>1, <1>3 DEF PlainPath, g

\* A word of the scheme, and a name whose texts all say themselves, are such paths.
LEMMA PlainParts ==
  /\ \A w \in Words : PlainPath(Word(w))
  /\ \A name \in Names : PlainName(name) => PlainPath(Pasted(name))
<1>1. ASSUME NEW w \in Words PROVE PlainPath(Word(w))
  <2>1. w \in Texts /\ Plain(w)
    BY TextAssumption, Zenon
  <2>2. Singles(Word(w)) /\ Len(Word(w)) = 1
    BY <2>1, WordPath
  <2>3. Word(w)[1][1] = w
    BY DEF Word
  <2>4. QED BY <2>1, <2>2, <2>3 DEF PlainPath
<1>2. ASSUME NEW name \in Names, PlainName(name) PROVE PlainPath(Pasted(name))
  <2>1. /\ Singles(Pasted(name)) /\ Len(Pasted(name)) = Len(name)
        /\ \A i \in 1..Len(name) : Pasted(name)[i] = <<name[i]>>
    BY PastedPath
  <2>2. \A i \in 1..Len(name) : Pasted(name)[i][1] = name[i]
    BY <2>1
  <2>3. QED BY <1>2, <2>1, <2>2, Zenon DEF PlainPath, PlainName
<1>3. QED BY <1>1, <1>2

\* A URI whose path ends in a pasted name, trimmed.
LEMMA TrimmedURI ==
  ASSUME NEW f, Singles(f), NEW name \in Names
  PROVE  trimURI(Spiffe(f \o Pasted(name))) = Spiffe(f \o Pasted(TrimEnd(name)))
<1> DEFINE g == f \o Pasted(name)
           h == f \o Pasted(TrimEnd(name))
           r == [g EXCEPT ![Len(g)] = <<TrimRight[g[Len(g)][1]]>>]
           uri == Spiffe(g)
<1>1. r = h
  BY TrimPasted, Zenon
<1>2. Len(g) >= 1 /\ g # <<>>
  <2>1. Singles(Pasted(name)) /\ Len(Pasted(name)) = Len(name) /\ Len(name) \in Nat /\ Len(name) >= 1
    BY PastedPath, NameType
  <2>2. Len(g) = Len(f) + Len(Pasted(name)) /\ Len(f) \in Nat
    BY <2>1, Joined
  <2> HIDE DEF g
  <2>3. QED BY <2>1, <2>2
<1> HIDE DEF h
<1>3. uri = [scheme |-> "spiffe", host |-> trustDomain, path |-> g, escaped |-> FALSE, lead |-> FALSE]
  BY Zenon DEF Spiffe, Written
<1>4. Spiffe(h) = [scheme |-> "spiffe", host |-> trustDomain, path |-> h, escaped |-> FALSE, lead |-> FALSE]
  BY Zenon DEF Spiffe, Written
<1>5. uri.path = g /\ ~uri.escaped
  BY SpiffeFields, Zenon
<1>6. trimURI(uri) = [uri EXCEPT !.lead = FALSE, !.path = h]
  BY <1>1, <1>2, <1>5 DEF trimURI
<1> HIDE DEF g, r, uri
<1>7. trimURI(uri) = Spiffe(h)
  BY <1>3, <1>4, <1>6
<1>8. QED BY <1>7 DEF uri, g, h

-----------------------------------------------------------------------------
(* Reading the identities of a certificate *)

\* How IdentityFromCertificate reads one URI.
ReadAs(u, asked) == CASE asked = "runtime" -> parseRuntimeURI(u)
                     [] asked = "agent" -> parseAgentURI(u)
                     [] asked = "gateway" -> parseGatewayURI(u)

Kinds == {"runtime", "agent", "gateway"}

\* Which parser reads a URI for which kind of identity.
LEMMA ReadCases ==
  ASSUME NEW u
  PROVE  /\ ReadAs(u, "runtime") = parseRuntimeURI(u)
         /\ ReadAs(u, "agent") = parseAgentURI(u)
         /\ ReadAs(u, "gateway") = parseGatewayURI(u)
BY Zenon DEF ReadAs

\* The readers look at the scheme, the host and the path, and at nothing else.
LEMMA SameRead ==
  ASSUME NEW u, NEW v, u.scheme = v.scheme, u.host = v.host, u.path = v.path
  PROVE  /\ parseRuntimeURI(u) = parseRuntimeURI(v)
         /\ parseAgentURI(u) = parseAgentURI(v)
         /\ parseGatewayURI(u) = parseGatewayURI(v)
<1>1. PathParts(u) = PathParts(v) /\ EscapedParts(u) = EscapedParts(v)
  BY Zenon DEF PathParts, EscapedParts
<1>2. /\ identityParts(u, "runtime", 9) <=> identityParts(v, "runtime", 9)
      /\ identityParts(u, "agent", 7) <=> identityParts(v, "agent", 7)
  BY <1>1, Zenon DEF identityParts
<1>3. parseRuntimeURI(u) = parseRuntimeURI(v)
  BY <1>1, <1>2, Zenon DEF parseRuntimeURI
<1>4. parseAgentURI(u) = parseAgentURI(v)
  BY <1>1, <1>2, Zenon DEF parseAgentURI
<1>5. parseRelayURI(u) = parseRelayURI(v)
  BY <1>1, Zenon DEF parseRelayURI
<1>6. parseGatewayURI(u) = parseGatewayURI(v)
  BY <1>1, <1>5, Zenon DEF parseGatewayURI
<1>7. QED BY <1>3, <1>4, <1>6

\* What url.Parse refuses is no identity.
LEMMA BrokenReads ==
  ASSUME NEW asked \in Kinds
  PROVE  ReadAs(BrokenURI, asked) = NoIdentity
<1>1. BrokenURI.scheme # "spiffe"
  BY Zenon DEF BrokenURI
<1>2. /\ parseRuntimeURI(BrokenURI) = NoIdentity
      /\ parseAgentURI(BrokenURI) = NoIdentity
      /\ parseGatewayURI(BrokenURI) = NoIdentity
  BY <1>1, Zenon DEF parseRuntimeURI, parseAgentURI, parseGatewayURI, identityParts
<1>3. QED BY <1>2, ReadCases, Zenon DEF Kinds

\* A word of the scheme says itself in a URI.
LEMMA WordParsed ==
  ASSUME NEW w \in Words
  PROVE  Unescape[BeforeMark[w]] = <<w>>
BY TextAssumption, Zenon DEF Plain

\* The URI of an agent, trimmed, is that of the agent with its last name trimmed.
LEMMA AgentTrimmed ==
  ASSUME NEW id \in Agents
  PROVE  LET t == [id EXCEPT !.node = TrimEnd(id.node)] IN
         /\ t \in Agents /\ trimURI(AgentURI(id)) = AgentURI(t)
         /\ Singles(AgentURI(t).path)
         /\ ~Unplain(id) => PlainPath(AgentURI(t).path)
<1> DEFINE t == [id EXCEPT !.node = TrimEnd(id.node)]
           a == Word("agent")
           b == a \o Word("tenant") \o Pasted(id.tenant)
           c == b \o Word("project") \o Pasted(id.project)
           d == c \o Word("node")
           end == TrimEnd(id.node)
<1>1. "agent" \in Words /\ "tenant" \in Words /\ "project" \in Words
      /\ "node" \in Words
  BY Zenon DEF Words
<1>2. "agent" \in Texts /\ "tenant" \in Texts /\ "project" \in Texts
      /\ "node" \in Texts
  BY <1>1, WordType, Zenon
<1>3. id.tenant \in Names /\ id.project \in Names /\ id.node \in Names
      /\ end \in Names
  <2>1. id.tenant \in Names /\ id.project \in Names /\ id.node \in Names
    BY DEF Agents
  <2>2. QED BY <2>1, TrimEndName
<1>4. t \in Agents /\ t.node = end /\ t.tenant = id.tenant /\ t.project = id.project
  <2> HIDE DEF end
  <2>1. id \in Agents /\ t = [id EXCEPT !.node = end]
    BY Zenon DEF end
  <2> HIDE DEF t
  <2>2. QED BY <1>3, <2>1 DEF Agents
<1>5. AgentURI(id) = Spiffe(d \o Pasted(id.node))
  BY Zenon DEF AgentURI
<1>6. AgentURI(t) = Spiffe(d \o Pasted(end))
  <2> HIDE DEF t, end
  <2>1. QED BY <1>4, Zenon DEF AgentURI
<1> HIDE DEF t, end
<1>7. Singles(d)
  <2>1. Singles(a)
    BY <1>2, WordPath
  <2> HIDE DEF a
  <2>2. Singles(b)
    BY <1>2, <1>3, <2>1, Grows
  <2> HIDE DEF b
  <2>3. Singles(c)
    BY <1>2, <1>3, <2>2, Grows
  <2> HIDE DEF c
  <2>4. Singles(d)
    BY <1>2, <2>3, WordPath, Joined
  <2>5. QED BY <2>4
<1>8. ASSUME ~Unplain(id) PROVE PlainPath(d \o Pasted(end))
  <2>1. PlainName(id.tenant) /\ PlainName(id.project) /\ PlainName(id.node)
    <3>1. id.kind = "agent"
      BY DEF Agents
    <3>2. \A name \in Names : DOMAIN name = 1..Len(name)
      BY NameType
    <3>3. QED BY <1>3, <1>8, <3>1, <3>2, Zenon DEF Unplain, PlainName
  <2>2. PlainName(end)
    <3>1. id.node \in Names /\ PlainName(id.node)
      BY <1>3, <2>1
    <3>2. Len(end) = Len(id.node) /\ \A i \in 1..Len(id.node) : Plain(end[i])
      BY <3>1, TrimEndName, Zenon DEF end, PlainName
    <3>3. QED BY <3>2, Zenon DEF PlainName
  <2>3. PlainPath(a)
    BY <1>1, PlainParts, Zenon
  <2> HIDE DEF a
  <2>4. PlainPath(b)
    <3>1. PlainPath(Word("tenant")) /\ PlainPath(Pasted(id.tenant))
      BY <1>1, <1>3, <2>1, PlainParts, Zenon
    <3>2. QED BY <2>3, <3>1, PlainJoined, Zenon
  <2> HIDE DEF b
  <2>5. PlainPath(c)
    <3>1. PlainPath(Word("project")) /\ PlainPath(Pasted(id.project))
      BY <1>1, <1>3, <2>1, PlainParts, Zenon
    <3>2. QED BY <2>4, <3>1, PlainJoined, Zenon
  <2> HIDE DEF c
  <2>6. PlainPath(d)
    <3>1. PlainPath(Word("node"))
      BY <1>1, PlainParts, Zenon
    <3>2. QED BY <2>5, <3>1, PlainJoined, Zenon
  <2> HIDE DEF d
  <2>7. PlainPath(Pasted(end))
    BY <1>3, <2>2, PlainParts, Zenon
  <2>8. QED BY <2>6, <2>7, PlainJoined, Zenon
<1> HIDE DEF d
<1>9. trimURI(AgentURI(id)) = AgentURI(t)
  BY <1>3, <1>5, <1>6, <1>7, TrimmedURI, Zenon DEF end
<1>10. AgentURI(t).path = d \o Pasted(end)
  BY <1>6, SpiffeFields, Zenon
<1>11. Singles(d \o Pasted(end))
  BY <1>3, <1>7, PastedPath, Joined
<1>12. QED BY <1>4, <1>8, <1>9, <1>10, <1>11, Zenon DEF t

\* The URI of a runtime, trimmed, is that of the runtime with its last name trimmed.
LEMMA RuntimeTrimmed ==
  ASSUME NEW id \in Runtimes
  PROVE  LET t == [id EXCEPT !.workload = TrimEnd(id.workload)] IN
         /\ t \in Runtimes /\ trimURI(RuntimeURI(id)) = RuntimeURI(t)
         /\ Singles(RuntimeURI(t).path)
         /\ ~Unplain(id) => PlainPath(RuntimeURI(t).path)
<1> DEFINE t == [id EXCEPT !.workload = TrimEnd(id.workload)]
           a == Word("runtime")
           b == a \o Word("tenant") \o Pasted(id.tenant)
           c == b \o Word("project") \o Pasted(id.project)
           d == c \o Word("session") \o Pasted(id.session)
           e == d \o Word("workload")
           end == TrimEnd(id.workload)
<1>1. "runtime" \in Words /\ "tenant" \in Words /\ "project" \in Words
      /\ "session" \in Words /\ "workload" \in Words
  BY Zenon DEF Words
<1>2. "runtime" \in Texts /\ "tenant" \in Texts /\ "project" \in Texts
      /\ "session" \in Texts /\ "workload" \in Texts
  BY <1>1, WordType, Zenon
<1>3. id.tenant \in Names /\ id.project \in Names /\ id.session \in Names /\ id.workload \in Names
      /\ end \in Names
  <2>1. id.tenant \in Names /\ id.project \in Names /\ id.session \in Names /\ id.workload \in Names
    BY DEF Runtimes
  <2>2. QED BY <2>1, TrimEndName
<1>4. t \in Runtimes /\ t.workload = end /\ t.tenant = id.tenant /\ t.project = id.project /\ t.session = id.session
  <2> HIDE DEF end
  <2>1. id \in Runtimes /\ t = [id EXCEPT !.workload = end]
    BY Zenon DEF end
  <2> HIDE DEF t
  <2>2. QED BY <1>3, <2>1 DEF Runtimes
<1>5. RuntimeURI(id) = Spiffe(e \o Pasted(id.workload))
  BY Zenon DEF RuntimeURI
<1>6. RuntimeURI(t) = Spiffe(e \o Pasted(end))
  <2> HIDE DEF t, end
  <2>1. QED BY <1>4, Zenon DEF RuntimeURI
<1> HIDE DEF t, end
<1>7. Singles(e)
  <2>1. Singles(a)
    BY <1>2, WordPath
  <2> HIDE DEF a
  <2>2. Singles(b)
    BY <1>2, <1>3, <2>1, Grows
  <2> HIDE DEF b
  <2>3. Singles(c)
    BY <1>2, <1>3, <2>2, Grows
  <2> HIDE DEF c
  <2>4. Singles(d)
    BY <1>2, <1>3, <2>3, Grows
  <2> HIDE DEF d
  <2>5. Singles(e)
    BY <1>2, <2>4, WordPath, Joined
  <2>6. QED BY <2>5
<1>8. ASSUME ~Unplain(id) PROVE PlainPath(e \o Pasted(end))
  <2>1. PlainName(id.tenant) /\ PlainName(id.project) /\ PlainName(id.session) /\ PlainName(id.workload)
    <3>1. id.kind = "runtime"
      BY DEF Runtimes
    <3>2. \A name \in Names : DOMAIN name = 1..Len(name)
      BY NameType
    <3>3. QED BY <1>3, <1>8, <3>1, <3>2, Zenon DEF Unplain, PlainName
  <2>2. PlainName(end)
    <3>1. id.workload \in Names /\ PlainName(id.workload)
      BY <1>3, <2>1
    <3>2. Len(end) = Len(id.workload) /\ \A i \in 1..Len(id.workload) : Plain(end[i])
      BY <3>1, TrimEndName, Zenon DEF end, PlainName
    <3>3. QED BY <3>2, Zenon DEF PlainName
  <2>3. PlainPath(a)
    BY <1>1, PlainParts, Zenon
  <2> HIDE DEF a
  <2>4. PlainPath(b)
    <3>1. PlainPath(Word("tenant")) /\ PlainPath(Pasted(id.tenant))
      BY <1>1, <1>3, <2>1, PlainParts, Zenon
    <3>2. QED BY <2>3, <3>1, PlainJoined, Zenon
  <2> HIDE DEF b
  <2>5. PlainPath(c)
    <3>1. PlainPath(Word("project")) /\ PlainPath(Pasted(id.project))
      BY <1>1, <1>3, <2>1, PlainParts, Zenon
    <3>2. QED BY <2>4, <3>1, PlainJoined, Zenon
  <2> HIDE DEF c
  <2>6. PlainPath(d)
    <3>1. PlainPath(Word("session")) /\ PlainPath(Pasted(id.session))
      BY <1>1, <1>3, <2>1, PlainParts, Zenon
    <3>2. QED BY <2>5, <3>1, PlainJoined, Zenon
  <2> HIDE DEF d
  <2>7. PlainPath(e)
    <3>1. PlainPath(Word("workload"))
      BY <1>1, PlainParts, Zenon
    <3>2. QED BY <2>6, <3>1, PlainJoined, Zenon
  <2> HIDE DEF e
  <2>8. PlainPath(Pasted(end))
    BY <1>3, <2>2, PlainParts, Zenon
  <2>9. QED BY <2>7, <2>8, PlainJoined, Zenon
<1> HIDE DEF e
<1>9. trimURI(RuntimeURI(id)) = RuntimeURI(t)
  BY <1>3, <1>5, <1>6, <1>7, TrimmedURI, Zenon DEF end
<1>10. RuntimeURI(t).path = e \o Pasted(end)
  BY <1>6, SpiffeFields, Zenon
<1>11. Singles(e \o Pasted(end))
  BY <1>3, <1>7, PastedPath, Joined
<1>12. QED BY <1>4, <1>8, <1>9, <1>10, <1>11, Zenon DEF t

\* Whatever kind it is asked for, what was made of the URI of a runtime is read as
\* that runtime or not at all, unless its last name is empty or it is not plain.
LEMMA RuntimeWasMeant ==
  ASSUME NEW id \in Runtimes, NEW asked \in Kinds,
         ReadAs(urlParse(trimURI(RuntimeURI(id))), asked) # NoIdentity
  PROVE  \/ ReadAs(urlParse(trimURI(RuntimeURI(id))), asked) = Readable(id)
         \/ id.kind = asked /\ (Nameless(id) \/ Unplain(id))
<1> DEFINE t == [id EXCEPT !.workload = TrimEnd(id.workload)]
           uri == RuntimeURI(t)
           u == urlParse(uri)
<1>1. /\ t \in Runtimes /\ trimURI(RuntimeURI(id)) = uri /\ Singles(uri.path)
      /\ ~Unplain(id) => PlainPath(uri.path)
  BY RuntimeTrimmed, Zenon
<1>2. uri.scheme = "spiffe" /\ uri.host = trustDomain /\ uri.escaped = FALSE
  BY SpiffeFields, Zenon DEF RuntimeURI
<1>3. uri.path \in Seq(Names) /\ Len(uri.path) >= 1 /\ uri.path[1] = <<"runtime">>
  <2> HIDE DEF t
  <2>1. QED BY <1>1, RuntimeDecoded, Zenon
<1>4. id.kind = "runtime" /\ t.kind = "runtime" /\ t.workload = TrimEnd(id.workload) /\ DOMAIN t.workload = DOMAIN id.workload
  BY DEF Runtimes, TrimEnd
<1>5. Readable(id) = [t EXCEPT !.workload = TrimSlashes(t.workload, Empty)]
  <2>1. Readable(id) = [id EXCEPT !.workload = TrimSlashes(TrimEnd(id.workload), Empty)]
    BY <1>4, Zenon DEF Readable, Empty
  <2> DEFINE end == TrimEnd(id.workload)
  <2> HIDE DEF end
  <2>2. [id EXCEPT !.workload = TrimSlashes(end, Empty)] = [[id EXCEPT !.workload = end] EXCEPT !.workload = TrimSlashes(end, Empty)]
    BY DEF Runtimes
  <2>3. QED BY <1>4, <2>1, <2>2, Zenon DEF end
<1> HIDE DEF t, uri
<1>6. u # BrokenURI
  BY <1>1, BrokenReads, Zenon
<1>7. /\ u.scheme = "spiffe" /\ u.host = trustDomain
      /\ u.path \in Seq(Names) /\ Len(u.path) >= 1
      /\ u.path[1] = Unescape[BeforeMark[uri.path[1][1]]]
      /\ (\A k \in 1..Len(uri.path) : Plain(uri.path[k][1])) => u.path = uri.path
  BY <1>1, <1>2, <1>3, <1>6, PastedParsed, Zenon
<1>8. u.path[1] = <<"runtime">>
  <2>1. uri.path[1][1] = "runtime" /\ "runtime" \in Words
    BY <1>3, SMTT(30) DEF Words
  <2>2. QED BY <1>7, <2>1, WordParsed, Zenon
<1> HIDE DEF u
<1>9. parseAgentURI(u) = NoIdentity /\ parseGatewayURI(u) = NoIdentity
  BY <1>7, <1>8, ReadersTellKinds
<1>10. asked = "runtime"
  BY <1>1, <1>9, ReadCases, Zenon DEF Kinds, u
<1>11. ASSUME ~Nameless(id), ~Unplain(id)
       PROVE  parseRuntimeURI(u) = Readable(id)
  <2>1. u.path = uri.path
    BY <1>1, <1>7, <1>11, Zenon DEF PlainPath
  <2>2. parseRuntimeURI(u) = parseRuntimeURI(uri)
    BY <1>2, <1>7, <2>1, SameRead, Zenon
  <2>3. parseRuntimeURI(uri) # NoIdentity
    BY <1>1, <1>10, <2>2, ReadCases, Zenon DEF u
  <2>4. ~(\A k \in DOMAIN t.workload : t.workload[k] = Empty)
    BY <1>4, <1>11, Zenon DEF Nameless, Empty
  <2>5. parseRuntimeURI(uri) = [t EXCEPT !.workload = TrimSlashes(t.workload, Empty)]
    BY <1>1, <2>3, <2>4, RuntimeReads, Zenon DEF uri
  <2>6. QED BY <1>5, <2>2, <2>5, Zenon
<1>12. QED BY <1>1, <1>4, <1>10, <1>11, ReadCases, Zenon DEF u

\* Likewise the URI of an agent.
LEMMA AgentWasMeant ==
  ASSUME NEW id \in Agents, NEW asked \in Kinds,
         ReadAs(urlParse(trimURI(AgentURI(id))), asked) # NoIdentity
  PROVE  \/ ReadAs(urlParse(trimURI(AgentURI(id))), asked) = Readable(id)
         \/ id.kind = asked /\ (Nameless(id) \/ Unplain(id))
<1> DEFINE t == [id EXCEPT !.node = TrimEnd(id.node)]
           uri == AgentURI(t)
           u == urlParse(uri)
<1>1. /\ t \in Agents /\ trimURI(AgentURI(id)) = uri /\ Singles(uri.path)
      /\ ~Unplain(id) => PlainPath(uri.path)
  BY AgentTrimmed, Zenon
<1>2. uri.scheme = "spiffe" /\ uri.host = trustDomain /\ uri.escaped = FALSE
  BY SpiffeFields, Zenon DEF AgentURI
<1>3. uri.path \in Seq(Names) /\ Len(uri.path) >= 1 /\ uri.path[1] = <<"agent">>
  <2> HIDE DEF t
  <2>1. QED BY <1>1, AgentDecoded, Zenon
<1>4. id.kind = "agent" /\ t.kind = "agent" /\ t.node = TrimEnd(id.node) /\ DOMAIN t.node = DOMAIN id.node
  BY DEF Agents, TrimEnd
<1>5. Readable(id) = [t EXCEPT !.node = TrimSlashes(t.node, Empty)]
  <2>1. Readable(id) = [id EXCEPT !.node = TrimSlashes(TrimEnd(id.node), Empty)]
    BY <1>4, Zenon DEF Readable, Empty
  <2> DEFINE end == TrimEnd(id.node)
  <2> HIDE DEF end
  <2>2. [id EXCEPT !.node = TrimSlashes(end, Empty)] = [[id EXCEPT !.node = end] EXCEPT !.node = TrimSlashes(end, Empty)]
    BY DEF Agents
  <2>3. QED BY <1>4, <2>1, <2>2, Zenon DEF end
<1> HIDE DEF t, uri
<1>6. u # BrokenURI
  BY <1>1, BrokenReads, Zenon
<1>7. /\ u.scheme = "spiffe" /\ u.host = trustDomain
      /\ u.path \in Seq(Names) /\ Len(u.path) >= 1
      /\ u.path[1] = Unescape[BeforeMark[uri.path[1][1]]]
      /\ (\A k \in 1..Len(uri.path) : Plain(uri.path[k][1])) => u.path = uri.path
  BY <1>1, <1>2, <1>3, <1>6, PastedParsed, Zenon
<1>8. u.path[1] = <<"agent">>
  <2>1. uri.path[1][1] = "agent" /\ "agent" \in Words
    BY <1>3 DEF Words
  <2>2. QED BY <1>7, <2>1, WordParsed, Zenon
<1> HIDE DEF u
<1>9. parseRuntimeURI(u) = NoIdentity /\ parseGatewayURI(u) = NoIdentity
  BY <1>7, <1>8, ReadersTellKinds
<1>10. asked = "agent"
  BY <1>1, <1>9, ReadCases, Zenon DEF Kinds, u
<1>11. ASSUME ~Nameless(id), ~Unplain(id)
       PROVE  parseAgentURI(u) = Readable(id)
  <2>1. u.path = uri.path
    BY <1>1, <1>7, <1>11, Zenon DEF PlainPath
  <2>2. parseAgentURI(u) = parseAgentURI(uri)
    BY <1>2, <1>7, <2>1, SameRead, Zenon
  <2>3. parseAgentURI(uri) # NoIdentity
    BY <1>1, <1>10, <2>2, ReadCases, Zenon DEF u
  <2>4. ~(\A k \in DOMAIN t.node : t.node[k] = Empty)
    BY <1>4, <1>11, Zenon DEF Nameless, Empty
  <2>5. parseAgentURI(uri) = [t EXCEPT !.node = TrimSlashes(t.node, Empty)]
    BY <1>1, <2>3, <2>4, AgentReads, Zenon DEF uri
  <2>6. QED BY <1>5, <2>2, <2>5, Zenon
<1>12. QED BY <1>1, <1>4, <1>10, <1>11, ReadCases, Zenon DEF u

\* What was made of the URI of a gateway is read as that gateway or not at all.
LEMMA GatewayWasMeant ==
  ASSUME NEW id \in Gateways, NEW asked \in Kinds,
         ReadAs(urlParse(trimURI(GatewayURI(id))), asked) # NoIdentity
  PROVE  ReadAs(urlParse(trimURI(GatewayURI(id))), asked) = Readable(id)
<1> DEFINE uri == GatewayURI(id)
           v == trimURI(uri)
           u == urlParse(v)
<1>1. uri.path \in Seq(Names) /\ Len(uri.path) >= 1 /\ uri.path[1] = <<"federation-gateway">>
  BY GatewayPath, Zenon
<1>2. PICK path : uri = SpiffeEscaped(path)
  BY Zenon DEF GatewayURI
<1> HIDE DEF uri
<1>3. uri.scheme = "spiffe" /\ uri.host = trustDomain /\ uri.path = path /\ uri.escaped = TRUE
  BY <1>2, SpiffeFields, Zenon
<1>4. v = [uri EXCEPT !.lead = FALSE, !.path = path]
  BY <1>3 DEF trimURI
<1>5. v.scheme = "spiffe" /\ v.host = trustDomain /\ v.path = path /\ v.escaped = TRUE
  <2>1. uri = [scheme |-> "spiffe", host |-> trustDomain, path |-> path, escaped |-> TRUE, lead |-> FALSE]
    BY <1>2, Zenon DEF SpiffeEscaped, Written
  <2> HIDE DEF v
  <2>2. QED BY <1>4, <2>1
<1> HIDE DEF v
<1>6. u # BrokenURI
  BY BrokenReads, Zenon DEF v, uri
<1>7. u.scheme = "spiffe" /\ u.host = trustDomain /\ u.path = path
  BY <1>1, <1>3, <1>5, <1>6, EscapedParsed, Zenon
<1> HIDE DEF u
<1>8. parseRuntimeURI(u) = NoIdentity /\ parseAgentURI(u) = NoIdentity
  <2>1. path \in Seq(Names) /\ Len(path) >= 1 /\ path[1] = <<"federation-gateway">>
    BY <1>1, <1>3, Zenon
  <2>2. QED BY <1>7, <2>1, ReadersTellKinds
<1>9. asked = "gateway"
  BY <1>8, ReadCases, Zenon DEF Kinds, u, v, uri
<1>10. parseGatewayURI(u) = parseGatewayURI(uri)
  BY <1>3, <1>7, SameRead, Zenon
<1>11. QED BY <1>9, <1>10, ReadCases, GatewayReads, Zenon DEF u, v, uri

\* What was made of a URI that an identity was written into reads as that identity
\* or as none, whatever kind is asked for, unless the identity is nameless or not plain.
LEMMA URIWasMeant ==
  ASSUME NEW id \in Identities, NEW asked \in Kinds,
         ReadAs(urlParse(trimURI(URIOf(id))), asked) # NoIdentity
  PROVE  \/ ReadAs(urlParse(trimURI(URIOf(id))), asked) = Readable(id)
         \/ id.kind = asked /\ (Nameless(id) \/ Unplain(id))
<1>1. id \in Runtimes \/ id \in Agents \/ id \in Gateways
  BY Zenon DEF Identities, Runtimes, Agents, Gateways
<1>2. CASE id \in Runtimes
  <2>1. id.kind = "runtime"
    BY <1>2 DEF Runtimes
  <2>2. URIOf(id) = RuntimeURI(id)
    BY <2>1, Zenon DEF URIOf
  <2>3. QED BY <1>2, <2>2, RuntimeWasMeant, Zenon
<1>3. CASE id \in Agents
  <2>1. id.kind = "agent"
    BY <1>3 DEF Agents
  <2>2. URIOf(id) = AgentURI(id)
    BY <2>1, Zenon DEF URIOf
  <2>3. QED BY <1>3, <2>2, AgentWasMeant, Zenon
<1>4. CASE id \in Gateways
  <2>1. id.kind = "gateway"
    BY <1>4 DEF Gateways
  <2>2. URIOf(id) = GatewayURI(id)
    BY <2>1, Zenon DEF URIOf
  <2>3. QED BY <1>4, <2>2, GatewayWasMeant, Zenon
<1>5. QED BY <1>1, <1>2, <1>3, <1>4, SMTT(30)

-----------------------------------------------------------------------------
(* From request to handshake: what is known of requests and leaves *)

\* The list a session was let in under vouches for its leaf.
Vouched(session) ==
  server.crl =>
    LET cert == session.leaf.cert
        list == session.list
    IN  /\ list.readable
        /\ cert.serial \notin list.serials
        /\ list.signer = cert.signer \/ cert \in server.pool

TLSInv ==
  /\ now \in Nat
  /\ IsFiniteSet(csrs)
  /\ \A csr \in csrs : csr.key # NoKey
  /\ \A l \in leaves :
       /\ l.cert.from \in Int /\ l.cert.until \in Int
       /\ l.ids \in Seq(Identities) /\ l.cert.uris = parseURIs(URIsOf(l.ids))
  /\ \A session \in tickets : session.leaf \in leaves /\ Vouched(session)

\* A request is for the key it was made with.
LEMMA RequestKey ==
  ASSUME NEW opts, NEW key, GenerateCertificateSigningRequest(opts, key) # NoCSR
  PROVE  GenerateCertificateSigningRequest(opts, key).key = key
<1> DEFINE csr == [key |-> key, signer |-> key, cn |-> opts.cn, dns |-> cleanStrings(opts.dns),
                   uris |-> parseURIs(opts.uris), usage |-> opts.profile]
<1>1. GenerateCertificateSigningRequest(opts, key) = csr
  BY Zenon DEF GenerateCertificateSigningRequest
<1>2. csr.key = key
  BY SMTT(30)
<1>3. QED BY <1>1, <1>2

\* Making a request keeps the invariant.
LEMMA MakeCSRKeeps ==
  ASSUME TLSInv, NEW input, MakeCSR(input) PROVE TLSInv'
<1> DEFINE csr == GenerateCertificateSigningRequest(OptsOf(input), 20 + Cardinality(csrs))
<1>1. csrs' = csrs \cup ({csr} \ {NoCSR}) /\ UNCHANGED << now, leaves, server, tickets >>
  BY DEF MakeCSR
<1>2. IsFiniteSet(csrs')
  <2>1. IsFiniteSet({csr} \ {NoCSR})
    <3> HIDE DEF csr
    <3>1. IsFiniteSet({csr}) /\ {csr} \ {NoCSR} \in SUBSET {csr}
      BY FS_Singleton
    <3>2. QED BY <3>1, FS_Subset
  <2>2. IsFiniteSet(csrs)
    BY DEF TLSInv
  <2>3. QED BY <1>1, <2>1, <2>2, FS_Union, Zenon
<1>3. csr # NoCSR => csr.key # NoKey
  <2>1. Cardinality(csrs) \in Nat
    BY FS_CardinalityType DEF TLSInv
  <2>2. csr # NoCSR => csr.key = 20 + Cardinality(csrs)
    BY RequestKey
  <2>3. QED BY <2>1, <2>2 DEF NoKey
<1> HIDE DEF csr
<1>4. QED BY <1>1, <1>2, <1>3 DEF TLSInv, Vouched

\* Signing a request keeps the invariant: the leaf has the URIs of the identities the
\* signer meant.
LEMMA SignCSRKeeps ==
  ASSUME TLSInv, NEW csr, NEW damaged, NEW input \in SignInputs, NEW ca, SignCSR(csr, damaged, input, ca)
  PROVE  TLSInv'
<1> DEFINE serial == 30 + Cardinality(leaves)
           seen == IF damaged THEN [csr EXCEPT !.signer = NoKey] ELSE csr
           result == SignCertificateRequest(ca, seen, OptsOf(input), serial, now)
           opts == OptsOf(input)
           cn == IF opts.cn = "" THEN seen.cn ELSE opts.cn
           cert == Sign(ca, opts, cn, seen.key, serial, now)
<1>1. /\ leaves' = (IF result.ok THEN leaves \cup {[cert |-> result.cert, ids |-> input.ids]} ELSE leaves)
      /\ UNCHANGED << now, csrs, server, tickets >>
  BY Zenon DEF SignCSR
<1> HIDE DEF seen, serial
<1>2. CASE result.ok
  <2>1. result = Issued(cert, NoKey) /\ cert # NoCert
    <3>1. Refused.ok = FALSE
      BY DEF Refused
    <3>2. QED BY <1>2, <3>1, Zenon DEF SignCertificateRequest
  <2>2. opts.ttl = input.ttl /\ opts.uris = URIsOf(input.ids)
    BY Zenon DEF OptsOf
  <2> HIDE DEF result, opts, cn
  <2>3. result.cert = cert
    BY <2>1 DEF Issued
  <2>4. /\ cert.from = now /\ cert.until = now + ttlOr(opts.ttl, DefaultLeafTTL)
        /\ cert.uris = parseURIs(opts.uris)
    <3>1. cert = Sign(ca, opts, cn, seen.key, serial, now)
      BY Zenon
    <3>2. cert # NoCert
      BY <2>1, Zenon
    <3> HIDE DEF cert
    <3>3. QED BY <3>1, <3>2, SignedCert
  <2> HIDE DEF cert
  <2>5. ttlOr(opts.ttl, DefaultLeafTTL) \in Int /\ now \in Int
    <3>1. input.ttl \in Int /\ DefaultLeafTTL \in Int
      BY TLSAssumption, CertificateAssumption
    <3>2. now \in Nat
      BY Zenon DEF TLSInv
    <3>3. now \in Int
      BY <3>2
    <3>4. QED BY <2>2, <3>1, <3>3, Zenon DEF ttlOr
  <2>6. cert.from \in Int /\ cert.until \in Int
    BY <2>4, <2>5
  <2>7. input.ids \in Seq(Identities)
    BY TLSAssumption
  <2>8. leaves' = leaves \cup {[cert |-> cert, ids |-> input.ids]}
    BY <1>1, <1>2, <2>3, SMTT(30)
  <2>9. QED BY <1>1, <2>2, <2>4, <2>6, <2>7, <2>8, SMTT(30) DEF TLSInv, Vouched
<1>3. CASE ~result.ok
  <2> HIDE DEF result
  <2>1. leaves' = leaves
    BY <1>1, <1>3
  <2>2. QED BY <1>1, <2>1 DEF TLSInv, Vouched
<1>4. QED BY <1>2, <1>3

\* A certificate the server accepts is vouched for by the list in the CRL file.
LEMMA AcceptedIsVouched ==
  ASSUME NEW cert, server.crl, ServerAccepts(cert)
  PROVE  /\ crlFile.readable /\ cert.serial \notin crlFile.serials
         /\ crlFile.signer = cert.signer \/ cert \in server.pool
<1>1. /\ Chains(cert, server.pool, now) # {}
      /\ VerifyPeerCertificate(crlFile, Chains(cert, server.pool, now))
  BY DEF ServerAccepts, verifyCertificateChain
<1>2. ValidAt(cert, now)
  BY <1>1 DEF Chains
<1>3. CASE cert \in server.pool
  <2>1. <<cert>> \in Chains(cert, server.pool, now)
    BY <1>2, <1>3 DEF Chains
  <2>2. <<cert>>[1] = cert
    OBVIOUS
  <2>3. QED BY <1>1, <1>3, <2>1, <2>2, Zenon DEF VerifyPeerCertificate
<1>4. CASE cert \notin server.pool
  <2> DEFINE issuers == {c \in server.pool : c.isCA /\ c.key = cert.signer /\ ValidAt(c, now)}
  <2>1. Chains(cert, server.pool, now) = {<<cert, ca>> : ca \in issuers}
    BY <1>2, <1>4, SMTT(30) DEF Chains
  <2>2. PICK ca \in issuers : TRUE
    BY <1>1, <2>1
  <2>3. <<cert, ca>> \in Chains(cert, server.pool, now) /\ ca.key = cert.signer
    BY <2>1, <2>2
  <2>4. <<cert, ca>>[1] = cert /\ <<cert, ca>>[2] = ca /\ Len(<<cert, ca>>) = 2
    OBVIOUS
  <2> HIDE DEF issuers
  <2>5. \A chain \in Chains(cert, server.pool, now) :
           /\ Len(chain) > 1 => crlFile.signer = chain[2].key
           /\ chain[1].serial \notin crlFile.serials
    BY <1>1 DEF VerifyPeerCertificate
  <2>6. crlFile.readable
    BY <1>1 DEF VerifyPeerCertificate
  <2>7. QED BY <2>3, <2>4, <2>5, <2>6, SMTT(30)
<1>5. QED BY <1>3, <1>4, SMTT(30)

\* The session a handshake opens.
Opened(leaf) == [leaf |-> leaf, list |-> IF server.crl THEN crlFile ELSE NoList]

\* What a handshake says and opens, and of whom.
LEMMA Handshake ==
  ASSUME NEW leaf, NEW csr, NEW roots, Connect(leaf, csr, roots)
  PROVE  /\ UNCHANGED << now, csrs, leaves, server, crlFile >>
         /\ \/ tickets' = tickets /\ (last' = Nothing \/ last' = [what |-> "anonymous"])
            \/ /\ tickets' = tickets \cup {Opened(leaf)} /\ last' = Admitted(Opened(leaf), FALSE)
               /\ ServerAccepts(leaf.cert)
<1>1. UNCHANGED << now, csrs, leaves, server, crlFile >>
  BY Zenon DEF Connect
<1>2. QED BY <1>1, Zenon DEF Connect, Opened

\* The session a handshake opens is vouched for, by the list in force, and its leaf is valid.
LEMMA OpenedIsVouched ==
  ASSUME NEW leaf, ServerAccepts(leaf.cert)
  PROVE  /\ Opened(leaf).leaf = leaf /\ Vouched(Opened(leaf))
         /\ server.crl => Opened(leaf).list = crlFile
         /\ now <= leaf.cert.until
<1>1. Opened(leaf).leaf = leaf /\ (server.crl => Opened(leaf).list = crlFile)
  BY DEF Opened
<1>2. Vouched(Opened(leaf))
  <2>1. CASE server.crl
    <3>1. /\ crlFile.readable /\ leaf.cert.serial \notin crlFile.serials
          /\ crlFile.signer = leaf.cert.signer \/ leaf.cert \in server.pool
      BY <2>1, AcceptedIsVouched
    <3>2. QED BY <1>1, <2>1, <3>1 DEF Vouched
  <2>2. CASE ~server.crl
    BY <2>2, Zenon DEF Vouched
  <2>3. QED BY <2>1, <2>2
<1>3. now <= leaf.cert.until
  BY DEF ServerAccepts, verifyCertificateChain, Chains, ValidAt
<1>4. QED BY <1>1, <1>2, <1>3

\* A handshake keeps the invariant.
LEMMA ConnectKeeps ==
  ASSUME TLSInv, NEW leaf \in leaves, NEW csr, NEW roots, Connect(leaf, csr, roots)
  PROVE  TLSInv'
<1>1. UNCHANGED << now, csrs, leaves, server, crlFile >>
  BY Handshake
<1>2. tickets' = tickets \/ (tickets' = tickets \cup {Opened(leaf)} /\ ServerAccepts(leaf.cert))
  BY Handshake, Zenon
<1>3. \A session \in tickets' : session.leaf \in leaves /\ Vouched(session)
  <2>1. \A session \in tickets : session.leaf \in leaves /\ Vouched(session)
    BY Zenon DEF TLSInv
  <2>2. ServerAccepts(leaf.cert) => Opened(leaf).leaf \in leaves /\ Vouched(Opened(leaf))
    BY OpenedIsVouched
  <2>3. QED BY <1>2, <2>1, <2>2
<1>4. \A session : Vouched(session)' <=> Vouched(session)
  BY <1>1, Zenon DEF Vouched
<1>5. QED BY <1>1, <1>3, <1>4, Zenon DEF TLSInv

\* The invariant always holds.
LEMMA TLSInvariant == TLSSpec => []TLSInv
<1>1. TLSInit => TLSInv
  BY FS_EmptySet DEF TLSInit, TLSInv
<1>2. TLSInv /\ [TLSNext]_tlsVars => TLSInv'
  <2> SUFFICES ASSUME TLSInv, [TLSNext]_tlsVars PROVE TLSInv'
    OBVIOUS
  <2>1. CASE UNCHANGED << now, csrs, leaves, server, tickets >>
    BY <2>1 DEF TLSInv, Vouched
  <2>2. CASE UNCHANGED tlsVars
    BY <2>1, <2>2 DEF tlsVars
  <2>3. ASSUME NEW leaf, NEW csr, NEW pool, NEW window, VerifyIssued(leaf, csr, pool, window) PROVE TLSInv'
    BY <2>1, <2>3 DEF VerifyIssued
  <2>4. ASSUME NEW pair, NEW pool, NEW window, CheckServerMaterial(pair, pool, window) PROVE TLSInv'
    BY <2>1, <2>4, SMTT(30) DEF CheckServerMaterial
  <2>5. ASSUME NEW credentials, StartServer(credentials) PROVE TLSInv'
    BY <2>5 DEF StartServer, TLSInv
  <2>6. ASSUME NEW leaf \in leaves, NEW csr, NEW pool, Connect(leaf, csr, pool) PROVE TLSInv'
    BY <2>6, ConnectKeeps
  <2>7. ASSUME NEW list, ReplaceCRL(list) PROVE TLSInv'
    BY <2>1, <2>7, SMTT(30) DEF ReplaceCRL
  <2>8. CASE Tick
    BY <2>8 DEF Tick, TLSInv, Vouched
  <2>9. ASSUME NEW session, Resume(session) PROVE TLSInv'
    BY <2>1, <2>9 DEF Resume
  <2>10. CASE TLSNext
    BY <2>3, <2>4, <2>5, <2>6, <2>7, <2>8, <2>9, <2>10, MakeCSRKeeps, SignCSRKeeps, Zenon DEF TLSNext
  <2>11. QED BY <2>2, <2>10
<1>3. QED BY <1>1, <1>2, PTL DEF TLSSpec

-----------------------------------------------------------------------------
(* The URIs of a certificate *)

\* f follows the loop of cleanURIs over the first n.
Cleans(f, n, uris) ==
  f = [i \in 0..n |-> IF i = 0 THEN <<>> ELSE IF uris[i] = BlankURI THEN f[i - 1] ELSE Append(f[i - 1], trimURI(uris[i]))]

\* The loop of cleanURIs can be followed for any number of URIs.
LEMMA CleansRuns ==
  ASSUME NEW uris
  PROVE  \A n \in Nat : \E f : Cleans(f, n, uris)
<1> DEFINE S == {n \in Nat : \E f : Cleans(f, n, uris)}
<1>1. 0 \in S
  <2>1. Cleans([i \in 0..0 |-> <<>>], 0, uris)
    BY DEF Cleans
  <2>2. QED BY <2>1
<1>2. ASSUME NEW n \in Nat, n \in S PROVE n + 1 \in S
  <2>1. PICK f : Cleans(f, n, uris)
    BY <1>2
  <2> DEFINE end == IF uris[n + 1] = BlankURI THEN f[n] ELSE Append(f[n], trimURI(uris[n + 1]))
             g == [i \in 0..(n + 1) |-> IF i = n + 1 THEN end ELSE f[i]]
  <2>2. \A i \in 0..n : g[i] = f[i]
    OBVIOUS
  <2>3. \A i \in 0..n : f[i] = IF i = 0 THEN <<>> ELSE IF uris[i] = BlankURI THEN f[i - 1] ELSE Append(f[i - 1], trimURI(uris[i]))
    BY <2>1, Zenon DEF Cleans
  <2>4. ASSUME NEW i \in 0..(n + 1)
        PROVE  g[i] = IF i = 0 THEN <<>> ELSE IF uris[i] = BlankURI THEN g[i - 1] ELSE Append(g[i - 1], trimURI(uris[i]))
    <3>1. CASE i = n + 1
      <4>1. g[i] = end /\ g[i - 1] = f[n] /\ i # 0
        BY <3>1
      <4>2. QED BY <3>1, <4>1
    <3>2. CASE i \in 0..n
      <4>1. i # 0 => i - 1 \in 0..n
        BY <3>2
      <4>2. g[i] = f[i] /\ (i # 0 => g[i - 1] = f[i - 1])
        BY <2>2, <3>2, <4>1
      <4> HIDE DEF g
      <4>3. QED BY <2>3, <3>2, <4>2, SMTT(30)
    <3>3. QED BY <3>1, <3>2, SMTT(30)
  <2>5. Cleans(g, n + 1, uris)
    <3>1. g = [i \in 0..(n + 1) |-> g[i]]
      BY SMTT(30)
    <3> HIDE DEF g
    <3>2. QED BY <2>4, <3>1, Zenon DEF Cleans
  <2>6. QED BY <2>5
<1>3. Nat \subseteq S
  BY <1>1, <1>2, SetInduction, Zenon
<1>4. QED BY <1>3

\* What cleanURIs returns is the last value of a run of the loop.
LEMMA CleansEnds ==
  ASSUME NEW uris, Len(uris) \in Nat
  PROVE  \E f : Cleans(f, Len(uris), uris) /\ cleanURIs(uris) = f[Len(uris)]
<1> DEFINE L == CHOOSE f : Cleans(f, Len(uris), uris)
<1>1. Cleans(L, Len(uris), uris)
  BY CleansRuns
<1>2. cleanURIs(uris) = L[Len(uris)]
  BY Zenon DEF cleanURIs, Cleans
<1>3. QED BY <1>1, <1>2, Zenon

\* cleanURIs adds no URI of its own.
LEMMA CleanedFrom ==
  ASSUME NEW X, NEW uris \in Seq(X)
  PROVE  /\ DOMAIN cleanURIs(uris) \in SUBSET Nat
         /\ \A k \in DOMAIN cleanURIs(uris) :
              \E j \in DOMAIN uris : cleanURIs(uris)[k] = trimURI(uris[j])
<1> DEFINE From(s) == s \in Seq({trimURI(uris[j]) : j \in DOMAIN uris})
<1>1. Len(uris) \in Nat /\ DOMAIN uris = 1..Len(uris) /\ \A j \in DOMAIN uris : uris[j] \in X
  OBVIOUS
<1>2. PICK f : Cleans(f, Len(uris), uris) /\ cleanURIs(uris) = f[Len(uris)]
  BY <1>1, CleansEnds
<1>3. \A i \in 0..Len(uris) :
        f[i] = IF i = 0 THEN <<>> ELSE IF uris[i] = BlankURI THEN f[i - 1] ELSE Append(f[i - 1], trimURI(uris[i]))
  BY <1>2, Zenon DEF Cleans
<1> DEFINE S == {n \in Nat : n <= Len(uris) => From(f[n])}
<1>4. 0 \in S
  <2>1. f[0] = <<>>
    BY <1>1, <1>3
  <2>2. From(<<>>)
    OBVIOUS
  <2>3. QED BY <2>1, <2>2, Zenon
<1>5. ASSUME NEW n \in Nat, n \in S PROVE n + 1 \in S
  <2> SUFFICES ASSUME n + 1 <= Len(uris) PROVE From(f[n + 1])
    OBVIOUS
  <2>1. n + 1 \in 0..Len(uris) /\ n + 1 # 0 /\ (n + 1) - 1 = n /\ n + 1 \in DOMAIN uris
    BY <1>1
  <2>2. f[n + 1] = IF uris[n + 1] = BlankURI THEN f[n] ELSE Append(f[n], trimURI(uris[n + 1]))
    BY <1>3, <2>1
  <2>3. From(f[n])
    BY <1>1, <1>5, <2>1
  <2>4. trimURI(uris[n + 1]) \in {trimURI(uris[j]) : j \in DOMAIN uris}
    BY <2>1
  <2>5. QED BY <2>2, <2>3, <2>4
<1>6. Nat \subseteq S
  BY <1>4, <1>5, SetInduction, Zenon
<1>7. From(cleanURIs(uris))
  BY <1>1, <1>2, <1>6
<1>8. QED BY <1>1, <1>7

\* What a handler reads off a certificate is one of the identities meant by it, or
\* nothing, unless one of that kind has an empty last name or is not plain.
LEMMA CertificateWasMeant ==
  ASSUME NEW ids \in Seq(Identities), NEW asked \in Kinds
  PROVE  LET found == IdentityFromCertificate(parseURIs(URIsOf(ids)), asked)
         IN  \/ found = NoIdentity
             \/ found \in {Readable(id) : id \in Elements(ids)}
             \/ \E id \in Elements(ids) : id.kind = asked /\ (Nameless(id) \/ Unplain(id))
<1> DEFINE clean == cleanURIs(URIsOf(ids))
           uris == parseURIs(URIsOf(ids))
           found == IdentityFromCertificate(uris, asked)
           hits == {k \in DOMAIN uris : ReadAs(uris[k], asked) # NoIdentity}
           URIs == {URIsOf(ids)[k] : k \in DOMAIN URIsOf(ids)}
<1>1. /\ Len(ids) \in Nat /\ DOMAIN ids = 1..Len(ids) /\ \A k \in DOMAIN ids : ids[k] \in Identities
  OBVIOUS
<1>2. DOMAIN URIsOf(ids) = DOMAIN ids /\ \A k \in DOMAIN ids : URIsOf(ids)[k] = URIOf(ids[k])
  BY DEF URIsOf
<1>3. URIsOf(ids) = [k \in 1..Len(ids) |-> URIOf(ids[k])]
  BY <1>1 DEF URIsOf
<1>4. URIsOf(ids) \in Seq(URIs)
  <2>1. \A k \in 1..Len(ids) : URIOf(ids[k]) \in URIs
    BY <1>1, <1>2
  <2> HIDE DEF URIs
  <2>2. QED BY <1>1, <1>3, <2>1
<1>5. /\ DOMAIN uris \in SUBSET Nat
      /\ \A k \in DOMAIN uris : \E j \in DOMAIN ids : uris[k] = urlParse(trimURI(URIOf(ids[j])))
  <2>1. /\ DOMAIN clean \in SUBSET Nat
        /\ \A k \in DOMAIN clean : \E j \in DOMAIN URIsOf(ids) : clean[k] = trimURI(URIsOf(ids)[j])
    BY <1>4, CleanedFrom, Zenon
  <2>2. uris = [k \in DOMAIN clean |-> urlParse(clean[k])]
    BY Zenon DEF parseURIs
  <2> HIDE DEF clean, uris
  <2>3. DOMAIN uris = DOMAIN clean /\ \A k \in DOMAIN clean : uris[k] = urlParse(clean[k])
    BY <2>2
  <2>4. ASSUME NEW k \in DOMAIN uris
        PROVE  \E j \in DOMAIN ids : uris[k] = urlParse(trimURI(URIOf(ids[j])))
    <3>1. PICK j \in DOMAIN URIsOf(ids) : clean[k] = trimURI(URIsOf(ids)[j])
      BY <2>1, <2>3
    <3>2. j \in DOMAIN ids /\ URIsOf(ids)[j] = URIOf(ids[j])
      BY <1>2, <3>1
    <3>3. uris[k] = urlParse(trimURI(URIOf(ids[j])))
      BY <2>3, <3>1, <3>2
    <3>4. QED BY <3>2, <3>3
  <2>5. QED BY <2>1, <2>3, <2>4
<1>6. found = IF hits = {} THEN NoIdentity ELSE ReadAs(uris[Min(hits)], asked)
  BY Zenon DEF IdentityFromCertificate, ReadAs
<1> HIDE DEF clean, uris, URIs, found
<1>7. DOMAIN uris \in SUBSET Nat
  BY <1>5
<1>8. CASE hits # {}
  <2>1. hits \in SUBSET Nat
    BY <1>7
  <2>2. Min(hits) \in hits
    BY <1>8, <2>1, MinIsLeast, Zenon
  <2>3. PICK k \in DOMAIN uris : k = Min(hits) /\ ReadAs(uris[k], asked) # NoIdentity
    BY <2>2, Zenon
  <2>4. PICK j \in DOMAIN ids : uris[k] = urlParse(trimURI(URIOf(ids[j])))
    BY <1>5, Zenon
  <2>5. ids[j] \in Identities /\ ids[j] \in Elements(ids)
    BY <1>1 DEF Elements
  <2>6. found = ReadAs(urlParse(trimURI(URIOf(ids[j]))), asked)
    BY <1>6, <1>8, <2>3, <2>4, Zenon
  <2>7. found = Readable(ids[j]) \/ (ids[j].kind = asked /\ (Nameless(ids[j]) \/ Unplain(ids[j])))
    BY <2>3, <2>4, <2>5, <2>6, URIWasMeant, ZenonT(30)
  <2>8. QED BY <2>5, <2>7, Zenon DEF found, uris
<1>9. QED BY <1>6, <1>8, Zenon DEF found, uris

-----------------------------------------------------------------------------
(* Admissions and checks *)

\* A step that concludes nothing.
LEMMA NothingSaid ==
  ASSUME last' = Nothing
  PROVE  AdmittedIdentityWasMeant' /\ AdmissionsObeyTheirList' /\ ChecksPredictService'
<1>1. last'.what = "nothing"
  BY DEF Nothing
<1>2. QED BY <1>1 DEF AdmittedIdentityWasMeant, AdmissionsObeyTheirList, ChecksPredictService

\* An admission under a list that vouches for the leaf.
LEMMA AdmittedObeys ==
  ASSUME NEW session, NEW resumed, last' = Admitted(session, resumed), Vouched(session),
         now <= session.leaf.cert.until, UNCHANGED << now, server, crlFile >>,
         server.crl => resumed \/ session.list = crlFile
  PROVE  AdmissionsObeyTheirList' /\ ChecksPredictService'
<1>1. /\ last'.what = "admitted" /\ last'.leaf = session.leaf /\ last'.list = session.list
      /\ last'.resumed = resumed
  BY SMTT(30) DEF Admitted
<1>2. ChecksPredictService'
  BY <1>1 DEF ChecksPredictService
<1>3. AdmissionsObeyTheirList'
  BY <1>1, Zenon DEF AdmissionsObeyTheirList, Vouched
<1>4. QED BY <1>2, <1>3, SMTT(30)

\* A full handshake obeys the list in force.
LEMMA ConnectObeys ==
  ASSUME NEW leaf, NEW csr, NEW roots, Connect(leaf, csr, roots)
  PROVE  AdmissionsObeyTheirList' /\ ChecksPredictService'
<1>1. /\ UNCHANGED << now, server, crlFile >>
      /\ \/ last' = Nothing \/ last' = [what |-> "anonymous"]
         \/ last' = Admitted(Opened(leaf), FALSE) /\ ServerAccepts(leaf.cert)
  BY Handshake, Zenon
<1>2. CASE last' = Nothing
  BY <1>2, NothingSaid
<1>3. CASE last' = [what |-> "anonymous"]
  <2>1. last'.what = "anonymous"
    BY <1>3
  <2>2. QED BY <2>1 DEF AdmissionsObeyTheirList, ChecksPredictService
<1>4. CASE last' = Admitted(Opened(leaf), FALSE) /\ ServerAccepts(leaf.cert)
  <2>1. /\ Opened(leaf).leaf = leaf /\ Vouched(Opened(leaf))
        /\ server.crl => Opened(leaf).list = crlFile
        /\ now <= leaf.cert.until
    BY <1>4, OpenedIsVouched
  <2>2. QED BY <1>1, <1>4, <2>1, AdmittedObeys, Zenon
<1>5. QED BY <1>1, <1>2, <1>3, <1>4

\* A resumed session obeys the list it was let in under.
LEMMA ResumeObeys ==
  ASSUME TLSInv, NEW session \in tickets, Resume(session)
  PROVE  AdmissionsObeyTheirList' /\ ChecksPredictService'
<1>1. /\ last' = Admitted(session, TRUE) /\ now <= session.leaf.cert.until
      /\ UNCHANGED << now, server, crlFile >>
  BY Zenon DEF Resume
<1>2. Vouched(session)
  BY DEF TLSInv
<1>3. QED BY <1>1, <1>2, AdmittedObeys, Zenon

\* A certificate inside a rotation window is valid throughout it.
LEMMA ValidInWindow ==
  ASSUME NEW cert, cert.from \in Int, cert.until \in Int, NEW at \in Nat, NEW window \in Windows,
         cert.from <= at, at < cert.until, window > 0 => at + window <= cert.until
  PROVE  \A t \in at..(at + window) : ValidAt(cert, t)
BY TLSAssumption DEF ValidAt

\* What CheckCertificateMaterial accepts is served.
LEMMA CheckPredicts ==
  ASSUME TLSInv, NEW pair \in ServerPairs, NEW pool, NEW window \in Windows,
         CheckServerMaterial(pair, pool, window)
  PROVE  AdmittedIdentityWasMeant' /\ AdmissionsObeyTheirList' /\ ChecksPredictService'
<1> DEFINE checked == [what |-> "checked", cert |-> pair.cert, key |-> pair.key, pool |-> pool,
                       until |-> now + window]
<1>1. UNCHANGED << now, server, crlFile >>
  BY DEF CheckServerMaterial
<1>2. \/ last' = Nothing
      \/ /\ last' = checked
         /\ CheckCertificateMaterial("server", pair.cert, pair.key, pool, ServerName, window, now)
  BY Zenon DEF CheckServerMaterial
<1>3. CASE last' = Nothing
  BY <1>3, NothingSaid, SMTT(30)
<1>4. CASE /\ last' = checked
           /\ CheckCertificateMaterial("server", pair.cert, pair.key, pool, ServerName, window, now)
  <2>1. /\ last'.what = "checked" /\ last'.cert = pair.cert /\ last'.key = pair.key
        /\ last'.pool = pool /\ last'.until = now + window
    BY <1>4
  <2> HIDE DEF checked
  <2>2. /\ LoadX509KeyPair(pair.cert, pair.key) /\ pool # {}
        /\ pair.cert.from <= now /\ now < pair.cert.until
        /\ window > 0 => now + window <= pair.cert.until
    BY <1>4, ZenonT(30) DEF CheckCertificateMaterial
  <2>3. \A t \in now..(now + window) : ValidAt(pair.cert, t)
    BY <2>2, ValidInWindow, TLSAssumption DEF TLSInv
  <2>4. ServerTransportCredentials([cert |-> pair.cert, key |-> pair.key], pool, FALSE) # Down
    <3> DEFINE files == [cert |-> pair.cert, key |-> pair.key]
               mtls == [mode |-> "mtls", pair |-> files, pool |-> pool, crl |-> FALSE]
    <3>1. files.cert = pair.cert /\ files.key = pair.key
      OBVIOUS
    <3> HIDE DEF files
    <3>2. ServerTransportCredentials(files, pool, FALSE) = mtls
      BY <2>2, <3>1 DEF ServerTransportCredentials
    <3>3. mtls.mode = "mtls" /\ Down.mode = "down"
      BY Zenon DEF Down
    <3> HIDE DEF mtls
    <3>4. ServerTransportCredentials(files, pool, FALSE) # Down
      BY <3>2, <3>3, Zenon
    <3>5. QED BY <3>4, ZenonT(30) DEF files
  <2>5. ChecksPredictService'
    BY <1>1, <2>1, <2>2, <2>3, <2>4, Zenon DEF ChecksPredictService
  <2>6. QED BY <2>1, <2>5 DEF AdmittedIdentityWasMeant, AdmissionsObeyTheirList
<1>5. QED BY <1>2, <1>3, <1>4

\* What VerifyIssuedCertificateForCSR accepts verifies within its window.
LEMMA VerifyPredicts ==
  ASSUME TLSInv, NEW leaf \in leaves, NEW csr \in csrs, NEW pool, NEW window \in Windows,
         VerifyIssued(leaf, csr, pool, window)
  PROVE  AdmittedIdentityWasMeant' /\ AdmissionsObeyTheirList' /\ ChecksPredictService'
<1> DEFINE cert == leaf.cert
           verified == [what |-> "verified", cert |-> cert, key |-> csr.key, pool |-> pool,
                        until |-> now + window]
<1>1. UNCHANGED << now, server, crlFile >>
  BY DEF VerifyIssued
<1>2. \/ last' = Nothing
      \/ /\ last' = verified
         /\ VerifyIssuedCertificateForCSR("client", cert, csr, TRUE, pool, window, now)
  BY Zenon DEF VerifyIssued
<1>3. CASE last' = Nothing
  BY <1>3, NothingSaid, ZenonT(30)
<1>4. CASE /\ last' = verified
           /\ VerifyIssuedCertificateForCSR("client", cert, csr, TRUE, pool, window, now)
  <2>1. /\ last'.what = "verified" /\ last'.cert = cert /\ last'.key = csr.key
        /\ last'.pool = pool /\ last'.until = now + window
    BY <1>4
  <2> HIDE DEF verified
  <2>2. /\ cert # NoCert /\ cert.key = csr.key
        /\ cert.from <= now /\ now < cert.until
        /\ window > 0 => now + window <= cert.until
        /\ verifyCertificateChain(pool, cert, "client", now)
    BY <1>4, ZenonT(30) DEF VerifyIssuedCertificateForCSR
  <2>3. cert.from \in Int /\ cert.until \in Int /\ now \in Nat /\ csr.key # NoKey
    BY DEF TLSInv
  <2> HIDE DEF cert
  <2>4. \A t \in now..(now + window) : ValidAt(cert, t)
    BY <2>2, <2>3, ValidInWindow, Zenon
  <2>5. LoadX509KeyPair(cert, csr.key)
    BY <2>2, <2>3, Zenon DEF LoadX509KeyPair
  <2>6. ASSUME NEW t \in now..(now + window)
        PROVE  \/ verifyCertificateChain(pool, cert, "client", t)
               \/ \E ca \in pool : ca.key = cert.signer /\ ~ValidAt(ca, t)
    <3>1. pool # {} /\ Chains(cert, pool, now) # {} /\ AllowsUsage(cert, "client") /\ ValidAt(cert, t)
      BY <2>2, <2>4, Zenon DEF verifyCertificateChain
    <3>2. CASE cert \in pool
      <4>1. <<cert>> \in Chains(cert, pool, t)
        BY <3>1, <3>2, Zenon DEF Chains
      <4>2. QED BY <3>1, <4>1, NotEmpty, Zenon DEF verifyCertificateChain
    <3>3. CASE cert \notin pool
      <4> DEFINE issuers(at) == {c \in pool : c.isCA /\ c.key = cert.signer /\ ValidAt(c, at)}
      <4>1. Chains(cert, pool, now) = {} \/ Chains(cert, pool, now) = {<<cert, ca>> : ca \in issuers(now)}
        BY <3>3 DEF Chains
      <4>2. PICK ca \in issuers(now) : TRUE
        BY <3>1, <4>1, Zenon
      <4>3. CASE ValidAt(ca, t)
        <5>1. ca \in issuers(t)
          BY <4>2, <4>3, Zenon
        <5>2. <<cert, ca>> \in Chains(cert, pool, t)
          BY <3>1, <3>3, <5>1, Zenon DEF Chains
        <5>3. QED BY <3>1, <5>2, NotEmpty, Zenon DEF verifyCertificateChain
      <4>4. CASE ~ValidAt(ca, t)
        BY <4>2, <4>4, Zenon
      <4>5. QED BY <4>3, <4>4, Zenon
    <3>4. QED BY <3>2, <3>3
  <2>7. ChecksPredictService'
    BY <1>1, <2>1, <2>4, <2>5, <2>6, Zenon DEF ChecksPredictService
  <2>8. QED BY <2>1, <2>7 DEF AdmittedIdentityWasMeant, AdmissionsObeyTheirList
<1>5. QED BY <1>2, <1>3, <1>4, Zenon

\* A leaf that was signed for identities is read as one of them.
LEMMA AdmittedReads ==
  ASSUME TLSInv, NEW session, session.leaf \in leaves, NEW resumed, last' = Admitted(session, resumed)
  PROVE  AdmittedIdentityWasMeant'
<1> DEFINE leaf == session.leaf
           as == [k \in Kinds |-> IdentityFromCertificate(leaf.cert.uris, k)]
<1>1. last'.what = "admitted" /\ last'.leaf = leaf /\ last'.as = as
  BY DEF Admitted, Kinds
<1>2. leaf.ids \in Seq(Identities) /\ leaf.cert.uris = parseURIs(URIsOf(leaf.ids))
  BY DEF TLSInv
<1>3. DOMAIN as = Kinds
  OBVIOUS
<1>4. ASSUME NEW k \in Kinds
      PROVE  \/ as[k] = NoIdentity
             \/ as[k] \in {Readable(id) : id \in Elements(leaf.ids)}
             \/ \E id \in Elements(leaf.ids) : id.kind = k /\ (Nameless(id) \/ Unplain(id))
  <2>1. as[k] = IdentityFromCertificate(parseURIs(URIsOf(leaf.ids)), k)
    BY <1>2
  <2> HIDE DEF as, leaf
  <2>2. QED BY <1>2, <2>1, CertificateWasMeant, Zenon
<1> HIDE DEF as, leaf
<1>5. QED BY <1>1, <1>3, <1>4, Zenon DEF AdmittedIdentityWasMeant

\* So whoever connects, and whoever resumes.
LEMMA ConnectReads ==
  ASSUME TLSInv, NEW leaf \in leaves, NEW csr, NEW roots, Connect(leaf, csr, roots)
  PROVE  AdmittedIdentityWasMeant'
<1>1. \/ last' = Nothing \/ last' = [what |-> "anonymous"]
      \/ last' = Admitted(Opened(leaf), FALSE)
  BY Handshake, Zenon
<1>2. CASE last' = Nothing
  BY <1>2, NothingSaid
<1>3. CASE last' = [what |-> "anonymous"]
  <2>1. last'.what = "anonymous"
    BY <1>3
  <2>2. QED BY <2>1 DEF AdmittedIdentityWasMeant
<1>4. CASE last' = Admitted(Opened(leaf), FALSE)
  <2>1. Opened(leaf).leaf = leaf
    BY DEF Opened
  <2>2. QED BY <1>4, <2>1, AdmittedReads, Zenon
<1>5. QED BY <1>1, <1>2, <1>3, <1>4

Concluded == AdmittedIdentityWasMeant /\ AdmissionsObeyTheirList /\ ChecksPredictService

\* What each step concludes is right.
LEMMA ConclusionsHold == TLSSpec => []Concluded
<1>1. TLSInit => Concluded
  <2> SUFFICES ASSUME TLSInit PROVE Concluded
    OBVIOUS
  <2>1. last.what = "nothing"
    BY DEF TLSInit, Nothing
  <2>2. QED BY <2>1 DEF Concluded, AdmittedIdentityWasMeant, AdmissionsObeyTheirList, ChecksPredictService
<1>2. TLSInv /\ Concluded /\ [TLSNext]_tlsVars => Concluded'
  <2> SUFFICES ASSUME TLSInv, Concluded, [TLSNext]_tlsVars PROVE Concluded'
    OBVIOUS
  <2>1. CASE last' = Nothing
    BY <2>1, NothingSaid DEF Concluded
  <2>2. CASE UNCHANGED tlsVars
    BY <2>2, Zenon DEF tlsVars, Concluded, AdmittedIdentityWasMeant, AdmissionsObeyTheirList, ChecksPredictService
  <2>3. ASSUME NEW input, MakeCSR(input) PROVE Concluded'
    BY <2>1, <2>3, Zenon DEF MakeCSR
  <2>4. ASSUME NEW csr, NEW damaged, NEW input, NEW ca, SignCSR(csr, damaged, input, ca)
        PROVE  Concluded'
    BY <2>1, <2>4, Zenon DEF SignCSR
  <2>5. ASSUME NEW credentials, StartServer(credentials) PROVE Concluded'
    BY <2>1, <2>5, Zenon DEF StartServer
  <2>6. ASSUME NEW list, ReplaceCRL(list) PROVE Concluded'
    BY <2>1, <2>6, Zenon DEF ReplaceCRL
  <2>7. CASE Tick
    BY <2>1, <2>7, Zenon DEF Tick
  <2>8. ASSUME NEW leaf \in leaves, NEW csr, NEW pool, Connect(leaf, csr, pool) PROVE Concluded'
    BY <2>8, ConnectReads, ConnectObeys, Zenon DEF Concluded
  <2>9. ASSUME NEW pair \in ServerPairs, NEW pool, NEW window \in Windows,
               CheckServerMaterial(pair, pool, window)
        PROVE  Concluded'
    BY <2>9, CheckPredicts, Zenon DEF Concluded
  <2>10. ASSUME NEW leaf \in leaves, NEW csr \in csrs, NEW pool, NEW window \in Windows,
                VerifyIssued(leaf, csr, pool, window)
         PROVE  Concluded'
    BY <2>10, VerifyPredicts, Zenon DEF Concluded
  <2>11. ASSUME NEW session \in tickets, Resume(session) PROVE Concluded'
    <3>1. session.leaf \in leaves /\ last' = Admitted(session, TRUE)
      BY <2>11, Zenon DEF TLSInv, Resume
    <3>2. QED BY <2>11, <3>1, AdmittedReads, ResumeObeys, Zenon DEF Concluded
  <2>12. CASE TLSNext
    BY <2>3, <2>4, <2>5, <2>6, <2>7, <2>8, <2>9, <2>10, <2>11, <2>12, Zenon DEF TLSNext
  <2>13. QED BY <2>2, <2>12
<1>3. QED BY <1>1, <1>2, TLSInvariant, PTL DEF TLSSpec

\* Whoever IdentityFromCertificate (identity.go) says the peer is, the authority
\* that signed the peer's certificate meant it to be, for names of any length
\* with slashes and blanks anywhere, and for every gateway.  Or the peer is an
\* agent or a runtime whose last name is empty, or that has a question mark, a
\* hash or a percent escape in a name.
THEOREM AdmittedIdentityWasMeantAlways == TLSSpec => []AdmittedIdentityWasMeant
<1>1. Concluded => AdmittedIdentityWasMeant
  BY DEF Concluded
<1>2. QED BY <1>1, ConclusionsHold, PTL

\* With a CRL configured, every peer was let in, by VerifyPeerCertificate (tls.go)
\* of the server that is running, under a readable list that did not name it and
\* that its own issuer signed, unless the leaf itself is in the server's pool;
\* at a full handshake that list is the one in force, and a resumed session
\* lasts at most as long as the leaf.
THEOREM AdmissionsObeyTheirListAlways == TLSSpec => []AdmissionsObeyTheirList
<1>1. Concluded => AdmissionsObeyTheirList
  BY DEF Concluded
<1>2. QED BY <1>1, ConclusionsHold, PTL

\* What CheckCertificateMaterial and VerifyIssuedCertificateForCSR accept loads
\* and verifies for as long as the window they checked.
THEOREM ChecksPredictServiceAlways == TLSSpec => []ChecksPredictService
<1>1. Concluded => ChecksPredictService
  BY DEF Concluded
<1>2. QED BY <1>1, ConclusionsHold, PTL

=============================================================================

------------------------------ MODULE Primitives ------------------------------
(***************************************************************************)
(* Hashes, signatures and maps, as every package of the repository uses    *)
(* them.  crypto/sha256 is a perfect hash.  crypto/ed25519 is perfect too: *)
(* a signature is the public key it verifies under together with the exact *)
(* content that was signed, and only the holder of the private half makes  *)
(* one.                                                                    *)
(***************************************************************************)
EXTENDS Integers

\* A digest is a tuple holding what was hashed; the empty string, "no hash",
\* is the empty tuple.
Digest(content) == <<content>>
NoHash == <<>>

Ed25519Sign(key, content) == [by |-> key, over |-> content]
NoSig == [by |-> "", over |-> NoHash]

\* The Go map f after f[k] = v.
MapPut(f, k, v) == [x \in DOMAIN f \cup {k} |-> IF x = k THEN v ELSE f[x]]

=============================================================================

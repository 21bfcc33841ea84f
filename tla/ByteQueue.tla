------------------------------ MODULE ByteQueue ------------------------------
(***************************************************************************)
(* What a Buffer promises: bytes come out in the order they went in, each  *)
(* once.  Buffer.tla keeps such a queue in a vector with two indices.      *)
(***************************************************************************)
EXTENDS Naturals, Sequences

VARIABLE content

Init == content = << >>

\* Bytes are added behind those that are there, or in front of them.
Put(m)     == content' = content \o m
PutBack(m) == content' = m \o content

\* The oldest n bytes are taken.
Take(n) == content' = SubSeq(content, n + 1, Len(content))
=============================================================================

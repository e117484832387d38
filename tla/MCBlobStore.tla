------------------------------ MODULE MCBlobStore ------------------------------
(* Small instances of BlobStore.                                           *)
EXTENDS BlobStore, TLC

CONSTANTS h1, h2, d1, u1, u2

\* Hashes and documents are compared only for equality, and so are uploads.
Symmetric == Permutations({h1, h2}) \cup Permutations({u1, u2})
=============================================================================

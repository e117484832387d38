---------------------------- MODULE MCPairedSession ----------------------------
(* PairedSession for TLC: handshakes and bodies are interchangeable.       *)
EXTENDS PairedSession, TLC

CONSTANT MaxFrames  \* bound: frames sealed, over all sessions

FewFrames == Cardinality({m \in wire : m.kind = "frame"}) <= MaxFrames

Symmetry == Permutations(Handshakes) \cup Permutations(Bodies)
=============================================================================

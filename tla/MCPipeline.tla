----------------------------- MODULE MCPipeline -----------------------------
(* Small instances of Pipeline for TLC: threads t1 and t2, synchronous     *)
(* requests s1 and s2, asynchronous requests a1 and a2.                    *)
EXTENDS Pipeline, TLC

CONSTANTS t1, t2, s1, s2, a1, a2

MCSymmetry == Permutations({t1, t2}) \union Permutations({a1, a2})
=============================================================================

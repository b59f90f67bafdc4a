--------------------------- MODULE MCBackendPool ---------------------------
(***************************************************************************)
(* Instances of BackendPool: a stream, a generation and a batch of two, or *)
(* some of them, as the name says.  The callers of close are symmetric.    *)
(***************************************************************************)
EXTENDS BackendPool, TLC

CONSTANTS gen1, stream1, batch1

MCKind == [o \in Ops |-> CASE o = stream1 -> "stream"
                           [] o = batch1 -> "batch"
                           [] OTHER -> "generate"]
MCWeight == [o \in Ops |-> IF o = batch1 THEN 2 ELSE 1]
Symmetry == Permutations(Closers)
=============================================================================

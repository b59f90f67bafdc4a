----------------------------- MODULE MCBatcher -----------------------------
(***************************************************************************)
(* An instance of Batcher for TLC.                                         *)
(***************************************************************************)
EXTENDS Batcher

CONSTANTS ka, kb, k1, k2, l1, p, q, r

\* Two items of one key, which fill a batch or follow each other in two, and
\* one item of another key.
MCKeys == {ka, kb}
MCItems == {k1, k2, l1}
MCKeyOf == (k1 :> ka) @@ (k2 :> ka) @@ (l1 :> kb)
MCBatches == {p, q, r}
=============================================================================

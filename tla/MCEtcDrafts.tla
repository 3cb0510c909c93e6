---------------------------- MODULE MCEtcDrafts ----------------------------
(* A batch with a few attempts at its draft. *)
EXTENDS EtcDrafts, TLC

Interchangeable == Permutations(Keys) \cup Permutations(Rows)
============================================================================

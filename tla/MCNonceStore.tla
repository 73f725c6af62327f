--------------------------- MODULE MCNonceStore ---------------------------
(* Instance of NonceStore for TLC.                                         *)
EXTENDS NonceStore, TLC

Symmetry == Permutations(Request) \cup Permutations(Handler)
=============================================================================

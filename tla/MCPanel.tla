------------------------------ MODULE MCPanel ------------------------------
(* One point each for what the screens share: WAKE and CANCEL, a power     *)
(* button and OK, the clock, BACK and CANCEL, and nothing at all.          *)
EXTENDS Panel

MCPoint == {[x |-> 50, y |-> 190], [x |-> 250, y |-> 190], [x |-> 100, y |-> 160], [x |-> 5, y |-> 5]}
=============================================================================

---------------------------- MODULE MCOtaUpdate ----------------------------
(* Four images: two that work, one that crashes and one that never gets    *)
(* online.  The crashing one has the size of a working one.                *)
(* The first image's own version, V(1), is not served any more.            *)
EXTENDS OtaUpdate

CONSTANTS first, second, crashing, offline

V(n) == [parts |-> <<0, n, 0>>, suffix |-> ""]
MCUnknown == [parts |-> <<Junk>>, suffix |-> ""]
MCVersion == {V(2), MCUnknown}
MCImage == {first, second, crashing, offline}
MCSize == [i \in MCImage |-> IF i = offline THEN 3 ELSE 2]
MCVersionOf == [i \in MCImage |-> IF i = first THEN V(1) ELSE V(2)]
MCHealth == [i \in MCImage |-> IF i = crashing THEN "crashes"
                               ELSE IF i = offline THEN "offline" ELSE "works"]
=============================================================================

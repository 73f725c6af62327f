----------------------------- MODULE MCNotifier -----------------------------
(* The bridge offers what runs, a newer and a still newer version, and one *)
(* that cannot be compared.                                                *)
EXTENDS Notifier

V(n) == [parts |-> <<0, n, 0>>, suffix |-> ""]
MCCurrent == V(0)
MCVersion == {V(1), V(2), [parts |-> <<Junk>>, suffix |-> ""]}
=============================================================================

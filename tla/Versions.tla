------------------------------ MODULE Versions ------------------------------
(***************************************************************************)
(* Versions of the firmware as pc-remote-signing compares them.            *)
(*                                                                         *)
(* A version is a text; what the comparison tells apart is the sequence of *)
(* its dotted parts and what follows the first '-' or '+'.  A part that is *)
(* not a number of 64 bits is Junk; so is the only part of "unknown".      *)
(***************************************************************************)
EXTENDS Integers, Sequences

CONSTANT MaxPart  \* the largest part that can be read: 2^64 - 1 in the code

ASSUME MaxPartAssumption == MaxPart \in Nat

Junk == -1

\* The numbers of a version are known only if it has exactly three.
SplitVersion(text) ==
    /\ Len(text.parts) = 3
    /\ \A k \in 1..3 : text.parts[k] \in 0..MaxPart

\* [u64; 3]::cmp is lexicographic.
Less(a, b) ==
    \E k \in 1..3 : a[k] < b[k] /\ \A j \in 1..3 : j < k => a[j] = b[j]

\* The same numbers with another suffix are neither newer nor the same.
CompareVersions(current, offered) ==
    IF ~(SplitVersion(current) /\ SplitVersion(offered)) THEN "Unknown"
    ELSE IF Less(current.parts, offered.parts) THEN "Newer"
    ELSE IF Less(offered.parts, current.parts) THEN "Older"
    ELSE IF current.suffix = offered.suffix THEN "Same" ELSE "Unknown"

ShowsConfirmButton(order) == order # "Same"
=============================================================================

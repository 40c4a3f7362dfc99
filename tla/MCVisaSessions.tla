--------------------------- MODULE MCVisaSessions ---------------------------
(* Small instances of VisaSessions: two applications, one instrument of a  *)
(* finder and one resource string no finder matches.                       *)
EXTENDS VisaSessions, TLC

CONSTANTS a1, a2, usb1, tcp1, none1

MCKindOf == [r \in Resources |->
                CASE r = usb1 -> "usb" [] r = tcp1 -> "tcp" [] OTHER -> "none"]

Symmetry == Permutations(Apps)

\* Bound: no state is followed up in which two grants are given up at a time.
MaxGivenUp == Cardinality(orphans) <= 1
=============================================================================

--------------------------- MODULE MCHarnessCore ---------------------------
(* HarnessCore on small instances; any two session ids are alike. *)
EXTENDS HarnessCore, TLC

Symmetry == Permutations(Sids)

\* Every prompt and every reply holds a line separator.
MCSeparated == Message
============================================================================

-------------------------------- MODULE Scan --------------------------------
(* Tables of slots 1 .. n that the code scans from the first slot on.        *)
EXTENDS Naturals

\* Where a scan for a slot of s ends: the one first slot of s, if there is one.
First(s) == {i \in s : \A j \in s : i <= j}
=============================================================================

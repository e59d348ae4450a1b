---- MODULE MCLocalFiles ----
(* Two processes and one finding; triage alone, and the archive alone. *)
EXTENDS LocalFiles, TLC
MCConfigs == {[triage |-> TRUE, archive |-> FALSE], [triage |-> FALSE, archive |-> TRUE]}
\* Neither processes nor bases are told apart
MCSymmetry == Permutations(Procs) \cup Permutations(Bases)
====

------------------------------ MODULE MCLinux ------------------------------
(***************************************************************************)
(* LinuxContainer for TLC: commands and containers are interchangeable.    *)
(***************************************************************************)
EXTENDS LinuxContainer, TLC

MCSymmetry == Permutations(Procs) \cup Permutations(Containers)
=============================================================================

----------------------------- MODULE MCStaging -----------------------------
(* Values for TLC of the constants of Staging that are sequences.            *)
EXTENDS Staging

MCFiles == <<"pwsh.exe", "pwsh.dll">>
MCReleases == <<<<7, 4, 1, 0>>, <<7, 10, 0, 0>>>>
MCSymmetry == Permutations(Procs)
=============================================================================

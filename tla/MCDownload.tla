----------------------------- MODULE MCDownload -----------------------------
(* Two lpac processes, each a download or a discovery, at one eUICC.        *)
EXTENDS Download, TLC
Interchangeable == Permutations(Procs)
=============================================================================

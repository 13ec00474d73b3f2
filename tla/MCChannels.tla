----------------------------- MODULE MCChannels -----------------------------
(* Channels for TLC: the processes are interchangeable.                    *)
EXTENDS Channels, TLC

Interchangeable == Permutations(Procs)
=============================================================================

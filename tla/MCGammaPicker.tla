---------------------------- MODULE MCGammaPicker ----------------------------
(* Constant values for the TLC runs of GammaPicker.                        *)
EXTENDS GammaPicker

\* Every vector of up to five offsets, sorted or not.
MCOffsets == UNION {[1 .. n -> 0 .. 3] : n \in 0 .. 5}

\* The full chain, a pre-fork and a post-fork range, and one past the outputs.
MCRanges == {<<0, 3>>, <<0, 1>>, <<1, 3>>, <<0, Word - 1>>}

\* Ages up to the unlock time behave alike; beyond it, one per tick until the
\* oldest output of the longest vector.
MCAges == {0} \cup (5 .. 12)
=============================================================================

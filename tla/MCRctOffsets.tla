---------------------------- MODULE MCRctOffsets ----------------------------
(* Constant values for the TLC runs of RctOffsets.                         *)
EXTENDS RctOffsets

\* A network whose RingCT outputs start at height 2: no outputs in blocks 0
\* and 1.  The last chain is too short to have any.
MCFirstChains == {<<0, 0, 1, 1, 3, 4, 5>>, <<0, 0, 2, 3, 3, 5>>, <<0, 0>>}
MCBlockOutputs == {0, 2}
=============================================================================

----------------------------- MODULE MCDecoyTool -----------------------------
(* Constant values for the TLC run of DecoyTool.                           *)
EXTENDS DecoyTool

\* A miner's output in each block, but for the empty ones.  With SpendableAge 2
\* the first two chains have the four eligible outputs of NumOuts, the last one
\* has two (and would have four if the newest block counted).
MCChains == {<<1, 2, 4, 5>>, <<0, 3, 3, 4, 6>>, <<1, 2, 2, 4>>}
MCBlockOutputs == {2}
MCSources == <<2, 0>>
MCPickable == 0 .. NumOuts - 1
MCNever == {FALSE}
MCNoTill == {0}
=============================================================================

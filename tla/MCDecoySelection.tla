-------------------------- MODULE MCDecoySelection --------------------------
(* Constant values for the TLC runs of DecoySelection.                     *)
EXTENDS DecoySelection

\* One real output in the middle of the chain.
MCOneSource == <<2>>

\* An old real output, and one past the outputs that can be picked (NumOuts is 5):
\* a real output that is still locked, which the code only warns of.
MCTwoSources == <<1, 5>>

\* Every output can be picked, and all but one.
MCAllPickable == 0 .. NumOuts - 1
MCAllButOne == (0 .. NumOuts - 1) \ {3}

\* till_fork inside the chain, and past its unlocked outputs.
MCTillForks == {0, 2, NumOuts + 1}
MCTillOne == {1}
MCTillTwo == {2}

MCBoth == BOOLEAN
MCNeverPast == {FALSE}
MCPast == {TRUE}
=============================================================================

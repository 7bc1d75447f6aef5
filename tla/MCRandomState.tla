--------------------------- MODULE MCRandomState ---------------------------
(***************************************************************************)
(* Constant values for the TLC runs of RandomState and Hashing.  The two   *)
(* share no variable, so one of them moves while the other is at rest: no  *)
(* order of their steps is lost.                                           *)
(***************************************************************************)
EXTENDS RandomState, Hashing

CONSTANTS t1, t2

MCThreads == {t1, t2}
MCSymmetry == Permutations(MCThreads)

MCInit == Init /\ HashInit
MCNext ==
  \/ Next /\ ctx = Context /\ input = Nothing /\ UNCHANGED hashVars
  \/ HashNext /\ Init /\ UNCHANGED vars
  \/ input # Nothing /\ UNCHANGED <<vars, hashVars>>
MCSpec == MCInit /\ [][MCNext]_<<vars, hashVars>>
=============================================================================

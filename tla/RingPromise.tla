----------------------------- MODULE RingPromise -----------------------------
(***************************************************************************)
(* What decoy_tool promises its user, without how it gets there: for each  *)
(* real output, in the order given, a set of NumDecoys other outputs is    *)
(* settled once and for all; the rings are published together, only when   *)
(* every source has one; and a run that cannot do so publishes nothing and *)
(* does not end as a success.                                              *)
(***************************************************************************)
EXTENDS Integers, Sequences, FiniteSets, FiniteSetsExt

CONSTANTS
  Sources,    \* the real outputs, in order
  Outputs,    \* the outputs of the chain that may serve as decoys
  NumDecoys   \* decoys of a ring

VARIABLES
  chosen,     \* the decoy set of each source settled so far
  published,  \* the decoy sets a reader of ring.json finds there
  outcome     \* "running", "success" or "failure"

Init == chosen = <<>> /\ published = <<>> /\ outcome = "running"

DecoySets(real) == {D \in SUBSET Outputs : Cardinality(D) = NumDecoys /\ real \notin D}

\* The next source gets its decoys.
Choose ==
  /\ outcome = "running"
  /\ Len(chosen) < Len(Sources)
  /\ \E D \in DecoySets(Sources[Len(chosen) + 1]) : chosen' = Append(chosen, D)
  /\ UNCHANGED <<published, outcome>>

\* The run ends; all the rings are in the file, or none is.  Success is only
\* for a run that found decoys for every source.
Finish ==
  /\ outcome = "running"
  /\ outcome' \in {"success", "failure"}
  /\ outcome' = "success" => Len(chosen) = Len(Sources)
  /\ \/ published' = published
     \/ Len(chosen) = Len(Sources) /\ published' = chosen
  /\ UNCHANGED chosen

Next == Choose \/ Finish

Spec == Init /\ [][Next]_<<chosen, published, outcome>>
=============================================================================

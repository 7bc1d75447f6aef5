--------------------------- MODULE MCSegregation ---------------------------
(* Constant values for the TLC runs of Segregation.                        *)
EXTENDS Segregation

\* RingCT outputs from height 1 on; the chains end before, at and well after
\* each of the forks below.
MCFirstChains == {<<0, 1, 1, 3, 4, 5, 6, 7, 8>>, <<0, 2, 3, 3, 5>>, <<0, 0, 1, 2>>}
MCBlockOutputs == {0, 2}

\* The fork below RecentBlocks, with blocks before the first outputs in its window,
\* two that the window reaches, none (0 and the sentinel), and a negative one; in
\* front of and behind the other arguments, given twice, with each flag, and with
\* text behind the number, for a height and for a real index.
Arg(is, n) == [is |-> is, number |-> n]
Url == Arg("url", <<>>)
Fork(n) == Arg("--segregation-height=", <<n>>)
Reals == <<Url, Arg("index", <<0>>), Arg("index", <<2>>), Arg("index", <<1>>),
           Arg("index", <<3>>), Arg("index", <<6>>)>>
Flags == {<<>>, <<Arg("--no-segregate-pre-fork", <<>>)>>,
          <<Arg("--no-key-reuse-mitigation2", <<>>)>>,
          <<Arg("--no-key-reuse-mitigation2", <<>>), Arg("--no-segregate-pre-fork", <<>>)>>}
Mistyped == Arg("mistyped", <<>>)
MCOneFork == {<<Fork(3)>> \o Reals}
MCCommandLines ==
  {<<Arg("--segregation-height=", <<3, 0>>), Url, Arg("index", <<1, 3>>), Arg("index", <<0>>)>>,
   <<Fork(9)>> \o Reals \o <<Fork(2)>>,
   Reals, Reals \o <<Fork(-1)>>, <<Fork(2)>> \o Reals \o <<Fork(0)>>,
   <<Url>>, <<Fork(2), Url>>, <<Url, Arg("index", <<-5>>)>>, <<Url, Arg("index", <<>>)>>,
   <<Arg("--segregation-height=", <<>>)>> \o Reals, Reals \o <<Fork(Word)>>,
   <<Mistyped>> \o Reals, Reals \o <<Mistyped>>, <<Mistyped, Arg("index", <<2>>)>>} \cup
  {<<Fork(n)>> \o f \o Reals : n \in 1 .. 4, f \in Flags}
\* Values that need not be sorted or be a part of the chain; 63 is the largest.
MCWrongValues == BoundedSeq({0, 2, 63}, 5)
MCHonest == {TRUE}
MCBoth == BOOLEAN
=============================================================================

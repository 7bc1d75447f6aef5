----------------------------- MODULE CommandLine -----------------------------
(***************************************************************************)
(* How main() reads its arguments.  An argument is a record: "is" tells    *)
(* which option it is, or that it is none, and "number" has the numbers in *)
(* the text that std::stoull is given, negative ones included, if the text *)
(* begins with one, and is <<>> if it does not.  stoull reads the first    *)
(* and says nothing of what follows: "1234567,2345678" is                  *)
(* <<1234567, 2345678>>, "15OO000" begins with 15.                         *)
(***************************************************************************)
EXTENDS Uint64, Sequences, SequencesExt

CONSTANT Sentinel  \* SEGREGATION_FORK_HEIGHT_SENTINEL (99999999 in the code)

ASSUME SentinelAssumption == Sentinel \in 1 .. Word - 1

Options == {"--segregation-height=", "--no-segregate-pre-fork",
            "--no-key-reuse-mitigation2"}
\* (A mistyped option begins with -- and is no number.)
Argument == [is : Options \cup {"url", "index"}, number : Seq(Int)]
              \cup [is : {"mistyped"}, number : {<<>>}]

\* std::stoull: it throws when the text does not begin with a number or that is
\* too large, takes a minus sign for the negation of an unsigned number, and
\* leaves the rest of the text unread.
Readable(a) == a.number # <<>> /\ a.number[1] \in 1 - Word .. Word - 1
Stoull(a) == Wrap(a.number[1])

\* What is no option is positional, a mistyped option too.
SlipPositional(args) == SelectSeq(args, LAMBDA a : a.is \in {"url", "index"})
Positional(args) ==
  LET kept[i \in 0 .. Len(args)] ==
        IF i = 0 THEN <<>>
        ELSE IF args[i].is \in Options THEN kept[i - 1]
        ELSE Append(kept[i - 1], args[i])
  IN  kept[Len(args)]
Given(args, option) == {i \in DOMAIN args : args[i].is = option}
Heights(args) == Given(args, "--segregation-height=")

\* stoull throws at an option, before the number of arguments is looked at, or
\* at a real index after it.
HeightUnreadable(args) == \E i \in Heights(args) : ~Readable(args[i])
WrongUsage(args) == ~HeightUnreadable(args) /\ Len(Positional(args)) < 2
IndexUnreadable(args) == \E a \in ToSet(Tail(Positional(args))) : ~Readable(a)
Accepted(args) ==
  ~HeightUnreadable(args) /\ ~WrongUsage(args) /\ ~IndexUnreadable(args)

\* What the rest of main() works with.  The last height given counts, and 0 is as
\* good as none.
RpcUrl(args) == Positional(args)[1].is
RealIndices(args) ==
  [i \in 1 .. Len(Positional(args)) - 1 |-> Stoull(Positional(args)[i + 1])]
SlipForkOf(args) == IF Heights(args) = {} THEN Sentinel ELSE Stoull(args[Max(Heights(args))])
ForkOf(args) ==
  LET arg == IF Heights(args) = {} THEN 0 ELSE Stoull(args[Max(Heights(args))])
  IN  IF arg > 0 THEN arg ELSE Sentinel
SegregateFlag(args) == Given(args, "--no-segregate-pre-fork") = {}
MitigateFlag(args) == Given(args, "--no-key-reuse-mitigation2") = {}
=============================================================================

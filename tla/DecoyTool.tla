------------------------------ MODULE DecoyTool ------------------------------
(***************************************************************************)
(* The whole of main() on a live chain: the steps of DecoySelection with   *)
(* the daemon of DaemonChain.  What DecoySelection leaves free is a fact   *)
(* of the chain here: which outputs exist, which are unlocked when the     *)
(* pool is asked about, and which output the index of a ring member        *)
(* stands for when its key is fetched.  Each of the three fetch_outs of a  *)
(* source sees the chain of its moment.                                    *)
(***************************************************************************)
EXTENDS DecoySelection, DaemonChain, Rpc

CONSTANTS
  SpendableAge,  \* CRYPTONOTE_DEFAULT_TX_SPENDABLE_AGE (10 in the code)
  MinedWindow    \* CRYPTONOTE_MINED_MONEY_UNLOCK_WINDOW (60 in the code)

ASSUME AgeAssumption ==
  SpendableAge \in Nat \ {0} /\ MinedWindow \in Nat /\ MinedWindow >= SpendableAge

VARIABLES
  born,     \* born[h + 1]: how many replacements came before the block at height h
  asked,    \* for each source, the chain its pool was asked about: height, reorgs
  realOut,  \* what real_check[0] says of the real output
  members   \* for each finished ring, its members: an index and an answer about it

toolVars == <<born, asked, realOut, members>>
allVars  == <<vars, chainVars, toolVars>>

----------------------------------------------------------------------------
(* The daemon's side of get_outs.                                          *)

Exists(index) == index < Last(chain)

\* The output an index stands for: it is another one once its block is replaced.
OutputAt(index) == [index |-> index, born |-> born[HeightOf(index) + 1]]

\* The first RingCT output of a block is the miner's.
IsMined(index) == HeightOf(index) = 0 \/ index = chain[HeightOf(index)]

\* The unlocked field, which main.cpp takes from the daemon.
UnlockHeight(index) ==
  HeightOf(index) + (IF IsMined(index) THEN MinedWindow ELSE SpendableAge)
Unlocked(index) == UnlockHeight(index) <= Len(chain)

\* What fetch_outs may return, a list in the order of the indices: the daemon
\* answers with an error if it lacks one of them, fails, or sends too few.
Fetched(indices) ==
  LET whole   == Outs([i \in DOMAIN indices |-> OutputAt(indices[i])])
      replies == IF \E i \in DOMAIN indices : ~Exists(indices[i]) THEN {Error}
                 ELSE {whole} \cup Failures(whole) \cup
                      {Outs(SubSeq(whole.values, 1, n)) : n \in 0 .. Len(indices) - 1}
  IN  {r.values : r \in {q \in replies : ~FetchOutsThrows(q, Len(indices))}}

\* outs[i]: past the end of the vector it would be no output at all.
OutAt(outs, i) == IF i \in DOMAIN outs THEN outs[i] ELSE [index |-> -1, born |-> 0]

\* An answer about one output, and how many replacements the chain had seen by then.
Answer(output) == [output |-> output, reorgs |-> reorgs]

\* gp.get_num_rct_outs() for offsets that end at the tip: the last
\* SpendableAge - 1 blocks do not count.
SlipEligibleOutputs(c) == c[Len(c) - SpendableAge + 2]
EligibleOutputs(c) == c[Len(c) - SpendableAge + 1]

\* The decoys whose details are asked for (final_list).
SlipFinalList == [i \in 1 .. NumDecoys |-> pool[i].index]
FinalList == confirmed

----------------------------------------------------------------------------

\* The offsets have just been read, so the picker knows this chain, and it is long
\* enough for the picker's constructor.
ToolInit ==
  /\ Init /\ ChainInit
  /\ Len(chain) >= SpendableAge
  /\ EligibleOutputs(chain) = NumOuts
  /\ born = [h \in DOMAIN chain |-> 0]
  /\ asked = <<>> /\ members = <<>>
  /\ realOut = Answer([index |-> 0, born |-> 0])

\* The first fetch_outs of a source.
ToolCheckReal ==
  /\ CheckReal
  /\ \E outs \in Fetched(<<Real>>) : realOut' = Answer(OutAt(outs, 1))
  /\ UNCHANGED <<chainVars, born, asked, members>>

\* The second, for the pool.
ToolFetchStatus ==
  /\ FetchStatus
  /\ \E outs \in Fetched([i \in DOMAIN pool |-> pool[i].index]) :
       status' = [i \in DOMAIN pool |-> Unlocked(OutAt(outs, i).index)]
  /\ asked' = Append(asked, [height |-> Len(chain), reorgs |-> reorgs])
  /\ UNCHANGED <<chainVars, born, realOut, members>>

\* The third, for the decoys: keys and masks go into the ring, the unlocked
\* fields of this answer go nowhere.
ToolBuildRing ==
  /\ BuildRing
  /\ \E details \in Fetched(FinalList) :
       members' = Append(members,
         {[index |-> Real, answer |-> realOut]} \cup
         {[index |-> confirmed[i], answer |-> Answer(OutAt(details, i))] : i \in DOMAIN confirmed})
  /\ UNCHANGED <<chainVars, born, asked, realOut>>

\* The steps that ask the daemon for no output, and the calls that throw.
Elsewhere ==
  /\ \/ Startup \/ RpcFails \/ Draw \/ ScanSlot \/ PoolTooShort \/ EnoughDecoys
     \/ Publish \/ Kill \/ Exited
  /\ UNCHANGED <<chainVars, toolVars>>

\* The chain changes while the tool waits for an answer.  (Between other steps it
\* would make no difference.)
ToolGrows ==
  /\ Grow
  /\ born' = Append(born, reorgs)

ToolReorgs ==
  /\ Reorg
  /\ born' = Append(SubSeq(born, 1, Len(chain') - 1), reorgs')

ChainChanges ==
  /\ pc \in {"real_check", "pool_status", "final_details", "fee"}
  /\ ToolGrows \/ ToolReorgs
  /\ UNCHANGED <<vars, asked, realOut, members>>

ToolNext ==
  \/ ToolCheckReal \/ ToolFetchStatus \/ ToolBuildRing \/ Elsewhere \/ ChainChanges

ToolSpec == ToolInit /\ [][ToolNext]_allVars

----------------------------------------------------------------------------
(* What the rings are worth on the chain of the moment.                    *)

Members == UNION ToSet(members)

\* While the chain only grows, a candidate is locked only if it is a miner's
\* output: the nine blocks the picker leaves out (gamma_picker.cpp:35) are just
\* those the daemon would still call locked (main.cpp:322-326).
OnlyMinedAreLocked ==
  reorgs = 0 =>
    \A i \in DOMAIN status : ~status[i] => IsMined(pool[i].index)

\* Whether the block at height h is one the chain had when it had seen n replacements.
Since(h, n) == born[h + 1] <= n

\* Three answers of three moments meet in a ring: each member pairs an index with
\* the output it stands for, also after its block was replaced and asked about again
\* for the next source, as long as that block is the one the answer was about: no
\* answer is longer or shorter than the question (main.cpp:361), and the third is
\* asked for just the decoys (main.cpp:656-667).
KeysAreCurrent ==
  \A m \in Members :
    Exists(m.index) /\ Since(HeightOf(m.index), m.answer.reorgs) =>
      m.answer.output = OutputAt(m.index)

\* The lock status is asked for once, before the keys (main.cpp:618, 657), and that is
\* enough: the decoys are at least SpendableAge blocks below the tip of that moment,
\* so as long as no more than the SpendableAge - 1 blocks above are replaced, every
\* decoy still exists, and is unlocked again once the chain is as long as it was.
DecoysStayUnlocked ==
  \A k \in DOMAIN rings : \A d \in ToSet(rings[k].decoys) :
    LET root == asked[k].height - SpendableAge
    IN  root < Len(chain) /\ Since(root, asked[k].reorgs) =>
          /\ Exists(d) /\ HeightOf(d) <= root
          /\ Len(chain) >= asked[k].height => Unlocked(d)
=============================================================================

------------------------------- MODULE MCAddFlow -------------------------------
EXTENDS AddFlow, TLC

CONSTANTS run, Run, back1, back2

\* Two spellings of one word.
Spellings == {run, Run}
OneWord   == [f \in Spellings |-> run]
\* Two words.
TwoWords  == [f \in Spellings |-> f]
TwoBacks  == {back1, back2}

\* Normal forms are only compared with each other, so exchanging the spellings
\* changes nothing under either normalisation.
Symmetry == Permutations(Spellings) \cup Permutations(TwoBacks)
=============================================================================

---------------------------- MODULE MCLineEditor ----------------------------
(* Instances of LineEditor for TLC. *)
EXTENDS LineEditor, TLC

\* a, space, (, and every key that edits: control characters, Alt and CSI
\* sequences.
EditingKeys ==
  {<<97>>, <<32>>, <<40>>, <<200>>, <<1>>, <<2>>, <<4>>, <<5>>, <<6>>, <<8>>, <<9>>,
   <<11>>, <<12>>, <<13>>, <<21>>, <<23>>, <<26>>, <<127>>,
   <<27>>, <<27, 98>>, <<27, 100>>, <<27, 102>>, <<27, 127>>, <<27, 120>>,
   <<27, 91, 67>>, <<27, 91, 68>>, <<27, 91, 70>>, <<27, 91, 72>>,
   <<27, 91, 49, 126>>, <<27, 91, 51, 126>>, <<27, 91, 52, 126>>, <<27, 91, 53, 126>>}

\* a and b, the keys that walk through the history, and those that end a line.
HistoryKeys ==
  {<<97>>, <<98>>, <<8>>, <<14>>, <<16>>, <<27, 44>>, <<27, 46>>, <<13>>, <<3>>, <<4>>, <<26>>}

\* a letter and a move to the left
FewKeys == {<<97>>, <<2>>}

\* Names of one to four letters a, on two levels and as a special form.
NoEnvs == {<<>>}
TwoLevels == {<<>>, <<{<<97, 97>>, <<97, 97, 97>>}, {<<97>>}>>}
OneSpecial == <<<<97, 97, 97, 97>>>>

PtrSymmetry == Permutations(Ptrs)
=============================================================================

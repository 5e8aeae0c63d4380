---------------------------- MODULE SymbolMatch ----------------------------
(***************************************************************************)
(* The pure part of completion in the line editor (target/super/super.c):  *)
(* the sorted, bounded list of matching symbols and their common prefix.   *)
(* A symbol is a sequence of bytes.                                        *)
(***************************************************************************)
EXTENDS Integers, Sequences, SequencesExt

CONSTANT MATCH_MAX      \* JANET_MATCH_MAX (256)

ASSUME MatchMaxPositive == MATCH_MAX \in Nat \ {0}

Letters == (97..122) \cup (65..90) \cup (48..57)
\* ! $ % & * + - . / : < = > ? @ ^ _ and everything beyond ASCII
SymbolBytes == Letters \cup {33, 36, 37, 38, 42, 43, 45, 46, 47, 58, 60, 61, 62,
                             63, 64, 94, 95} \cup (128..255)

\* compare_bytes(a, b) < 0
Less(a, b) ==
  \/ a # b /\ IsPrefix(a, b)
  \/ \E k \in DOMAIN a \cap DOMAIN b :
        a[k] < b[k] /\ \A j \in 1..(k - 1) : a[j] = b[j]

\* What the loop of check_match holds in mm before it looks at matches[i].
Carried(matches, test) ==
  LET mm[i \in 1..(Len(matches) + 1)] ==
        IF i = 1 THEN test
        ELSE IF Less(mm[i - 1], matches[i - 1]) THEN matches[i - 1] ELSE mm[i - 1]
  IN mm

\* Mutant: the list is sorted the other way round.
check_match_reversed(matches, src, test) ==
  IF ~IsPrefix(src, test) THEN matches
  ELSE LET kept == [i \in DOMAIN matches |->
                      IF Less(matches[i], test) THEN test ELSE matches[i]]
       IN IF Len(matches) = MATCH_MAX THEN kept ELSE Append(kept, test)

\* Each place keeps the smaller of what it has and what is carried; the largest
\* goes to the end, or is forgotten when the list is full.
check_match(matches, src, test) ==
  IF ~IsPrefix(src, test) THEN matches
  ELSE LET mm == Carried(matches, test)
           kept == [i \in DOMAIN matches |->
                      IF Less(mm[i], matches[i]) THEN mm[i] ELSE matches[i]]
       IN IF Len(matches) = MATCH_MAX THEN kept ELSE Append(kept, mm[Len(matches) + 1])

\* The inner loop of longest_common_prefix.
Common(a, b) ==
  CHOOSE p \in {SubSeq(a, 1, n) : n \in 0..Len(a)} :
    /\ IsPrefix(p, b)
    /\ \/ p = a \/ p = b
       \/ a[Len(p) + 1] # b[Len(p) + 1]

\* Mutant: only the last two matches are compared.
LongestOfLastTwo(matches) ==
  IF Len(matches) < 2 THEN FoldLeft(Common, <<>>, matches)
  ELSE Common(matches[Len(matches) - 1], matches[Len(matches)])

longest_common_prefix(matches) ==
  IF matches = <<>> THEN <<>> ELSE FoldLeft(Common, Head(matches), matches)
=============================================================================

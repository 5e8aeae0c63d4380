-------------------------------- MODULE Utf8 --------------------------------
(* Reference definition: UTF-8 as the Unicode standard defines it. *)
EXTENDS Integers, Sequences

\* The number of bytes that a well-formed sequence beginning at i has, or 0.
Width(s, i) ==
  LET at(k, lo, hi) == i + k =< Len(s) /\ lo =< s[i + k] /\ s[i + k] =< hi IN
  CASE at(0, 0, 127) -> 1
    [] at(0, 194, 223) /\ at(1, 128, 191) -> 2
    [] at(0, 224, 239) /\ at(2, 128, 191)
         /\ at(1, IF s[i] = 224 THEN 160 ELSE 128, IF s[i] = 237 THEN 159 ELSE 191) -> 3
    [] at(0, 240, 244) /\ at(2, 128, 191) /\ at(3, 128, 191)
         /\ at(1, IF s[i] = 240 THEN 144 ELSE 128, IF s[i] = 244 THEN 143 ELSE 191) -> 4
    [] OTHER -> 0

WellFormed(s) ==
  LET from[i \in 1..(Len(s) + 1)] ==
        i > Len(s) \/ LET n == Width(s, i) IN n > 0 /\ from[i + n]
  IN from[1]

\* s holds a character beyond the basic plane: four bytes.
Astral(s) == \E i \in DOMAIN s : s[i] >= 240
=============================================================================

----------------------------- MODULE Completion -----------------------------
(***************************************************************************)
(* The search of kshowcomp (target/super/super.c 533-547): every symbol of *)
(* the chain of environments is offered once to check_match, in the order  *)
(* of the hash tables, which is any order.                                 *)
(***************************************************************************)
EXTENDS SymbolMatch, FiniteSets

CONSTANTS
  Names,        \* symbols an environment may define
  Typed,        \* what may stand before the cursor
  Depth         \* length of the chain of environments

\* A symbol has no NUL, at which strncmp would stop.
ASSUME SymbolsAreStrings == IsFiniteSet(Names) /\ Names \subseteq Seq(1..255) /\ Depth \in Nat

\* A name may be defined at several levels; each definition is an entry.
Entries == (1..Depth) \X Names

VARIABLES
  env,          \* the chain of environments: a set of entries <<level, name>>
  prefix,       \* the symbol before the cursor
  todo,         \* entries not looked at yet
  gbl_matches

searchvars == <<env, prefix, todo, gbl_matches>>

SearchInit == /\ env \in SUBSET Entries
              /\ todo = env
              /\ prefix \in Typed
              /\ gbl_matches = <<>>

\* The tables of the chain are searched from the innermost.
CheckMatch(e) ==
  /\ e \in todo
  /\ \A f \in todo : e[1] =< f[1]
  /\ todo' = todo \ {e}
  /\ gbl_matches' = check_match(gbl_matches, prefix, e[2])
  /\ UNCHANGED <<env, prefix>>

SearchNext == \E e \in Entries : CheckMatch(e)

SearchSpec == SearchInit /\ [][SearchNext]_searchvars

-----------------------------------------------------------------------------
Matching == {e \in env \ todo : IsPrefix(prefix, e[2])}

Least(a, b) == IF a < b THEN a ELSE b

\* Whatever the order of the tables, the list is sorted and holds the smallest
\* of the matching symbols seen so far, each as often as it is defined: a
\* symbol has the places that the smaller ones leave it.
KeepsSmallest ==
  /\ \A i \in 1..(Len(gbl_matches) - 1) : ~Less(gbl_matches[i + 1], gbl_matches[i])
  /\ \A n \in Names :
       LET smaller == Cardinality({e \in Matching : Less(e[2], n)})
           defined == Cardinality({e \in Matching : e[2] = n})
           left == IF smaller < MATCH_MAX THEN MATCH_MAX - smaller ELSE 0
       IN Cardinality({i \in DOMAIN gbl_matches : gbl_matches[i] = n}) = Least(left, defined)

lcp == longest_common_prefix(gbl_matches)

\* As long as the list has room, what Tab inserts is common to all matching
\* symbols, so that none the user may mean is ruled out, and it is all they have in
\* common: two of them part right after it, or one of them ends there.
InsertsAllCommon ==
  todo = {} /\ gbl_matches # <<>> /\ Cardinality(Matching) =< MATCH_MAX =>
    /\ \A e \in Matching : IsPrefix(lcp, e[2])
    /\ \E e, f \in Matching : \/ e[2] = lcp
                             \/ e[2][Len(lcp) + 1] # f[2][Len(lcp) + 1]
=============================================================================

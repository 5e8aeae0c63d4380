------------------------------ MODULE MCSqlite ------------------------------
(* Instances of Sqlite and Auctions for TLC: connections that are used freely,
   or by exec-db. *)
EXTENDS Auctions, TLC

CONSTANTS c1, c2, t, yes, big, low, fn

Create == [op |-> "create", table |-> t, params |-> <<>>]
Drop == [op |-> "drop", table |-> t, params |-> <<>>]
Insert == [op |-> "insert", table |-> t, params |-> <<":a", "">>]
Select == [op |-> "select", table |-> t, params |-> <<>>]
\* Its text has a byte 0 behind the statement.
Cut == [script |-> <<Drop>>, args |-> NoArgs]
Cuts == {Cut}
Nonsense == [op |-> "nonsense", table |-> t, params |-> <<>>]

\* Without arguments, with [yes big], {:a big}, a value too many, [fn].
SomeQueries ==
  {[script |-> q, args |-> NoArgs] :
     q \in {<<>>, <<Create>>, <<Create, Insert>>, <<Insert, Drop, Select>>, <<Insert, Nonsense>>}}
  \cup
  {[script |-> q, args |-> [k \in {"?1", "?2"} |-> IF k = "?1" THEN yes ELSE big]] :
     q \in {<<Insert, Insert>>, <<Insert, Select>>}}
  \cup
  {[script |-> <<Insert>>, args |-> a] :
     a \in {[k \in {":a"} |-> big], [k \in {"?1", "?2", "?3"} |-> big], [k \in {"?1"} |-> fn]}}
  \cup
  {Ask(Select), Cut} \cup Asked

LowHalf == [v \in {big} |-> low]

Swap == Permutations({c1, c2})

VARIABLE free

MCInit == AuctionsInit /\ free \in BOOLEAN
MCNext == /\ \/ free /\ Next /\ UNCHANGED program
             \/ ~free /\ AuctionsNext
          /\ UNCHANGED free
MCSpec == MCInit /\ [][MCNext]_<<allvars, free>>
FreeSpec == AuctionsInit /\ free = TRUE /\ [][MCNext]_<<allvars, free>>

\* (A program that uses the table freely makes any number of rows.)
VisitsComplete == ~free => MadeOnce /\ Undisturbed
=============================================================================

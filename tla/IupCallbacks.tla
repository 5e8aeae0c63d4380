---------------------------- MODULE IupCallbacks ----------------------------
(***************************************************************************)
(* Callbacks of widgets in the IUP binding (iup_wrap.c 232-272): one Janet *)
(* table from widgets to functions, kept in a static C variable, and one C *)
(* function for all events.                                                *)
(***************************************************************************)
EXTENDS Integers, FiniteSets

CONSTANTS Widgets, Events, Functions, NoFunction

ASSUME NoFunctionIsNone == NoFunction \notin Functions

VARIABLES
  janet_iup_cbs,        \* "none" (NULL), "alive", "freed": the table
  entry,                \* what it holds for each widget
  hooked,               \* <<widget, event>> that IUP calls the C function for
  wanted,               \* what the program has last asked for: for each
                        \* <<widget, event>> a function, or NoFunction
  calls,                \* of each event: the last function that it has called
  wild                  \* a freed table was used

iupvars == <<janet_iup_cbs, entry, hooked, wanted, calls, wild>>

Pairs == Widgets \X Events

IupInit == /\ janet_iup_cbs = "none" /\ hooked = {} /\ wild = FALSE
           /\ entry = [w \in Widgets |-> NoFunction]
           /\ wanted = [p \in Pairs |-> NoFunction]
           /\ calls = [p \in Pairs |-> NoFunction]

\* Mutant: the function that an event calls is the first that was given, as in the
\* list of thunks that the table has replaced.
SetThunkCallback_first(w, e, f) ==
  /\ ~wild
  /\ wild' = (janet_iup_cbs = "freed")
  /\ janet_iup_cbs' = IF janet_iup_cbs = "none" THEN "alive" ELSE janet_iup_cbs
  /\ entry' = [entry EXCEPT ![w] = IF @ = NoFunction THEN f ELSE @]
  /\ hooked' = hooked \cup {<<w, e>>}
  /\ wanted' = [wanted EXCEPT ![<<w, e>>] = f]
  /\ calls' = [calls EXCEPT ![<<w, e>>] = NoFunction]

\* IupSetThunkCallback; the table is made at the first call.
SetThunkCallback(w, e, f) ==
  /\ ~wild
  /\ wild' = (janet_iup_cbs = "freed")
  /\ janet_iup_cbs' = IF janet_iup_cbs = "none" THEN "alive" ELSE janet_iup_cbs
  /\ entry' = [entry EXCEPT ![w] = f]
  /\ hooked' = hooked \cup {<<w, e>>}
  /\ wanted' = [wanted EXCEPT ![<<w, e>>] = f]
  /\ calls' = [calls EXCEPT ![<<w, e>>] = NoFunction]

\* janet_iup_universal_cb; IUP calls it while the main loop runs.
UniversalCb(w, e) ==
  /\ ~wild /\ <<w, e>> \in hooked
  /\ wild' = (janet_iup_cbs = "freed")
  /\ calls' = IF wild' THEN calls ELSE [calls EXCEPT ![<<w, e>>] = entry[w]]
  /\ UNCHANGED <<janet_iup_cbs, entry, hooked, wanted>>

\* No root leads to the table, so a collection frees it.
Collect == /\ janet_iup_cbs = "alive" /\ janet_iup_cbs' = "freed"
           /\ UNCHANGED <<entry, hooked, wanted, calls, wild>>

IupNext == \/ \E w \in Widgets, e \in Events :
                \/ \E f \in Functions : SetThunkCallback(w, e, f)
                \/ UniversalCb(w, e)
           \/ Collect

-----------------------------------------------------------------------------
(* Properties *)

\* A widget with a callback for one event only gets what the program asked for,
\* whatever is done for other widgets in between and however often it is changed.
OneEventEach ==
  \A p \in Pairs :
    (\A q \in Pairs \ {p} : q[1] = p[1] => wanted[q] = NoFunction)
      => calls[p] \in {NoFunction, wanted[p]}
=============================================================================

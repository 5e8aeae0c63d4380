----------------------------- MODULE MCCirclet -----------------------------
(* Instances of Circlet for TLC. *)
EXTENDS Circlet

CONSTANTS l1, l2, c1, c2, c3

\* Two connections share a listener, one has the other to itself.
HomeOf == [c \in {c1, c2, c3} |-> IF c = c3 THEN l2 ELSE l1]

\* One request of c1 is pipelined.
Limits == [c \in {c1, c2, c3} |-> IF c = c1 THEN 2 ELSE 1]

\* c3 asks for something that has no route.
UriOf == [r \in {c1, c2, c3} \X {1, 2} |->
            CASE r[1] = c3    -> "/nowhere"
              [] r = <<c1, 1>> -> "/form"
              [] OTHER         -> "/stream"]
RouteTable == [u \in {"/form", "/stream"} |->
                 IF u = "/form" THEN {"answers", "ill_typed", "raises"}
                                ELSE {"answers", "yields", "signals", "raises"}]
=============================================================================

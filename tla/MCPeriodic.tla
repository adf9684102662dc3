----------------------------- MODULE MCPeriodic -----------------------------
(* Minutes and hours are one and two steps of the clock. *)
EXTENDS Periodic

MCUnit == [m |-> 1, h |-> 2]

MCSpans == {<<1, "m">>, <<1, "h">>}
=============================================================================

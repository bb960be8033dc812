--------------------------- MODULE MCRouteRegistry ---------------------------
(***************************************************************************)
(* Instances of RouteRegistry for TLC.                                     *)
(***************************************************************************)
EXTENDS RouteRegistry

CONSTANTS a1, a2, b1, c1

\* Two sessions on source a, one each on b and c, as far as there are any.
MCSourceOf == [s \in Sessions |->
    CASE s \in {a1, a2} -> "a" [] s = b1 -> "b" [] s = c1 -> "c"]

=============================================================================

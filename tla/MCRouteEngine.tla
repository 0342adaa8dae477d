---------------------------- MODULE MCRouteEngine ----------------------------
(* Small instances of RouteEngine: which port belongs to which route.      *)
EXTENDS RouteEngine, TLC

CONSTANTS r1, r2, i1, i2, o1, o2

OneEach    == i1 :> r1 @@ o1 :> r1
TwoInputs  == i1 :> r1 @@ i2 :> r1 @@ o1 :> r1
TwoRoutes  == i1 :> r1 @@ o1 :> r1 @@ i2 :> r2 @@ o2 :> r2
=============================================================================

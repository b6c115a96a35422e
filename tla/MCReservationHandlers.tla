----------------------- MODULE MCReservationHandlers -----------------------
(***************************************************************************)
(* Instances of the handlers on the names z, a below z and b below a.      *)
(* p1 holds m1 and p2 holds m2; the configurations choose which requests   *)
(* meet each other, how many at a time, and which calls may fail.          *)
(***************************************************************************)
EXTENDS ReservationHandlers, TLC

CONSTANTS z, a, b, p1, p2, m1, m2, h1, h2

MCNames == {z, a, b}
MCBelow == {<<a, z>>, <<b, z>>, <<b, a>>}
MCProjectOf == (m1 :> p1) @@ (m2 :> p2)
MCDerived == {<<m1, a, b>>}
HandlerSymmetry == Permutations(Handlers)
============================================================================

----------------------- MODULE MCReservationRegistry -----------------------
(***************************************************************************)
(* The registry on the names z, a below z and b below a.                   *)
(* m1 belongs to p1, m2 to p2; b is the name m1 derives from domain a.     *)
(* MaxRows bounds the reservation rows held at once, so that every pair of *)
(* kinds of row meets together with a third.                               *)
(***************************************************************************)
EXTENDS ReservationRegistry, TLC, Integers

CONSTANTS z, a, b, p1, p2, m1, m2, MaxRows

MCNames == {z, a, b}
MCBelow == {<<a, z>>, <<b, z>>, <<b, a>>}
MCProjectOf == (m1 :> p1) @@ (m2 :> p2)
MCDerived == {<<m1, a, b>>}
MCInstallNames == {}

RowBound ==
  Cardinality(claims) + Cardinality(hostnames) + Cardinality(routes)
    + Cardinality(tunnels) <= MaxRows
============================================================================

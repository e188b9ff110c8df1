------------------------- MODULE MCRequestIdentity ---------------------------
(* The packages that declare the context keys of the five services.         *)
EXTENDS RequestIdentity, TLC

CONSTANTS u1, t1, r1

MCSetter == [s \in Services |-> <<s, "middleware">>]

\* Only the calendar's handlers ask the middleware package.
MCGetter == [s \in Services |-> <<s, IF s = "calendar" THEN "middleware" ELSE "handler">>]
=============================================================================

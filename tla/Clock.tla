------------------------------- MODULE Clock -------------------------------
(***************************************************************************)
(* The clock the session store and the rate limiter read (time.Now).       *)
(***************************************************************************)
EXTENDS Naturals

CONSTANT MaxTime  \* bound: ticks of the clock

VARIABLE clock    \* time.Now
=============================================================================

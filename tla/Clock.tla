------------------------------- MODULE Clock -------------------------------
(***************************************************************************)
(* Readings of millis(), which is a uint32_t, and what the code computes   *)
(* from two of them.  RxGuard, Airtime and GatewayLru share it.            *)
(***************************************************************************)
EXTENDS Naturals

CONSTANT MillisMod   \* millis() wraps here: 2^32, not a multiple of a minute

ASSUME ClockAssumption == MillisMod \in Nat \ {0}

\* now - then in uint32_t
Since(now, then) == (now + MillisMod - then) % MillisMod
=============================================================================

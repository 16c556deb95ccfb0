------------------------------ MODULE RxGuard ------------------------------
(***************************************************************************)
(* receiving() of mesh.cpp, which keeps the mesh task from transmitting    *)
(* into a packet that is just being received, with the radio's             *)
(* header-valid flag it reads and the task loop around it.                 *)
(*                                                                         *)
(* Time is counted in ticks of millis(), which wraps at MillisMod; 0 is    *)
(* also the value of the static sinceMs that means "no packet".            *)
(***************************************************************************)
EXTENDS Clock

CONSTANT MaxPacket   \* maxPacketMs: the longest packet, plus 100 ms

ASSUME RxGuardAssumption ==
  /\ MillisMod % 2 = 0
  /\ MaxPacket \in Nat \ {0} /\ 2 * MaxPacket < MillisMod

VARIABLES
  millis,     \* millis()
  air,        \* what the radio hears: "none", a "packet" or a "stuck" header
  rest,       \* ticks until the packet is complete
  header,     \* RADIOLIB_SX126X_IRQ_HEADER_VALID
  dio1Flag,   \* set by the interrupt when a packet is complete
  since,      \* sinceMs
  timed       \* history: sinceMs was set for this header, not an earlier one

guardVars == <<millis, air, rest, header, dio1Flag, since, timed>>
radio == <<air, rest, header, dio1Flag>>

\* A header arrives.  Its payload follows within the longest packet time, or
\* never ("or forever if the payload never arrives", mesh.cpp:304).
HeaderArrives ==
  /\ air = "none" /\ ~header
  /\ header' = TRUE /\ timed' = FALSE
  /\ \/ air' = "packet" /\ rest' \in 1..MaxPacket - 1
     \/ air' = "stuck" /\ UNCHANGED rest
  /\ UNCHANGED <<millis, dio1Flag, since>>

\* Time passes.  The last tick of a packet raises DIO1; the flags stay.
GuardTick ==
  /\ millis' = (millis + 1) % MillisMod
  /\ rest' = IF air = "packet" THEN rest - 1 ELSE rest
  /\ IF air = "packet" /\ rest = 1
       THEN air' = "none" /\ dio1Flag' = TRUE
       ELSE UNCHANGED <<air, dio1Flag>>
  /\ UNCHANGED <<header, since, timed>>

\* The task handles a packet before it transmits; reading it clears the flags.
HandleRx ==
  /\ dio1Flag
  /\ dio1Flag' = FALSE /\ header' = FALSE
  /\ timed' = FALSE
  /\ UNCHANGED <<millis, air, rest, since>>

\* now | 1
Odd(t) == IF t % 2 = 0 THEN t + 1 ELSE t
SinceNow == IF since = 0 THEN Odd(millis) ELSE since
Elapsed == Since(millis, SinceNow)

NeverTimesOut == header
TimesOutEarly == header /\ Elapsed + 2 < MaxPacket
\* receiving() with the header-valid flag set: still within the packet time?
StillReceiving == header /\ Elapsed < MaxPacket

\* transmit() finds the radio receiving and gives up for now.
Busy ==
  /\ ~dio1Flag /\ StillReceiving
  /\ since' = SinceNow
  /\ timed' = (timed \/ since = 0)
  /\ UNCHANGED <<millis, radio>>

\* receiving() gives up on the header and restarts the receiver: whatever is on
\* the air is lost, and the interrupt flag with it.  CAD and transmission follow.
GiveUp ==
  /\ ~dio1Flag /\ header /\ ~StillReceiving
  /\ since' = 0 /\ air' = "none" /\ header' = FALSE /\ dio1Flag' = FALSE
  /\ timed' = FALSE /\ rest' = 0
  /\ UNCHANGED millis

\* No header: CAD and transmission, after which the receiver starts again.
Transmit ==
  /\ ~dio1Flag /\ ~header
  /\ since' = 0 /\ UNCHANGED <<millis, radio, timed>>

GuardInit ==
  /\ millis \in 0..MillisMod - 1 /\ air = "none" /\ rest = 0
  /\ header = FALSE /\ dio1Flag = FALSE /\ since = 0 /\ timed = FALSE

TryTransmit == Busy \/ GiveUp \/ Transmit
GuardNext == HeaderArrives \/ GuardTick \/ HandleRx \/ TryTransmit

\* Time passes, the task handles complete packets, and it keeps having something
\* to send (at least a hello every 15 minutes), far more often than millis()
\* wraps: an attempt comes while the packet time is over.
GuardFairness == WF_guardVars(GuardTick) /\ WF_guardVars(HandleRx) /\ SF_guardVars(Busy) /\ SF_guardVars(GiveUp)

GuardSpec == GuardInit /\ [][GuardNext]_guardVars /\ GuardFairness

----------------------------------------------------------------------------

\* A header whose payload never arrives does not silence the node for good.
StuckHeaderClears == air = "stuck" ~> air # "stuck"

\* Once receiving() has taken the time of a packet, that packet is received
\* completely, however often the task tries to transmit.
TimedPacketSurvives == [][GiveUp /\ timed => air # "packet"]_guardVars

----------------------------------------------------------------------------
(* "CAD puts the radio into standby, which would abort a packet that is     *)
(* being received right now" (mesh.cpp:303).                                *)

\* A packet is not aborted when receiving() sees its header for the first time
\* and no start time is left over from an earlier one.
FirstLookKeepsPacket ==
  [][GiveUp /\ since = 0 => air # "packet"]_guardVars

----------------------------------------------------------------------------
(* The inductive invariant behind TimedPacketSurvives; see MeshProofs *)

GuardTypeOK ==
  /\ millis \in 0..MillisMod - 1 /\ since \in 0..MillisMod - 1
  /\ air \in {"none", "packet", "stuck"} /\ rest \in 0..MaxPacket - 1
  /\ header \in BOOLEAN /\ dio1Flag \in BOOLEAN /\ timed \in BOOLEAN

\* A packet is incomplete until its last tick.
PacketSound == air = "packet" => rest >= 1

\* The packet that receiving() has timed is complete before its time is over.
TimedSound ==
  timed =>
    /\ header /\ since # 0
    /\ air = "packet" => Since(millis, since) + rest < MaxPacket

GuardIInv == GuardTypeOK /\ PacketSound /\ TimedSound
=============================================================================

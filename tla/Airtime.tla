------------------------------ MODULE Airtime ------------------------------
(***************************************************************************)
(* The duty cycle account of mesh.cpp: airtimeLastHourMs, addAirtime and   *)
(* the checks of transmit and processRelays.  Airtime is booked in one     *)
(* bucket per minute; a transmission occupies the channel for as many      *)
(* ticks as its time on air and is booked when it ends.  The account lives *)
(* in RAM and begins anew at each power-up; onAir is the history of what   *)
(* was really sent in the last hour, through all power-ups.                *)
(***************************************************************************)
EXTENDS Clock, FiniteSets

CONSTANTS
  Buckets,       \* number of buckets: 60 minutes
  Minute,        \* ticks per minute
  Limit,         \* kAirtimeLimitMsPerHour
  ForeignLimit,  \* settings.foreignAirtimePct * kAirtimeMsPerPercent
  MaxToa,        \* longest time on air
  MaxUptime,     \* bound of the model: power is switched off then
  MaxTime,       \* bound of the model: the time of all power-ups together
  MaxPowerUps    \* bound of the model: the power-ups that sent within the hour

ASSUME AirtimeAssumption ==
  /\ Buckets \in Nat \ {0} /\ Minute \in Nat \ {0}
  /\ Limit \in Nat /\ ForeignLimit \in Nat
  /\ MaxToa \in Nat \ {0} /\ MaxUptime \in Nat /\ {MaxTime, MaxPowerUps} \subseteq Nat

VARIABLES
  born,     \* true time of the last power-up
  now,      \* uptime: true time since then
  airtime,  \* the buckets
  tx,       \* the transmission under way, Quiet if there is none
  onAir     \* history: the ticks of about the last hour spent sending; born is the power-up
            \* they belong to, tick and ends (of the transmission) are uptimes of it

airVars == <<born, now, airtime, tx, onAir>>

Quiet == [toa |-> 0, left |-> 0, foreign |-> FALSE]
EmptyBucket == [minute |-> 0, total |-> 0, foreign |-> 0]

MinuteNow == (now % MillisMod) \div Minute

\* minute - b.minute in uint32_t: a bucket from before a wrap is far away.
InHour(minute) == minute <= MinuteNow /\ MinuteNow - minute < Buckets

\* airtimeLastHourMs: the sum over the first n buckets, and over all.
SumTo[n \in 0..Buckets] ==
  IF n = 0 THEN 0
  ELSE SumTo[n - 1] + IF InHour(airtime[n - 1].minute) THEN airtime[n - 1].total ELSE 0
Sum == SumTo[Buckets]

AddToOldBucket(toa, foreign) ==
  airtime' = [airtime EXCEPT ![MinuteNow % Buckets] =
    [minute  |-> MinuteNow,
     total   |-> @.total + toa,
     foreign |-> @.foreign + IF foreign THEN toa ELSE 0]]
\* addAirtime
AddAirtime(toa, foreign) ==
  airtime' = [airtime EXCEPT ![MinuteNow % Buckets] =
    LET b == IF @.minute = MinuteNow THEN @ ELSE EmptyBucket IN
      [minute  |-> MinuteNow,
       total   |-> b.total + toa,
       foreign |-> b.foreign + IF foreign THEN toa ELSE 0]]

BudgetIgnored == TRUE
\* foreignBudgetLeft
ForeignBudgetLeft == Sum < ForeignLimit

BlockedWhenOver(toa) == Sum > Limit
\* transmit: the packet must fit the rest of the hour's airtime.
Blocked(toa) == Sum + toa > Limit

\* processRelays and processOwn up to radio->transmit.  A busy channel only
\* delays this step, a blocked or budgetless packet is given up.
BeginTransmit ==
  /\ tx = Quiet
  /\ \E toa \in 1..MaxToa, foreign \in BOOLEAN :
       /\ foreign => ForeignBudgetLeft
       /\ ~Blocked(toa)
       /\ tx' = [toa |-> toa, left |-> toa, foreign |-> foreign]
  /\ UNCHANGED <<born, now, airtime, onAir>>

\* A failed transmission is booked as well.
EndTransmit ==
  /\ tx # Quiet /\ tx.left = 0
  /\ AddAirtime(tx.toa, tx.foreign)
  /\ tx' = Quiet /\ UNCHANGED <<born, now, onAir>>

\* What the history still has to hold after the next tick.
Recent(sent) == {e \in sent : e.born + e.tick + Buckets * Minute + MaxToa > born + now}

AirTick ==
  /\ now < MaxUptime /\ born + now < MaxTime /\ now' = now + 1
  /\ \/ tx = Quiet /\ onAir' = Recent(onAir) /\ UNCHANGED tx
     \/ /\ tx.left > 0 /\ tx' = [tx EXCEPT !.left = @ - 1]
        /\ onAir' = Recent(onAir) \cup
             {[born |-> born, tick |-> now, foreign |-> tx.foreign, ends |-> now + tx.left]}
  /\ UNCHANGED <<born, airtime>>

\* Power fails at any time, in a transmission too, and comes back: the buckets are
\* empty, what was sent remains sent.
Boot ==
  /\ Cardinality({e.born : e \in onAir}) < MaxPowerUps \/ born + now = MaxTime
  /\ born' = born + now /\ now' = 0 /\ tx' = Quiet /\ UNCHANGED onAir
  /\ airtime' = [i \in 0..Buckets - 1 |-> EmptyBucket]

AirInit ==
  /\ born = 0 /\ now = 0 /\ tx = Quiet /\ onAir = {}
  /\ airtime = [i \in 0..Buckets - 1 |-> EmptyBucket]

AirNext == BeginTransmit \/ EndTransmit \/ AirTick \/ Boot

AirSpec == AirInit /\ [][AirNext]_airVars

----------------------------------------------------------------------------

\* The 59 minutes the account covers whatever fraction of a minute has passed.
Covered == (Buckets - 1) * Minute

\* What was sent since power-up, and the last n ticks of it.
Current == {e \in onAir : e.born = born}
SentWithin(n) == {e \in Current : e.tick + n >= now}

\* What was sent in the window by the power-up at time b.
SentBy(b) == {e \in onAir : e.born = b /\ b + e.tick + Covered >= born + now}
ForeignBy(b) == {e \in SentBy(b) : e.foreign}

\* The account agrees with what was sent since power-up: it forgets nothing of the
\* last Buckets - 1 minutes, and counts nothing that ended more than Buckets ago.
AccountAgrees ==
  LET sent == Sum + tx.toa - tx.left IN
    /\ Cardinality(SentWithin(Covered)) <= sent
    /\ sent <= Cardinality(SentWithin(Buckets * Minute + MaxToa))

\* However the transmissions fall, no power-up occupies the channel for more than
\* the limit of each 59 minutes (and any fraction of one): booking at the end, bucket
\* borders and reuse lose nothing.  A restart does: after it the limit counts anew,
\* beside what earlier power-ups sent in the same 59 minutes.
LimitHolds == \A b \in 0..born : Cardinality(SentBy(b)) <= Limit

\* Foreign packets leave the rest of the airtime to trackers (README.md:287):
\* no power-up exceeds their budget by a packet or more.
ForeignLimitHolds ==
  \A b \in 0..born : Cardinality(ForeignBy(b)) < ForeignLimit + MaxToa

----------------------------------------------------------------------------
(* The inductive invariant behind them; see LimitProofs *)

AirTypeOK ==
  /\ born \in Nat /\ now \in 0..MaxUptime
  /\ airtime \in [0..Buckets - 1 -> [minute : Nat, total : Nat, foreign : Nat]]
  /\ tx \in [toa : 0..MaxToa, left : 0..MaxToa, foreign : BOOLEAN]
  /\ tx.left <= tx.toa /\ (tx.toa = 0 => tx = Quiet)
  /\ onAir \subseteq [born : 0..born, tick : Nat, foreign : BOOLEAN, ends : Nat]
  /\ IsFiniteSet(onAir)

\* What the transmission under way has sent, and what is booked, with its minute.
Sending == {e \in Current : tx # Quiet /\ e.ends = now + tx.left}
Booked == Current \ Sending
MinuteOf(e) == e.ends \div Minute
BookedIn(i) == {e \in Booked : MinuteOf(e) = airtime[i].minute /\ MinuteOf(e) % Buckets = i}

HistorySound ==
  /\ \A e \in Current : /\ e.tick < now /\ e.tick < e.ends /\ e.ends <= e.tick + MaxToa
                        /\ e.tick + Buckets * Minute + MaxToa >= now
  /\ \A e \in Booked : e.ends <= now
  /\ Cardinality(Sending) = tx.toa - tx.left

\* A bucket holds what was booked in its minute, and nothing booked in the last
\* hour has lost its bucket to another minute.
BucketsSound ==
  /\ \A i \in 0..Buckets - 1 :
       /\ airtime[i].minute <= MinuteNow
       /\ InHour(airtime[i].minute) => airtime[i].total = Cardinality(BookedIn(i))
  /\ \A e \in Booked :
       InHour(MinuteOf(e)) => airtime[MinuteOf(e) % Buckets].minute = MinuteOf(e)

\* What is still to be sent is part of the limit already.
LimitSound == Cardinality(SentWithin(Covered)) + tx.left <= Limit

ForeignSent == {e \in SentWithin(Covered) : e.foreign}
ForeignSound ==
  Cardinality(ForeignSent) + (IF tx.foreign THEN tx.left ELSE 0) < ForeignLimit + MaxToa

\* What earlier power-ups sent was within their limits.
PastSound ==
  \A b \in 0..born : b < born =>
    Cardinality(SentBy(b)) <= Limit /\ Cardinality(ForeignBy(b)) < ForeignLimit + MaxToa

AirIInv ==
  AirTypeOK /\ HistorySound /\ BucketsSound /\ LimitSound /\ ForeignSound /\ PastSound
=============================================================================

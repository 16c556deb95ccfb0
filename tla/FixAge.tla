------------------------------- MODULE FixAge -------------------------------
(***************************************************************************)
(* How old a position is when a gateway posts it.  gnss.cpp puts a fix     *)
(* together from what the NMEA sentences have last said; the main loop     *)
(* samples it at the top of a round, may be blocked by HTTP requests, and  *)
(* then sends it into the mesh (mesh::loop) or compares a position from    *)
(* the mesh with it (forwardPosition of gateway.cpp).                      *)
(*                                                                         *)
(* Time is counted in seconds, with short days.  Unlike a tracker, the     *)
(* model knows the time of what a fix consists of.                         *)
(***************************************************************************)
EXTENDS Naturals

CONSTANTS
  Day,                \* seconds of a day
  MaxFixAge,          \* kMaxFixAgeMs: 2 s
  MaxPositionAgeSec,  \* kMaxPositionAgeSec: 60 s
  MaxBlock,           \* how long a round of the main loop may take
  Start, End,         \* power-up and end of the model, in unix time
  Unknown

ASSUME FixAgeAssumption ==
  /\ {Day, MaxFixAge, MaxPositionAgeSec, MaxBlock, Start, End} \subseteq Nat
  /\ Day > 0 /\ Start >= Day /\ Unknown \notin Nat

Trackers == {"sender", "gateway"}
Times == Start..End

VARIABLES
  now,       \* unix time
  gps,       \* tracker -> the last date, time and location of its sentences
  come,      \* tracker -> the sentences of this second that have come
  fix,       \* tracker -> the sample of this round, NoFix between rounds
  rx         \* the position that the mesh has delivered, or will, or NoFix

vars == <<now, gps, come, fix, rx>>

NoFix == [valid |-> FALSE, location |-> Unknown, time |-> Unknown, unixTime |-> 0, taken |-> Unknown]

----------------------------------------------------------------------------
(* gnss.cpp and the parser library *)

\* gnssTask feeds a sentence.  RMC carries date and time, GGA the time; both carry
\* a location if there is a fix (the gateway's own location does not matter here).
Sentence(n, s) ==
  /\ s \notin come[n]
  /\ come' = [come EXCEPT ![n] = @ \cup {s}]
  /\ \E hasFix \in BOOLEAN :
       /\ hasFix => n = "sender"
       /\ gps' = [gps EXCEPT ![n] =
         [date     |-> IF s = "RMC" THEN now \div Day ELSE @.date,
          time     |-> now,
          location |-> IF hasFix THEN now ELSE @.location]]
  /\ UNCHANGED <<now, fix, rx>>

\* unixTime: the day of the last date, with the time of day of the last time.
UnixTime(g) ==
  IF g.date = Unknown \/ g.time = Unknown THEN 0 ELSE (g.date * Day) + (g.time % Day)

ValidOnceKnown(g) == g.location # Unknown
\* f.valid
Valid(g) == g.location # Unknown /\ now - g.location < MaxFixAge

\* snapshot, at the top of a round.
Snapshot(g) ==
  [valid |-> Valid(g), location |-> IF Valid(g) THEN g.location ELSE Unknown, time |-> g.time,
   unixTime |-> UnixTime(g), taken |-> now]

Sample(n) ==
  /\ fix[n] = NoFix
  /\ fix' = [fix EXCEPT ![n] = Snapshot(gps[n])]
  /\ UNCHANGED <<now, gps, come, rx>>

----------------------------------------------------------------------------
(* The end of a round: loopMesh *)

EndsRound(n) == fix[n] # NoFix /\ fix' = [fix EXCEPT ![n] = NoFix]

\* mesh::loop of the sender: the position is due.
SendsPosition ==
  /\ EndsRound("sender") /\ fix["sender"].valid
  /\ rx' = fix["sender"]
  /\ UNCHANGED <<now, gps, come>>

\* Nothing to do; a gateway whose queue is empty does nothing either.
Idles(n) == EndsRound(n) /\ UNCHANGED <<now, gps, come, rx>>

AnyOlder(own, p) == own.unixTime # 0 /\ p.unixTime # 0 /\ own.unixTime > p.unixTime
\* forwardPosition: "older than" its own time.
TooOld(own, p) ==
  own.unixTime # 0 /\ p.unixTime # 0 /\ own.unixTime > p.unixTime + MaxPositionAgeSec

\* gateway::loop takes the position from the queue and drops or posts it.
TakesPosition ==
  /\ EndsRound("gateway") /\ rx # NoFix /\ rx' = NoFix
  /\ UNCHANGED <<now, gps, come>>

----------------------------------------------------------------------------

\* A module sends at least one of its sentences in each second.
Tick ==
  /\ now < End /\ now' = now + 1
  /\ \A n \in Trackers : come[n] # {} /\ (fix[n] # NoFix => now < fix[n].taken + MaxBlock)
  /\ come' = [n \in Trackers |-> {}]
  /\ UNCHANGED <<gps, fix, rx>>

Init ==
  /\ now = Start /\ come = [n \in Trackers |-> {}]
  /\ gps = [n \in Trackers |-> [date |-> Unknown, time |-> Unknown, location |-> Unknown]]
  /\ fix = [n \in Trackers |-> NoFix] /\ rx = NoFix

Next ==
  \/ Tick \/ SendsPosition \/ TakesPosition
  \/ \E n \in Trackers : Sample(n) \/ Idles(n) \/ \E s \in {"GGA", "RMC"} : Sentence(n, s)

Spec == Init /\ [][Next]_vars

----------------------------------------------------------------------------
(* What must hold when the gateway takes the position, which may be now. *)

Judges == fix["gateway"] # NoFix /\ rx # NoFix
\* Between the first sentence after midnight and the first date, or for longer if
\* the latter is lost, unixTime is a day early.
RightDay(f) == f.unixTime = f.time

\* A position is not dropped as too old (gateway.cpp:107) before its age reaches
\* the limit, however the two trackers' rounds and sentences interleave - unless its
\* sender has not heard the date since midnight.
RecentIsForwarded ==
  Judges /\ RightDay(rx) /\ now - rx.location <= MaxPositionAgeSec => ~TooOld(fix["gateway"], rx)

\* A position that is posted is not older than the limit by more than the age of a
\* valid fix and the time the gateway's own fix has waited for its use, if both know
\* the date.
OldIsDropped ==
  Judges /\ ~TooOld(fix["gateway"], rx) /\ rx.unixTime # 0 /\ RightDay(fix["gateway"])
    => now - rx.location <= MaxPositionAgeSec + MaxFixAge + MaxBlock

----------------------------------------------------------------------------
(* The inductive invariant behind them; see FixAgeProofs *)

Fixes ==
  [valid : BOOLEAN, location : Nat \cup {Unknown}, time : Nat \cup {Unknown}, unixTime : Nat,
   taken : Nat \cup {Unknown}]

TypeOK ==
  /\ now \in Nat /\ Start <= now
  /\ gps \in [Trackers -> [date : Nat \cup {Unknown}, time : Nat \cup {Unknown}, location : Nat \cup {Unknown}]]
  /\ come \in [Trackers -> SUBSET {"GGA", "RMC"}]
  /\ fix \in [Trackers -> Fixes] /\ rx \in Fixes

\* The last sentence is of this second or the one before; date and location are
\* not younger than it.
GpsSound ==
  \A n \in Trackers : LET g == gps[n] IN
    /\ come[n] # {} => g.time # Unknown
    /\ g.time # Unknown =>
         Start <= g.time /\ g.time <= now /\ now <= g.time + (IF come[n] = {} THEN 1 ELSE 0)
    /\ g.date # Unknown => g.time # Unknown /\ g.date <= g.time \div Day
    /\ g.location # Unknown => g.time # Unknown /\ g.location <= g.time

\* The same of a fix when it was taken, whatever time has passed since.
WasSound(f) ==
  /\ f.taken # Unknown
  /\ f.unixTime # 0 => f.time # Unknown /\ f.unixTime <= f.time
  /\ f.time # Unknown => Start <= f.time /\ f.time <= f.taken /\ f.taken <= f.time + 1
  /\ f.valid => /\ f.location # Unknown /\ f.time # Unknown
                /\ f.location <= f.time /\ f.taken < f.location + MaxFixAge

FixSound ==
  \A n \in Trackers : fix[n] # NoFix =>
    WasSound(fix[n]) /\ fix[n].taken <= now /\ now <= fix[n].taken + MaxBlock

RxSound == rx # NoFix => WasSound(rx) /\ rx.taken <= now /\ rx.valid

IInv == TypeOK /\ GpsSound /\ FixSound /\ RxSound
=============================================================================

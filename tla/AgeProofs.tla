------------------------------ MODULE AgeProofs ------------------------------
(***************************************************************************)
(* Proofs about the times that decide what becomes of a position: the      *)
(* calendar counts the days, for any length of a day, age limit and        *)
(* blocking time of the main loop no fresh position is dropped as too old  *)
(* and none is posted long after it was measured, and for any number of    *)
(* entries the gateway's cache tells their age by readings of millis().    *)
(***************************************************************************)
EXTENDS FixAge, Calendar, GatewayLru, TLAPS

-----------------------------------------------------------------------------
(* The calendar *)

\* Within a month the days count up, and so they do from month to month.
LEMMA NextMonth ==
  ASSUME NEW y \in Nat, NEW m \in 1..11, m # 2
  PROVE  daysFromCivil(y, m + 1, 1) = daysFromCivil(y, m, DaysIn(y, m)) + 1
<1> m \in {1, 3, 4, 5, 6, 7, 8, 9, 10, 11}
  OBVIOUS
<1>1. CASE m = 1  BY <1>1, SMT DEF daysFromCivil, DaysIn
<1>3. CASE m = 3  BY <1>3, SMT DEF daysFromCivil, DaysIn
<1>4. CASE m = 4  BY <1>4, SMT DEF daysFromCivil, DaysIn
<1>5. CASE m = 5  BY <1>5, SMT DEF daysFromCivil, DaysIn
<1>6. CASE m = 6  BY <1>6, SMT DEF daysFromCivil, DaysIn
<1>7. CASE m = 7  BY <1>7, SMT DEF daysFromCivil, DaysIn
<1>8. CASE m = 8  BY <1>8, SMT DEF daysFromCivil, DaysIn
<1>9. CASE m = 9  BY <1>9, SMT DEF daysFromCivil, DaysIn
<1>10. CASE m = 10  BY <1>10, SMT DEF daysFromCivil, DaysIn
<1>11. CASE m = 11  BY <1>11, SMT DEF daysFromCivil, DaysIn
<1> QED
  BY <1>1, <1>3, <1>4, <1>5, <1>6, <1>7, <1>8, <1>9, <1>10, <1>11

LEMMA NextYear ==
  ASSUME NEW y \in Nat
  PROVE  daysFromCivil(y + 1, 1, 1) = daysFromCivil(y, 12, 31) + 1
  BY SMT DEF daysFromCivil

\* The number of leap days follows the reference, in the last year of a
\* century and of an era too.
LEMMA AfterFebruary ==
  ASSUME NEW y \in Nat
  PROVE  daysFromCivil(y, 3, 1) = daysFromCivil(y, 2, DaysIn(y, 2)) + 1
<1> DEFINE e == y \div 400
           r == y - e * 400
<1>1. e \in Int /\ r \in Int /\ 0 <= r /\ r < 400 /\ y = e * 400 + r
  BY SMT
<1>2. /\ daysFromCivil(y, 3, 1) = e * 146097 + r * 365 + r \div 4 - r \div 100 - 719468
      /\ IsLeap(y) <=> r % 4 = 0 /\ (r % 100 # 0 \/ r = 0)
  BY <1>1, SMT DEF daysFromCivil, IsLeap
<1>3. DaysIn(y, 2) = IF IsLeap(y) THEN 29 ELSE 28
  BY DEF DaysIn
<1>4. CASE r = 0
  <2>1. (y - 1) \div 400 = e - 1
    BY <1>1, <1>4, SMT
  <2>2. IsLeap(y)
    BY <1>2, <1>4, SMT
  <2>3. daysFromCivil(y, 2, 29) = (e - 1) * 146097 + 399 * 365 + 99 - 3 + 365 - 719468
    BY <1>1, <1>4, <2>1, SMT DEF daysFromCivil
  <2> QED
    BY <1>1, <1>2, <1>4, <1>3, <2>2, <2>3, SMT
<1>5. CASE r > 0
  <2>1. (y - 1) \div 400 = e
    BY <1>1, <1>5, SMT
  <2>2. (r - 1) \div 4 = IF r % 4 = 0 THEN r \div 4 - 1 ELSE r \div 4
    BY <1>1, <1>5, SMT
  <2>3. (r - 1) \div 100 = IF r % 100 = 0 THEN r \div 100 - 1 ELSE r \div 100
    BY <1>1, <1>5, SMT
  <2>4. r % 100 = 0 => r % 4 = 0
    BY <1>1, SMT
  <2>5. /\ daysFromCivil(y, 2, 28)
             = e * 146097 + (r - 1) * 365 + (r - 1) \div 4 - (r - 1) \div 100 + 364 - 719468
        /\ daysFromCivil(y, 2, 29)
             = e * 146097 + (r - 1) * 365 + (r - 1) \div 4 - (r - 1) \div 100 + 365 - 719468
    BY <1>1, <2>1, SMT DEF daysFromCivil
  <2> QED
    BY <1>1, <1>2, <1>5, <1>3, <2>2, <2>3, <2>4, <2>5, SMT
<1> QED
  BY <1>1, <1>4, <1>5

\* daysFromCivil is 0 for the first day of 1970 and grows by one from each day to
\* the next, over leap years and centuries (gnss.cpp:86-93).
THEOREM DaysCountUp ==
  /\ daysFromCivil(1970, 1, 1) = 0
  /\ \A y \in Nat, m \in 1..12 : \A d \in 1..DaysIn(y, m) :
       LET t == Tomorrow(y, m, d) IN
         daysFromCivil(t.year, t.month, t.day) = daysFromCivil(y, m, d) + 1
<1>1. daysFromCivil(1970, 1, 1) = 0
  BY SMT DEF daysFromCivil
<1>2. ASSUME NEW y \in Nat, NEW m \in 1..12, NEW d \in 1..DaysIn(y, m)
      PROVE  LET t == Tomorrow(y, m, d) IN
               daysFromCivil(t.year, t.month, t.day) = daysFromCivil(y, m, d) + 1
  <2>1. DaysIn(y, m) \in Int /\ d \in Int /\ d <= DaysIn(y, m)
    BY SMT DEF DaysIn
  <2>2. CASE d < DaysIn(y, m)
    <3>1. daysFromCivil(y, m, d + 1) = daysFromCivil(y, m, d) + 1
      BY <2>1, SMT DEF daysFromCivil
    <3> QED
      BY <2>2, <3>1 DEF Tomorrow
  <2>3. CASE d = DaysIn(y, m) /\ m < 12
    <3>1. daysFromCivil(y, m + 1, 1) = daysFromCivil(y, m, d) + 1
      BY <2>3, NextMonth, AfterFebruary, SMT
    <3> QED
      BY <2>1, <2>3, <3>1, SMT DEF Tomorrow
  <2>4. CASE d = DaysIn(y, m) /\ m = 12
    <3>1. d = 31
      BY <2>4, SMT DEF DaysIn
    <3> QED
      BY <2>1, <2>4, <3>1, NextYear, SMT DEF Tomorrow
  <2> QED
    BY <2>1, <2>2, <2>3, <2>4, SMT
<1> QED
  BY <1>1, <1>2

\* A second after the last of a day begins the next day: unixTime has neither
\* gaps nor repetitions once the module knows the date (gnss.cpp:95-99).
THEOREM MidnightCounts ==
  ASSUME NEW y \in Nat, y >= 2024, NEW m \in 1..12, NEW d \in 1..DaysIn(y, m)
  PROVE  LET t == Tomorrow(y, m, d) IN
           unixTime(t.year, t.month, t.day, 0, 0, 0) = unixTime(y, m, d, 23, 59, 59) + 1
<1> DEFINE t == Tomorrow(y, m, d)
<1>1. daysFromCivil(t.year, t.month, t.day) = daysFromCivil(y, m, d) + 1
  BY DaysCountUp
<1>2. t.year \in Int /\ t.year >= 2024
  BY SMT DEF Tomorrow
<1>3. daysFromCivil(y, m, d) \in Int
  BY SMT DEF daysFromCivil
<1> QED
  BY <1>1, <1>2, <1>3, SMT DEF unixTime

-----------------------------------------------------------------------------
(* The age of a position *)

\* The assumptions on the constants as the steps use them.
LEMMA Numbers ==
  /\ Day \in Nat /\ MaxFixAge \in Nat /\ MaxPositionAgeSec \in Nat /\ MaxBlock \in Nat
  /\ Start \in Nat /\ End \in Nat /\ Day > 0 /\ Start >= Day
  BY FixAgeAssumption

LEMMA UnknownIsNone == Unknown \notin Nat
  BY FixAgeAssumption

\* A day behind or not, unixTime never runs ahead of the time.
LEMMA NotAhead ==
  ASSUME NEW date \in Nat, NEW time \in Nat, date <= time \div Day
  PROVE  (date * Day) + (time % Day) \in Nat /\ (date * Day) + (time % Day) <= time
<1>1. Day \in Nat /\ Day > 0
  BY Numbers
<1>2. /\ time \div Day \in Nat /\ time % Day \in Nat
      /\ time = Day * (time \div Day) + (time % Day)
  BY <1>1, SMT
<1>3. date * Day <= (time \div Day) * Day
  BY <1>1, <1>2, SMT
<1> QED
  BY <1>1, <1>2, <1>3, SMT

LEMMA InitSound == Init => IInv
<1> SUFFICES ASSUME Init PROVE IInv
  OBVIOUS
<1>1. NoFix \in Fixes
  BY DEF NoFix, Fixes
<1>2. TypeOK
  BY <1>1, Numbers DEF Init, TypeOK
<1>3. GpsSound
  BY DEF Init, GpsSound
<1>4. FixSound /\ RxSound
  BY DEF Init, FixSound, RxSound
<1> QED
  BY <1>2, <1>3, <1>4 DEF IInv

\* A new sentence sets the time, and with RMC the date, to the present.
LEMMA SentenceSound ==
  ASSUME IInv, NEW n \in Trackers, NEW s \in {"GGA", "RMC"}, Sentence(n, s)
  PROVE  IInv'
<1>1. PICK hasFix \in BOOLEAN :
        gps' = [gps EXCEPT ![n] =
          [date     |-> IF s = "RMC" THEN now \div Day ELSE @.date,
           time     |-> now,
           location |-> IF hasFix THEN now ELSE @.location]]
  BY DEF Sentence
<1>2. come' = [come EXCEPT ![n] = @ \cup {s}] /\ UNCHANGED <<now, fix, rx>>
  BY DEF Sentence
<1>3. now \in Nat /\ Start <= now /\ Day \in Nat /\ Day > 0 /\ now \div Day \in Nat
  BY Numbers, SMT DEF IInv, TypeOK
<1> DEFINE g == gps'[n]
<1>4. /\ g.time = now
      /\ g.date = IF s = "RMC" THEN now \div Day ELSE gps[n].date
      /\ g.location = IF hasFix THEN now ELSE gps[n].location
      /\ \A m \in Trackers : m # n => gps'[m] = gps[m] /\ come'[m] = come[m]
      /\ come'[n] # {}
  BY <1>1, <1>2 DEF IInv, TypeOK
<1>5. TypeOK'
  BY <1>1, <1>2, <1>3 DEF IInv, TypeOK
<1>6. GpsSound'
  <2>1. ASSUME NEW m \in Trackers, m # n
        PROVE  /\ come'[m] # {} => gps'[m].time # Unknown
               /\ gps'[m].time # Unknown =>
                    Start <= gps'[m].time /\ gps'[m].time <= now'
                      /\ now' <= gps'[m].time + (IF come'[m] = {} THEN 1 ELSE 0)
               /\ gps'[m].date # Unknown => gps'[m].time # Unknown /\ gps'[m].date <= gps'[m].time \div Day
               /\ gps'[m].location # Unknown => gps'[m].time # Unknown /\ gps'[m].location <= gps'[m].time
    BY <1>2, <1>4, <2>1 DEF IInv, GpsSound
  <2>2. now # Unknown
    BY <1>3, UnknownIsNone
  <2>3. gps[n].location # Unknown => gps[n].location \in Nat /\ gps[n].time \in Nat
                                      /\ gps[n].location <= gps[n].time /\ gps[n].time <= now
    BY DEF IInv, GpsSound, TypeOK
  <2>4. g.location # Unknown => g.location <= now
    BY <1>3, <1>4, <2>3
  <2>5. gps[n].date # Unknown => gps[n].date \in Nat /\ gps[n].time \in Nat
                                  /\ gps[n].date <= gps[n].time \div Day /\ gps[n].time <= now
    BY DEF IInv, GpsSound, TypeOK
  <2>6. g.date # Unknown => g.date <= now \div Day
    <3>1. ASSUME NEW t \in Nat, t <= now PROVE t \div Day <= now \div Day
      BY <1>3, <3>1, SMT
    <3>2. ASSUME gps[n].date # Unknown PROVE gps[n].date <= now \div Day
      <4>1. gps[n].time \div Day <= now \div Day /\ gps[n].time \div Day \in Nat
        BY <1>3, <2>5, <3>1, <3>2, SMT
      <4> QED
        BY <1>3, <2>5, <3>2, <4>1, SMT
    <3> QED
      BY <1>3, <1>4, <3>2
  <2> QED
    BY <1>2, <1>3, <1>4, <2>1, <2>2, <2>4, <2>6 DEF GpsSound
<1>7. FixSound' /\ RxSound'
  BY <1>2 DEF IInv, FixSound, RxSound, WasSound
<1> QED
  BY <1>5, <1>6, <1>7 DEF IInv

\* A sample has what the sentences have said.
LEMMA SampleSound ==
  ASSUME IInv, NEW n \in Trackers, Sample(n)
  PROVE  IInv'
<1> DEFINE g == gps[n]
           f == Snapshot(g)
<1>1. fix' = [fix EXCEPT ![n] = f] /\ UNCHANGED <<now, gps, come, rx>>
  BY DEF Sample
<1>2. /\ g.date \in Nat \cup {Unknown} /\ g.time \in Nat \cup {Unknown} /\ g.location \in Nat \cup {Unknown}
      /\ now \in Nat
  BY DEF IInv, TypeOK
<1>3. /\ g.time # Unknown => Start <= g.time /\ g.time <= now /\ now <= g.time + 1
      /\ g.date # Unknown => g.time # Unknown /\ g.date <= g.time \div Day
      /\ g.location # Unknown => g.time # Unknown /\ g.location <= g.time
  BY <1>2, Numbers DEF IInv, GpsSound
<1>4. UnixTime(g) \in Nat /\ (UnixTime(g) # 0 => g.time # Unknown /\ UnixTime(g) <= g.time)
  <2>1. CASE g.date = Unknown \/ g.time = Unknown
    BY <2>1 DEF UnixTime
  <2>2. CASE g.date # Unknown /\ g.time # Unknown
    BY <1>2, <1>3, <2>2, NotAhead DEF UnixTime
  <2> QED
    BY <2>1, <2>2
<1>5. /\ f.valid = Valid(g) /\ f.location = (IF Valid(g) THEN g.location ELSE Unknown)
      /\ f.time = g.time /\ f.unixTime = UnixTime(g) /\ f.taken = now
  BY DEF Snapshot
<1>6. f \in Fixes
  BY <1>2, <1>4 DEF Snapshot, Fixes, Valid
<1> HIDE DEF f, g
<1>7. WasSound(f)
  <2>1. now # Unknown
    BY <1>2, UnknownIsNone
  <2>2. Valid(g) => g.location # Unknown /\ g.location \in Nat /\ now < g.location + MaxFixAge
    BY <1>2, Numbers DEF Valid
  <2> QED
    BY <1>2, <1>3, <1>4, <1>5, <2>1, <2>2 DEF WasSound
<1>8. TypeOK'
  BY <1>1, <1>6 DEF IInv, TypeOK
<1>9. GpsSound' /\ RxSound'
  BY <1>1 DEF IInv, GpsSound, RxSound, WasSound
<1>10. FixSound'
  <2>1. \A m \in Trackers : fix'[m] = IF m = n THEN f ELSE fix[m]
    BY <1>1 DEF IInv, TypeOK
  <2>2. f.taken <= now /\ now <= f.taken + MaxBlock
    BY <1>2, <1>5, Numbers
  <2>3. ASSUME NEW m \in Trackers, m # n, fix[m] # NoFix
        PROVE  WasSound(fix[m]) /\ fix[m].taken <= now /\ now <= fix[m].taken + MaxBlock
    BY <2>3 DEF IInv, FixSound
  <2>4. ASSUME NEW m \in Trackers, fix'[m] # NoFix
        PROVE  WasSound(fix'[m]) /\ fix'[m].taken <= now /\ now <= fix'[m].taken + MaxBlock
    <3>1. CASE m = n
      <4>1. fix'[m] = f
        BY <2>1, <3>1
      <4> QED
        BY <1>7, <2>2, <4>1
    <3>2. CASE m # n
      <4>1. fix'[m] = fix[m]
        BY <2>1, <3>2
      <4> QED
        BY <2>3, <2>4, <3>2, <4>1
    <3> QED
      BY <3>1, <3>2
  <2> QED
    BY <1>1, <2>4 DEF FixSound
<1> QED
  BY <1>8, <1>9, <1>10 DEF IInv

\* The end of a round forgets the sample; a sent one had a valid fix.
LEMMA RoundSound ==
  ASSUME IInv, NEW n \in Trackers, EndsRound(n), UNCHANGED <<now, gps, come>>,
         rx' = rx \/ rx' = NoFix \/ (rx' = fix[n] /\ fix[n].valid)
  PROVE  IInv'
<1>1. fix[n] # NoFix /\ fix' = [fix EXCEPT ![n] = NoFix]
  BY DEF EndsRound
<1>2. NoFix \in Fixes
  BY DEF NoFix, Fixes
<1>3. TypeOK'
  BY <1>1, <1>2 DEF IInv, TypeOK
<1>4. GpsSound'
  BY DEF IInv, GpsSound
<1>5. FixSound'
  BY <1>1 DEF IInv, TypeOK, FixSound, WasSound
<1>6. RxSound'
  BY <1>1 DEF IInv, FixSound, RxSound, WasSound
<1> QED
  BY <1>3, <1>4, <1>5, <1>6 DEF IInv

\* Time passes only when each module has sent a sentence and no round is overdue.
LEMMA TickSound ==
  ASSUME IInv, Tick
  PROVE  IInv'
<1>1. /\ now' = now + 1 /\ come' = [n \in Trackers |-> {}] /\ UNCHANGED <<gps, fix, rx>>
      /\ \A n \in Trackers : come[n] # {} /\ (fix[n] # NoFix => now < fix[n].taken + MaxBlock)
  BY DEF Tick
<1>2. TypeOK'
  BY <1>1, Numbers DEF IInv, TypeOK
<1>3. /\ now \in Nat
      /\ \A n \in Trackers : gps[n].time # Unknown => gps[n].time \in Nat
      /\ \A n \in Trackers : fix[n].taken # Unknown => fix[n].taken \in Nat
      /\ rx.taken # Unknown => rx.taken \in Nat
  BY DEF IInv, TypeOK, Fixes
<1>4. GpsSound'
  BY <1>1, <1>3 DEF IInv, GpsSound
<1>5. \A n \in Trackers : fix[n] # NoFix =>
        WasSound(fix[n]) /\ fix[n].taken <= now' /\ now' <= fix[n].taken + MaxBlock
  BY <1>1, <1>3, Numbers DEF IInv, FixSound, WasSound
<1>6. RxSound'
  BY <1>1, <1>3 DEF IInv, RxSound, WasSound
<1> QED
  BY <1>1, <1>2, <1>4, <1>5, <1>6 DEF IInv, FixSound, WasSound

LEMMA StepSound == IInv /\ [Next]_vars => IInv'
<1> SUFFICES ASSUME IInv, [Next]_vars PROVE IInv'
  OBVIOUS
<1> "sender" \in Trackers /\ "gateway" \in Trackers
  BY DEF Trackers
<1>1. CASE Tick
  BY <1>1, TickSound
<1>2. CASE SendsPosition
  BY <1>2, RoundSound DEF SendsPosition
<1>3. CASE TakesPosition
  BY <1>3, RoundSound DEF TakesPosition
<1>4. ASSUME NEW n \in Trackers, Idles(n) PROVE IInv'
  BY <1>4, RoundSound DEF Idles
<1>5. ASSUME NEW n \in Trackers, Sample(n) PROVE IInv'
  BY <1>5, SampleSound
<1>6. ASSUME NEW n \in Trackers, NEW s \in {"GGA", "RMC"}, Sentence(n, s) PROVE IInv'
  BY <1>6, SentenceSound
<1>7. CASE UNCHANGED vars
  BY <1>7 DEF vars, IInv, TypeOK, GpsSound, FixSound, RxSound, WasSound
<1> QED
  BY <1>1, <1>2, <1>3, <1>4, <1>5, <1>6, <1>7 DEF Next

\* What is known when the gateway compares a position with its own fix.
LEMMA Judged ==
  ASSUME IInv, Judges
  PROVE  LET own == fix["gateway"] IN
           /\ WasSound(own) /\ own.taken <= now /\ now <= own.taken + MaxBlock
           /\ WasSound(rx) /\ rx.taken <= now /\ rx.valid
           /\ own.unixTime \in Nat /\ rx.unixTime \in Nat /\ now \in Nat
           /\ own.taken \in Nat /\ rx.taken \in Nat /\ rx.location \in Nat /\ rx.time \in Nat
           /\ own.time \in Nat \cup {Unknown}
<1>1. "gateway" \in Trackers
  BY DEF Trackers
<1>2. /\ WasSound(fix["gateway"]) /\ fix["gateway"].taken <= now
      /\ now <= fix["gateway"].taken + MaxBlock
      /\ WasSound(rx) /\ rx.taken <= now /\ rx.valid
  BY <1>1 DEF IInv, FixSound, RxSound, Judges
<1> QED
  BY <1>1, <1>2 DEF IInv, TypeOK, Fixes, WasSound

\* The age check of forwardPosition never drops a position below the limit whose
\* sender knew the date, whatever the gateway's own fix was (gateway.cpp:107).
THEOREM FreshForwarded == Spec => []RecentIsForwarded
<1>1. IInv => RecentIsForwarded
  <2> SUFFICES ASSUME IInv, Judges, RightDay(rx), now - rx.location <= MaxPositionAgeSec,
                      TooOld(fix["gateway"], rx)
               PROVE  FALSE
    BY DEF RecentIsForwarded
  <2> DEFINE own == fix["gateway"]
  <2>1. own.unixTime <= own.time /\ own.time <= own.taken /\ own.time \in Nat
    BY Judged DEF TooOld, WasSound
  <2>2. rx.location <= rx.time /\ rx.time = rx.unixTime
    BY Judged DEF WasSound, RightDay
  <2> QED
    BY <2>1, <2>2, Judged, Numbers DEF TooOld
<1> QED
  BY <1>1, InitSound, StepSound, PTL DEF Spec

\* A position is never posted at an age beyond the limit plus the age of a valid
\* fix and the longest round, by a gateway that knows the date; the bound is exact.
THEOREM StaleDropped == Spec => []OldIsDropped
<1>1. IInv => OldIsDropped
  <2> SUFFICES ASSUME IInv, Judges, ~TooOld(fix["gateway"], rx), rx.unixTime # 0,
                      RightDay(fix["gateway"])
               PROVE  now - rx.location <= MaxPositionAgeSec + MaxFixAge + MaxBlock
    BY DEF OldIsDropped
  <2> DEFINE own == fix["gateway"]
  <2>1. own.time = own.unixTime /\ own.time # Unknown
    BY Judged, UnknownIsNone DEF RightDay
  <2>2. own.taken <= own.time + 1 /\ Start <= own.time
    BY <2>1, Judged DEF WasSound
  <2>3. own.unixTime <= rx.unixTime + MaxPositionAgeSec
    BY <2>1, <2>2, Judged, Numbers DEF TooOld
  <2>4. rx.unixTime <= rx.time /\ rx.time <= rx.taken /\ rx.taken < rx.location + MaxFixAge
    BY Judged DEF WasSound
  <2> QED
    BY <2>1, <2>2, <2>3, <2>4, Judged, Numbers
<1> QED
  BY <1>1, InitSound, StepSound, PTL DEF Spec

-----------------------------------------------------------------------------
(* The clocks of the URL cache *)

Entries ==
  [node : Nodes \cup {NoNode}, hasUrl : BOOLEAN,
   lastUsed : 0..MillisMod - 1, lastRequest : 0..MillisMod - 1]

LEMMA LruNumbers ==
  /\ MillisMod \in Nat /\ MillisMod > 0 /\ RequestGap \in Nat /\ MaxUptime \in Nat /\ MaxUptime > 0
  /\ NoNode \notin Nodes /\ CacheSize \in Nat /\ Slots = 1..CacheSize
  BY ClockAssumption, LruAssumption DEF Slots

LEMMA MillisIs ==
  ASSUME LruTypeOK PROVE uptime \in Nat /\ Millis \in 0..MillisMod - 1 /\ Millis = uptime % MillisMod
<1>1. uptime \in Nat /\ MillisMod \in Nat /\ MillisMod > 0
  BY LruNumbers DEF LruTypeOK
<1>2. uptime % MillisMod \in 0..MillisMod - 1
  BY <1>1, SMT
<1> QED
  BY <1>1, <1>2 DEF Millis

\* The difference of two readings is never more than the time that has passed.
LEMMA SinceAtMost ==
  ASSUME NEW x \in Nat, NEW y \in Nat, y <= x
  PROVE  Since(x % MillisMod, y % MillisMod) <= x - y
<1> DEFINE m == MillisMod
           k == x \div m
           l == y \div m
           a == x % m
           b == y % m
<1>1. m \in Nat /\ m > 0
  BY LruNumbers
<1>2. /\ x = m * k + a /\ k \in Nat /\ a \in Nat /\ a < m
      /\ y = m * l + b /\ l \in Nat /\ b \in Nat /\ b < m
  BY <1>1, SMT
<1>3. Since(a, b) = (a + m - b) % m
  BY DEF Since
<1>4. (a + m - b) % m = IF a < b THEN a + m - b ELSE a - b
  <2>1. CASE a < b
    <3>1. a + m - b \in 0..m - 1
      BY <1>1, <1>2, <2>1
    <3> QED
      BY <1>1, <2>1, <3>1, SMT
  <2>2. CASE ~(a < b)
    <3>1. a - b \in 0..m - 1 /\ a + m - b = m + (a - b)
      BY <1>1, <1>2, <2>2
    <3>2. \A i \in 0..m - 1 : (m + i) % m = i
      BY <1>1, SMT
    <3> QED
      BY <1>2, <2>2, <3>1, <3>2
  <2> QED
    BY <2>1, <2>2
<1> HIDE DEF m, k, l, a, b
<1>5. k >= l
  <2>1. SUFFICES ASSUME k + 1 <= l PROVE FALSE
    BY <1>2
  <2>2. m * (k + 1) <= m * l
    BY <1>1, <1>2, <2>1, SMT
  <2>3. m * (k + 1) = m * k + m
    BY <1>1, <1>2, SMT
  <2>4. m * k \in Nat /\ m * l \in Nat
    BY <1>1, <1>2, SMT
  <2> HIDE DEF m
  <2> QED
    BY <1>1, <1>2, <2>2, <2>3, <2>4
<1>6. m * k \in Nat /\ m * l \in Nat /\ m * l <= m * k
  BY <1>1, <1>2, <1>5, SMT
<1>7. CASE a < b
  <2>1. k >= l + 1
    BY <1>1, <1>2, <1>5, <1>7, <1>6
  <2>2. m * (l + 1) <= m * k /\ m * (l + 1) = m * l + m
    BY <1>1, <1>2, <2>1, SMT
  <2>3. a + m - b <= x - y
    BY <1>1, <1>2, <1>6, <2>2
  <2> QED
    BY <1>3, <1>4, <1>7, <2>3 DEF a, b, m
<1>8. CASE ~(a < b)
  <2>1. a - b <= x - y
    BY <1>1, <1>2, <1>6
  <2> QED
    BY <1>3, <1>4, <1>8, <2>1 DEF a, b, m
<1> QED
  BY <1>7, <1>8

\* findOrCreate returns a slot with the node's entry or, if it has none, a
\* fresh one: a free slot, or the least recently used one of a full cache.
LEMMA ChosenSound ==
  ASSUME LruIInv, NEW n \in Nodes, NEW s \in Chosen(n)
  PROVE  /\ s \in Slots /\ Found(n, s) \in Entries /\ Found(n, s).node = n
         /\ \A t \in Slots \ {s} : cache[t].node # n
         /\ cache[s].node = n => Found(n, s) = cache[s]
         /\ cache[s].node # n => /\ Found(n, s) = Entry(n, FALSE)
                                 /\ cache[s].node # NoNode => Free = {} /\ s \in OldestVictim
<1>1. LruTypeOK /\ OneEntry /\ n # NoNode
  BY LruNumbers DEF LruIInv
<1>2. s \in Slots
  BY DEF Chosen, SlotOf, Free, OldestVictim
<1>3. cache[s] \in Entries /\ 0 \in 0..MillisMod - 1
  BY <1>1, <1>2, LruNumbers DEF LruTypeOK, Entries
<1>4. Found(n, s) \in Entries /\ Found(n, s).node = n
  BY <1>3 DEF Found, Entry, Entries
<1>5. \A t \in Slots \ {s} : cache[t].node # n
  <2>1. CASE SlotOf(n) # {}
    <3>1. cache[s].node = n
      BY <2>1 DEF Chosen, SlotOf
    <3> QED
      BY <1>1, <1>2, <3>1 DEF OneEntry
  <2>2. CASE SlotOf(n) = {}
    BY <2>2 DEF SlotOf
  <2> QED
    BY <2>1, <2>2
<1>6. ASSUME cache[s].node # n, cache[s].node # NoNode PROVE Free = {} /\ s \in OldestVictim
  BY <1>6 DEF Chosen, Free, SlotOf
<1> QED
  BY <1>2, <1>4, <1>5, <1>6 DEF Found

\* A change of that entry keeps the cache a cache.
LEMMA EntryKept ==
  ASSUME LruIInv, NEW n \in Nodes, NEW s \in Chosen(n), NEW e \in Entries, e.node = n,
         cache' = [cache EXCEPT ![s] = e]
  PROVE  /\ cache' \in [Slots -> Entries] /\ OneEntry'
         /\ cache'[s] = e /\ \A t \in Slots \ {s} : cache'[t] = cache[t]
<1>1. cache \in [Slots -> Entries] /\ OneEntry
  BY DEF LruIInv, LruTypeOK, Entries
<1>2. s \in Slots /\ \A t \in Slots \ {s} : cache[t].node # n
  BY ChosenSound
<1>3. cache' \in [Slots -> Entries] /\ cache'[s] = e /\ \A t \in Slots \ {s} : cache'[t] = cache[t]
  BY <1>1, <1>2
<1> QED
  BY <1>1, <1>2, <1>3 DEF OneEntry

\* Since millis() last began at 0 its readings grow with the time.
LEMMA ReadingGrows ==
  ASSUME NEW u \in Nat, NEW x \in Nat, x <= u, u - (u % MillisMod) <= x
  PROVE  x % MillisMod = x - (u - (u % MillisMod))
<1> DEFINE m == MillisMod
           k == u \div m
           l == x \div m
           r == u % m
           d == x % m
<1>1. m \in Nat /\ m > 0
  BY LruNumbers
<1>2. /\ u = m * k + r /\ k \in Nat /\ r \in Nat /\ r < m
      /\ x = m * l + d /\ l \in Nat /\ d \in Nat /\ d < m
  BY <1>1, SMT
<1>3. u - r <= x /\ x <= u
  OBVIOUS
<1> HIDE DEF m, k, l, r, d
<1>4. m * k \in Nat /\ m * l \in Nat
  BY <1>1, <1>2, SMT
<1>5. ~(k + 1 <= l)
  <2> SUFFICES ASSUME k + 1 <= l PROVE FALSE
    OBVIOUS
  <2>1. m * (k + 1) <= m * l /\ m * (k + 1) = m * k + m
    BY <1>1, <1>2, SMT
  <2> QED
    BY <1>1, <1>2, <1>3, <1>4, <2>1
<1>6. ~(l + 1 <= k)
  <2> SUFFICES ASSUME l + 1 <= k PROVE FALSE
    OBVIOUS
  <2>1. m * (l + 1) <= m * k /\ m * (l + 1) = m * l + m
    BY <1>1, <1>2, SMT
  <2> QED
    BY <1>1, <1>2, <1>3, <1>4, <2>1
<1>7. k = l
  BY <1>2, <1>5, <1>6
<1>8. d = x - (u - r)
  BY <1>2, <1>4, <1>7
<1> QED
  BY <1>8 DEF d, r, m

\* What a node's entry is after findOrCreate returned it, and the code either
\* used it or left its time of use alone.
LEMMA UseRecorded ==
  ASSUME LruIInv, NEW n \in Nodes, NEW s \in Chosen(n), NEW e \in Entries, e.node = n,
         cache' = [cache EXCEPT ![s] = e], uptime' = uptime,
         \/ Used(n) /\ e.lastUsed = Millis
         \/ usedAt' = usedAt /\ cache[s].node = n /\ e.lastUsed = cache[s].lastUsed
  PROVE  /\ usedAt' \in [Nodes -> 0..uptime']
         /\ \A t \in Slots, o \in Nodes :
              cache'[t].node = o => cache'[t].lastUsed = usedAt'[o] % MillisMod
         /\ \A t \in Slots : cache'[t].node = NoNode => cache'[t].lastUsed = 0
         /\ LostReadsOldest'
<1>1. LruTypeOK /\ OneEntry /\ StampsSound /\ LostReadsOldest /\ n # NoNode /\ s \in Slots
  BY LruNumbers, ChosenSound DEF LruIInv
<1>2. /\ uptime \in Nat /\ Millis \in Nat /\ Millis = uptime % MillisMod
      /\ usedAt \in [Nodes -> 0..uptime]
  BY <1>1, MillisIs, LruNumbers DEF LruTypeOK
<1>3. cache'[s] = e /\ \A t \in Slots \ {s} : cache'[t] = cache[t] /\ cache[t].node # n
  BY EntryKept, ChosenSound
<1>4. usedAt' \in [Nodes -> 0..uptime'] /\ \A o \in Nodes \ {n} : usedAt'[o] = usedAt[o]
  <2>1. CASE Used(n)
    <3>1. uptime \in 0..uptime
      BY <1>2
    <3> QED
      BY <1>2, <2>1, <3>1 DEF Used
  <2>2. CASE usedAt' = usedAt
    BY <1>2, <2>2
  <2> QED
    BY <2>1, <2>2
<1>5. e.lastUsed = usedAt'[n] % MillisMod
  <2>1. CASE Used(n) /\ e.lastUsed = Millis
    BY <1>2, <2>1 DEF Used
  <2>2. CASE usedAt' = usedAt /\ cache[s].node = n /\ e.lastUsed = cache[s].lastUsed
    BY <1>1, <2>2 DEF StampsSound
  <2> QED
    BY <2>1, <2>2
<1>6. ASSUME NEW t \in Slots, NEW o \in Nodes, cache'[t].node = o
      PROVE  cache'[t].lastUsed = usedAt'[o] % MillisMod
  <2>1. CASE t = s
    BY <1>3, <1>5, <1>6, <2>1
  <2>2. CASE t # s
    BY <1>1, <1>3, <1>4, <1>6, <2>2 DEF StampsSound
  <2> QED
    BY <2>1, <2>2
<1>7. \A t \in Slots : cache'[t].node = NoNode => cache'[t].lastUsed = 0
  BY <1>1, <1>3 DEF StampsSound
<1>8. ASSUME NEW o \in Nodes, usedAt'[o] # 0, (usedAt[o] >= LastWrap)', SlotOf(o)' = {},
             NEW t \in Slots
      PROVE  cache'[t].node # NoNode /\ usedAt'[o] % MillisMod <= cache'[t].lastUsed
  <2>1. o # n /\ usedAt'[o] = usedAt[o]
    BY <1>1, <1>3, <1>4, <1>8 DEF SlotOf
  <2>2. usedAt[o] \in Nat /\ usedAt[o] # 0 /\ usedAt[o] <= uptime /\ usedAt[o] >= LastWrap
    BY <1>2, <1>8, <2>1 DEF LastWrap, Millis
  <2>3. usedAt[o] % MillisMod <= Millis
    <3>1. usedAt[o] % MillisMod = usedAt[o] - (uptime - (uptime % MillisMod))
      BY <1>2, <2>2, ReadingGrows DEF LastWrap
    <3> QED
      BY <1>2, <2>2, <3>1
  <2>4. CASE SlotOf(o) = {}
    <3>1. cache[t].node # NoNode /\ usedAt[o] % MillisMod <= cache[t].lastUsed
      BY <1>1, <2>2, <2>4 DEF LostReadsOldest
    <3>2. CASE t # s
      BY <1>3, <2>1, <3>1, <3>2
    <3>3. CASE t = s
      BY <1>1, <1>3, <2>1, <2>3, <3>1, <3>3
    <3> QED
      BY <3>2, <3>3
  <2>5. CASE SlotOf(o) # {}
    <3>1. cache[s].node = o
      BY <1>3, <1>8, <2>5 DEF SlotOf
    <3>2. Free = {} /\ s \in OldestVictim
      BY <1>1, <2>1, <3>1, LruNumbers, ChosenSound
    <3>3. e.lastUsed = Millis
      BY <2>1, <3>1
    <3>4. cache[t].node # NoNode /\ cache[s].lastUsed <= cache[t].lastUsed
      BY <3>2 DEF Free, SlotOf, OldestVictim
    <3>5. cache[s].lastUsed = usedAt[o] % MillisMod
      BY <1>1, <3>1 DEF StampsSound
    <3> QED
      BY <1>1, <1>3, <2>1, <2>3, <3>3, <3>4, <3>5
  <2> QED
    BY <2>4, <2>5
<1>9. LostReadsOldest'
  BY <1>8 DEF LostReadsOldest
<1> QED
  BY <1>4, <1>6, <1>7, <1>9

LEMMA LruInitSound == LruInit => LruIInv
<1> SUFFICES ASSUME LruInit PROVE LruIInv
  OBVIOUS
<1>1. /\ 0 \in 0..MillisMod - 1 /\ 0 % MillisMod = 0 /\ 1 \in 1..MaxUptime /\ 0 \in 0..uptime
  BY LruNumbers, SMT DEF LruInit
<1>2. PICK known \in [Slots -> Nodes \cup {NoNode}] :
        /\ \A s, t \in Slots : known[s] = known[t] /\ s # t => known[s] = NoNode
        /\ cache = [s \in Slots |-> Entry(known[s], known[s] # NoNode)]
  BY DEF LruInit, Booted
<1>3. \A s \in Slots : /\ cache[s].node = known[s]
                         /\ cache[s].lastUsed = 0 /\ cache[s].lastRequest = 0
  BY <1>2 DEF Entry
<1>4. LruTypeOK
  BY <1>1, <1>2 DEF LruInit, LruTypeOK, Entry
<1>5. OneEntry
  BY <1>2, <1>3 DEF OneEntry
<1>6. StampsSound
  BY <1>1, <1>3 DEF StampsSound, LruInit
<1>7. LostReadsOldest
  BY DEF LruInit, LostReadsOldest
<1> QED
  BY <1>4, <1>5, <1>6, <1>7 DEF LruIInv

LEMMA StoreSound == ASSUME LruIInv, NEW n \in Nodes, Store(n) PROVE LruIInv'
<1>1. PICK s \in Chosen(n) :
        /\ cache' = [cache EXCEPT ![s] = [Found(n, s) EXCEPT !.hasUrl = TRUE, !.lastUsed = Millis]]
        /\ Used(n) /\ uptime' = uptime /\ askedAt' = askedAt
  BY DEF Store
<1> DEFINE f == Found(n, s)
           e == [f EXCEPT !.hasUrl = TRUE, !.lastUsed = Millis]
<1>2. LruTypeOK /\ StampsSound /\ s \in Slots /\ f \in Entries /\ f.node = n
  BY ChosenSound DEF LruIInv
<1>3. e \in Entries /\ e.node = n /\ e.lastUsed = Millis /\ e.lastRequest = f.lastRequest
  BY <1>2, MillisIs DEF Entries
<1>4. /\ cache' \in [Slots -> Entries] /\ OneEntry'
      /\ cache'[s] = e /\ \A t \in Slots \ {s} : cache'[t] = cache[t]
  BY <1>1, <1>3, EntryKept
<1>5. /\ usedAt' \in [Nodes -> 0..uptime'] /\ LostReadsOldest'
      /\ \A t \in Slots, o \in Nodes :
           cache'[t].node = o => cache'[t].lastUsed = usedAt'[o] % MillisMod
      /\ \A t \in Slots : cache'[t].node = NoNode => cache'[t].lastUsed = 0
  BY <1>1, <1>3, UseRecorded
<1>6. LruTypeOK'
  BY <1>1, <1>2, <1>4, <1>5 DEF LruTypeOK, Entries
<1>7. f.lastRequest # 0 => cache[s].node = n /\ f.lastRequest = cache[s].lastRequest
  BY ChosenSound DEF Entry
<1> HIDE DEF f, e
<1>8. StampsSound'
  <2>2. ASSUME NEW t \in Slots, NEW o \in Nodes, cache'[t].node = o, cache'[t].lastRequest # 0
        PROVE  cache'[t].lastRequest = askedAt'[o] % MillisMod
    <3>1. CASE t = s
      <4>1. o = n /\ f.lastRequest # 0 /\ cache'[t].lastRequest = f.lastRequest
        BY <1>3, <1>4, <2>2, <3>1
      <4> QED
        BY <1>1, <1>2, <1>7, <4>1 DEF StampsSound
    <3>2. CASE t # s
      <4>1. cache'[t] = cache[t]
        BY <1>4, <3>2
      <4> QED
        BY <1>1, <1>2, <2>2, <4>1 DEF StampsSound
    <3> QED
      BY <3>1, <3>2
  <2> QED
    BY <1>5, <2>2 DEF StampsSound
<1> QED
  BY <1>4, <1>5, <1>6, <1>8 DEF LruIInv

LEMMA ForwardSound == ASSUME LruIInv, NEW n \in Nodes, Forward(n) PROVE LruIInv'
<1>1. PICK s \in SlotOf(n) :
        /\ cache' = [cache EXCEPT ![s].lastUsed = Millis]
        /\ Used(n) /\ uptime' = uptime /\ askedAt' = askedAt
  BY DEF Forward
<1> DEFINE e == [cache[s] EXCEPT !.lastUsed = Millis]
<1>2. LruTypeOK /\ StampsSound /\ s \in Slots /\ cache[s] \in Entries /\ cache[s].node = n /\ s \in Chosen(n)
  BY DEF LruIInv, LruTypeOK, Entries, SlotOf, Chosen
<1>3. e \in Entries /\ e.node = n /\ e.lastUsed = Millis /\ e.lastRequest = cache[s].lastRequest
  BY <1>2, MillisIs DEF Entries
<1>4. cache' = [cache EXCEPT ![s] = e]
  BY <1>1, <1>2 DEF LruTypeOK
<1>5. /\ cache' \in [Slots -> Entries] /\ OneEntry'
      /\ cache'[s] = e /\ \A t \in Slots \ {s} : cache'[t] = cache[t]
  BY <1>2, <1>3, <1>4, EntryKept
<1>6. /\ usedAt' \in [Nodes -> 0..uptime'] /\ LostReadsOldest'
      /\ \A t \in Slots, o \in Nodes :
           cache'[t].node = o => cache'[t].lastUsed = usedAt'[o] % MillisMod
      /\ \A t \in Slots : cache'[t].node = NoNode => cache'[t].lastUsed = 0
  BY <1>1, <1>2, <1>3, <1>4, UseRecorded
<1>7. LruTypeOK'
  BY <1>1, <1>2, <1>5, <1>6 DEF LruTypeOK, Entries
<1> HIDE DEF e
<1>8. StampsSound'
  <2>2. ASSUME NEW t \in Slots, NEW o \in Nodes, cache'[t].node = o, cache'[t].lastRequest # 0
        PROVE  cache'[t].lastRequest = askedAt'[o] % MillisMod
    BY <1>1, <1>2, <1>3, <1>5, <2>2 DEF StampsSound
  <2> QED
    BY <1>6, <2>2 DEF StampsSound
<1> QED
  BY <1>5, <1>6, <1>7, <1>8 DEF LruIInv

\* Asking is recorded with the reading of the clock, and does not count as a use
\* unless the entry was never used.
LEMMA AskSound == ASSUME LruIInv, NEW n \in Nodes, Ask(n) PROVE LruIInv'
<1>1. PICK s \in Chosen(n) :
        LET e == Found(n, s) IN
          IF MayAsk(e)
            THEN /\ cache' = [cache EXCEPT ![s] = [e EXCEPT
                      !.lastRequest = Millis,
                      !.lastUsed = IF @ = 0 THEN Millis ELSE @]]
                 /\ askedAt' = [askedAt EXCEPT ![n] = uptime]
                 /\ IF e.lastUsed = 0 THEN Used(n) ELSE UNCHANGED usedAt
                 /\ UNCHANGED uptime
            ELSE cache' = [cache EXCEPT ![s] = e] /\ UNCHANGED <<usedAt, uptime, askedAt>>
  BY DEF Ask
<1> DEFINE f == Found(n, s)
           e == [f EXCEPT !.lastRequest = Millis, !.lastUsed = IF @ = 0 THEN Millis ELSE @]
<1>2. /\ LruTypeOK /\ StampsSound /\ OneEntry /\ s \in Slots /\ f \in Entries /\ f.node = n
      /\ \A t \in Slots \ {s} : cache[t].node # n
  BY ChosenSound DEF LruIInv
<1>3. cache \in [Slots -> Entries] /\ usedAt \in [Nodes -> 0..uptime] /\ askedAt \in [Nodes -> 0..uptime]
  BY <1>2 DEF LruTypeOK, Entries
<1>4. (f = cache[s] /\ cache[s].node = n) \/ (f.lastUsed = 0 /\ f.lastRequest = 0)
  BY ChosenSound DEF Entry
<1>5. CASE MayAsk(f)
  <2>1. /\ cache' = [cache EXCEPT ![s] = e] /\ askedAt' = [askedAt EXCEPT ![n] = uptime]
        /\ uptime' = uptime /\ (f.lastUsed = 0 => Used(n)) /\ (f.lastUsed # 0 => usedAt' = usedAt)
    BY <1>1, <1>5
  <2>2. /\ e \in Entries /\ e.node = n /\ e.lastRequest = Millis
        /\ e.lastUsed = IF f.lastUsed = 0 THEN Millis ELSE f.lastUsed
    BY <1>2, MillisIs DEF Entries
  <2> HIDE DEF f, e
  <2>3. /\ cache' \in [Slots -> Entries] /\ OneEntry'
        /\ cache'[s] = e /\ \A t \in Slots \ {s} : cache'[t] = cache[t]
    BY <2>1, <2>2, EntryKept
  <2>4. /\ usedAt' \in [Nodes -> 0..uptime'] /\ LostReadsOldest'
        /\ \A t \in Slots, o \in Nodes :
             cache'[t].node = o => cache'[t].lastUsed = usedAt'[o] % MillisMod
        /\ \A t \in Slots : cache'[t].node = NoNode => cache'[t].lastUsed = 0
    <3>1. \/ Used(n) /\ e.lastUsed = Millis
          \/ usedAt' = usedAt /\ cache[s].node = n /\ e.lastUsed = cache[s].lastUsed
      BY <1>4, <2>1, <2>2
    <3> QED
      BY <2>1, <2>2, <3>1, UseRecorded
  <2>5. /\ askedAt' \in [Nodes -> 0..uptime'] /\ askedAt'[n] = uptime
        /\ \A o \in Nodes \ {n} : askedAt'[o] = askedAt[o]
    <3>1. uptime \in 0..uptime
      BY <1>2, MillisIs
    <3> QED
      BY <1>3, <2>1, <3>1
  <2>6. LruTypeOK'
    BY <1>2, <2>1, <2>3, <2>4, <2>5 DEF LruTypeOK, Entries
  <2>8. ASSUME NEW t \in Slots, NEW o \in Nodes, cache'[t].node = o, cache'[t].lastRequest # 0
        PROVE  cache'[t].lastRequest = askedAt'[o] % MillisMod
    <3>1. CASE t = s
      <4>1. o = n /\ cache'[t].lastRequest = Millis /\ askedAt'[o] = uptime
        BY <2>2, <2>3, <2>5, <2>8, <3>1
      <4> QED
        BY <1>2, <4>1, MillisIs
    <3>2. CASE t # s
      <4>1. cache'[t] = cache[t] /\ o # n
        BY <1>2, <2>3, <2>8, <3>2
      <4>2. askedAt'[o] = askedAt[o]
        BY <2>5, <4>1
      <4> QED
        BY <1>2, <2>8, <4>1, <4>2 DEF StampsSound
    <3> QED
      BY <3>1, <3>2
  <2>9. StampsSound'
    BY <2>4, <2>8 DEF StampsSound
  <2> QED
    BY <2>3, <2>4, <2>6, <2>9 DEF LruIInv
\* A fresh entry may always ask, so this is the node's own.
<1>6. CASE ~MayAsk(f)
  <2>1. /\ cache' = [cache EXCEPT ![s] = f]
        /\ uptime' = uptime /\ usedAt' = usedAt /\ askedAt' = askedAt
    BY <1>1, <1>6
  <2>2. f = cache[s]
    BY <1>4, <1>6 DEF MayAsk
  <2>3. cache' = cache
    BY <1>3, <2>1, <2>2
  <2> QED
    <3>1. LruTypeOK' /\ OneEntry' /\ StampsSound'
      BY <1>2, <2>1, <2>3 DEF LruTypeOK, OneEntry, StampsSound
    <3>2. LastWrap' = LastWrap /\ \A o \in Nodes : SlotOf(o)' = SlotOf(o)
      BY <2>1, <2>3 DEF LastWrap, Millis, SlotOf
    <3>3. LostReadsOldest
      BY DEF LruIInv
    <3>4. LostReadsOldest'
      BY <2>1, <2>3, <3>2, <3>3 DEF LostReadsOldest
    <3> QED
      BY <3>1, <3>4 DEF LruIInv
<1> QED
  BY <1>5, <1>6

LEMMA LruTickSound == LruIInv /\ LruTick => LruIInv'
<1> SUFFICES ASSUME LruIInv, LruTick PROVE LruIInv'
  OBVIOUS
<1>1. LruTypeOK'
  <2>1. uptime \in 1..MaxUptime /\ uptime < MaxUptime /\ uptime' = uptime + 1
    BY DEF LruIInv, LruTypeOK, LruTick
  <2>2. uptime' \in 1..MaxUptime /\ 0..uptime \subseteq 0..uptime'
    BY <2>1, LruNumbers
  <2> QED
    BY <2>2 DEF LruIInv, LruTypeOK, LruTick
<1>2. LostReadsOldest'
  <2>1. /\ uptime \in Nat /\ uptime' = uptime + 1 /\ cache' = cache /\ usedAt' = usedAt
        /\ MillisMod \in Nat /\ MillisMod > 0 /\ usedAt \in [Nodes -> 0..uptime]
    BY MillisIs, LruNumbers DEF LruIInv, LruTypeOK, LruTick
  <2>2. (uptime + 1) % MillisMod <= (uptime % MillisMod) + 1
    <3> DEFINE m == MillisMod
               k == uptime \div m
               r == uptime % m
               l == (uptime + 1) \div m
               d == (uptime + 1) % m
    <3>1. /\ uptime = m * k + r /\ k \in Nat /\ r \in Nat
          /\ uptime + 1 = m * l + d /\ l \in Nat /\ d \in Nat /\ d < m
      BY <2>1, SMT
    <3>2. m \in Nat
      BY <2>1
    <3> HIDE DEF m, k, r, l, d
    <3>3. m * k \in Nat /\ m * l \in Nat
      BY <3>1, <3>2, SMT
    <3>4. ~(l + 1 <= k)
      <4> SUFFICES ASSUME l + 1 <= k PROVE FALSE
        OBVIOUS
      <4>1. m * (l + 1) <= m * k /\ m * (l + 1) = m * l + m
        BY <3>1, <3>2, SMT
      <4> QED
        BY <3>1, <3>2, <3>3, <4>1
    <3>5. m * k <= m * l
      BY <3>1, <3>2, <3>4, SMT
    <3>6. d <= r + 1
      BY <3>1, <3>3, <3>5
    <3> QED
      BY <3>6 DEF d, r, m
  <2>3. LastWrap' = (uptime + 1) - ((uptime + 1) % MillisMod)
    BY <2>1 DEF LastWrap, Millis
  <2>4. LastWrap = uptime - (uptime % MillisMod)
    BY DEF LastWrap, Millis
  <2>5. LastWrap \in Int /\ LastWrap' \in Int /\ LastWrap <= LastWrap'
    BY <2>1, <2>2, <2>3, <2>4
  <2>6. \A n \in Nodes : usedAt[n] \in Int /\ (usedAt[n] >= LastWrap' => usedAt[n] >= LastWrap)
    BY <2>1, <2>5
  <2>7. LostReadsOldest
    BY DEF LruIInv
  <2> QED
    BY <2>1, <2>6, <2>7 DEF LostReadsOldest, SlotOf
<1> QED
  BY <1>1, <1>2 DEF LruIInv, LruTick, OneEntry, StampsSound

LEMMA LruRebootSound == LruIInv /\ Reboot => LruIInv'
<1> SUFFICES ASSUME LruIInv, Reboot PROVE LruIInv'
  OBVIOUS
<1>1. /\ 0 \in 0..MillisMod - 1 /\ 0 % MillisMod = 0 /\ 1 \in 1..MaxUptime /\ 0 \in 0..uptime'
  BY LruNumbers, SMT DEF Reboot
<1>2. \A s \in Slots :
        /\ cache'[s] \in Entries /\ cache'[s].node \in {cache[s].node, NoNode}
        /\ cache'[s].lastUsed = 0 /\ cache'[s].lastRequest = 0
  BY <1>1 DEF Reboot, Entry, Entries, LruIInv, LruTypeOK
<1>3. cache' \in [Slots -> Entries]
  BY <1>2 DEF Reboot
<1>4. LruTypeOK'
  BY <1>1, <1>3 DEF LruTypeOK, Entries, Reboot
<1>5. OneEntry'
  BY <1>2 DEF LruIInv, OneEntry
<1>6. StampsSound'
  BY <1>1, <1>2 DEF StampsSound, Reboot
<1>7. LostReadsOldest'
  BY DEF LostReadsOldest, Reboot
<1> QED
  BY <1>4, <1>5, <1>6, <1>7 DEF LruIInv

LEMMA LruInductive == LruSpec => []LruIInv
<1>1. LruIInv /\ [LruNext]_lruVars => LruIInv'
  <2> SUFFICES ASSUME LruIInv, [LruNext]_lruVars PROVE LruIInv'
    OBVIOUS
  <2>1. CASE UNCHANGED lruVars
    BY <2>1 DEF lruVars, LruIInv, LruTypeOK, OneEntry, StampsSound, LostReadsOldest, LastWrap,
                Millis, SlotOf
  <2>2. CASE LruNext
    BY <2>2, StoreSound, ForwardSound, AskSound, LruTickSound, LruRebootSound DEF LruNext
  <2> QED
    BY <2>1, <2>2
<1> QED
  BY <1>1, LruInitSound, PTL DEF LruSpec

\* For any uptime, wraps of millis() included: a tracker used since millis() last
\* began at 0 loses its entry only to trackers used later, or to old ones whose
\* reading from before the wrap looks later (gateway.cpp:54-65).
THEOREM LostToLater == LruSpec => []LostOnlyToLater
<1>1. LruIInv => LostOnlyToLater
  <2> SUFFICES ASSUME LruIInv, NEW n \in Nodes, usedAt[n] # 0, usedAt[n] >= LastWrap,
                      SlotOf(n) = {}, NEW s \in Slots
               PROVE  /\ cache[s].node # NoNode
                      /\ usedAt[n] <= usedAt[cache[s].node] \/ usedAt[cache[s].node] < LastWrap
    BY DEF LostOnlyToLater
  <2>1. LruTypeOK /\ StampsSound /\ LostReadsOldest
    BY DEF LruIInv
  <2>2. cache[s].node # NoNode /\ usedAt[n] % MillisMod <= cache[s].lastUsed
    BY <2>1 DEF LostReadsOldest
  <2>3. PICK m \in Nodes : m = cache[s].node
    BY <2>1, <2>2 DEF LruTypeOK
  <2>4. cache[s].lastUsed = usedAt[m] % MillisMod
    BY <2>1, <2>3 DEF StampsSound
  <2>5. /\ uptime \in Nat /\ usedAt[n] \in Nat /\ usedAt[n] <= uptime
        /\ usedAt[m] \in Nat /\ usedAt[m] <= uptime
    BY <2>1, MillisIs DEF LruTypeOK
  <2>6. LastWrap = uptime - (uptime % MillisMod) /\ uptime % MillisMod \in Nat
    BY <2>1, MillisIs, LruNumbers DEF LastWrap
  <2>7. usedAt[n] % MillisMod = usedAt[n] - LastWrap
    BY <2>5, <2>6, ReadingGrows
  <2>8. CASE usedAt[m] >= LastWrap
    <3>1. usedAt[m] % MillisMod = usedAt[m] - LastWrap
      BY <2>5, <2>6, <2>8, ReadingGrows
    <3> QED
      BY <2>2, <2>3, <2>4, <2>5, <2>6, <2>7, <3>1
  <2>9. CASE ~(usedAt[m] >= LastWrap)
    BY <2>2, <2>3, <2>5, <2>6, <2>9
  <2> QED
    BY <2>8, <2>9
<1> QED
  BY <1>1, LruInductive, PTL

\* A tracker that keeps its entry is asked for its URL at most once per request
\* gap, for any uptime, wraps of millis() included (gateway.cpp:94-98).
THEOREM AskedOnce == LruSpec => AskedOncePerGap
<1> DEFINE Gap == \A n \in Nodes :
       /\ askedAt'[n] # askedAt[n] /\ askedAt'[n] # 0 /\ askedAt[n] # 0
       /\ \E s \in SlotOf(n) : cache[s].lastRequest # 0
       => uptime - askedAt[n] >= RequestGap
<1>1. LruIInv /\ [LruNext]_lruVars => Gap
  <2> SUFFICES ASSUME LruIInv, [LruNext]_lruVars, NEW n \in Nodes,
                      askedAt'[n] # askedAt[n], askedAt'[n] # 0,
                      NEW s \in SlotOf(n), cache[s].lastRequest # 0
               PROVE  uptime - askedAt[n] >= RequestGap
    OBVIOUS
  <2>1. LruTypeOK /\ StampsSound /\ s \in Slots /\ cache[s].node = n
    BY DEF LruIInv, SlotOf
  <2>2. PICK o \in Nodes : Ask(o)
    BY DEF LruNext, Store, Forward, LruTick, Reboot, lruVars
  <2>3. PICK c \in Chosen(o) : MayAsk(Found(o, c)) /\ askedAt' = [askedAt EXCEPT ![o] = uptime]
    BY <2>2 DEF Ask
  <2>4. n = o
    BY <2>1, <2>3 DEF LruTypeOK
  <2>5. c = s /\ Found(o, c) = cache[s]
    <3>1. c \in Slots /\ \A t \in Slots \ {c} : cache[t].node # o
      BY ChosenSound
    <3>2. c = s
      BY <2>1, <2>4, <3>1
    <3> QED
      BY <2>1, <2>4, <3>2, ChosenSound
  <2>6. Since(Millis, cache[s].lastRequest) >= RequestGap
    BY <2>3, <2>5 DEF MayAsk
  <2>7. cache[s].lastRequest = askedAt[n] % MillisMod
    BY <2>1 DEF StampsSound
  <2>8. uptime \in Nat /\ askedAt[n] \in Nat /\ askedAt[n] <= uptime /\ Millis = uptime % MillisMod
    BY <2>1, MillisIs DEF LruTypeOK
  <2>9. Since(Millis, cache[s].lastRequest) <= uptime - askedAt[n]
    BY <2>7, <2>8, SinceAtMost
  <2>10. Since(Millis, cache[s].lastRequest) \in Int /\ RequestGap \in Int
    BY <2>7, <2>8, LruNumbers, SMT DEF Since
  <2> QED
    BY <2>6, <2>8, <2>9, <2>10
<1>2. LruSpec => [][Gap]_lruVars
  <2>1. LruIInv /\ [LruNext]_lruVars => [Gap]_lruVars
    BY <1>1
  <2> HIDE DEF Gap
  <2> QED
    BY <2>1, LruInductive, PTL DEF LruSpec
<1> QED
  BY <1>2 DEF AskedOncePerGap
=============================================================================

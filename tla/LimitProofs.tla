---------------------------- MODULE LimitProofs ----------------------------
(***************************************************************************)
(* Proofs about the limits that the firmware keeps by amounts it computes  *)
(* step by step: Uplink, whose delay doubles, for any interval, backoff,   *)
(* window and duration of requests and any width of the failure counter    *)
(* beyond the fresh time; and Airtime, whose account is a sum over         *)
(* buckets, for any number and length of buckets, limits and times on air. *)
(***************************************************************************)
EXTENDS Uplink, Airtime, FiniteSetTheorems, WellFoundedInduction, TLAPS

-----------------------------------------------------------------------------
(* Induction and recursion over Nat.  The library states both with an       *)
(* operator as a parameter; here a set and a function stand for it.         *)

LEMMA Least ==
  ASSUME NEW T, T \subseteq Nat, T # {}
  PROVE  \E x \in T : \A y \in T : x <= y
<1>1. PICK x \in T : \A y \in T : ~(<<y, x>> \in OpToRel(<, Nat))
  BY NatLessThanWellFounded, WFMin
<1>2. ASSUME NEW y \in T PROVE x <= y
  <2>1. <<y, x>> \in Nat \X Nat /\ x \in Nat /\ y \in Nat
    BY <1>2
  <2>2. y < x => <<y, x>> \in OpToRel(<, Nat)
    BY <2>1 DEF OpToRel
  <2>3. ~(y < x)
    BY <1>1, <2>2
  <2> QED
    BY <2>1, <2>3
<1> QED
  BY <1>2

LEMMA Induction ==
  ASSUME NEW T, T \subseteq Nat, 0 \in T, \A n \in T : n + 1 \in T
  PROVE  T = Nat
<1> SUFFICES ASSUME Nat \ T # {} PROVE FALSE
  OBVIOUS
<1>1. PICK x \in Nat \ T : \A y \in Nat \ T : x <= y
  <2>1. Nat \ T \subseteq Nat
    OBVIOUS
  <2> QED
    BY <2>1, Least
<1>2. x # 0 /\ x - 1 \in Nat
  OBVIOUS
<1>3. x - 1 \in T
  BY <1>1, <1>2
<1>4. x - 1 + 1 = x
  OBVIOUS
<1> QED
  BY <1>3, <1>4

\* The beginnings of a recursive function: where it starts, and how it goes on.
Begins(S, a, F, n, g) ==
  /\ g \in [0..n -> S] /\ g[0] = a
  /\ \A i \in 0..n - 1 : g[i + 1] = F[i][g[i]]

LEMMA BeginsAgree ==
  ASSUME NEW S, NEW a \in S, NEW F \in [Nat -> [S -> S]], NEW m \in Nat, NEW n \in Nat, m <= n,
         NEW g, NEW h, Begins(S, a, F, m, g), Begins(S, a, F, n, h)
  PROVE  \A i \in 0..m : g[i] = h[i]
<1> DEFINE T == {i \in Nat : i <= m => g[i] = h[i]}
<1>1. 0 \in T
  BY DEF Begins
<1>2. ASSUME NEW i \in T PROVE i + 1 \in T
  <2>1. CASE i + 1 <= m
    <3>1. i \in 0..m - 1 /\ i \in 0..n - 1 /\ g[i] = h[i]
      BY <2>1
    <3>2. g[i + 1] = F[i][g[i]] /\ h[i + 1] = F[i][h[i]]
      BY <3>1 DEF Begins
    <3> QED
      BY <3>1, <3>2
  <2>2. CASE ~(i + 1 <= m)
    BY <2>2
  <2> QED
    BY <2>1, <2>2
<1>3. T = Nat
  <2>1. T \subseteq Nat
    OBVIOUS
  <2> HIDE DEF T
  <2> QED
    BY <1>1, <1>2, <2>1, Induction
<1>4. \A i \in 0..m : i \in T
  BY <1>3
<1> QED
  BY <1>4

LEMMA SomeBegins ==
  ASSUME NEW S, NEW a \in S, NEW F \in [Nat -> [S -> S]]
  PROVE  \A n \in Nat : \E g : Begins(S, a, F, n, g)
<1> DEFINE T == {n \in Nat : \E g : Begins(S, a, F, n, g)}
<1>1. 0 \in T
  <2>1. Begins(S, a, F, 0, [i \in 0..0 |-> a])
    BY DEF Begins
  <2> QED
    BY <2>1
<1>2. ASSUME NEW n \in T PROVE n + 1 \in T
  <2>1. PICK g : Begins(S, a, F, n, g)
    BY <1>2
  <2> DEFINE h == [i \in 0..n + 1 |-> IF i = n + 1 THEN F[n][g[n]] ELSE g[i]]
  <2>2. n \in Nat /\ g \in [0..n -> S] /\ g[n] \in S /\ F[n][g[n]] \in S
    BY <2>1 DEF Begins
  <2>3. h \in [0..n + 1 -> S] /\ h[n + 1] = F[n][g[n]] /\ \A i \in 0..n : h[i] = g[i]
    BY <2>2
  <2>4. h[0] = a
    BY <2>1, <2>2, <2>3 DEF Begins
  <2>5. ASSUME NEW i \in 0..n + 1 - 1 PROVE h[i + 1] = F[i][h[i]]
    <3>1. CASE i = n
      BY <2>2, <2>3, <3>1
    <3>2. CASE i # n
      <4>1. i \in 0..n - 1 /\ i \in 0..n /\ i + 1 \in 0..n
        BY <2>2, <3>2
      <4>2. h[i + 1] = g[i + 1] /\ h[i] = g[i]
        BY <2>3, <4>1
      <4> QED
        BY <2>1, <4>1, <4>2 DEF Begins
    <3> QED
      BY <3>1, <3>2
  <2> HIDE DEF h
  <2>6. Begins(S, a, F, n + 1, h)
    BY <2>3, <2>4, <2>5 DEF Begins
  <2> QED
    BY <2>2, <2>6
<1>3. T = Nat
  <2>1. T \subseteq Nat
    OBVIOUS
  <2> HIDE DEF T
  <2> QED
    BY <1>1, <1>2, <2>1, Induction
<1> QED
  BY <1>3

Follows(a, F, f) == f[0] = a /\ \A n \in Nat : f[n + 1] = F[n][f[n]]

\* There is a function that starts with a and goes on with F.
LEMMA Recursion ==
  ASSUME NEW S, NEW a \in S, NEW F \in [Nat -> [S -> S]]
  PROVE  \E f \in [Nat -> S] : Follows(a, F, f)
<1> DEFINE G(n) == CHOOSE g : Begins(S, a, F, n, g)
           f == [n \in Nat |-> G(n)[n]]
<1>1. \A n \in Nat : Begins(S, a, F, n, G(n))
  BY SomeBegins
<1> HIDE DEF G
<1>2. f \in [Nat -> S]
  <2>1. \A n \in Nat : G(n)[n] \in S
    BY <1>1 DEF Begins
  <2> QED
    BY <2>1
<1>3. f[0] = a
  BY <1>1 DEF Begins
<1>4. ASSUME NEW n \in Nat PROVE f[n + 1] = F[n][f[n]]
  <2>1. n + 1 \in Nat /\ n <= n + 1 /\ n \in 0..n + 1 - 1 /\ n \in 0..n
    OBVIOUS
  <2>2. G(n + 1)[n + 1] = F[n][G(n + 1)[n]]
    BY <1>1, <2>1 DEF Begins
  <2>3. G(n)[n] = G(n + 1)[n]
    <3>1. Begins(S, a, F, n, G(n)) /\ Begins(S, a, F, n + 1, G(n + 1))
      BY <1>1, <2>1
    <3> QED
      BY <2>1, <3>1, BeginsAgree
  <2> QED
    BY <2>1, <2>2, <2>3
<1> HIDE DEF f
<1> QED
  BY <1>2, <1>3, <1>4 DEF Follows

-----------------------------------------------------------------------------
(* Uplink *)

\* The assumptions on the constants as the steps use them.
LEMMA Numbers ==
  /\ MaxPost \in Nat /\ MaxPost > 0 /\ MaxCheck \in Nat /\ MaxCheck > 0
  /\ Fresh \in Nat /\ Fresh > 0 /\ Retry \in Nat /\ Retry > 0 /\ Window \in Nat
  /\ Base \in Nat /\ MaxBackoff \in Nat
  /\ FailsMod \in Nat /\ FailsMod > Fresh
  BY UplinkAssumption

LEMMA RoundLength == Round \in Nat /\ Round = MaxCheck + 2 * MaxPost + 1
  BY Numbers DEF Round

\* A counter below the fresh time does not wrap.
LEMMA NextFail ==
  ASSUME NEW n \in 0..(FailsMod - 1)
  PROVE  /\ (n + 1) % FailsMod \in 0..(FailsMod - 1)
         /\ n < Fresh => (n + 1) % FailsMod = n + 1
<1>1. n \in Nat /\ n + 1 \in Nat /\ FailsMod \in Nat /\ FailsMod > 0 /\ FailsMod > Fresh /\ Fresh \in Nat
  BY Numbers
<1>2. (n + 1) % FailsMod \in 0..(FailsMod - 1)
  BY <1>1, SMT
<1>3. n < Fresh => n + 1 < FailsMod
  BY <1>1
<1>4. n + 1 < FailsMod => (n + 1) % FailsMod = n + 1
  BY <1>1, SMT
<1> QED
  BY <1>2, <1>3, <1>4

LEMMA InitSound == Init => IInv
<1> SUFFICES ASSUME Init PROVE IInv
  OBVIOUS
<1> USE Numbers, RoundLength
<1>1. TypeOK
  <2>1. Switches
    BY Zenon DEF Init, Switches
  <2>2. fails \in [Kinds -> 0..(FailsMod - 1)] /\ successAge \in [Kinds -> 0..Fresh]
    BY DEF Init
  <2>3. goodAge \in Nat
    BY DEF Init
  <2> QED
    BY <2>1, <2>2, <2>3 DEF Init, TypeOK
<1>2. GoodSound /\ FailsSound
  BY DEF Init, GoodSound, FailsSound
<1>3. OnlineSound
  BY DEF Init, OnlineSound
<1>4. CheckSound
  BY DEF Init, CheckSound, SinceSend
<1> QED
  BY <1>1, <1>2, <1>3, <1>4 DEF IInv

----------------------------------------------------------------------------
(* The steps of a round *)

LEMMA BeginRoundSound == IInv /\ BeginRound => IInv'
<1> SUFFICES ASSUME IInv, BeginRound PROVE IInv'
  OBVIOUS
<1> USE Numbers, RoundLength
<1>1. /\ pc = "top" /\ ~ran /\ running
      /\ pc' = IF CheckDue /\ InWindow THEN "check" ELSE "send"
      /\ done' = (done \/ (CheckDue /\ ~InWindow))
      /\ UNCHANGED <<blocked, ran, running, wifiUp, fix, fails, successAge, latest, sent, sendAge,
                     uplinkOnline, sendOwn, uptime, tried, tryAge, lastFailed, goodAge, silentFor, checkWait>>
  BY DEF BeginRound, world, status, sending, flags, history
<1>2. TypeOK'
  <2>1. Switches'
    BY <1>1, Zenon DEF IInv, TypeOK, Switches
  <2> QED
    BY <1>1, <2>1 DEF IInv, TypeOK
<1>3. GoodSound' /\ FailsSound'
  BY <1>1 DEF IInv, GoodSound, FailsSound, PostedThisRound
<1>4. OnlineSound'
  BY <1>1 DEF IInv, TypeOK, OnlineSound, SinceMesh
<1>5. CheckSound'
  BY <1>1 DEF IInv, TypeOK, Switches, CheckSound, SinceSend, CheckDue, InWindow
<1> QED
  BY <1>2, <1>3, <1>4, <1>5 DEF IInv

LEMMA StopSound == IInv /\ (StopRunning \/ enterRunning) => IInv'
<1> SUFFICES ASSUME IInv, StopRunning \/ enterRunning PROVE IInv'
  OBVIOUS
<1> USE Numbers, RoundLength
<1>1. /\ pc = "top" /\ ~ran /\ pc' = "mesh" /\ running' \in BOOLEAN /\ checkWait' = 0
      /\ sent' \in BOOLEAN /\ sendAge' \in Nat
      /\ UNCHANGED <<blocked, ran, wifiUp, fix, fails, successAge, latest, uplinkOnline, sendOwn,
                     uptime, done, tried, tryAge, lastFailed, goodAge, silentFor>>
  BY DEF StopRunning, enterRunning, world, status, sending, flags, ota, history, IInv, TypeOK, Switches, CheckSound
<1>2. TypeOK'
  <2>1. Switches'
    BY <1>1, Zenon DEF IInv, TypeOK, Switches
  <2> QED
    BY <1>1, <2>1 DEF IInv, TypeOK
<1>3. GoodSound' /\ FailsSound'
  BY <1>1 DEF IInv, TypeOK, GoodSound, FailsSound, PostedThisRound
<1>4. OnlineSound'
  BY <1>1 DEF IInv, TypeOK, OnlineSound, SinceMesh
<1>5. CheckSound'
  BY <1>1 DEF IInv, TypeOK, CheckSound, SinceSend, InWindow
<1> QED
  BY <1>2, <1>3, <1>4, <1>5 DEF IInv

LEMMA EndCheckSound == IInv /\ EndCheck => IInv'
<1> SUFFICES ASSUME IInv, EndCheck PROVE IInv'
  OBVIOUS
<1> USE Numbers, RoundLength
<1>1. /\ pc = "check" /\ pc' = "send" /\ blocked' = 0 /\ done' \in BOOLEAN /\ checkWait' = 0
      /\ tried' = TRUE /\ tryAge' = 0
      /\ UNCHANGED <<ran, running, wifiUp, fix, fails, successAge, latest, sent, sendAge,
                     uplinkOnline, sendOwn, uptime, lastFailed, goodAge, silentFor>>
  BY DEF EndCheck, world, status, sending, flags
<1>2. TypeOK'
  <2>1. Switches'
    BY <1>1, Zenon DEF IInv, TypeOK, Switches
  <2> QED
    BY <1>1, <2>1 DEF IInv, TypeOK
<1>3. GoodSound' /\ FailsSound'
  BY <1>1 DEF IInv, TypeOK, GoodSound, FailsSound, PostedThisRound
<1>4. OnlineSound'
  BY <1>1 DEF IInv, TypeOK, OnlineSound, SinceMesh
<1>5. CheckSound'
  BY <1>1 DEF IInv, TypeOK, CheckSound, SinceSend, InWindow
<1> QED
  BY <1>2, <1>3, <1>4, <1>5 DEF IInv

LEMMA BeginPostSound == IInv /\ (BeginSend \/ BeginForward) => IInv'
<1> SUFFICES ASSUME IInv, BeginSend \/ BeginForward PROVE IInv'
  OBVIOUS
<1> USE Numbers, RoundLength
<1>1. /\ \/ pc = "send" /\ pc' \in {"post", "mesh"} /\ ran' = ran
         \/ pc = "forward" /\ ((pc' = "forwardPost" /\ ran' = ran) \/ (pc' = "top" /\ ran' = TRUE))
      /\ pc' \in {"mesh", "top"} => latest' = latest
      /\ (pc' = "post" => latest' = "own") /\ (pc' = "forwardPost" => latest' = "forwarded")
      /\ latest' \in Kinds \cup {"none"} /\ sent' \in BOOLEAN /\ sendAge' \in Nat
      /\ UNCHANGED <<blocked, running, wifiUp, fix, fails, successAge, uplinkOnline, sendOwn,
                     uptime, done, tried, tryAge, lastFailed, goodAge, silentFor, checkWait>>
  BY DEF BeginSend, BeginForward, world, status, sending, flags, ota, history, IInv, TypeOK, Switches, Kinds
<1>2. TypeOK'
  <2>1. Switches'
    BY <1>1, Zenon DEF IInv, TypeOK, Switches
  <2> QED
    BY <1>1, <2>1 DEF IInv, TypeOK
<1>3. GoodSound'
  BY <1>1 DEF IInv, TypeOK, GoodSound
<1>4. FailsSound'
  BY <1>1 DEF IInv, TypeOK, FailsSound, PostedThisRound, Kinds
<1>5. OnlineSound'
  BY <1>1 DEF IInv, TypeOK, OnlineSound, SinceMesh
<1>6. CheckSound'
  BY <1>1 DEF IInv, TypeOK, CheckSound, SinceSend, InWindow
<1> QED
  BY <1>2, <1>3, <1>4, <1>5, <1>6 DEF IInv

\* A POST of either kind ends.
LEMMA EndPostSound ==
  ASSUME IInv, NEW k \in Kinds,
         (k = "own" /\ pc = "post" /\ pc' = "mesh" /\ ran' = ran)
           \/ (k = "forwarded" /\ pc = "forwardPost" /\ pc' = "top" /\ ran' = TRUE),
         blocked' = 0, (blocked > 0 /\ Succeeds(k)) \/ Fails(k), silentFor' \in {0, silentFor},
         UNCHANGED <<running, world, latest, sending, flags, uptime, ota>>
  PROVE  IInv'
<1> USE Numbers, RoundLength
<1> USE DEF world, sending, flags, ota
<1>1. blocked \in Nat /\ blocked <= MaxPost /\ checkWait' = checkWait
  BY DEF IInv, TypeOK, Succeeds, Fails
<1>2. /\ fails \in [Kinds -> 0..(FailsMod - 1)] /\ successAge \in [Kinds -> 0..Fresh]
      /\ fails[k] \in 0..(FailsMod - 1) /\ successAge[k] \in 0..Fresh /\ goodAge \in Nat
      /\ \A j \in Kinds : fails[j] \in 0..(FailsMod - 1) /\ successAge[j] \in 0..Fresh
  BY DEF IInv, TypeOK
<1>3. CASE blocked > 0 /\ Succeeds(k)
  <2>1. /\ fails' = [fails EXCEPT ![k] = 0] /\ goodAge' = blocked /\ lastFailed' = FALSE
        /\ successAge' = [successAge EXCEPT ![k] = IF blocked < Fresh THEN blocked ELSE Fresh]
    BY <1>3 DEF Succeeds, MinOf
  <2>2. /\ fails'[k] = 0 /\ successAge'[k] = IF blocked < Fresh THEN blocked ELSE Fresh
        /\ \A j \in Kinds : j # k => fails'[j] = fails[j] /\ successAge'[j] = successAge[j]
    BY <1>2, <2>1
  <2>3. TypeOK'
    <3>1. fails' \in [Kinds -> 0..(FailsMod - 1)] /\ successAge' \in [Kinds -> 0..Fresh]
      <4>1. 0 \in 0..(FailsMod - 1) /\ (IF blocked < Fresh THEN blocked ELSE Fresh) \in 0..Fresh
        BY <1>1
      <4> QED
        BY <1>2, <2>1, <4>1
    <3>2. Switches'
      BY <2>1, Zenon DEF IInv, TypeOK, Switches
    <3> QED
      BY <1>1, <2>1, <3>1, <3>2 DEF IInv, TypeOK
  <2>4. GoodSound'
    BY <1>1, <1>2, <2>1, <2>2 DEF IInv, GoodSound
  <2>5. FailsSound'
    BY <1>1, <1>2, <1>3, <2>1, <2>2 DEF IInv, FailsSound, PostedThisRound, Kinds
  <2>6. OnlineSound'
    BY <1>1, <2>1 DEF IInv, OnlineSound, SinceMesh
  <2>7. CheckSound'
    BY <1>1 DEF IInv, TypeOK, CheckSound, SinceSend, InWindow
  <2> QED
    BY <2>3, <2>4, <2>5, <2>6, <2>7 DEF IInv
<1>4. CASE Fails(k)
  <2>1. /\ fails' = [fails EXCEPT ![k] = (fails[k] + 1) % FailsMod]
        /\ lastFailed' = TRUE /\ successAge' = successAge /\ goodAge' = goodAge
    BY <1>4 DEF Fails
  <2>2. /\ fails'[k] = (fails[k] + 1) % FailsMod /\ fails'[k] \in 0..(FailsMod - 1)
        /\ fails[k] < Fresh => fails'[k] = fails[k] + 1
        /\ \A j \in Kinds : j # k => fails'[j] = fails[j]
    BY <1>2, <2>1, NextFail
  <2>3. TypeOK'
    <3>1. fails' \in [Kinds -> 0..(FailsMod - 1)]
      BY <1>2, <2>1, <2>2
    <3>2. Switches'
      BY <2>1, Zenon DEF IInv, TypeOK, Switches
    <3> QED
      BY <1>1, <2>1, <3>1, <3>2 DEF IInv, TypeOK
  <2>4. GoodSound'
    BY <1>1, <2>1 DEF IInv, TypeOK, GoodSound
  <2>5. successAge[k] < Fresh => fails[k] < successAge[k] /\ fails[k] < Fresh
    BY <1>2 DEF IInv, FailsSound, PostedThisRound, Kinds
  <2>6. FailsSound'
    <3> SUFFICES ASSUME NEW j \in Kinds, successAge[j] < Fresh
                 PROVE  /\ fails'[j] <= successAge[j]
                        /\ ~PostedThisRound(j)' => fails'[j] < successAge[j]
                        /\ latest' = j => fails'[j] > 0
      BY <2>1 DEF FailsSound
    <3>1. CASE j = k
      BY <1>2, <2>2, <2>5, <3>1 DEF PostedThisRound
    <3>2. CASE j # k
      <4>1. latest' = k
        BY DEF IInv, TypeOK
      <4>2. fails'[j] = fails[j] /\ fails[j] \in Nat /\ fails[j] <= successAge[j]
        BY <1>2, <2>2, <3>2 DEF IInv, FailsSound
      <4>3. ~PostedThisRound(j)' => fails[j] < successAge[j]
        <5>1. PostedThisRound(j) => PostedThisRound(j)'
          BY DEF PostedThisRound
        <5> QED
          BY <5>1 DEF IInv, FailsSound
      <4> QED
        BY <3>2, <4>1, <4>2, <4>3
    <3> QED
      BY <3>1, <3>2
  <2>7. OnlineSound'
    BY <1>1, <2>1 DEF IInv, TypeOK, OnlineSound, SinceMesh
  <2>8. CheckSound'
    BY <1>1 DEF IInv, TypeOK, CheckSound, SinceSend, InWindow
  <2> QED
    BY <2>3, <2>4, <2>6, <2>7, <2>8 DEF IInv
<1> QED
  BY <1>3, <1>4

\* Only a proven uplink counts as online.
LEMMA LoopMeshSound == IInv /\ LoopMesh => IInv'
<1> SUFFICES ASSUME IInv, LoopMesh PROVE IInv'
  OBVIOUS
<1> USE Numbers, RoundLength
<1>1. /\ pc = "mesh" /\ uplinkOnline' = (Online /\ Proven) /\ silentFor' \in Nat /\ sendOwn' \in BOOLEAN
      /\ (Online /\ pc' = "forward" /\ ran' = ran) \/ (~Online /\ pc' = "top" /\ ran' = TRUE)
      /\ UNCHANGED <<blocked, running, wifiUp, fix, fails, successAge, latest, sent, sendAge,
                     uptime, done, tried, tryAge, lastFailed, goodAge, checkWait>>
  BY DEF LoopMesh, SendOwn, Online, Failing, world, status, sending, ota, IInv, TypeOK
<1>2. TypeOK'
  <2>1. uplinkOnline' \in BOOLEAN
    BY <1>1, Zenon DEF Online, Proven, Failing, IInv, TypeOK, Switches
  <2>2. Switches'
    BY <1>1, <2>1, Zenon DEF IInv, TypeOK, Switches
  <2> QED
    BY <1>1, <2>2 DEF IInv, TypeOK
<1>3. GoodSound' /\ FailsSound'
  BY <1>1 DEF IInv, TypeOK, GoodSound, FailsSound, PostedThisRound, Kinds
<1>4. OnlineSound'
  <2>1. ASSUME Online, Proven PROVE ~lastFailed /\ goodAge < Fresh
    <3>1. latest \in Kinds /\ fails[latest] \in Nat /\ ~(fails[latest] > 0) /\ successAge[latest] < Fresh
          /\ successAge[latest] \in Nat /\ goodAge \in Nat
      BY <2>1 DEF Proven, Failing, LastAttempt, IInv, TypeOK
    <3> QED
      BY <1>1, <3>1 DEF IInv, GoodSound, FailsSound
  <2>2. uplinkOnline' => Online /\ Proven
    BY <1>1
  <2>3. uplinkOnline' => pc' = "forward" /\ ~lastFailed' /\ goodAge' < Fresh
    BY <1>1, <2>1, <2>2
  <2> QED
    BY <2>3 DEF OnlineSound, SinceMesh
<1>5. CheckSound'
  BY <1>1 DEF IInv, TypeOK, CheckSound, SinceSend, InWindow
<1> QED
  BY <1>2, <1>3, <1>4, <1>5 DEF IInv

----------------------------------------------------------------------------

LEMMA Grows ==
  ASSUME NEW age \in Nat, NEW cap \in Nat
  PROVE  /\ Older(age, cap) \in Nat /\ Older(age, cap) <= age + 1 /\ age <= Older(age, cap)
         /\ age <= cap => Older(age, cap) <= cap
         /\ Older(age, cap) < cap => Older(age, cap) = age + 1
  BY DEF Older

\* Time passes while a request blocks the loop and between the rounds.
LEMMA TickSound == IInv /\ Tick => IInv'
<1> SUFFICES ASSUME IInv, Tick PROVE IInv'
  OBVIOUS
<1> USE Numbers, RoundLength
<1>1. /\ \/ pc \in {"post", "forwardPost"} /\ blocked < MaxPost /\ blocked' = blocked + 1 /\ ran' = ran
         \/ pc = "check" /\ blocked < MaxCheck /\ blocked' = blocked + 1 /\ ran' = ran
         \/ pc = "top" /\ ran /\ ran' = FALSE /\ blocked' = blocked
      /\ UNCHANGED <<pc, running, wifiUp, fix, fails, latest, sent, uplinkOnline, sendOwn, done, tried, lastFailed>>
  BY DEF Tick, world, flags
<1>2. /\ uptime' = Older(uptime, Window + 1) /\ sendAge' = Older(sendAge, MaxDelay)
      /\ tryAge' = Older(tryAge, Retry) /\ goodAge' = Older(goodAge, Fresh + Round + 1)
      /\ silentFor' = IF fix THEN Older(silentFor, Bound + 1) ELSE 0
      /\ checkWait' = IF Online /\ ~done /\ InWindow THEN Older(checkWait, Retry + Round + 1) ELSE 0
      /\ successAge' = [k \in Kinds |-> Older(successAge[k], Fresh)]
  BY DEF Tick
<1>3. MaxDelay \in Nat /\ Bound + 1 \in Nat /\ Window + 1 \in Nat /\ Fresh + Round + 1 \in Nat
      /\ Retry + Round + 1 \in Nat
  BY DEF MaxDelay, MaxOf, Bound
<1>4. /\ blocked \in Nat /\ sendAge \in Nat /\ uptime \in Nat /\ tryAge \in Nat
      /\ goodAge \in Nat /\ silentFor \in Nat /\ checkWait \in Nat
      /\ \A k \in Kinds : fails[k] \in Nat /\ successAge[k] \in Nat /\ successAge[k] <= Fresh
  BY DEF IInv, TypeOK
<1>5. /\ uptime' \in Nat /\ sendAge' \in Nat /\ tryAge' \in Nat /\ goodAge' \in Nat
      /\ silentFor' \in Nat /\ checkWait' \in Nat /\ goodAge' <= goodAge + 1
      /\ checkWait' <= checkWait + 1
      /\ uptime <= uptime' /\ (tryAge' < Retry => tryAge' = tryAge + 1)
      /\ goodAge + 1 <= Fresh + Round + 1 => goodAge' = goodAge + 1
      /\ goodAge > Fresh + Round => goodAge' >= goodAge
  BY <1>2, <1>3, <1>4, Grows DEF Older
<1>6. \A k \in Kinds :
        /\ successAge'[k] \in Nat /\ successAge'[k] <= Fresh
        /\ successAge'[k] < Fresh => successAge'[k] = successAge[k] + 1
  BY <1>2, <1>4, Grows
<1>7. TypeOK'
  <2>1. successAge' \in [Kinds -> 0..Fresh]
    BY <1>2, <1>6
  <2>2. Switches'
    BY <1>1, Zenon DEF IInv, TypeOK, Switches
  <2> QED
    BY <1>1, <1>4, <1>5, <2>1, <2>2 DEF IInv, TypeOK
<1>8. GoodSound'
  <2>1. blocked' <= goodAge'
    BY <1>1, <1>4, <1>5 DEF IInv, TypeOK, GoodSound
  <2>2. ASSUME NEW k \in Kinds, successAge'[k] < Fresh PROVE goodAge' <= successAge'[k]
    BY <1>4, <1>5, <1>6, <2>2 DEF IInv, GoodSound
  <2> QED
    BY <2>1, <2>2 DEF GoodSound
<1>9. FailsSound'
  BY <1>1, <1>4, <1>6 DEF IInv, FailsSound, PostedThisRound
<1>10. OnlineSound'
  BY <1>1, <1>4, <1>5 DEF IInv, TypeOK, OnlineSound, SinceMesh
<1>11. CheckSound'
  <2>1. ~running => checkWait' = 0
    BY <1>2 DEF Online
  <2>2. CASE Online /\ ~done /\ InWindow
    <3>1. checkWait < Retry + SinceSend
      BY <2>2 DEF IInv, CheckSound
    <3>2. checkWait' < Retry + SinceSend' /\ checkWait' <= Retry + Round
      BY <1>1, <1>4, <1>5, <3>1 DEF SinceSend, IInv, TypeOK
    <3> QED
      BY <1>1, <1>4, <1>5, <2>1, <3>2 DEF IInv, CheckSound
  <2>3. CASE ~(Online /\ ~done /\ InWindow)
    <3>1. checkWait' = 0
      BY <1>2, <2>3
    <3>2. 0 < Retry + SinceSend'
      BY <1>1, <1>4 DEF SinceSend
    <3> QED
      BY <1>5, <3>1, <3>2 DEF CheckSound
  <2> QED
    BY <2>2, <2>3
<1> QED
  BY <1>7, <1>8, <1>9, <1>10, <1>11 DEF IInv

LEMMA WorldSound == IInv /\ WorldChanges => IInv'
<1> SUFFICES ASSUME IInv, WorldChanges PROVE IInv'
  OBVIOUS
<1> USE Numbers, RoundLength
<1>1. /\ wifiUp' \in BOOLEAN /\ fix' \in BOOLEAN /\ silentFor' \in {0, silentFor}
      /\ checkWait' \in {0, checkWait}
      /\ UNCHANGED <<pc, blocked, ran, running, fails, successAge, latest, sent, sendAge,
                     uplinkOnline, sendOwn, uptime, done, tried, tryAge, lastFailed, goodAge>>
  BY DEF WorldChanges, status, sending, flags, ota
<1>2. TypeOK'
  <2>1. Switches'
    BY <1>1, Zenon DEF IInv, TypeOK, Switches
  <2> QED
    BY <1>1, <2>1 DEF IInv, TypeOK
<1>3. GoodSound' /\ FailsSound'
  BY <1>1 DEF IInv, TypeOK, GoodSound, FailsSound, PostedThisRound
<1>4. OnlineSound'
  BY <1>1 DEF IInv, OnlineSound, SinceMesh
<1>5. CheckSound'
  BY <1>1 DEF IInv, TypeOK, CheckSound, SinceSend, InWindow
<1> QED
  BY <1>2, <1>3, <1>4, <1>5 DEF IInv

LEMMA StepSound == IInv /\ [Next]_vars => IInv'
<1> SUFFICES ASSUME IInv, [Next]_vars PROVE IInv'
  OBVIOUS
<1>1. CASE UNCHANGED vars
  BY <1>1 DEF vars, world, status, sending, flags, ota, history, IInv, TypeOK, Switches, GoodSound, FailsSound,
     PostedThisRound, OnlineSound, SinceMesh, CheckSound, SinceSend, InWindow
<1>2. CASE EndSend
  <2>1. "own" \in Kinds /\ silentFor' \in {0, silentFor}
    BY <1>2 DEF EndSend, Kinds
  <2> QED
    BY <1>2, <2>1, EndPostSound DEF EndSend
<1>3. CASE EndForward
  <2>1. "forwarded" \in Kinds
    BY DEF Kinds
  <2> QED
    BY <1>3, <2>1, EndPostSound DEF EndForward
<1> QED
  BY <1>1, <1>2, <1>3, BeginRoundSound, StopSound, EndCheckSound, BeginPostSound, LoopMeshSound,
     TickSound, WorldSound DEF Next

LEMMA Inductive == Spec => []IInv
  BY InitSound, StepSound, PTL DEF Spec

\* The mesh task is never told for longer than one round that an uplink works whose
\* last POST failed (main.cpp:297, README.md:319).
THEOREM OnlineProven == Spec => []OnlineIsProven
<1>1. IInv => OnlineIsProven
  BY Numbers, RoundLength DEF IInv, TypeOK, OnlineSound, SinceMesh, OnlineIsProven
<1> QED
  BY <1>1, Inductive, PTL

\* However long POSTs block the loop, a tracker that stays online repeats a failed
\* update check within the retry gap and one round (main.cpp:251, README.md:608).
THEOREM CheckRepeated == Spec => []CheckIsRepeated
  BY Inductive, PTL DEF IInv, CheckSound, CheckIsRepeated

----------------------------------------------------------------------------
(* The own position has a way out *)

\* The delay doubles with each failure.
LEMMA ShiftedSound == Shifted \in [Nat -> Nat]
<1> DEFINE F == [n \in Nat |-> [x \in Nat |-> 2 * x]]
           Is(f) == f = [n \in Nat |-> IF n = 0 THEN Base ELSE 2 * f[n - 1]]
<1>1. /\ F \in [Nat -> [Nat -> Nat]] /\ Base \in Nat
      /\ \A n, x \in Nat : F[n][x] = 2 * x
  BY Numbers
<1> HIDE DEF F
<1>2. PICK f \in [Nat -> Nat] : f[0] = Base /\ \A n \in Nat : f[n + 1] = F[n][f[n]]
  <2>1. \E f \in [Nat -> Nat] : Follows(Base, F, f)
    BY <1>1, Recursion, Zenon
  <2> QED
    BY <2>1 DEF Follows
<1>3. \A n \in Nat : f[n] = IF n = 0 THEN Base ELSE 2 * f[n - 1]
  <2> SUFFICES ASSUME NEW n \in Nat, n # 0 PROVE f[n] = 2 * f[n - 1]
    BY <1>2
  <2>1. n - 1 \in Nat /\ n - 1 + 1 = n /\ f[n - 1] \in Nat
    BY <1>2
  <2>2. f[n] = F[n - 1][f[n - 1]]
    BY <1>2, <2>1
  <2> QED
    BY <1>1, <2>1, <2>2
<1>4. Is(f)
  BY <1>2, <1>3
<1>5. Is(Shifted)
  <2>1. Shifted = CHOOSE g : Is(g)
    BY DEF Shifted
  <2> HIDE DEF Is
  <2> QED
    BY <1>4, <2>1
<1>6. Shifted[0] = Base /\ \A n \in Nat : Shifted[n + 1] = 2 * Shifted[n]
  <2>1. \A n \in Nat : Shifted[n] = IF n = 0 THEN Base ELSE 2 * Shifted[n - 1]
    BY <1>5
  <2> QED
    BY <2>1
<1> DEFINE T == {n \in Nat : Shifted[n] \in Nat}
<1>7. T = Nat
  <2>1. T \subseteq Nat /\ 0 \in T
    BY <1>1, <1>6
  <2>2. ASSUME NEW n \in T PROVE n + 1 \in T
    BY <1>6
  <2> HIDE DEF T
  <2> QED
    BY <2>1, <2>2, Induction
<1>8. \A n \in Nat : Shifted[n] \in Nat
  BY <1>7
<1> QED
  BY <1>5, <1>8

LEMMA DelayIs ==
  ASSUME TypeOK
  PROVE  /\ NextDelay \in Nat /\ NextDelay <= MaxDelay
         /\ fails["own"] = 0 => NextDelay = Base
<1>1. fails["own"] \in Nat /\ MaxShift \in Nat /\ Base \in Nat /\ MaxBackoff \in Nat
  BY Numbers, UplinkAssumption DEF TypeOK, Kinds
<1>2. MinOf(fails["own"], MaxShift) \in Nat
  BY <1>1 DEF MinOf
<1>3. Shifted[MinOf(fails["own"], MaxShift)] \in Nat
  BY <1>2, ShiftedSound
<1> QED
  BY <1>1, <1>3 DEF NextDelay, MaxDelay, MinOf, MaxOf

\* The lengths the steps below compare.
LEMMA Lengths ==
  /\ MaxDelay \in Nat /\ MaxDelay >= Base /\ Base \in Nat /\ Base > 0
  /\ MaxOf(Base, MaxPost) \in Nat /\ MaxOf(Base, MaxPost) >= Base /\ MaxOf(Base, MaxPost) >= MaxPost
  /\ MaxOf(Base, MaxPost) <= Base + MaxPost
  /\ Bound \in Nat /\ Bound = MaxDelay + Base + 2 * Round
  BY Numbers, UplinkAssumption DEF MaxDelay, MaxOf, Bound, Round

\* What SilenceSound says of a running gateway is within the bound.
LEMMA WaitBounded ==
  ASSUME TypeOK
  PROVE  /\ LongestWait \in Nat /\ SinceJudged \in Nat /\ SinceJudged <= 2 * MaxPost + 1 + MaxCheck
         /\ LongestWait + SinceJudged <= Bound /\ Unnoticed \in Nat
         /\ LongestWait >= MaxDelay
<1>1. SinceJudged \in Nat /\ SinceJudged <= 2 * MaxPost + 1 + MaxCheck
  BY Numbers DEF SinceJudged, TypeOK, Switches
<1>2. /\ Unnoticed \in Nat /\ LongestWait \in Nat
      /\ LongestWait <= MaxDelay + MaxPost + 1 + MaxCheck + MaxOf(Base, MaxPost)
      /\ LongestWait >= MaxDelay
  BY Numbers, Lengths DEF Unnoticed, LongestWait
<1> QED
  BY <1>1, <1>2, Numbers, Lengths, RoundLength

LEMMA Sums == ASSUME NEW a \in Nat, NEW b \in Nat PROVE a + b \in Nat
  OBVIOUS

LEMMA Grown ==
  ASSUME NEW a \in Nat, NEW b \in Nat, NEW c \in Nat, NEW d \in Nat, NEW e \in Nat,
         a <= b + c, d <= a + 1, e = c + 1
  PROVE  d <= b + e
  OBVIOUS

LEMMA AtMost ==
  ASSUME NEW a \in Nat, NEW b \in Nat, NEW c \in Nat, NEW d \in Nat, a <= b + c, b + c <= d
  PROVE  a <= d
  OBVIOUS

LEMMA SilenceInit == Init => SilenceSound
<1> SUFFICES ASSUME Init PROVE SilenceSound
  OBVIOUS
<1>1. 0 <= Bound
  BY Lengths
<1> QED
  BY <1>1 DEF Init, SilenceSound

\* The position is posted when it is due, and otherwise was posted not long ago.
LEMMA SilenceSend == IInv /\ SilenceSound /\ BeginSend => SilenceSound'
<1> SUFFICES ASSUME IInv, SilenceSound, BeginSend PROVE SilenceSound'
  OBVIOUS
<1> USE Numbers
<1>1. /\ pc = "send" /\ running /\ running' = running /\ fix' = fix /\ silentFor' = silentFor
      /\ fails' = fails /\ blocked' = blocked /\ ran' = ran /\ ~Resends
  BY DEF BeginSend, IInv, SilenceSound, Resends, world, history
<1>2. TypeOK /\ TypeOK'
  BY BeginPostSound DEF IInv
<1>3. blocked = 0 /\ silentFor \in Nat /\ sendAge \in Nat /\ blocked' \in Nat
  BY <1>1, <1>2 DEF TypeOK
<1>4. /\ silentFor <= Bound /\ (~fix => silentFor = 0)
      /\ silentFor <= LongestWait + (MaxPost + 1 + MaxCheck)
      /\ sent => silentFor <= Unnoticed + sendAge \/ sendAge >= MaxDelay
  BY <1>1 DEF SilenceSound, SinceJudged
<1>5. Unnoticed' = Unnoticed /\ LongestWait' = LongestWait
  BY <1>1 DEF Unnoticed, LongestWait
<1>6. CASE SendDue
  <2>1. pc' = "post" /\ sent' = TRUE /\ sendAge' = 0
    BY <1>6 DEF BeginSend
  <2>2. SinceJudged' = MaxPost + 1 + MaxCheck
    BY <1>1, <1>3, <2>1 DEF SinceJudged
  <2> QED
    BY <1>1, <1>3, <1>4, <1>5, <2>1, <2>2 DEF SilenceSound
<1>7. CASE ~SendDue
  <2>1. pc' = "mesh" /\ sent' = sent /\ sendAge' = sendAge
    BY <1>7 DEF BeginSend, sending
  <2>2. SinceJudged' = 0
    BY <2>1 DEF SinceJudged
  <2>3. ~fix \/ (sent /\ sendAge < NextDelay)
    BY <1>2, <1>3, <1>7, DelayIs DEF SendDue
  <2>4. silentFor <= LongestWait
    <3>1. CASE ~fix
      BY <1>2, <1>4, <3>1, WaitBounded
    <3>2. CASE sent /\ sendAge < NextDelay
      <4>1. silentFor <= Unnoticed + sendAge
        BY <1>2, <1>3, <1>4, <3>2, DelayIs, Lengths
      <4>2. fails["own"] \in Nat
        BY <1>2 DEF TypeOK, Kinds
      <4> QED
        BY <1>2, <1>3, <3>2, <4>1, <4>2, DelayIs, Lengths DEF LongestWait, Unnoticed
    <3> QED
      BY <2>3, <3>1, <3>2
  <2> QED
    BY <1>1, <1>2, <1>3, <1>4, <1>5, <2>1, <2>2, <2>4, WaitBounded DEF SilenceSound
<1> QED
  BY <1>6, <1>7

\* A POST of the own position ends: a success is the way out, a failure that counts
\* lets loopMesh hand the position to the mesh, and one that wraps the counter
\* shortens the delay to the interval.
LEMMA SilenceEndSend == IInv /\ SilenceSound /\ EndSend => SilenceSound'
<1> SUFFICES ASSUME IInv, SilenceSound, EndSend PROVE SilenceSound'
  OBVIOUS
<1> USE Numbers
<1>1. /\ pc = "post" /\ pc' = "mesh" /\ running' = running /\ fix' = fix /\ ran' = ran /\ latest' = latest
      /\ sent' = sent /\ sendAge' = sendAge /\ ~Resends
  BY DEF EndSend, Resends, world, sending
<1>2. /\ TypeOK /\ latest = "own" /\ running /\ sent /\ (sendAge >= blocked \/ sendAge >= MaxDelay)
      /\ "own" \in Kinds /\ fails \in [Kinds -> 0..(FailsMod - 1)] /\ fails["own"] \in 0..(FailsMod - 1)
      /\ blocked \in Nat /\ blocked <= MaxPost /\ silentFor \in Nat /\ sendAge \in Nat
  BY <1>1 DEF IInv, SilenceSound, TypeOK, Kinds
<1>3. /\ silentFor <= Bound /\ (~fix => silentFor = 0)
      /\ silentFor <= LongestWait + (MaxPost + 1 + MaxCheck + blocked)
  BY <1>1, <1>2 DEF SilenceSound, SinceJudged
<1>4. SinceJudged' = 0
  BY <1>1 DEF SinceJudged
<1>5. CASE silentFor' = 0
  <2>1. TypeOK'
    <3>1. IInv'
      BY StepSound DEF Next
    <3> QED
      BY <3>1 DEF IInv
  <2>2. 0 <= LongestWait' /\ 0 <= Unnoticed' + sendAge' /\ 0 <= Bound
    BY <1>1, <1>2, Lengths DEF LongestWait, Unnoticed
  <2>3. 0 + 0 = 0 /\ LongestWait' + 0 = LongestWait'
    BY <1>1, <1>2, Lengths DEF LongestWait, Unnoticed
  <2> QED
    BY <1>1, <1>2, <1>4, <1>5, <2>2, <2>3 DEF SilenceSound
<1>6. CASE Fails("own") /\ silentFor' = silentFor
  <2>1. fails'["own"] = (fails["own"] + 1) % FailsMod
    BY <1>2, <1>6 DEF Fails
  <2>2. CASE fails'["own"] > 0
    <3>1. Resends'
      BY <1>1, <1>2, <2>2 DEF Resends
    <3> QED
      BY <1>1, <1>2, <1>3, <1>6, <3>1 DEF SilenceSound
  <2>3. CASE ~(fails'["own"] > 0)
    <3>1. fails["own"] > 0
      BY <1>2, <2>1, <2>3, NextFail
    <3>2. silentFor <= MaxDelay + (MaxPost + 1 + MaxCheck + blocked)
      BY <1>3, <3>1 DEF LongestWait
    <3>3. LongestWait' = MaxDelay + MaxPost + 1 + MaxCheck + MaxOf(Base, MaxPost)
      BY <2>3 DEF LongestWait, Unnoticed
    <3>4. Unnoticed' = MaxDelay + MaxPost + 1 + MaxCheck
      BY <2>3 DEF Unnoticed
    <3>5. silentFor <= LongestWait' + 0
      BY <1>2, <3>2, <3>3, Lengths
    <3>6. silentFor <= Unnoticed' + sendAge \/ sendAge >= MaxDelay
      BY <1>2, <3>2, <3>4, Lengths
    <3> QED
      BY <1>1, <1>2, <1>3, <1>4, <1>6, <3>5, <3>6 DEF SilenceSound
  <2> QED
    BY <2>2, <2>3
<1> QED
  BY <1>5, <1>6 DEF EndSend

LEMMA SilenceMesh == IInv /\ SilenceSound /\ LoopMesh => SilenceSound'
<1> SUFFICES ASSUME IInv, SilenceSound, LoopMesh PROVE SilenceSound'
  OBVIOUS
<1> USE Numbers
<1>1. /\ pc = "mesh" /\ running' = running /\ fix' = fix /\ latest' = latest /\ fails' = fails
      /\ sent' = sent /\ sendAge' = sendAge /\ silentFor' = (IF SendOwn THEN 0 ELSE silentFor)
      /\ blocked' = blocked
      /\ (Online /\ pc' = "forward" /\ ran' = ran) \/ (~Online /\ pc' = "top" /\ ran' = TRUE)
  BY DEF LoopMesh, world, status, sending
<1>2. TypeOK /\ silentFor \in Nat /\ sendAge \in Nat
  BY DEF IInv, TypeOK
<1>3. Unnoticed' = Unnoticed /\ LongestWait' = LongestWait
  BY <1>1 DEF Unnoticed, LongestWait
<1>4. /\ Unnoticed \in Nat /\ LongestWait \in Nat /\ Bound \in Nat
      /\ LongestWait + 0 = LongestWait
  BY <1>2, WaitBounded, Lengths
<1>5. CASE SendOwn
  <2>1. SinceJudged' \in Nat
    BY <1>1 DEF SinceJudged
  <2>2. silentFor' = 0 /\ 0 <= LongestWait + SinceJudged' /\ 0 <= Unnoticed + sendAge
    <3>1. silentFor' = 0
      BY <1>1, <1>5
    <3>2. LongestWait + SinceJudged' \in Nat /\ Unnoticed + sendAge \in Nat
      BY <1>2, <1>4, <2>1, Sums, Zenon
    <3> QED
      BY <3>1, <3>2
  <2>3. pc' \notin {"top", "mesh"} => running'
    BY <1>1 DEF Online
  <2>4. silentFor' <= Bound /\ silentFor' <= (IF ran' THEN 0 ELSE 1)
    BY <1>4, <2>2
  <2> QED
    BY <1>1, <1>3, <2>2, <2>3, <2>4 DEF SilenceSound
<1>6. CASE ~SendOwn
  <2>1. Online /\ ~Failing /\ running /\ pc' = "forward" /\ silentFor' = silentFor
    BY <1>1, <1>6 DEF SendOwn, Online
  <2>2. ~Resends
    BY <2>1 DEF Resends, Failing, LastAttempt
  <2>3. SinceJudged = 0 /\ SinceJudged' = 0
    BY <1>1, <2>1 DEF SinceJudged
  <2> QED
    BY <1>1, <1>3, <1>4, <2>1, <2>2, <2>3 DEF SilenceSound
<1> QED
  BY <1>5, <1>6

\* The rest of a round: nothing is sent, and the round goes on in time.
LEMMA SilenceRound ==
  IInv /\ SilenceSound /\ (BeginRound \/ EndCheck \/ BeginForward \/ EndForward) => SilenceSound'
<1> SUFFICES ASSUME IInv, SilenceSound, BeginRound \/ EndCheck \/ BeginForward \/ EndForward
             PROVE  SilenceSound'
  OBVIOUS
<1> USE Numbers
<1>1. TypeOK /\ silentFor \in Nat /\ sendAge \in Nat /\ blocked \in Nat
  BY DEF IInv, TypeOK
<1>2. /\ running /\ running' = running /\ fix' = fix /\ sent' = sent /\ sendAge' = sendAge
      /\ silentFor' = silentFor /\ fails'["own"] = fails["own"]
      /\ pc' \notin {"mesh", "post"} /\ pc \notin {"mesh", "post"}
      /\ SinceJudged <= SinceJudged' /\ SinceJudged \in Nat /\ SinceJudged' \in Nat
  <2>1. CASE BeginRound
    <3>1. blocked = 0 /\ blocked' = 0
      BY <2>1 DEF BeginRound, IInv, TypeOK
    <3> QED
      BY <2>1, <3>1 DEF BeginRound, world, status, sending, history, SinceJudged
  <2>2. CASE EndCheck
    <3>1. blocked <= MaxCheck
      BY <2>2 DEF EndCheck, IInv, TypeOK
    <3> QED
      BY <1>1, <2>2, <3>1 DEF EndCheck, world, status, sending, SinceJudged, SilenceSound
  <2>3. CASE BeginForward
    <3>1. blocked = 0 /\ blocked' = 0
      BY <2>3 DEF BeginForward, IInv, TypeOK
    <3> QED
      BY <2>3, <3>1 DEF BeginForward, world, sending, history, SinceJudged, SilenceSound
  <2>4. CASE EndForward
    <3>1. /\ blocked <= MaxPost /\ fails \in [Kinds -> 0..(FailsMod - 1)]
          /\ Fails("forwarded") \/ Succeeds("forwarded")
      BY <2>4 DEF EndForward, IInv, TypeOK
    <3>2. fails'["own"] = fails["own"]
      BY <3>1 DEF Fails, Succeeds, Kinds
    <3> QED
      BY <1>1, <2>4, <3>1, <3>2 DEF EndForward, world, sending, SinceJudged, SilenceSound
  <2> QED
    BY <2>1, <2>2, <2>3, <2>4
<1>3. Unnoticed' = Unnoticed /\ LongestWait' = LongestWait
  BY <1>2 DEF Unnoticed, LongestWait
<1>4. ~Resends
  BY <1>2 DEF Resends
<1>5. Unnoticed \in Nat /\ LongestWait \in Nat
  BY <1>1, WaitBounded
<1>6. silentFor' <= LongestWait' + SinceJudged'
  <2>1. silentFor <= LongestWait + SinceJudged
    BY <1>2, <1>4 DEF SilenceSound
  <2>2. silentFor' = silentFor /\ LongestWait' = LongestWait
        /\ silentFor \in Nat /\ LongestWait \in Nat
    BY <1>1, <1>2, <1>3, <1>5
  <2>3. SinceJudged <= SinceJudged' /\ SinceJudged \in Nat /\ SinceJudged' \in Nat
    BY <1>2
  <2>4. \A a, b, c, d \in Nat : a <= b + c /\ c <= d => a <= b + d
    OBVIOUS
  <2> QED
    BY <2>1, <2>2, <2>3, <2>4
<1>7. sent' /\ pc' # "post" => silentFor' <= Unnoticed' + sendAge' \/ sendAge' >= MaxDelay
  BY <1>2, <1>3, <1>4 DEF SilenceSound
<1>8. /\ silentFor' <= Bound /\ (~fix' => silentFor' = 0)
      /\ (pc' \notin {"top", "mesh"} => running')
      /\ (~running' /\ pc' = "top" => silentFor' <= (IF ran' THEN 0 ELSE 1))
      /\ (pc' = "post" => sent' /\ (sendAge' >= blocked' \/ sendAge' >= MaxDelay))
  BY <1>2 DEF SilenceSound
<1> QED
  BY <1>6, <1>7, <1>8 DEF SilenceSound

\* Outside Running the mesh gets the position, and a fresh start sends at once.
LEMMA SilenceStop == IInv /\ SilenceSound /\ (StopRunning \/ enterRunning) => SilenceSound'
<1> SUFFICES ASSUME IInv, SilenceSound, StopRunning \/ enterRunning PROVE SilenceSound'
  OBVIOUS
<1> USE Numbers
<1>1. /\ pc = "top" /\ ~ran /\ pc' = "mesh" /\ silentFor' = silentFor /\ fix' = fix /\ fails' = fails
  BY DEF StopRunning, enterRunning, world, status, history
<1>2. TypeOK /\ silentFor \in Nat
  BY DEF IInv, TypeOK
<1>3. CASE StopRunning
  <2>1. running' = FALSE
    BY <1>3 DEF StopRunning
  <2> QED
    BY <1>1, <2>1 DEF SilenceSound
<1>4. CASE enterRunning
  <2>1. ~running /\ sent' = FALSE /\ silentFor <= 1
    BY <1>1, <1>4 DEF enterRunning, SilenceSound
  <2>2. LongestWait' = LongestWait /\ SinceJudged' = 0
    BY <1>1 DEF LongestWait, Unnoticed, SinceJudged
  <2>3. silentFor <= LongestWait + 0
    BY <1>2, <2>1, WaitBounded, Lengths
  <2> QED
    BY <1>1, <2>1, <2>2, <2>3 DEF SilenceSound
<1> QED
  BY <1>3, <1>4

LEMMA SilenceTick == IInv /\ SilenceSound /\ Tick => SilenceSound'
<1> SUFFICES ASSUME IInv, SilenceSound, Tick PROVE SilenceSound'
  OBVIOUS
<1> USE Numbers
<1>1. /\ \/ pc \in {"post", "forwardPost"} /\ blocked < MaxPost /\ blocked' = blocked + 1 /\ ran' = ran
         \/ pc = "check" /\ blocked < MaxCheck /\ blocked' = blocked + 1 /\ ran' = ran
         \/ pc = "top" /\ ran /\ ran' = FALSE /\ blocked' = blocked
      /\ pc' = pc /\ running' = running /\ fix' = fix /\ fails' = fails /\ latest' = latest /\ sent' = sent
      /\ sendAge' = Older(sendAge, MaxDelay)
      /\ silentFor' = IF fix THEN Older(silentFor, Bound + 1) ELSE 0
  BY DEF Tick, world
<1>2. TypeOK /\ silentFor \in Nat /\ sendAge \in Nat /\ blocked \in Nat
  BY DEF IInv, TypeOK
<1>3. /\ sendAge' \in Nat /\ (sendAge' = sendAge + 1 \/ sendAge' >= MaxDelay)
      /\ sendAge >= MaxDelay => sendAge' >= MaxDelay
      /\ silentFor' \in Nat /\ silentFor' <= silentFor + 1
  BY <1>1, <1>2, Lengths DEF Older
<1>4. Unnoticed' = Unnoticed /\ LongestWait' = LongestWait
  BY <1>1 DEF Unnoticed, LongestWait
<1>5. SinceJudged \in Nat /\ SinceJudged' = SinceJudged + 1
  <2>1. SinceJudged \in Nat
    BY <1>2, WaitBounded
  <2> QED
    BY <1>1, <1>2, <2>1 DEF SinceJudged
<1>6. ~Resends /\ pc # "mesh"
  BY <1>1 DEF Resends
<1>7. Unnoticed \in Nat /\ LongestWait \in Nat
  BY <1>2, WaitBounded
<1>8. TypeOK'
  BY TickSound DEF IInv
<1>9. running => silentFor' <= LongestWait + SinceJudged'
  BY <1>2, <1>3, <1>5, <1>6, <1>7 DEF SilenceSound
<1>10. silentFor' <= Bound
  <2>1. CASE running
    <3>1. LongestWait' + SinceJudged' <= Bound /\ LongestWait' \in Nat /\ SinceJudged' \in Nat
      <4>1. SinceJudged' <= 2 * MaxPost + 1 + MaxCheck
        BY <1>1, <1>2, <1>8 DEF SinceJudged, TypeOK
      <4>2. LongestWait <= MaxDelay + MaxPost + 1 + MaxCheck + MaxOf(Base, MaxPost)
        BY Lengths DEF LongestWait, Unnoticed
      <4> QED
        BY <1>4, <1>5, <1>7, <4>1, <4>2, Lengths, RoundLength
    <3>2. silentFor' <= LongestWait' + SinceJudged'
      BY <1>4, <1>9, <2>1, Zenon
    <3> QED
      BY <1>3, <3>1, <3>2, Lengths, AtMost, Zenon
  <2>2. CASE ~running
    <3>1. pc = "top" /\ ran
      BY <1>1, <2>2 DEF SilenceSound
    <3>2. silentFor = 0
      BY <1>2, <2>2, <3>1 DEF SilenceSound
    <3> QED
      BY <1>3, <3>2, Lengths, RoundLength
  <2> QED
    BY <2>1, <2>2
<1>11. running /\ sent /\ pc # "post" => silentFor' <= Unnoticed + sendAge' \/ sendAge' >= MaxDelay
  <2>1. running /\ sent /\ pc # "post" => silentFor <= Unnoticed + sendAge \/ sendAge >= MaxDelay
    BY <1>6 DEF SilenceSound
  <2>2. silentFor <= Unnoticed + sendAge => silentFor' <= Unnoticed + sendAge' \/ sendAge' >= MaxDelay
    BY <1>2, <1>3, <1>7, Grown, Zenon
  <2> QED
    BY <1>3, <2>1, <2>2
<1>12. pc = "post" => sendAge' >= blocked' \/ sendAge' >= MaxDelay
  BY <1>1, <1>2, <1>3, Lengths DEF SilenceSound
<1>13. ~running /\ pc = "top" => silentFor' <= 1 /\ ~ran'
  BY <1>1, <1>2, <1>3 DEF SilenceSound
<1>14. ~fix => silentFor' = 0
  BY <1>1
<1> QED
  BY <1>1, <1>4, <1>9, <1>10, <1>11, <1>12, <1>13, <1>14 DEF SilenceSound

LEMMA SilenceWorld == IInv /\ SilenceSound /\ WorldChanges => SilenceSound'
<1> SUFFICES ASSUME IInv, SilenceSound, WorldChanges PROVE SilenceSound'
  OBVIOUS
<1>1. /\ silentFor' = (IF fix' THEN silentFor ELSE 0)
      /\ UNCHANGED <<pc, blocked, ran, running, fails, latest, sent, sendAge>>
  BY DEF WorldChanges, status, sending
<1>2. TypeOK /\ silentFor \in Nat /\ sendAge \in Nat
  BY DEF IInv, TypeOK
<1>3. /\ Unnoticed' = Unnoticed /\ LongestWait' = LongestWait /\ SinceJudged' = SinceJudged
      /\ Resends' = Resends
  BY <1>1 DEF Unnoticed, LongestWait, SinceJudged, Resends
<1>4. Unnoticed \in Nat /\ LongestWait \in Nat /\ SinceJudged \in Nat /\ Bound \in Nat
  BY <1>2, WaitBounded, Lengths
<1>5. silentFor' <= silentFor /\ silentFor' \in Nat
  BY <1>1, <1>2
<1> QED
  BY <1>1, <1>2, <1>3, <1>4, <1>5 DEF SilenceSound

LEMMA SilenceStep == IInv /\ SilenceSound /\ [Next]_vars => SilenceSound'
<1> SUFFICES ASSUME IInv, SilenceSound, [Next]_vars PROVE SilenceSound'
  OBVIOUS
<1>1. CASE UNCHANGED vars
  <2>1. UNCHANGED <<silentFor, fix, pc, blocked, ran, running, fails, latest, sent, sendAge>>
    BY <1>1 DEF vars, world, status, sending, history
  <2> QED
    BY <2>1 DEF SilenceSound, Unnoticed, LongestWait, SinceJudged, Resends
<1> QED
  BY <1>1, SilenceSend, SilenceEndSend, SilenceMesh, SilenceRound, SilenceStop, SilenceTick, SilenceWorld
     DEF Next

\* With a valid fix the own position is posted or handed to the mesh after the
\* longest delay, the interval and two rounds at most, for every interval and
\* backoff, whatever the forwarded POSTs do and wherever the failure counter
\* wraps (main.cpp:290-300, uplink.cpp nextDelayMs, README.md:323-324).
THEOREM OwnFindsAWay == Spec => []OwnPositionHasAWay
<1>1. Spec => [](IInv /\ SilenceSound)
  BY SilenceInit, SilenceStep, InitSound, StepSound, PTL DEF Spec
<1>2. SilenceSound => OwnPositionHasAWay
  BY DEF SilenceSound, OwnPositionHasAWay
<1> QED
  BY <1>1, <1>2, PTL

-----------------------------------------------------------------------------
(* Minutes: division by any length of a minute *)

LEMMA Parts ==
  ASSUME NEW a \in Nat, NEW d \in Nat \ {0}
  PROVE  /\ a \div d \in Nat /\ a % d \in 0..d - 1
         /\ a = d * (a \div d) + (a % d)
         /\ d * (a \div d) <= a /\ a < d * (a \div d) + d
  OBVIOUS

LEMMA Scaled ==
  ASSUME NEW p \in Nat, NEW q \in Nat, NEW d \in Nat \ {0}
  PROVE  d * p \in Nat /\ (d * p < d * q => p < q) /\ (p < q => d * p + d <= d * q)
         /\ d * (p + q) = d * p + d * q
  OBVIOUS

LEMMA OnePart ==
  ASSUME NEW k \in Int, NEW d \in Nat \ {0}, d * k < d, d * k > -d
  PROVE  k = 0
<1>1. CASE k >= 1
  <2>1. d * k = d + d * (k - 1) /\ d * (k - 1) >= 0
    BY <1>1
  <2> QED
    BY <2>1
<1>2. CASE k <= -1
  <2>1. d * k = -d + d * (k + 1) /\ d * (k + 1) <= 0
    BY <1>2
  <2> QED
    BY <2>1
<1> QED
  BY <1>1, <1>2

LEMMA Congruent ==
  ASSUME NEW m \in Nat, NEW n \in Nat, NEW b \in Nat \ {0}, m <= n, n - m < b, m % b = n % b
  PROVE  m = n
<1>1. /\ m \div b \in Nat /\ n \div b \in Nat /\ m % b \in Nat
      /\ m = b * (m \div b) + (m % b) /\ n = b * (n \div b) + (n % b)
  OBVIOUS
<1> DEFINE k == (n \div b) - (m \div b)
<1>2. k \in Int /\ n - m = b * k
  BY <1>1
<1>3. k = 0
  BY <1>2, OnePart
<1> QED
  BY <1>2, <1>3

LEMMA NotEarlier ==
  ASSUME NEW a \in Nat, NEW b \in Nat, NEW d \in Nat \ {0}, a <= b
  PROVE  a \div d <= b \div d
<1>1. d * (a \div d) < d * ((b \div d) + 1)
  BY Parts, Scaled
<1> QED
  BY <1>1, Parts, Scaled

\* What was sent in the last Buckets - 1 minutes is booked in the last Buckets.
LEMMA HourCovers ==
  ASSUME NEW a \in Nat, NEW b \in Nat, NEW d \in Nat \ {0}, NEW n \in Nat \ {0},
         b <= a + (n - 1) * d
  PROVE  (b \div d) - (a \div d) < n
<1>1. (n - 1) * d = d * (n - 1) /\ n - 1 \in Nat
  OBVIOUS
<1>2. d * (b \div d) < d * (a \div d) + d + d * (n - 1)
  BY <1>1, Parts
<1>3. d * ((a \div d) + n) = d * (a \div d) + d + d * (n - 1)
  BY Parts
<1>4. d * (b \div d) < d * ((a \div d) + n)
  BY <1>2, <1>3
<1> QED
  BY <1>4, Parts, Scaled

\* What is booked in the last Buckets minutes ended in them.
LEMMA HourEnds ==
  ASSUME NEW a \in Nat, NEW b \in Nat, NEW d \in Nat \ {0}, NEW n \in Nat \ {0},
         (b \div d) - (a \div d) < n
  PROVE  b < a + n * d
<1>1. n * d = d * n
  OBVIOUS
<1>2. d * ((a \div d) + n) = d * (a \div d) + d * n
  BY Parts
<1>3. d * (b \div d) + d <= d * ((a \div d) + n)
  BY Parts, Scaled
<1>4. b < d * (b \div d) + d /\ d * (a \div d) <= a
  BY Parts
<1>5. d * n \in Nat /\ d * (a \div d) \in Nat /\ d * (b \div d) \in Nat
  BY Parts, Scaled
<1> QED
  BY <1>1, <1>2, <1>3, <1>4, <1>5

-----------------------------------------------------------------------------
(* The account of the airtime: what airtimeLastHourMs adds up *)

\* The contribution of the bucket with index n.
Part(n) == IF InHour(airtime[n].minute) THEN airtime[n].total ELSE 0

LEMMA PartSound == AirTypeOK => \A n \in 0..Buckets - 1 : Part(n) \in Nat
  BY DEF AirTypeOK, Part

LEMMA SumToSound ==
  AirTypeOK => SumTo[0] = 0 /\ \A n \in 0..Buckets - 1 : SumTo[n + 1] = SumTo[n] + Part(n)
<1> SUFFICES ASSUME AirTypeOK
             PROVE  SumTo[0] = 0 /\ \A n \in 0..Buckets - 1 : SumTo[n + 1] = SumTo[n] + Part(n)
  OBVIOUS
<1> DEFINE F == [n \in Nat |-> [x \in Nat |-> IF n < Buckets THEN x + Part(n) ELSE x]]
           Is(f) == f = [n \in 0..Buckets |->
                           IF n = 0 THEN 0
                           ELSE f[n - 1] + IF InHour(airtime[n - 1].minute) THEN airtime[n - 1].total ELSE 0]
<1>1. /\ F \in [Nat -> [Nat -> Nat]] /\ Buckets \in Nat \ {0}
      /\ \A n \in 0..Buckets - 1, x \in Nat : F[n][x] = x + Part(n)
  <2>1. \A n \in Nat : n < Buckets => Part(n) \in Nat
    BY PartSound, AirtimeAssumption
  <2> HIDE DEF Part
  <2> QED
    BY <2>1, AirtimeAssumption
<1> HIDE DEF F
<1>2. PICK f \in [Nat -> Nat] : f[0] = 0 /\ \A n \in Nat : f[n + 1] = F[n][f[n]]
  <2>1. \E f \in [Nat -> Nat] : Follows(0, F, f)
    <3>1. 0 \in Nat
      OBVIOUS
    <3> QED
      BY <1>1, <3>1, Recursion, Zenon
  <2> QED
    BY <2>1 DEF Follows
<1> DEFINE g == [n \in 0..Buckets |-> f[n]]
<1>3. g[0] = 0 /\ \A n \in 0..Buckets - 1 : g[n + 1] = g[n] + Part(n)
  <2>1. 0 \in 0..Buckets
    BY <1>1
  <2>2. ASSUME NEW n \in 0..Buckets - 1 PROVE g[n + 1] = g[n] + Part(n)
    <3>1. n \in Nat /\ n \in 0..Buckets /\ n + 1 \in 0..Buckets /\ f[n] \in Nat
      BY <1>1
    <3>2. f[n + 1] = F[n][f[n]]
      BY <1>2, <3>1
    <3>3. F[n][f[n]] = f[n] + Part(n)
      BY <1>1, <3>1
    <3> QED
      BY <3>1, <3>2, <3>3
  <2> QED
    BY <1>2, <2>1, <2>2
<1>4. \A n \in 0..Buckets : n # 0 => g[n] = g[n - 1] + Part(n - 1)
  <2> HIDE DEF g
  <2> SUFFICES ASSUME NEW n \in 0..Buckets, n # 0 PROVE g[n] = g[n - 1] + Part(n - 1)
    OBVIOUS
  <2>1. n - 1 \in 0..Buckets - 1 /\ n - 1 + 1 = n
    BY <1>1
  <2> QED
    BY <1>3, <2>1
<1>5. Is(g)
  <2>1. g = [n \in 0..Buckets |-> g[n]]
    OBVIOUS
  <2> HIDE DEF g
  <2>2. \A n \in 0..Buckets :
          g[n] = IF n = 0 THEN 0
                 ELSE g[n - 1] + IF InHour(airtime[n - 1].minute) THEN airtime[n - 1].total ELSE 0
    BY <1>3, <1>4 DEF Part
  <2> QED
    BY <2>1, <2>2
<1>6. Is(SumTo)
  <2>1. SumTo = CHOOSE h : Is(h)
    BY DEF SumTo
  <2> HIDE DEF Is, g
  <2> QED
    BY <1>5, <2>1
<1>7. \A n \in 0..Buckets :
        SumTo[n] = IF n = 0 THEN 0
                   ELSE SumTo[n - 1] + IF InHour(airtime[n - 1].minute) THEN airtime[n - 1].total ELSE 0
  BY <1>6
<1>8. \A n \in 0..Buckets - 1 :
        SumTo[n + 1] = SumTo[n] + IF InHour(airtime[n].minute) THEN airtime[n].total ELSE 0
  <2> SUFFICES ASSUME NEW n \in 0..Buckets - 1
               PROVE  SumTo[n + 1] = SumTo[n] + IF InHour(airtime[n].minute) THEN airtime[n].total ELSE 0
    OBVIOUS
  <2>1. n + 1 \in 0..Buckets /\ n + 1 # 0 /\ n + 1 - 1 = n
    BY <1>1
  <2> QED
    BY <1>7, <2>1
<1>9. SumTo[0] = 0
  <2>1. 0 \in 0..Buckets
    BY <1>1
  <2> QED
    BY <1>7, <2>1
<1> QED
  BY <1>8, <1>9 DEF Part

LEMMA Together ==
  ASSUME NEW S, IsFiniteSet(S), NEW T, IsFiniteSet(T), S \cap T = {}
  PROVE  /\ Cardinality(S \cup T) = Cardinality(S) + Cardinality(T) /\ IsFiniteSet(S \cup T)
         /\ Cardinality(S) \in Nat /\ Cardinality(T) \in Nat
  BY FS_Union, FS_EmptySet, FS_CardinalityType

LEMMA CurrentSound ==
  AirTypeOK => /\ Current \subseteq onAir /\ IsFiniteSet(Current)
               /\ \A e \in Current : /\ e.born = born /\ e.tick \in Nat /\ e.ends \in Nat
                                     /\ e.foreign \in BOOLEAN
<1>1. Current \subseteq onAir
  BY DEF Current
<1> QED
  BY <1>1, FS_Subset DEF AirTypeOK, Current

\* What is booked in a minute of the last hour.
InAccount == {e \in Booked : InHour(MinuteOf(e))}

\* Each bucket counts the ticks booked in its minute, and each minute of the
\* last hour has a bucket: the sum is what is booked in the last hour.
LEMMA SumCounts ==
  AirTypeOK /\ BucketsSound => Sum = Cardinality(InAccount) /\ IsFiniteSet(InAccount)
<1> SUFFICES ASSUME AirTypeOK, BucketsSound
             PROVE  Sum = Cardinality(InAccount) /\ IsFiniteSet(InAccount)
  OBVIOUS
<1> DEFINE Upto(n) == {e \in InAccount : MinuteOf(e) % Buckets < n}
           At(n) == {e \in InAccount : MinuteOf(e) % Buckets = n}
           T == {n \in Nat : n <= Buckets => SumTo[n] = Cardinality(Upto(n))}
<1>1. /\ Buckets \in Nat \ {0} /\ Minute \in Nat \ {0}
      /\ \A e \in Current : MinuteOf(e) \in Nat /\ MinuteOf(e) % Buckets \in 0..Buckets - 1
  <2>1. ASSUME NEW e \in Current PROVE MinuteOf(e) \in Nat /\ MinuteOf(e) % Buckets \in 0..Buckets - 1
    <3>1. e.ends \in Nat
      BY CurrentSound
    <3>2. MinuteOf(e) \in Nat
      BY <3>1, Parts, AirtimeAssumption DEF MinuteOf
    <3> QED
      BY <3>2, Parts, AirtimeAssumption
  <2> QED
    BY <2>1, AirtimeAssumption
<1>2. InAccount \subseteq Current /\ IsFiniteSet(InAccount)
  BY FS_Subset, CurrentSound DEF InAccount, Booked
<1>3. \A n : IsFiniteSet(Upto(n)) /\ IsFiniteSet(At(n))
  <2>1. \A n : Upto(n) \subseteq InAccount /\ At(n) \subseteq InAccount
    OBVIOUS
  <2> QED
    BY <1>2, <2>1, FS_Subset
<1>4. 0 \in T
  <2>1. Upto(0) = {}
    BY <1>1, <1>2
  <2> QED
    BY <2>1, SumToSound, FS_EmptySet
<1>5. ASSUME NEW n \in T PROVE n + 1 \in T
  <2> SUFFICES ASSUME n + 1 <= Buckets PROVE SumTo[n + 1] = Cardinality(Upto(n + 1))
    BY <1>5
  <2>1. n \in 0..Buckets - 1 /\ SumTo[n] = Cardinality(Upto(n))
    BY <1>1, <1>5
  <2>2. Part(n) = Cardinality(At(n))
    <3>1. CASE InHour(airtime[n].minute)
      <4>1. At(n) = BookedIn(n)
        BY <2>1, <3>1 DEF BucketsSound, InAccount, BookedIn
      <4> QED
        BY <2>1, <3>1, <4>1 DEF BucketsSound, Part
    <3>2. CASE ~InHour(airtime[n].minute)
      <4>1. At(n) = {}
        BY <2>1, <3>2 DEF BucketsSound, InAccount
      <4> QED
        BY <3>2, <4>1, FS_EmptySet DEF Part
    <3> QED
      BY <3>1, <3>2
  <2>3. Upto(n + 1) = Upto(n) \cup At(n) /\ Upto(n) \cap At(n) = {}
    BY <1>1, <1>2, <2>1
  <2>4. Cardinality(Upto(n + 1)) = Cardinality(Upto(n)) + Cardinality(At(n))
    <3> HIDE DEF Upto, At
    <3> QED
      BY <1>3, <2>3, Together
  <2> QED
    BY <2>1, <2>2, <2>4, SumToSound
<1>6. T = Nat
  <2>1. T \subseteq Nat
    OBVIOUS
  <2> HIDE DEF T
  <2> QED
    BY <1>4, <1>5, <2>1, Induction
<1>7. Sum = Cardinality(Upto(Buckets))
  BY <1>1, <1>6 DEF Sum
<1>8. Upto(Buckets) = InAccount
  BY <1>1, <1>2
<1> QED
  BY <1>2, <1>7, <1>8

-----------------------------------------------------------------------------
(* The account agrees with what was sent *)

LEMMA Lasting ==
  /\ Buckets \in Nat \ {0} /\ Minute \in Nat \ {0} /\ MaxToa \in Nat \ {0} /\ MaxUptime \in Nat
  /\ Limit \in Nat /\ ForeignLimit \in Nat /\ MillisMod \in Nat \ {0}
  /\ Buckets * Minute \in Nat /\ Covered \in Nat /\ Covered <= Buckets * Minute
  /\ Covered = (Buckets - 1) * Minute
<1>1. Buckets - 1 \in Nat
  BY AirtimeAssumption
<1>2. Minute * Buckets \in Nat /\ Minute * (Buckets - 1) \in Nat /\ Minute * (Buckets - 1) + Minute <= Minute * Buckets
  BY <1>1, AirtimeAssumption, Scaled
<1>3. Minute * Buckets = Buckets * Minute /\ Minute * (Buckets - 1) = Covered
  BY <1>1, AirtimeAssumption DEF Covered
<1> QED
  BY <1>2, <1>3, AirtimeAssumption, ClockAssumption DEF Covered

\* Before millis() wraps it is the time since power-up.
LEMMA NotWrapped ==
  MaxUptime < MillisMod /\ now \in 0..MaxUptime => MinuteNow = now \div Minute /\ MinuteNow \in Nat
<1> SUFFICES ASSUME MaxUptime < MillisMod, now \in 0..MaxUptime
             PROVE  MinuteNow = now \div Minute /\ MinuteNow \in Nat
  OBVIOUS
<1>1. now \in Nat /\ now < MillisMod
  BY Lasting
<1>2. now % MillisMod = now
  BY <1>1, Lasting
<1> QED
  BY <1>1, <1>2, Parts, Lasting DEF MinuteNow

LEMMA Apart ==
  AirTypeOK /\ HistorySound =>
    /\ IsFiniteSet(Booked) /\ IsFiniteSet(Sending) /\ Booked \cup Sending = Current
    /\ \A X \in SUBSET Booked : Cardinality(X \cup Sending) = Cardinality(X) + (tx.toa - tx.left)
<1> SUFFICES ASSUME AirTypeOK, HistorySound
             PROVE  /\ IsFiniteSet(Booked) /\ IsFiniteSet(Sending) /\ Booked \cup Sending = Current
                    /\ \A X \in SUBSET Booked :
                         Cardinality(X \cup Sending) = Cardinality(X) + (tx.toa - tx.left)
  OBVIOUS
<1>1. Booked \subseteq Current /\ Sending \subseteq Current /\ Booked \cup Sending = Current
  BY DEF Booked, Sending
<1>2. IsFiniteSet(Booked) /\ IsFiniteSet(Sending)
  BY <1>1, FS_Subset, CurrentSound
<1>3. ASSUME NEW X \in SUBSET Booked
      PROVE  Cardinality(X \cup Sending) = Cardinality(X) + (tx.toa - tx.left)
  <2>1. IsFiniteSet(X) /\ X \cap Sending = {}
    BY <1>2, FS_Subset DEF Booked
  <2>2. Cardinality(X \cup Sending) = Cardinality(X) + Cardinality(Sending)
    BY <1>2, <2>1, Together
  <2> QED
    BY <2>2 DEF HistorySound
<1> QED
  BY <1>1, <1>2, <1>3

LEMMA WithinSound ==
  AirTypeOK => /\ \A n : SentWithin(n) \subseteq Current /\ IsFiniteSet(SentWithin(n))
               /\ \A n : Cardinality(SentWithin(n)) \in Nat
               /\ ForeignSent \subseteq SentWithin(Covered)
               /\ IsFiniteSet(ForeignSent) /\ Cardinality(ForeignSent) \in Nat
               /\ Cardinality(ForeignSent) <= Cardinality(SentWithin(Covered))
<1> SUFFICES ASSUME AirTypeOK
             PROVE /\ \A n : SentWithin(n) \subseteq Current /\ IsFiniteSet(SentWithin(n))
                   /\ \A n : Cardinality(SentWithin(n)) \in Nat
                   /\ ForeignSent \subseteq SentWithin(Covered)
                   /\ IsFiniteSet(ForeignSent) /\ Cardinality(ForeignSent) \in Nat
                   /\ Cardinality(ForeignSent) <= Cardinality(SentWithin(Covered))
  OBVIOUS
<1>1. \A n : SentWithin(n) \subseteq Current
  BY DEF SentWithin
<1>2. \A n : IsFiniteSet(SentWithin(n)) /\ Cardinality(SentWithin(n)) \in Nat
  BY <1>1, FS_Subset, FS_CardinalityType, CurrentSound
<1>3. ForeignSent \subseteq SentWithin(Covered)
  BY DEF ForeignSent
<1> QED
  BY <1>1, <1>2, <1>3, FS_Subset, FS_CardinalityType

LEMMA Agrees ==
  MaxUptime < MillisMod /\ AirTypeOK /\ HistorySound /\ BucketsSound => AccountAgrees
<1> SUFFICES ASSUME MaxUptime < MillisMod, AirTypeOK, HistorySound, BucketsSound
             PROVE  AccountAgrees
  OBVIOUS
<1>1. /\ now \in Nat /\ MinuteNow = now \div Minute
      /\ \A e \in Current : e.tick \in Nat /\ e.ends \in Nat
  BY NotWrapped, Lasting, CurrentSound DEF AirTypeOK
<1>2. InAccount \subseteq Booked
  BY DEF InAccount
<1>3. Cardinality(InAccount \cup Sending) = Sum + tx.toa - tx.left
  <2>1. Cardinality(InAccount \cup Sending) = Cardinality(InAccount) + (tx.toa - tx.left)
    BY <1>2, Apart
  <2>2. Cardinality(InAccount) \in Nat /\ tx.toa \in Nat /\ tx.left \in Nat
    BY SumCounts, FS_CardinalityType, Lasting DEF AirTypeOK
  <2> QED
    BY <2>1, <2>2, SumCounts
<1>4. SentWithin(Covered) \subseteq InAccount \cup Sending
  <2> SUFFICES ASSUME NEW e \in SentWithin(Covered), e \notin Sending
               PROVE  e \in InAccount
    OBVIOUS
  <2>1. e \in Booked /\ e.tick \in Nat /\ e.ends \in Nat /\ e.tick + Covered >= now
    BY <1>1 DEF SentWithin, Booked
  <2>2. e.tick < e.ends /\ e.ends <= now
    BY <2>1 DEF HistorySound, Booked
  <2>3. (now \div Minute) - (e.ends \div Minute) < Buckets
    <3>1. now <= e.ends + Covered
      BY <1>1, <2>1, <2>2, Lasting
    <3> QED
      BY <1>1, <2>1, <3>1, HourCovers, Lasting
  <2>4. e.ends \div Minute <= now \div Minute
    BY <1>1, <2>1, <2>2, NotEarlier, Lasting
  <2> QED
    BY <1>1, <2>1, <2>3, <2>4 DEF InAccount, InHour, MinuteOf
<1>5. InAccount \cup Sending \subseteq SentWithin(Buckets * Minute + MaxToa)
  <2>1. \A e \in Current : e.tick + (Buckets * Minute + MaxToa) >= now
    <3> SUFFICES ASSUME NEW e \in Current PROVE e.tick + (Buckets * Minute + MaxToa) >= now
      OBVIOUS
    <3>1. e.tick \in Nat /\ e.tick + Buckets * Minute + MaxToa >= now
      BY <1>1 DEF HistorySound
    <3> QED
      BY <1>1, <3>1, Lasting
  <2> QED
    BY <1>2, <2>1, Apart DEF SentWithin
<1>6. IsFiniteSet(InAccount \cup Sending)
  BY Apart, SumCounts, FS_Union
<1>7. /\ Cardinality(SentWithin(Covered)) <= Cardinality(InAccount \cup Sending)
      /\ Cardinality(InAccount \cup Sending) <= Cardinality(SentWithin(Buckets * Minute + MaxToa))
  BY <1>4, <1>5, <1>6, WithinSound, FS_Subset
<1> QED
  BY <1>3, <1>7 DEF AccountAgrees

-----------------------------------------------------------------------------
(* Its invariant, step by step *)

\* At power-up the account is empty, and so is what was sent since.
JustOn ==
  /\ AirTypeOK /\ now = 0 /\ tx = Quiet /\ Current = {}
  /\ airtime = [i \in 0..Buckets - 1 |-> EmptyBucket]

LEMMA NothingSent == JustOn => HistorySound /\ BucketsSound /\ LimitSound /\ ForeignSound
<1> SUFFICES ASSUME JustOn PROVE HistorySound /\ BucketsSound /\ LimitSound /\ ForeignSound
  OBVIOUS
<1> USE DEF JustOn
<1>1. Sending = {} /\ Booked = {} /\ \A i : BookedIn(i) = {}
  BY DEF Sending, Booked, BookedIn
<1>2. HistorySound
  BY <1>1, FS_EmptySet DEF HistorySound, Quiet
<1>3. BucketsSound
  <2>1. MinuteNow \in Nat
    <3>1. now % MillisMod \in Nat
      BY Parts, Lasting
    <3> QED
      BY <3>1, Parts, Lasting DEF MinuteNow
  <2> QED
    BY <1>1, <2>1, FS_EmptySet DEF BucketsSound, EmptyBucket
<1>4. SentWithin(Covered) = {} /\ ForeignSent = {}
  BY DEF SentWithin, ForeignSent
<1>5. LimitSound /\ ForeignSound
  <2>1. Cardinality(SentWithin(Covered)) = 0 /\ Cardinality(ForeignSent) = 0 /\ tx.left = 0
    BY <1>4, FS_EmptySet DEF Quiet
  <2> QED
    BY <2>1, Lasting DEF LimitSound, ForeignSound
<1> QED
  BY <1>2, <1>3, <1>5

LEMMA AirStarts == AirInit => AirIInv
<1> SUFFICES ASSUME AirInit PROVE AirIInv
  OBVIOUS
<1>1. /\ born = 0 /\ now = 0 /\ tx = Quiet /\ onAir = {} /\ Current = {}
      /\ airtime = [i \in 0..Buckets - 1 |-> EmptyBucket]
  BY DEF AirInit, Current
<1>2. AirTypeOK
  BY <1>1, FS_EmptySet, Lasting DEF AirTypeOK, Quiet, EmptyBucket
<1>3. PastSound
  BY <1>1 DEF PastSound
<1> QED
  BY <1>1, <1>2, <1>3, NothingSent DEF AirIInv, JustOn

\* What this power-up sent in the window, by its own clock and by the true one.
LEMMA SentByNow ==
  AirTypeOK => SentBy(born) = SentWithin(Covered) /\ ForeignBy(born) = ForeignSent
<1> SUFFICES ASSUME AirTypeOK
             PROVE  SentBy(born) = SentWithin(Covered) /\ ForeignBy(born) = ForeignSent
  OBVIOUS
<1>1. born \in Nat /\ now \in Nat /\ Covered \in Nat
  BY Lasting DEF AirTypeOK
<1>2. \A e \in Current : born + e.tick + Covered >= born + now <=> e.tick + Covered >= now
  BY <1>1, CurrentSound
<1>3. SentBy(born) = {e \in Current : born + e.tick + Covered >= born + now}
  BY DEF SentBy, Current
<1>4. SentBy(born) = SentWithin(Covered)
  BY <1>2, <1>3 DEF SentWithin
<1> QED
  BY <1>4 DEF ForeignBy, ForeignSent

\* The past stays as it is, or is further away, while this power-up lasts.
LEMMA PastKept ==
  ASSUME AirTypeOK, PastSound, born' = born, born + now <= born' + now', now' \in Nat,
         \A e \in onAir' : e.born # born => e \in onAir
  PROVE  PastSound'
<1> SUFFICES ASSUME NEW b \in 0..born, b < born
             PROVE  /\ Cardinality(SentBy(b)') <= Limit
                    /\ Cardinality(ForeignBy(b)') < ForeignLimit + MaxToa
  BY DEF PastSound
<1>1. /\ Cardinality(SentBy(b)) <= Limit /\ Cardinality(ForeignBy(b)) < ForeignLimit + MaxToa
      /\ born \in Nat /\ now \in Nat /\ Covered \in Nat /\ b \in Nat
      /\ Limit \in Nat /\ ForeignLimit + MaxToa \in Nat
  BY Lasting DEF PastSound, AirTypeOK
<1>2. SentBy(b)' \subseteq SentBy(b)
  <2> SUFFICES ASSUME NEW e \in SentBy(b)' PROVE e \in SentBy(b)
    OBVIOUS
  <2>1. e \in onAir' /\ e.born = b /\ b + e.tick + Covered >= born + now'
    BY DEF SentBy
  <2>2. e \in onAir /\ e.tick \in Nat
    BY <2>1 DEF AirTypeOK
  <2>3. b + e.tick + Covered >= born + now
    <3>1. \A k \in Nat : born + now <= born + k => now <= k
      BY <1>1
    <3>3. born + now <= born + now'
      OBVIOUS
    <3>4. now' \in Nat
      OBVIOUS
    <3>5. now <= now'
      BY <3>1, <3>3, <3>4
    <3>2. \A k, n \in Nat :
            now <= n /\ b + k + Covered >= born + n => b + k + Covered >= born + now
      BY <1>1
    <3> QED
      BY <2>1, <2>2, <3>2, <3>4, <3>5
  <2> QED
    BY <2>1, <2>2, <2>3 DEF SentBy
<1>3. ForeignBy(b)' \subseteq ForeignBy(b)
  BY <1>2 DEF ForeignBy
<1>4. IsFiniteSet(SentBy(b)) /\ IsFiniteSet(ForeignBy(b))
  <2>1. SentBy(b) \subseteq onAir /\ ForeignBy(b) \subseteq onAir
    BY DEF SentBy, ForeignBy
  <2> QED
    BY <2>1, FS_Subset DEF AirTypeOK
<1>5. /\ Cardinality(SentBy(b)') <= Cardinality(SentBy(b))
      /\ Cardinality(ForeignBy(b)') <= Cardinality(ForeignBy(b))
      /\ Cardinality(SentBy(b)') \in Nat /\ Cardinality(ForeignBy(b)') \in Nat
      /\ Cardinality(SentBy(b)) \in Nat /\ Cardinality(ForeignBy(b)) \in Nat
  BY <1>2, <1>3, <1>4, FS_Subset, FS_CardinalityType
<1> QED
  BY <1>1, <1>5

\* A restart makes the present one of the past and begins with an empty account.
LEMMA AirBoots == AirIInv /\ Boot => AirIInv'
<1> SUFFICES ASSUME AirIInv, Boot PROVE AirIInv'
  OBVIOUS
<1> USE Lasting
<1>1. /\ AirTypeOK /\ HistorySound /\ LimitSound /\ ForeignSound /\ PastSound
      /\ born \in Nat /\ now \in Nat
      /\ born' = born + now /\ now' = 0 /\ tx' = Quiet /\ onAir' = onAir
      /\ airtime' = [i \in 0..Buckets - 1 |-> EmptyBucket]
  BY DEF AirIInv, Boot, AirTypeOK
<1>2. AirTypeOK'
  <2>1. 0..born \subseteq 0..born'
    BY <1>1
  <2>2. onAir' \subseteq [born : 0..born', tick : Nat, foreign : BOOLEAN, ends : Nat]
    BY <1>1, <2>1 DEF AirTypeOK
  <2>3. 0 \in 0..MaxUptime /\ Quiet \in [toa : 0..MaxToa, left : 0..MaxToa, foreign : BOOLEAN]
    BY DEF Quiet
  <2>4. EmptyBucket \in [minute : Nat, total : Nat, foreign : Nat]
    BY DEF EmptyBucket
  <2> QED
    BY <1>1, <2>2, <2>3, <2>4 DEF AirTypeOK, Quiet
<1>3. ASSUME NEW e \in onAir PROVE e.born \in 0..born
  BY <1>1 DEF AirTypeOK
<1>4. Current' = {}
  <2> SUFFICES ASSUME NEW e \in onAir, e.born = born + now PROVE FALSE
    BY <1>1 DEF Current
  <2>1. e.born = born /\ now = 0
    BY <1>1, <1>3
  <2>2. e \in Current
    BY <2>1 DEF Current
  <2>3. e.tick < now /\ e.tick \in Nat
    BY <1>1, <2>2, CurrentSound DEF HistorySound
  <2> QED
    BY <2>1, <2>3
<1>5. \A b : SentBy(b)' = SentBy(b) /\ ForeignBy(b)' = ForeignBy(b)
  <2>1. born' + now' = born + now
    BY <1>1
  <2>2. \A b : SentBy(b)' = {e \in onAir : e.born = b /\ b + e.tick + Covered >= born' + now'}
    BY <1>1 DEF SentBy
  <2>3. \A b : SentBy(b)' = SentBy(b)
    BY <2>1, <2>2 DEF SentBy
  <2> QED
    BY <2>3 DEF ForeignBy
<1>6. PastSound'
  <2> SUFFICES ASSUME NEW b \in 0..born', b < born'
               PROVE  /\ Cardinality(SentBy(b)') <= Limit
                      /\ Cardinality(ForeignBy(b)') < ForeignLimit + MaxToa
    BY DEF PastSound
  <2>1. CASE b < born
    BY <1>1, <1>5, <2>1 DEF PastSound
  <2>2. CASE b = born
    <3>1. /\ Cardinality(SentWithin(Covered)) \in Nat /\ Cardinality(ForeignSent) \in Nat
          /\ tx.left \in Nat
      BY <1>1, WithinSound DEF AirTypeOK
    <3>2. Cardinality(SentWithin(Covered)) <= Limit /\ Cardinality(ForeignSent) < ForeignLimit + MaxToa
      BY <1>1, <3>1 DEF LimitSound, ForeignSound
    <3> QED
      BY <1>1, <1>5, <2>2, <3>2, SentByNow
  <2>3. CASE b > born
    <3>1. SentBy(b) = {} /\ ForeignBy(b) = {}
      <4>1. \A e \in onAir : e.born # b
        BY <1>1, <1>3, <2>3
      <4> QED
        BY <4>1 DEF SentBy, ForeignBy
    <3>2. Cardinality(SentBy(b)') = 0 /\ Cardinality(ForeignBy(b)') = 0
      BY <1>5, <3>1, FS_EmptySet
    <3>3. 0 <= Limit /\ 0 < ForeignLimit + MaxToa
      OBVIOUS
    <3> QED
      BY <3>2, <3>3
  <2> QED
    BY <1>1, <2>1, <2>2, <2>3
<1>7. HistorySound' /\ BucketsSound' /\ LimitSound' /\ ForeignSound'
  <2>1. JustOn'
    BY <1>1, <1>2, <1>4 DEF JustOn
  <2> QED
    BY <2>1, NothingSent, PTL
<1> QED
  BY <1>2, <1>6, <1>7 DEF AirIInv

\* Sending begins when the account, and so what was sent, leaves room for it.
LEMMA AirBegins ==
  MaxUptime < MillisMod /\ AirIInv /\ BeginTransmit => AirIInv'
<1> SUFFICES ASSUME MaxUptime < MillisMod, AirIInv, BeginTransmit PROVE AirIInv'
  OBVIOUS
<1> USE Lasting
<1>1. /\ AirTypeOK /\ HistorySound /\ BucketsSound /\ LimitSound /\ ForeignSound /\ PastSound
      /\ tx = Quiet /\ UNCHANGED <<born, now, airtime, onAir, Current>>
  BY DEF AirIInv, BeginTransmit, Current
<1>2. PICK toa \in 1..MaxToa, foreign \in BOOLEAN :
        /\ foreign => ForeignBudgetLeft
        /\ ~Blocked(toa)
        /\ tx' = [toa |-> toa, left |-> toa, foreign |-> foreign]
  BY DEF BeginTransmit
<1>3. tx' # Quiet /\ tx'.toa = toa /\ tx'.left = toa /\ tx'.foreign = foreign /\ toa \in Nat
  BY <1>2 DEF Quiet
<1>4. AirTypeOK'
  BY <1>1, <1>2 DEF AirTypeOK
<1>5. Sending = {} /\ Booked = Current
  BY <1>1 DEF Sending, Booked
<1>6. Sending' = {}
  <2> SUFFICES ASSUME NEW e \in Current, e.ends = now + toa PROVE FALSE
    BY <1>1, <1>3 DEF Sending
  <2>1. e.ends \in Nat /\ now \in Nat /\ e.ends <= now
    BY <1>1, <1>5, CurrentSound DEF HistorySound, AirTypeOK
  <2> QED
    BY <1>2, <2>1
<1>7. Booked' = Current /\ \A i : BookedIn(i)' = BookedIn(i)
  BY <1>1, <1>5, <1>6 DEF Booked, BookedIn, MinuteOf
<1>8. HistorySound'
  BY <1>1, <1>3, <1>5, <1>6, <1>7, FS_EmptySet DEF HistorySound
<1>9. BucketsSound'
  BY <1>1, <1>5, <1>7 DEF BucketsSound, InHour, MinuteNow, MinuteOf
<1>10. /\ \A n : SentWithin(n)' = SentWithin(n)
       /\ ForeignSent' = ForeignSent
  BY <1>1 DEF SentWithin, ForeignSent
<1>11. /\ Cardinality(SentWithin(Covered)) <= Sum /\ Sum \in Nat
       /\ Cardinality(SentWithin(Covered)) \in Nat
  <2>1. Sum \in Nat
    BY <1>1, SumCounts, FS_CardinalityType
  <2>2. Cardinality(SentWithin(Covered)) <= Sum + 0 - 0
    BY <1>1, Agrees DEF AccountAgrees, Quiet
  <2> QED
    BY <1>1, <2>1, <2>2, WithinSound
<1>12. LimitSound'
  BY <1>2, <1>3, <1>10, <1>11 DEF LimitSound, Blocked
<1>13. ForeignSound'
  <2>1. CASE foreign
    <3>1. Sum < ForeignLimit
      BY <1>2, <2>1 DEF ForeignBudgetLeft
    <3>2. Cardinality(ForeignSent) <= Cardinality(SentWithin(Covered)) /\ Cardinality(ForeignSent) \in Nat
      BY <1>1, WithinSound
    <3>3. Cardinality(ForeignSent) + toa < ForeignLimit + MaxToa
      BY <1>2, <1>11, <3>1, <3>2
    <3> QED
      BY <1>3, <1>10, <2>1, <3>3 DEF ForeignSound
  <2>2. CASE ~foreign
    <3>1. Cardinality(ForeignSent) + 0 < ForeignLimit + MaxToa
      BY <1>1 DEF ForeignSound, Quiet
    <3> QED
      BY <1>3, <1>10, <2>2, <3>1 DEF ForeignSound
  <2> QED
    BY <2>1, <2>2
<1>14. PastSound'
  BY <1>1, PastKept DEF AirTypeOK
<1> QED
  BY <1>4, <1>8, <1>9, <1>12, <1>13, <1>14 DEF AirIInv

LEMMA AtMostOneMore ==
  ASSUME NEW S, IsFiniteSet(S), NEW p \in BOOLEAN, NEW x, NEW U, U \subseteq S \cup (IF p THEN {x} ELSE {})
  PROVE  Cardinality(U) <= Cardinality(S) + (IF p THEN 1 ELSE 0)
<1>1. /\ IsFiniteSet(S \cup {x}) /\ Cardinality(S \cup {x}) <= Cardinality(S) + 1
      /\ Cardinality(S) \in Nat /\ Cardinality(S \cup {x}) \in Nat
  <2>1. /\ IsFiniteSet(S \cup {x})
        /\ Cardinality(S \cup {x}) = IF x \in S THEN Cardinality(S) ELSE Cardinality(S) + 1
    BY FS_AddElement
  <2>2. Cardinality(S) \in Nat
    BY FS_CardinalityType
  <2> QED
    BY <2>1, <2>2
<1>2. CASE p
  <2>1. Cardinality(U) <= Cardinality(S \cup {x}) /\ Cardinality(U) \in Nat
    BY <1>1, <1>2, FS_Subset, FS_CardinalityType
  <2> QED
    BY <1>1, <1>2, <2>1
<1>3. CASE ~p
  <2>1. U \subseteq S
    BY <1>3
  <2>2. Cardinality(U) <= Cardinality(S) /\ Cardinality(U) \in Nat
    BY <2>1, FS_Subset, FS_CardinalityType
  <2> QED
    BY <1>1, <1>3, <2>2
<1> QED
  BY <1>2, <1>3

LEMMA Minutes ==
  ASSUME AirTypeOK, NEW e \in Current
  PROVE  e.ends \in Nat /\ e.tick \in Nat /\ MinuteOf(e) \in Nat /\ MinuteOf(e) % Buckets \in 0..Buckets - 1
<1>1. e.ends \in Nat /\ e.tick \in Nat
  BY CurrentSound
<1>2. MinuteOf(e) \in Nat
  BY <1>1, Parts, Lasting DEF MinuteOf
<1> QED
  BY <1>1, <1>2, Parts, Lasting

\* The bucket of this minute takes what was sent; it was this minute's already,
\* or nothing that still counts was in it.
LEMMA AirEnds ==
  MaxUptime < MillisMod /\ AirIInv /\ EndTransmit => AirIInv'
<1> SUFFICES ASSUME MaxUptime < MillisMod, AirIInv, EndTransmit PROVE AirIInv'
  OBVIOUS
<1> USE Lasting
<1>1. /\ AirTypeOK /\ HistorySound /\ BucketsSound /\ LimitSound /\ ForeignSound /\ PastSound
      /\ tx # Quiet /\ tx.left = 0 /\ tx' = Quiet /\ AddAirtime(tx.toa, tx.foreign)
      /\ UNCHANGED <<born, now, onAir, Current>>
  BY DEF AirIInv, EndTransmit, Current
<1>2. /\ now \in Nat /\ MinuteNow = now \div Minute /\ MinuteNow \in Nat /\ MinuteNow' = MinuteNow
      /\ MinuteNow % Buckets \in 0..Buckets - 1 /\ tx.toa \in Nat
  <2>1. MinuteNow = now \div Minute /\ MinuteNow \in Nat
    BY <1>1, NotWrapped DEF AirTypeOK
  <2>2. MinuteNow % Buckets \in 0..Buckets - 1
    BY <2>1, Parts
  <2> QED
    BY <1>1, <2>1, <2>2 DEF AirTypeOK, MinuteNow
<1>b. PICK j \in 0..Buckets - 1 : j = MinuteNow % Buckets
  BY <1>2
<1>3. PICK total \in Nat, foreign \in Nat :
        /\ airtime' = [airtime EXCEPT ![j] = [minute |-> MinuteNow, total |-> total, foreign |-> foreign]]
        /\ total = (IF airtime[j].minute = MinuteNow THEN airtime[j].total ELSE 0) + tx.toa
  <2> DEFINE b == IF airtime[j].minute = MinuteNow THEN airtime[j] ELSE EmptyBucket
  <2>1. b.total \in Nat /\ b.foreign \in Nat
        /\ b.total = IF airtime[j].minute = MinuteNow THEN airtime[j].total ELSE 0
    BY <1>1, <1>2 DEF AirTypeOK, EmptyBucket
  <2>2. airtime' = [airtime EXCEPT ![j] =
          [minute |-> MinuteNow, total |-> b.total + tx.toa,
           foreign |-> b.foreign + IF tx.foreign THEN tx.toa ELSE 0]]
    BY <1>b, <1>1, <1>2 DEF AddAirtime, AirTypeOK
  <2> HIDE DEF b
  <2>3. b.total + tx.toa \in Nat /\ b.foreign + (IF tx.foreign THEN tx.toa ELSE 0) \in Nat
    BY <1>2, <2>1
  <2> QED
    BY <2>1, <2>2, <2>3
<1>4. /\ airtime'[j].minute = MinuteNow /\ airtime'[j].total = total
      /\ \A i \in 0..Buckets - 1 : i # j => airtime'[i] = airtime[i]
  BY <1>1, <1>2, <1>3 DEF AirTypeOK
<1>5. AirTypeOK'
  BY <1>1, <1>2, <1>3, <1>b DEF AirTypeOK, Quiet
<1>6. Sending' = {} /\ Booked' = Current /\ Booked \cup Sending = Current /\ Booked \cap Sending = {}
  BY <1>1 DEF Sending, Booked
<1>7. \A e \in Current : e.ends <= now
  <2>1. \A e \in Sending : e.ends = now + 0
    BY <1>1 DEF Sending
  <2> QED
    BY <1>1, <1>2, <1>6, <2>1 DEF HistorySound
<1>8. \A e \in Sending : MinuteOf(e) = MinuteNow
  BY <1>1, <1>2 DEF Sending, MinuteOf
<1>9. Cardinality(Sending) = tx.toa /\ IsFiniteSet(Sending)
  BY <1>1, <1>2, Apart DEF HistorySound
<1>10. HistorySound'
  BY <1>1, <1>6, <1>7, FS_EmptySet DEF HistorySound, Quiet
<1>11. \A e \in Booked : /\ MinuteOf(e) <= MinuteNow
                         /\ InHour(MinuteOf(e)) /\ MinuteOf(e) % Buckets = j => MinuteOf(e) = MinuteNow
  <2> SUFFICES ASSUME NEW e \in Booked
               PROVE  /\ MinuteOf(e) <= MinuteNow
                      /\ InHour(MinuteOf(e)) /\ MinuteOf(e) % Buckets = j => MinuteOf(e) = MinuteNow
    OBVIOUS
  <2>1. e \in Current
    BY <1>6
  <2>2. MinuteOf(e) <= MinuteNow /\ MinuteOf(e) \in Nat
    BY <1>1, <1>2, <1>7, <2>1, Minutes, NotEarlier DEF MinuteOf
  <2>3. ASSUME InHour(MinuteOf(e)), MinuteOf(e) % Buckets = j PROVE MinuteOf(e) = MinuteNow
    <3>1. MinuteNow - MinuteOf(e) < Buckets
      BY <2>3 DEF InHour
    <3> QED
      BY <1>b, <1>2, <2>2, <2>3, <3>1, Congruent
  <2> QED
    BY <2>2, <2>3
<1>12. InHour(MinuteNow) /\ \A m : InHour(m)' <=> InHour(m)
  BY <1>2 DEF InHour
<1>13. BookedIn(j)' = {e \in Booked : MinuteOf(e) = MinuteNow} \cup Sending
  <2>1. BookedIn(j)' = {e \in Current : MinuteOf(e) = MinuteNow /\ MinuteOf(e) % Buckets = j}
    BY <1>4, <1>6 DEF BookedIn, MinuteOf
  <2> QED
    BY <1>b, <1>6, <1>8, <2>1
<1>14. total = Cardinality(BookedIn(j)')
  <2> DEFINE S == {e \in Booked : MinuteOf(e) = MinuteNow}
  <2>1. S \cap Sending = {} /\ IsFiniteSet(S)
    BY <1>1, <1>6, Apart, FS_Subset
  <2>2. Cardinality(S \cup Sending) = Cardinality(S) + tx.toa
    <3> HIDE DEF S
    <3> QED
      BY <1>9, <2>1, Together
  <2>3. Cardinality(S) = IF airtime[j].minute = MinuteNow THEN airtime[j].total ELSE 0
    <3>1. CASE airtime[j].minute = MinuteNow
      <4>1. S = BookedIn(j)
        BY <1>b, <3>1 DEF BookedIn
      <4> QED
        BY <1>1, <1>2, <1>12, <3>1, <4>1 DEF BucketsSound
    <3>2. CASE airtime[j].minute # MinuteNow
      <4>1. S = {}
        BY <1>b, <1>1, <1>12, <3>2 DEF BucketsSound
      <4> QED
        BY <3>2, <4>1, FS_EmptySet
    <3> QED
      BY <3>1, <3>2
  <2> QED
    BY <1>3, <1>13, <2>2, <2>3
<1>15. \A i \in 0..Buckets - 1 : i # j => BookedIn(i)' = BookedIn(i)
  <2> SUFFICES ASSUME NEW i \in 0..Buckets - 1, i # j PROVE BookedIn(i)' = BookedIn(i)
    OBVIOUS
  <2>1. BookedIn(i)' = {e \in Current : MinuteOf(e) = airtime[i].minute /\ MinuteOf(e) % Buckets = i}
    BY <1>4, <1>6 DEF BookedIn, MinuteOf
  <2>2. \A e \in Sending : MinuteOf(e) % Buckets = j
    BY <1>b, <1>8
  <2> QED
    BY <1>6, <2>1, <2>2 DEF BookedIn
<1>16. BucketsSound'
  <2>1. ASSUME NEW i \in 0..Buckets - 1
        PROVE  /\ airtime'[i].minute <= MinuteNow
               /\ InHour(airtime'[i].minute) => airtime'[i].total = Cardinality(BookedIn(i)')
    <3>1. CASE i = j
      BY <1>2, <1>4, <1>14, <3>1
    <3>2. CASE i # j
      BY <1>1, <1>4, <1>15, <2>1, <3>2 DEF BucketsSound
    <3> QED
      BY <3>1, <3>2
  <2>2. ASSUME NEW e \in Current, InHour(MinuteOf(e))
        PROVE  airtime'[MinuteOf(e) % Buckets].minute = MinuteOf(e)
    <3>1. CASE e \in Sending
      BY <1>b, <1>4, <1>8, <3>1
    <3>2. CASE e \in Booked /\ MinuteOf(e) % Buckets = j
      BY <1>4, <1>11, <2>2, <3>2
    <3>3. CASE e \in Booked /\ MinuteOf(e) % Buckets # j
      <4>1. MinuteOf(e) % Buckets \in 0..Buckets - 1
        BY <1>1, Minutes
      <4> QED
        BY <1>1, <1>4, <2>2, <3>3, <4>1 DEF BucketsSound
    <3> QED
      BY <1>6, <3>1, <3>2, <3>3
  <2> QED
    BY <1>2, <1>6, <1>12, <2>1, <2>2 DEF BucketsSound, MinuteOf
<1>17. LimitSound' /\ ForeignSound'
  <2>1. /\ \A n : SentWithin(n)' = SentWithin(n)
        /\ ForeignSent' = ForeignSent
    BY <1>1 DEF SentWithin, ForeignSent
  <2> QED
    BY <1>1, <2>1 DEF LimitSound, ForeignSound, Quiet
<1>18. PastSound'
  BY <1>1, PastKept DEF AirTypeOK
<1> QED
  BY <1>5, <1>10, <1>16, <1>17, <1>18 DEF AirIInv

\* A tick on the air makes what was sent longer and what is left shorter by
\* one; what the history forgets has left the account before.
LEMMA AirTicks ==
  MaxUptime < MillisMod /\ AirIInv /\ AirTick => AirIInv'
<1> SUFFICES ASSUME MaxUptime < MillisMod, AirIInv, AirTick PROVE AirIInv'
  OBVIOUS
<1> USE Lasting
<1>1. /\ AirTypeOK /\ HistorySound /\ BucketsSound /\ LimitSound /\ ForeignSound /\ PastSound
      /\ now \in Nat /\ now < MaxUptime /\ now' = now + 1 /\ airtime' = airtime
      /\ born \in Nat /\ born' = born
      /\ tx.left \in Nat /\ tx.toa \in Nat /\ tx.foreign \in BOOLEAN
  BY DEF AirIInv, AirTick, AirTypeOK
<1> DEFINE new == [born |-> born, tick |-> now, foreign |-> tx.foreign, ends |-> now + tx.left]
           kept == {e \in Current : e.tick + Buckets * Minute + MaxToa > now}
<1>k. \/ tx = Quiet /\ tx' = tx /\ onAir' = Recent(onAir)
      \/ tx.left > 0 /\ tx' = [tx EXCEPT !.left = @ - 1] /\ onAir' = Recent(onAir) \cup {new}
  BY DEF AirTick
<1>c. kept = {e \in Recent(onAir) : e.born = born}
  <2>1. \A e \in Current : /\ e.born = born /\ e.tick \in Nat
                           /\ born + e.tick + Buckets * Minute + MaxToa > born + now
                                <=> e.tick + Buckets * Minute + MaxToa > now
    BY <1>1, CurrentSound
  <2> QED
    BY <2>1 DEF Recent, Current
<1>2. \/ tx = Quiet /\ tx' = tx /\ Current' = kept
      \/ tx.left > 0 /\ tx' = [tx EXCEPT !.left = @ - 1] /\ Current' = kept \cup {new}
  <2>1. Current' = {e \in onAir' : e.born = born} /\ new.born = born
    BY <1>1 DEF Current
  <2> HIDE DEF new, kept
  <2> QED
    BY <1>k, <1>c, <2>1
<1>3. /\ kept \subseteq Current /\ IsFiniteSet(kept) /\ new \notin Current
      /\ new \in [born : 0..born, tick : Nat, foreign : BOOLEAN, ends : Nat]
  <2>1. kept \subseteq Current
    OBVIOUS
  <2>2. new \notin Current
    BY <1>1 DEF HistorySound
  <2>3. IsFiniteSet(kept)
    <3> HIDE DEF kept
    <3> QED
      BY <1>1, <2>1, FS_Subset, CurrentSound
  <2> QED
    BY <1>1, <2>1, <2>2, <2>3
<1>r. tx.left > 0 /\ tx' = [tx EXCEPT !.left = @ - 1] =>
        /\ tx # Quiet /\ tx' # Quiet /\ now' + tx'.left = now + tx.left
        /\ tx'.toa = tx.toa /\ tx'.left = tx.left - 1 /\ tx'.foreign = tx.foreign
        /\ tx' \in [toa : 0..MaxToa, left : 0..MaxToa, foreign : BOOLEAN] /\ tx'.left <= tx'.toa /\ tx'.toa > 0
  <2> SUFFICES ASSUME tx.left > 0, tx' = [tx EXCEPT !.left = @ - 1]
               PROVE  /\ tx # Quiet /\ tx' # Quiet /\ now' + tx'.left = now + tx.left
                      /\ tx'.toa = tx.toa /\ tx'.left = tx.left - 1 /\ tx'.foreign = tx.foreign
                      /\ tx' \in [toa : 0..MaxToa, left : 0..MaxToa, foreign : BOOLEAN]
                      /\ tx'.left <= tx'.toa /\ tx'.toa > 0
    OBVIOUS
  <2>1. tx \in [toa : 0..MaxToa, left : 0..MaxToa, foreign : BOOLEAN] /\ tx.left <= tx.toa
    BY <1>1 DEF AirTypeOK
  <2>2. /\ tx'.toa = tx.toa /\ tx'.left = tx.left - 1 /\ tx'.foreign = tx.foreign
        /\ tx' \in [toa : 0..MaxToa, left : 0..MaxToa, foreign : BOOLEAN]
    BY <1>1, <2>1
  <2>3. tx.toa > 0 /\ Quiet.toa = 0
    BY <1>1, <2>1 DEF Quiet
  <2>4. tx # Quiet /\ tx' # Quiet
    BY <2>2, <2>3
  <2> QED
    BY <1>1, <2>1, <2>2, <2>3, <2>4
<1>4. AirTypeOK'
  <2>1. /\ onAir' \subseteq [born : 0..born, tick : Nat, foreign : BOOLEAN, ends : Nat]
        /\ IsFiniteSet(onAir')
    <3>1. Recent(onAir) \subseteq onAir
      BY DEF Recent
    <3>2. IsFiniteSet(Recent(onAir)) /\ IsFiniteSet(Recent(onAir) \cup {new})
      <4> HIDE DEF new
      <4> QED
        BY <1>1, <3>1, FS_Subset, FS_AddElement DEF AirTypeOK
    <3>3. onAir \subseteq [born : 0..born, tick : Nat, foreign : BOOLEAN, ends : Nat]
      BY <1>1 DEF AirTypeOK
    <3> HIDE DEF new, kept
    <3> QED
      BY <1>k, <1>3, <3>1, <3>2, <3>3
  <2>2. /\ tx' \in [toa : 0..MaxToa, left : 0..MaxToa, foreign : BOOLEAN]
        /\ tx'.left <= tx'.toa /\ (tx'.toa = 0 => tx' = Quiet)
    BY <1>1, <1>2, <1>r DEF AirTypeOK
  <2> QED
    BY <1>1, <2>1, <2>2 DEF AirTypeOK
<1>5. MinuteNow' = (now + 1) \div Minute /\ MinuteNow = now \div Minute /\ MinuteNow <= MinuteNow'
      /\ MinuteNow \in Nat /\ MinuteNow' \in Nat
  <2>1. (now + 1) % MillisMod = now + 1 /\ now % MillisMod = now
    BY <1>1
  <2>2. MinuteNow' = (now + 1) \div Minute /\ MinuteNow = now \div Minute
    BY <1>1, <2>1 DEF MinuteNow
  <2>3. now \div Minute <= (now + 1) \div Minute
    BY <1>1, NotEarlier
  <2>4. now \div Minute \in Nat /\ (now + 1) \div Minute \in Nat
    <3>1. now + 1 \in Nat
      BY <1>1
    <3> QED
      BY <1>1, <3>1, Parts
  <2> QED
    BY <2>2, <2>3, <2>4
<1>6. \A e \in Current : /\ e.tick \in Nat /\ e.ends \in Nat /\ e.tick < now /\ e.tick < e.ends
                       /\ e.ends <= e.tick + MaxToa /\ MinuteOf(e) = e.ends \div Minute /\ MinuteOf(e) \in Nat
  BY <1>1, Minutes DEF HistorySound, MinuteOf
<1>7. ASSUME NEW e \in Current, e.ends > now \/ InHour(MinuteOf(e))'
      PROVE  e \in kept
  <2>1. CASE e.ends > now
    BY <1>1, <1>6, <2>1
  <2>2. CASE InHour(MinuteOf(e))'
    <3>1. ((now + 1) \div Minute) - (e.ends \div Minute) < Buckets
      BY <1>5, <1>6, <2>2 DEF InHour, MinuteOf
    <3>2. now + 1 < e.ends + Buckets * Minute
      <4>1. now + 1 \in Nat /\ e.ends \in Nat
        BY <1>1, <1>6
      <4> QED
        BY <3>1, <4>1, HourEnds
    <3> QED
      BY <1>1, <1>6, <3>2
  <2> QED
    BY <1>7, <2>1, <2>2
<1>8. /\ \A e \in kept : e.tick + Buckets * Minute + MaxToa >= now + 1
      /\ \A e \in Sending : e.ends > now /\ e \in kept
  <2>1. \A e \in kept : e.tick + Buckets * Minute + MaxToa >= now + 1
    BY <1>1, <1>3, <1>6
  <2>2. ASSUME NEW e \in Sending PROVE e.ends > now
    <3>1. e \in Current /\ tx # Quiet /\ e.ends = now + tx.left
      BY DEF Sending
    <3> QED
      BY <1>1, <1>2, <3>1
  <2>3. Sending \subseteq Current
    BY DEF Sending
  <2> QED
    BY <1>7, <2>1, <2>2, <2>3
<1>9. Booked' = Booked \cap kept
  <2>1. CASE tx = Quiet /\ tx' = tx /\ Current' = kept
    BY <1>3, <2>1 DEF Booked, Sending
  <2>2. CASE tx.left > 0 /\ tx' = [tx EXCEPT !.left = @ - 1] /\ Current' = kept \cup {new}
    <3>1. tx # Quiet /\ tx' # Quiet /\ now' + tx'.left = now + tx.left
      BY <1>r, <2>2
    <3>2. Sending' = {e \in kept \cup {new} : e.ends = now + tx.left}
      BY <2>2, <3>1 DEF Sending
    <3>3. new.ends = now + tx.left
      OBVIOUS
    <3>4. new \notin Booked
      BY <1>3 DEF Booked
    <3> HIDE DEF new, kept
    <3> QED
      BY <1>3, <2>2, <3>1, <3>2, <3>3, <3>4 DEF Booked, Sending
  <2> QED
    BY <1>2, <2>1, <2>2
<1>10. Cardinality(Sending') = tx'.toa - tx'.left
  <2>1. CASE tx = Quiet /\ tx' = tx /\ Current' = kept
    <3>1. Sending' = {}
      BY <2>1 DEF Sending
    <3> QED
      BY <2>1, <3>1, FS_EmptySet DEF Quiet
  <2>2. CASE tx.left > 0 /\ tx' = [tx EXCEPT !.left = @ - 1] /\ Current' = kept \cup {new}
    <3>1. tx # Quiet /\ tx' # Quiet /\ now' + tx'.left = now + tx.left
          /\ tx'.toa = tx.toa /\ tx'.left = tx.left - 1
      BY <1>r, <2>2
    <3>2. Sending' = {e \in kept \cup {new} : e.ends = now + tx.left}
      BY <2>2, <3>1 DEF Sending
    <3>3. new.ends = now + tx.left
      OBVIOUS
    <3>4. Sending' = Sending \cup {new}
      <4> HIDE DEF new, kept
      <4> QED
        BY <1>3, <1>8, <3>1, <3>2, <3>3 DEF Sending
    <3>5. IsFiniteSet(Sending) /\ Cardinality(Sending) = tx.toa - tx.left /\ new \notin Sending
      BY <1>1, <1>3, Apart DEF HistorySound, Sending
    <3>6. Cardinality(Sending') = Cardinality(Sending) + 1
      <4> HIDE DEF new
      <4> QED
        BY <3>4, <3>5, FS_AddElement
    <3> QED
      BY <1>1, <3>1, <3>5, <3>6
  <2> QED
    BY <1>2, <2>1, <2>2
<1>11. HistorySound'
  <2>1. ASSUME NEW e \in Current'
        PROVE /\ e.tick < now + 1 /\ e.tick < e.ends /\ e.ends <= e.tick + MaxToa
              /\ e.tick + Buckets * Minute + MaxToa >= now + 1
    <3>1. CASE e \in kept
      BY <1>1, <1>3, <1>6, <1>8, <3>1
    <3>2. CASE e = new /\ tx.left > 0
      <4>1. e.tick = now /\ e.ends = now + tx.left /\ tx.left <= MaxToa
        BY <1>1, <3>2 DEF AirTypeOK
      <4> QED
        BY <1>1, <3>2, <4>1
    <3> QED
      BY <1>2, <3>1, <3>2
  <2>2. \A e \in Booked' : e.ends <= now + 1
    <3>1. \A e \in Booked : e.ends <= now /\ e.ends \in Nat
      BY <1>1, <1>6 DEF HistorySound, Booked
    <3> QED
      BY <1>1, <1>9, <3>1
  <2> QED
    BY <1>1, <1>10, <2>1, <2>2 DEF HistorySound
<1>12. BucketsSound'
  <2>1. ASSUME NEW k \in 0..Buckets - 1
        PROVE  /\ airtime[k].minute <= MinuteNow'
               /\ InHour(airtime[k].minute)' => airtime[k].total = Cardinality(BookedIn(k)')
    <3>1. airtime[k].minute \in Nat /\ airtime[k].minute <= MinuteNow
      BY <1>1, <2>1 DEF AirTypeOK, BucketsSound
    <3>2. ASSUME InHour(airtime[k].minute)' PROVE airtime[k].total = Cardinality(BookedIn(k)')
      <4>1. InHour(airtime[k].minute)
        BY <1>1, <1>5, <3>1, <3>2 DEF InHour
      <4>2. BookedIn(k)' = {e \in Booked \cap kept : MinuteOf(e) = airtime[k].minute /\ MinuteOf(e) % Buckets = k}
        BY <1>1, <1>9 DEF BookedIn, MinuteOf
      <4>3. \A e \in BookedIn(k) : e \in kept
        <5> SUFFICES ASSUME NEW e \in BookedIn(k) PROVE e \in kept
          OBVIOUS
        <5>1. e \in Current /\ MinuteOf(e) = airtime[k].minute
          BY DEF BookedIn, Booked
        <5>2. InHour(MinuteOf(e))'
          BY <1>1, <3>2, <5>1 DEF InHour, MinuteOf
        <5> QED
          BY <1>7, <5>1, <5>2
      <4>4. BookedIn(k)' = BookedIn(k)
        <5> HIDE DEF kept
        <5> QED
          BY <4>2, <4>3 DEF BookedIn
      <4> QED
        BY <1>1, <2>1, <4>1, <4>4 DEF BucketsSound
    <3> QED
      BY <1>5, <3>1, <3>2
  <2>2. ASSUME NEW e \in Booked', InHour(MinuteOf(e))'
        PROVE  airtime[MinuteOf(e) % Buckets].minute = MinuteOf(e)
    <3>1. e \in Booked /\ e \in Current /\ e.ends <= now
      BY <1>1, <1>9 DEF HistorySound, Booked
    <3>2. MinuteOf(e) <= MinuteNow
      BY <1>1, <1>5, <1>6, <3>1, NotEarlier
    <3>3. InHour(MinuteOf(e))
      BY <1>5, <1>6, <2>2, <3>1, <3>2 DEF InHour, MinuteOf
    <3> QED
      BY <1>1, <3>1, <3>3 DEF BucketsSound
  <2> QED
    BY <1>1, <2>1, <2>2 DEF BucketsSound, InHour, MinuteOf
<1> DEFINE N == Covered
<1>13. /\ SentWithin(N)' \subseteq SentWithin(N) \cup (IF tx.left > 0 THEN {new} ELSE {})
       /\ ForeignSent' \subseteq ForeignSent \cup (IF tx.left > 0 /\ tx.foreign THEN {new} ELSE {})
  <2>1. ASSUME NEW e \in SentWithin(N)', e # new \/ ~(tx.left > 0)
        PROVE  e \in SentWithin(N)
    <3>1. e \in Current' /\ e.tick + N >= now + 1
      BY <1>1 DEF SentWithin
    <3>2. e \in Current
      BY <1>2, <1>3, <2>1, <3>1
    <3> QED
      BY <1>1, <1>6, <3>1, <3>2 DEF SentWithin
  <2>2. SentWithin(N)' \subseteq SentWithin(N) \cup (IF tx.left > 0 THEN {new} ELSE {})
    BY <2>1
  <2>3. ForeignSent' = {e \in SentWithin(N)' : e.foreign} /\ ForeignSent = {e \in SentWithin(N) : e.foreign}
    BY DEF ForeignSent
  <2>4. new.foreign = tx.foreign
    OBVIOUS
  <2> HIDE DEF new
  <2> QED
    BY <2>2, <2>3, <2>4
<1>14. /\ tx.left > 0 => tx'.left = tx.left - 1 /\ tx'.foreign = tx.foreign
       /\ ~(tx.left > 0) => tx'.left = 0 /\ tx.left = 0 /\ tx'.foreign = tx.foreign
  BY <1>1, <1>2, <1>r DEF AirTypeOK, Quiet
<1>15. /\ IsFiniteSet(SentWithin(N)) /\ Cardinality(SentWithin(N)) \in Nat
       /\ IsFiniteSet(ForeignSent) /\ Cardinality(ForeignSent) \in Nat
       /\ Cardinality(SentWithin(N)') \in Nat /\ Cardinality(ForeignSent') \in Nat
  <2>1. /\ IsFiniteSet(SentWithin(N)) /\ Cardinality(SentWithin(N)) \in Nat
        /\ IsFiniteSet(ForeignSent) /\ Cardinality(ForeignSent) \in Nat
    BY <1>1, WithinSound
  <2>2. AirTypeOK' => Cardinality(SentWithin(N)') \in Nat /\ Cardinality(ForeignSent') \in Nat
    <3>1. /\ SentWithin(N)' \subseteq onAir' /\ ForeignSent' \subseteq onAir'
          /\ AirTypeOK' => IsFiniteSet(onAir')
      BY DEF SentWithin, ForeignSent, Current, AirTypeOK
    <3> QED
      BY <3>1, FS_Subset, FS_CardinalityType
  <2> QED
    BY <1>4, <2>1, <2>2
<1> HIDE DEF new, N
<1>16. LimitSound'
  <2>1. Cardinality(SentWithin(N)') <= Cardinality(SentWithin(N)) + (IF tx.left > 0 THEN 1 ELSE 0)
    BY <1>13, <1>15, AtMostOneMore
  <2>2. Cardinality(SentWithin(N)) + tx.left <= Limit
    BY <1>1 DEF LimitSound, N
  <2> QED
    BY <1>1, <1>14, <1>15, <2>1, <2>2 DEF LimitSound, N
<1>17. ForeignSound'
  <2>1. Cardinality(ForeignSent') <= Cardinality(ForeignSent) + (IF tx.left > 0 /\ tx.foreign THEN 1 ELSE 0)
    BY <1>13, <1>15, AtMostOneMore
  <2>2. Cardinality(ForeignSent) + (IF tx.foreign THEN tx.left ELSE 0) < ForeignLimit + MaxToa
    BY <1>1 DEF ForeignSound
  <2> QED
    BY <1>1, <1>14, <1>15, <2>1, <2>2 DEF ForeignSound
<1>18. PastSound'
  <2>1. \A e \in onAir' : e.born # born => e \in onAir
    <3>1. new.born = born
      BY DEF new
    <3> QED
      BY <1>k, <3>1 DEF Recent
  <2> QED
    BY <1>1, <2>1, PastKept
<1> QED
  BY <1>4, <1>11, <1>12, <1>16, <1>17, <1>18 DEF AirIInv

LEMMA AirSteps ==
  MaxUptime < MillisMod /\ AirIInv /\ [AirNext]_airVars => AirIInv'
<1> SUFFICES ASSUME MaxUptime < MillisMod, AirIInv, [AirNext]_airVars PROVE AirIInv'
  OBVIOUS
<1>1. CASE UNCHANGED airVars
  BY <1>1 DEF airVars, AirIInv, AirTypeOK, HistorySound, BucketsSound, LimitSound, ForeignSound, PastSound,
     Sending, Booked, BookedIn, MinuteOf, InHour, MinuteNow, Current, SentWithin, ForeignSent, SentBy, ForeignBy
<1> QED
  BY <1>1, AirBegins, AirEnds, AirTicks, AirBoots DEF AirNext

LEMMA AirInductive == MaxUptime < MillisMod => (AirSpec => []AirIInv)
<1> SUFFICES ASSUME MaxUptime < MillisMod PROVE AirSpec => []AirIInv
  OBVIOUS
<1>1. AirInit => AirIInv
  BY AirStarts
<1>2. AirIInv /\ [AirNext]_airVars => AirIInv'
  BY AirSteps
<1> QED
  BY <1>1, <1>2, PTL DEF AirSpec

\* While millis() has not wrapped, the account forgets nothing that was sent since
\* power-up in the last 59 minutes, and counts nothing that ended more than 60 minutes
\* ago, for any number and length of buckets (airtimeLastHourMs, addAirtime,
\* mesh.cpp:182-203).
THEOREM AccountTrue == MaxUptime < MillisMod => (AirSpec => []AccountAgrees)
<1> SUFFICES ASSUME MaxUptime < MillisMod PROVE AirSpec => []AccountAgrees
  OBVIOUS
<1>1. AirIInv => AccountAgrees
  BY Agrees DEF AirIInv
<1> QED
  BY <1>1, AirInductive, PTL

\* However often the node restarts: while millis() has not wrapped, each power-up occupies
\* the channel for no more than the limit in any 59 minutes, own and foreign packets
\* together (transmit, mesh.cpp:319-338).
THEOREM LimitKept == MaxUptime < MillisMod => (AirSpec => []LimitHolds)
<1> SUFFICES ASSUME MaxUptime < MillisMod PROVE AirSpec => []LimitHolds
  OBVIOUS
<1>1. AirIInv => LimitHolds
  <2> SUFFICES ASSUME AirIInv, NEW b \in 0..born PROVE Cardinality(SentBy(b)) <= Limit
    BY DEF LimitHolds
  <2>1. tx.left \in Nat /\ Cardinality(SentWithin(Covered)) \in Nat /\ born \in Nat
    BY WithinSound, Lasting DEF AirIInv, AirTypeOK
  <2>2. CASE b < born
    BY <2>2 DEF AirIInv, PastSound
  <2>3. CASE b = born
    <3>1. Cardinality(SentWithin(Covered)) <= Limit
      BY <2>1, Lasting DEF AirIInv, LimitSound
    <3> QED
      BY <2>3, <3>1, SentByNow DEF AirIInv
  <2> QED
    BY <2>1, <2>2, <2>3
<1> QED
  BY <1>1, AirInductive, PTL

\* However often the node restarts: while millis() has not wrapped, the packets of foreign
\* channels that a power-up relays exceed their share of any 59 minutes by less than one
\* packet (foreignBudgetLeft, mesh.cpp:294-296).
THEOREM ForeignLimitKept == MaxUptime < MillisMod => (AirSpec => []ForeignLimitHolds)
<1> SUFFICES ASSUME MaxUptime < MillisMod PROVE AirSpec => []ForeignLimitHolds
  OBVIOUS
<1>1. AirIInv => ForeignLimitHolds
  <2> SUFFICES ASSUME AirIInv, NEW b \in 0..born
               PROVE  Cardinality(ForeignBy(b)) < ForeignLimit + MaxToa
    BY DEF ForeignLimitHolds
  <2>1. tx.left \in Nat /\ Cardinality(ForeignSent) \in Nat /\ born \in Nat
    BY WithinSound, Lasting DEF AirIInv, AirTypeOK
  <2>2. CASE b < born
    BY <2>2 DEF AirIInv, PastSound
  <2>3. CASE b = born
    <3>1. Cardinality(ForeignSent) < ForeignLimit + MaxToa
      BY <2>1, Lasting DEF AirIInv, ForeignSound
    <3> QED
      BY <2>3, <3>1, SentByNow DEF AirIInv
  <2> QED
    BY <2>1, <2>2, <2>3
<1> QED
  BY <1>1, AirInductive, PTL
=============================================================================

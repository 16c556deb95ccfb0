------------------------------- MODULE Uplink -------------------------------
(***************************************************************************)
(* What the main loop of a gateway does while it runs: loopRunning and     *)
(* loopMesh of main.cpp with uplink.cpp and ota.cpp.  One round of the     *)
(* loop checks for an update, posts the own position, decides what the     *)
(* mesh may rely on, and forwards the position of another tracker.  Every  *)
(* HTTP request blocks the loop.                                           *)
(*                                                                         *)
(* Times are ages in ticks that stop at the largest value a comparison     *)
(* tells apart, so millis() does not wrap here.  A POST takes a tick at    *)
(* least.  Redirects, TLS and the bytes of a download are left out.        *)
(***************************************************************************)
EXTENDS Naturals

CONSTANTS
  Base,             \* cfg.intervalSec
  MaxBackoff,       \* kMaxBackoffMs
  MaxShift,         \* the 6 in nextDelayMs
  FailsMod,         \* consecutiveFails is a uint16_t: 2^16
  Fresh,            \* kUplinkFreshMs
  Window, Retry,    \* kOtaWindowMs, kOtaRetryMs
  MaxPost, MaxCheck \* longest POST, longest update check

ASSUME UplinkAssumption ==
  /\ {Base, MaxBackoff, MaxShift, Fresh, Window, Retry, MaxPost, MaxCheck} \subseteq Nat \ {0}
  /\ FailsMod \in Nat /\ FailsMod > MaxShift /\ FailsMod > Fresh

VARIABLES
  pc,                  \* where the main loop is
  blocked,             \* ticks the running request has taken
  ran,                 \* a round was finished since the last tick
  running,             \* state = Running
  wifiUp, fix,         \* WiFi.status() = WL_CONNECTED; the GNSS fix is valid
  fails,               \* consecutiveFails of the own and of the forwarded POSTs
  successAge,          \* age of lastSuccessMs of both
  latest,              \* which of them was attempted last
  sent, sendAge,       \* lastSendMs
  uplinkOnline, sendOwn,
  uptime, done, tried, tryAge,   \* checkOta's statics
  lastFailed, goodAge, silentFor, checkWait   \* history, see below

flags == <<uplinkOnline, sendOwn>>
status == <<fails, successAge, latest>>
sending == <<sent, sendAge>>
ota == <<done, tried, tryAge>>
world == <<wifiUp, fix>>
\* lastFailed: the last finished POST failed.  goodAge: since the start of the last
\* successful one.  silentFor: ticks with a fix in which the own position had no way
\* out.  checkWait: ticks online and in the window since the last update check.
history == <<lastFailed, goodAge, silentFor, checkWait>>
vars == <<pc, blocked, ran, running, world, status, sending, flags, uptime, ota, history>>

Kinds == {"own", "forwarded"}
Older(age, cap) == IF age < cap THEN age + 1 ELSE age
MinOf(a, b) == IF a < b THEN a ELSE b
MaxOf(a, b) == IF a > b THEN a ELSE b

\* base << n
Shifted[n \in Nat] == IF n = 0 THEN Base ELSE 2 * Shifted[n - 1]

DelayUncapped == IF fails["own"] = 0 THEN Base ELSE Shifted[MinOf(fails["own"], MaxShift)]
\* nextDelayMs
NextDelay ==
  IF fails["own"] = 0 THEN Base
  ELSE MaxOf(Base, MinOf(Shifted[MinOf(fails["own"], MaxShift)], MaxBackoff))
MaxDelay == MaxOf(Base, MaxBackoff)
\* The longest a round can take, with the pause after it.
Round == MaxCheck + 2 * MaxPost + 1
Bound == MaxDelay + Base + 2 * Round

----------------------------------------------------------------------------
(* loopRunning *)

Online == running /\ wifiUp
InWindow == uptime <= Window
TriedOnce == ~done /\ ~tried
CheckDue == ~done /\ (tried => tryAge >= Retry)

\* The window closes for good.
BeginRound ==
  /\ pc = "top" /\ ~ran /\ running /\ wifiUp
  /\ pc' = IF CheckDue /\ InWindow THEN "check" ELSE "send"
  /\ done' = (done \/ (CheckDue /\ ~InWindow))
  /\ UNCHANGED <<blocked, ran, running, world, status, sending, flags, uptime, tried, tryAge, history>>

\* The WiFi is gone, or the user opened the AP.
StopRunning ==
  /\ pc = "top" /\ ~ran /\ running' = FALSE /\ pc' = "mesh" /\ checkWait' = 0
  /\ UNCHANGED <<blocked, ran, world, status, sending, flags, uptime, ota, lastFailed, goodAge, silentFor>>

\* enterRunning, from Connecting or an AP nobody uses.
enterRunning ==
  /\ pc = "top" /\ ~ran /\ ~running /\ wifiUp
  /\ running' = TRUE /\ sent' = FALSE /\ sendAge' = 0 /\ pc' = "mesh"
  /\ UNCHANGED <<blocked, ran, world, status, flags, uptime, ota, history>>

\* checkAndInstall returns FALSE if the version could not be read, and TRUE if there
\* is nothing newer or the installation failed.  Installed firmware starts at Init.
EndCheck ==
  /\ pc = "check" /\ pc' = "send" /\ blocked' = 0
  /\ done' \in BOOLEAN /\ checkWait' = 0
  /\ tried' = TRUE /\ tryAge' = 0
  /\ UNCHANGED <<ran, running, world, status, sending, flags, uptime, lastFailed, goodAge, silentFor>>

SendDue == fix /\ (sent => sendAge >= NextDelay)

BeginSend ==
  /\ pc = "send"
  /\ IF SendDue
       THEN pc' = "post" /\ sent' = TRUE /\ sendAge' = 0 /\ latest' = "own"
       ELSE pc' = "mesh" /\ UNCHANGED <<sending, latest>>
  /\ UNCHANGED <<blocked, ran, running, world, fails, successAge, flags, uptime, ota, history>>

----------------------------------------------------------------------------
(* uplink::post *)

Succeeds(kind) ==
  /\ fails' = [fails EXCEPT ![kind] = 0]
  /\ successAge' = [successAge EXCEPT ![kind] = MinOf(blocked, Fresh)]
  /\ lastFailed' = FALSE /\ goodAge' = blocked /\ UNCHANGED checkWait

Fails(kind) ==
  /\ fails' = [fails EXCEPT ![kind] = (@ + 1) % FailsMod]
  /\ lastFailed' = TRUE /\ UNCHANGED <<successAge, goodAge, checkWait>>

\* Without WiFi a POST fails at once.
EndSend ==
  /\ pc = "post" /\ pc' = "mesh" /\ blocked' = 0
  /\ \/ blocked > 0 /\ Succeeds("own") /\ silentFor' = 0
     \/ (blocked > 0 \/ ~wifiUp) /\ Fails("own") /\ UNCHANGED silentFor
  /\ UNCHANGED <<ran, running, world, latest, sending, flags, uptime, ota>>

----------------------------------------------------------------------------
(* loopMesh *)

OwnAttempt == IF latest = "none" THEN "none" ELSE "own"
\* lastUplinkAttempt
LastAttempt == latest

Failing == LastAttempt # "none" /\ fails[LastAttempt] > 0
Proven == LastAttempt # "none" /\ ~Failing /\ successAge[LastAttempt] < Fresh

SendOwn == ~Online \/ Failing

LoopMesh ==
  /\ pc = "mesh"
  /\ sendOwn' = SendOwn /\ uplinkOnline' = (Online /\ Proven)
  /\ silentFor' = IF SendOwn THEN 0 ELSE silentFor
  /\ IF Online THEN pc' = "forward" /\ UNCHANGED ran ELSE pc' = "top" /\ ran' = TRUE
  /\ UNCHANGED <<blocked, running, world, status, sending, uptime, ota, lastFailed, goodAge, checkWait>>

\* gateway::loop posts one position at most.
BeginForward ==
  /\ pc = "forward"
  /\ \/ pc' = "forwardPost" /\ latest' = "forwarded" /\ UNCHANGED ran
     \/ pc' = "top" /\ ran' = TRUE /\ UNCHANGED latest
  /\ UNCHANGED <<blocked, running, world, fails, successAge, sending, flags, uptime, ota, history>>

EndForward ==
  /\ pc = "forwardPost" /\ pc' = "top" /\ blocked' = 0 /\ ran' = TRUE
  /\ \/ blocked > 0 /\ Succeeds("forwarded")
     \/ (blocked > 0 \/ ~wifiUp) /\ Fails("forwarded")
  /\ UNCHANGED <<running, world, latest, sending, flags, uptime, ota, silentFor>>

----------------------------------------------------------------------------

\* Time passes while a request blocks the loop, and between the rounds.
Tick ==
  /\ \/ pc \in {"post", "forwardPost"} /\ blocked < MaxPost /\ blocked' = blocked + 1 /\ UNCHANGED ran
     \/ pc = "check" /\ blocked < MaxCheck /\ blocked' = blocked + 1 /\ UNCHANGED ran
     \/ pc = "top" /\ ran /\ ran' = FALSE /\ UNCHANGED blocked
  /\ uptime' = Older(uptime, Window + 1)
  /\ successAge' = [k \in Kinds |-> Older(successAge[k], Fresh)]
  /\ sendAge' = Older(sendAge, MaxDelay) /\ tryAge' = Older(tryAge, Retry)
  /\ goodAge' = Older(goodAge, Fresh + Round + 1)
  /\ silentFor' = IF fix THEN Older(silentFor, Bound + 1) ELSE 0
  /\ checkWait' = IF Online /\ ~done /\ InWindow THEN Older(checkWait, Retry + Round + 1) ELSE 0
  /\ UNCHANGED <<pc, running, world, fails, latest, sent, flags, done, tried, lastFailed>>

WorldChanges ==
  /\ wifiUp' \in BOOLEAN /\ fix' \in BOOLEAN
  /\ silentFor' = IF fix' THEN silentFor ELSE 0
  /\ checkWait' = IF wifiUp' THEN checkWait ELSE 0
  /\ UNCHANGED <<pc, blocked, ran, running, status, sending, flags, uptime, ota, lastFailed, goodAge>>

Init ==
  /\ pc = "top" /\ blocked = 0 /\ ran = FALSE /\ running = FALSE /\ wifiUp = FALSE /\ fix = FALSE
  /\ fails = [k \in Kinds |-> 0] /\ successAge = [k \in Kinds |-> Fresh] /\ latest = "none"
  /\ sent = FALSE /\ sendAge = 0 /\ uplinkOnline = FALSE /\ sendOwn = FALSE
  /\ uptime = 0 /\ done = FALSE /\ tried = FALSE /\ tryAge = 0
  /\ lastFailed = FALSE /\ goodAge = Fresh + Round + 1 /\ silentFor = 0 /\ checkWait = 0

Next ==
  \/ BeginRound \/ StopRunning \/ enterRunning \/ EndCheck \/ BeginSend \/ EndSend
  \/ LoopMesh \/ BeginForward \/ EndForward
  \/ Tick \/ WorldChanges

Spec == Init /\ [][Next]_vars

----------------------------------------------------------------------------

\* The mesh task is told that the uplink works only if the last POST of either
\* kind succeeded less than the fresh time ago (README.md:319); in between two
\* decisions the flag is wrong for one round at most.
OnlineIsProven ==
  uplinkOnline =>
    /\ pc \in {"forward", "forwardPost"} => ~lastFailed
    /\ goodAge < Fresh + Round

\* With a valid fix the own position always finds a way out: it is posted, or
\* handed to the mesh, after the longest delay at most.  Not even forwarded POSTs
\* that work while the own ones fail, or a wrap of the counter, prevent it
\* (README.md:323-324).
OwnPositionHasAWay == silentFor <= Bound

\* "A failed check is retried for 10 minutes" (main.cpp:30), "jede Minute erneut"
\* (README.md:608): a tracker that stays online never waits much longer than the
\* retry gap for a check as long as the window is open and none has worked, however
\* long its POSTs block the loop.
CheckIsRepeated == checkWait <= Retry + Round

----------------------------------------------------------------------------
(* The inductive invariant behind them; see LimitProofs.  IInv is *)
(* inductive, and SilenceSound together with it.                           *)

Switches ==
  /\ ran \in BOOLEAN /\ running \in BOOLEAN /\ wifiUp \in BOOLEAN /\ fix \in BOOLEAN /\ sent \in BOOLEAN
  /\ uplinkOnline \in BOOLEAN /\ sendOwn \in BOOLEAN /\ done \in BOOLEAN /\ tried \in BOOLEAN
  /\ lastFailed \in BOOLEAN

TypeOK ==
  /\ Switches
  /\ pc \in {"top", "check", "send", "post", "mesh", "forward", "forwardPost"}
  /\ blocked \in Nat /\ sendAge \in Nat /\ uptime \in Nat /\ tryAge \in Nat
  /\ goodAge \in Nat /\ silentFor \in Nat /\ checkWait \in Nat
  /\ fails \in [Kinds -> 0..(FailsMod - 1)] /\ successAge \in [Kinds -> 0..Fresh]
  /\ latest \in Kinds \cup {"none"}
  /\ (pc = "post" => latest = "own") /\ (pc = "forwardPost" => latest = "forwarded")
  /\ pc \in {"post", "forwardPost"} => blocked <= MaxPost
  /\ pc = "check" => blocked <= MaxCheck
  /\ pc \notin {"check", "post", "forwardPost"} => blocked = 0

\* The last success began no earlier than a fresh one of either kind.
GoodSound ==
  /\ \A k \in Kinds : successAge[k] < Fresh => goodAge <= successAge[k]
  /\ blocked <= goodAge

\* A kind fails at most once between two ticks, so that the counter of one with a
\* fresh success has not wrapped, and shows whether the last POST failed.
PostedThisRound(k) ==
  \/ pc = "top" /\ ran
  \/ k = "own" /\ pc \in {"mesh", "forward", "forwardPost"}
FailsSound ==
  \A k \in Kinds : successAge[k] < Fresh =>
    /\ fails[k] <= successAge[k]
    /\ ~PostedThisRound(k) => fails[k] < successAge[k]
    /\ pc \notin {"post", "forwardPost"} /\ latest = k /\ lastFailed => fails[k] > 0

\* The longest time since the last decision of loopMesh, and since the last sending.
SinceMesh ==
  CASE pc = "forward" -> 0
    [] pc = "forwardPost" -> blocked
    [] pc = "top" -> IF ran THEN MaxPost ELSE MaxPost + 1
    [] pc = "check" -> MaxPost + 1 + blocked
    [] pc = "send" -> MaxPost + 1 + MaxCheck
    [] pc = "post" -> MaxPost + 1 + MaxCheck + blocked
    [] pc = "mesh" -> Round
SinceSend ==
  CASE pc = "send" -> 0
    [] pc = "post" -> blocked
    [] pc \in {"mesh", "forward"} -> MaxPost
    [] pc = "forwardPost" -> MaxPost + blocked
    [] pc = "top" -> 2 * MaxPost + (IF ran THEN 0 ELSE 1)
    [] pc = "check" -> 2 * MaxPost + 1 + blocked

OnlineSound ==
  uplinkOnline => /\ pc \in {"forward", "forwardPost"} => ~lastFailed
                  /\ goodAge < Fresh + SinceMesh

CheckSound ==
  /\ checkWait <= Retry + Round
  /\ ~running => checkWait = 0
  /\ tried /\ tryAge < Retry => checkWait <= tryAge
  /\ ~done /\ InWindow => checkWait < Retry + SinceSend

IInv == TypeOK /\ GoodSound /\ FailsSound /\ OnlineSound /\ CheckSound

\* The longest time since loopRunning last judged whether to send.
SinceJudged ==
  CASE pc \in {"mesh", "forward"} -> 0
    [] pc = "forwardPost" -> blocked
    [] pc = "top" -> MaxPost + (IF ran THEN 0 ELSE 1)
    [] pc = "check" -> MaxPost + 1 + blocked
    [] pc = "send" -> MaxPost + 1 + MaxCheck
    [] pc = "post" -> MaxPost + 1 + MaxCheck + blocked

\* loopMesh is about to hand the own position to the mesh after a failure.
Resends == pc = "mesh" /\ latest = "own" /\ fails["own"] > 0
\* While the counter shows a failure, nothing was posted since the position last
\* had a way out.  At 0 a failure may have gone unnoticed, when the counter wrapped.
Unnoticed == IF fails["own"] > 0 THEN 0 ELSE MaxDelay + MaxPost + 1 + MaxCheck
LongestWait == IF fails["own"] > 0 THEN MaxDelay ELSE Unnoticed + MaxOf(Base, MaxPost)
SilenceSound ==
  /\ silentFor <= Bound
  /\ ~fix => silentFor = 0
  /\ pc \notin {"top", "mesh"} => running
  /\ ~running /\ pc = "top" => silentFor <= (IF ran THEN 0 ELSE 1)
  /\ pc = "post" => sent /\ (sendAge >= blocked \/ sendAge >= MaxDelay)
  /\ running /\ ~Resends =>
       /\ silentFor <= LongestWait + SinceJudged
       /\ sent /\ pc # "post" => silentFor <= Unnoticed + sendAge \/ sendAge >= MaxDelay

=============================================================================

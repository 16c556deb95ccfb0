------------------------------- MODULE Sender -------------------------------
(***************************************************************************)
(* The sender of one tracker: mesh::loop of mesh.cpp, which the main loop  *)
(* calls to queue credentials, hellos and positions, and the queue the     *)
(* mesh task takes them from.                                              *)
(*                                                                         *)
(* Times are ages in ticks that stop at the largest value any comparison   *)
(* tells apart.  Movement, course and airtime are choices.  The main loop  *)
(* runs several times within a tick.                                       *)
(***************************************************************************)
EXTENDS Naturals, Sequences

CONSTANTS
  QueueLen,               \* length of txQueue
  CredEvery, CredMinGap,  \* kCredentialsEveryMs, kCredentialsMinGapMs
  HelloEvery, HelloFirst, \* kHelloEveryMs, kHelloFirstDelayMs
  MinGap,                 \* kMinPositionGapMs
  Intervals, FirstInterval,  \* position intervals, with and without random offset
  Parked,                 \* how much longer it is for a parked vehicle
  Scales,                 \* intervalScale()
  Relays                  \* settings.relayMode is not None

ASSUME SenderAssumption ==
  /\ {QueueLen, CredEvery, CredMinGap, HelloEvery, HelloFirst, MinGap} \subseteq Nat \ {0}
  /\ CredMinGap <= CredEvery /\ HelloFirst <= HelloEvery
  /\ Intervals \subseteq Nat \ {0} /\ FirstInterval \in Intervals /\ Parked \in Nat \ {0}
  /\ Scales \subseteq Nat \ {0} /\ Relays \in BOOLEAN
  /\ \E i \in Intervals : \A j \in Intervals : j <= i
  /\ \E s \in Scales : \A t \in Scales : t <= s

VARIABLES
  hasUrl,                  \* the settings loaded at start have a request URL
  wantActive, taskActive,  \* the mode uses LoRa; the task has noticed
  sendOwn, fix,            \* arguments of mesh::loop: send over LoRa, a valid fix
  txQueue,
  credRequested,           \* set by the task, taken by mesh::loop
  credSent, credAge,
  posSent, posAge, interval,
  started, ownAge          \* maybeHello; age of lastOwnQueuedMs

inputs == <<hasUrl, wantActive, sendOwn, fix>>
credState == <<credSent, credAge>>
posState == <<posSent, posAge, interval>>
helloState == <<started, ownAge>>
senderVars == <<inputs, taskActive, txQueue, credRequested, credState, posState, helloState>>

Kinds == {"credentials", "hello", "position", "request"}
LongestGap ==
  LET gaps == {s * i * Parked : s \in Scales, i \in Intervals}
  IN CHOOSE g \in gaps : \A h \in gaps : h <= g

\* Ages are counted while they mean something.
Older(age, cap) == IF age < cap THEN age + 1 ELSE age

\* enqueue: a full queue drops the message.
Put(queue, kind) == IF Len(queue) < QueueLen THEN Append(queue, kind) ELSE queue

DueIgnoringRequests == sendOwn /\ (~credSent \/ credAge >= CredEvery)
\* Regularly while sending over LoRa, and when a gateway asks.
CredDue ==
  \/ sendOwn /\ (~credSent \/ credAge >= CredEvery)
  \/ credRequested /\ (~credSent \/ credAge >= CredMinGap)

\* parked: hardly moved since the last position; turned: moved far or turned.
PositionDue(scale, parked, turned) ==
  /\ sendOwn /\ fix
  /\ \/ ~posSent
     \/ parked /\ posAge >= scale * interval * Parked
     \/ ~parked /\ posAge >= scale * interval
     \/ ~parked /\ turned /\ posAge >= scale * MinGap

HelloDueIfSending(age) == sendOwn /\ Relays /\ age >= HelloEvery
\* maybeHello
HelloDue(age) == Relays /\ age >= HelloEvery

\* The silence maybeHello sees.  enqueue reads the time after the loop did: if millis()
\* has moved on by then, the difference is negative, and as an unsigned number huge.
SilenceAfter(queued) ==
  IF queued THEN {0, HelloEvery} ELSE IF started THEN {ownAge} ELSE {HelloEvery - HelloFirst}

\* mesh::loop returns at once: it neither queues a hello nor takes a request.
NoUrl == wantActive /\ ~hasUrl /\ UNCHANGED senderVars

QueueMessages ==
  LET withCred == IF CredDue THEN Put(txQueue, "credentials") ELSE txQueue IN
  \E scale \in Scales, parked, turned \in BOOLEAN, silentFor \in SilenceAfter(withCred # txQueue) :
    LET position == PositionDue(scale, parked, turned)
        withHello == IF HelloDue(silentFor) THEN Put(withCred, "hello") ELSE withCred
        queue == IF position THEN Put(withHello, "position") ELSE withHello
    IN
      /\ wantActive /\ hasUrl
      /\ txQueue' = queue /\ credRequested' = FALSE
      /\ credSent' = (credSent \/ CredDue) /\ credAge' = IF CredDue THEN 0 ELSE credAge
      /\ started' = TRUE /\ ownAge' = IF queue # txQueue THEN 0 ELSE silentFor
      /\ posSent' = (sendOwn /\ (posSent \/ position))
      /\ posAge' = IF position THEN 0 ELSE posAge
      /\ \/ position /\ interval' \in Intervals
         \/ ~position /\ UNCHANGED interval
      /\ UNCHANGED <<inputs, taskActive>>

\* mesh::loop
MeshLoop == NoUrl \/ QueueMessages

\* requestCredentials, when this tracker is a gateway itself.
RequestCredentials ==
  /\ wantActive /\ started
  /\ txQueue' = Put(txQueue, "request")
  /\ ownAge' = IF txQueue' # txQueue THEN 0 ELSE ownAge
  /\ UNCHANGED <<inputs, taskActive, credRequested, credState, posState, started>>

\* The mesh task follows setActive; going to sleep empties the queue.
TaskSwitches ==
  /\ taskActive # wantActive /\ taskActive' = wantActive
  /\ txQueue' = IF wantActive THEN txQueue ELSE <<>>
  /\ UNCHANGED <<inputs, credRequested, credState, posState, helloState>>

\* processOwn takes the next message.
TakeMessage ==
  /\ taskActive /\ wantActive /\ txQueue # <<>> /\ txQueue' = Tail(txQueue)
  /\ UNCHANGED <<inputs, taskActive, credState, posState, helloState>>

InputsChange ==
  /\ sendOwn' \in BOOLEAN /\ fix' \in BOOLEAN
  /\ UNCHANGED <<hasUrl, wantActive, taskActive, txQueue, credRequested, credState, posState, helloState>>

SetActive ==
  /\ wantActive' = ~wantActive
  /\ UNCHANGED <<hasUrl, sendOwn, fix, taskActive, txQueue, credRequested, credState, posState, helloState>>

TimePasses ==
  /\ credAge' = IF credSent THEN Older(credAge, CredEvery) ELSE 0
  /\ posAge' = IF posSent THEN Older(posAge, LongestGap) ELSE 0
  /\ ownAge' = IF started THEN Older(ownAge, HelloEvery) ELSE 0
  /\ UNCHANGED <<inputs, taskActive, txQueue, credRequested, credSent, posSent, interval, started>>

SenderInit ==
  /\ hasUrl \in BOOLEAN
  /\ wantActive = FALSE /\ taskActive = FALSE /\ sendOwn \in BOOLEAN /\ fix = FALSE
  /\ txQueue = <<>> /\ credRequested = FALSE
  /\ credSent = FALSE /\ credAge = 0 /\ posSent = FALSE /\ posAge = 0 /\ interval = FirstInterval
  /\ started = FALSE /\ ownAge = 0
=============================================================================

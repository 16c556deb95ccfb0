------------------------------ MODULE Exchange ------------------------------
(***************************************************************************)
(* How a gateway gets the request URL of a tracker: the tracker's sender   *)
(* (Sender) and the gateway's entry for it (gateway.cpp), over a channel   *)
(* that may lose every packet.  A gateway that receives a position without *)
(* knowing the URL asks for it, at most once per gap; the tracker answers, *)
(* at most once per gap of its own, and repeats the URL regularly.         *)
(*                                                                         *)
(* A packet that is not lost is received and handled within the step that  *)
(* sends it; at some point the channel may become steady: nothing is lost, *)
(* the queue is drained within a tick, and nobody forgets or switches off. *)
(***************************************************************************)
EXTENDS Sender

CONSTANTS
  RequestGap   \* kCredRequestGapMs

\* A queue of one would let hellos crowd out positions; a tracker that refuses requests
\* for longer than its positions are apart could refuse two in a row.
ASSUME ExchangeAssumption ==
  /\ RequestGap \in Nat \ {0}
  /\ QueueLen >= 2 /\ CredMinGap <= LongestGap

VARIABLES
  known,            \* the gateway's entry has the URL with the position's hash
  asked, askAge,    \* lastRequestMs of the entry
  steady,
  ran,              \* mesh::loop ran since the last tick
  unknownFor,       \* history: ticks the steady channel carries positions without URL
  silence           \* history: ticks since anything was really queued, from the first loop on

gateway == <<known, asked, askAge>>
history == <<unknownFor, silence>>
vars == <<senderVars, gateway, steady, ran, history>>

\* askForCredentials
MayAsk == asked => askAge >= RequestGap

\* The longest time the gateway may still wait for the URL.
Bound == RequestGap + 2 * LongestGap

\* What the gateway does with a received message; an answer may be lost again.
GatewayGets(kind) ==
  \/ kind = "credentials" /\ known' = TRUE /\ UNCHANGED <<asked, askAge, credRequested>>
  \/ /\ kind = "position" /\ ~known /\ MayAsk
     /\ asked' = TRUE /\ askAge' = 0
     /\ credRequested' \in IF steady THEN {TRUE} ELSE {TRUE, credRequested}
     /\ UNCHANGED known
  \/ /\ kind \in {"hello", "request"} \/ (kind = "position" /\ (known \/ ~MayAsk))
     /\ UNCHANGED <<gateway, credRequested>>

\* Lost on the air, given up by the task, or dropped by a gateway without WiFi.
Lost == ~steady /\ UNCHANGED <<gateway, credRequested>>

Send ==
  /\ TakeMessage /\ (GatewayGets(Head(txQueue)) \/ Lost)
  /\ UNCHANGED <<steady, ran, history>>

Loop ==
  /\ MeshLoop /\ ran' = TRUE
  /\ silence' = IF txQueue' # txQueue THEN 0 ELSE silence
  /\ UNCHANGED <<gateway, steady, unknownFor>>

AskOthers ==
  /\ ~steady /\ RequestCredentials
  /\ silence' = IF txQueue' # txQueue THEN 0 ELSE silence
  /\ UNCHANGED <<gateway, steady, ran, unknownFor>>

Switch == TaskSwitches /\ UNCHANGED <<gateway, steady, ran, history>>

\* Once the channel is steady the inputs change once per tick.
Inputs ==
  /\ ~(steady /\ ran) /\ InputsChange
  /\ unknownFor' = 0
  /\ UNCHANGED <<gateway, steady, ran, silence>>

OnOff == ~steady /\ SetActive /\ UNCHANGED <<gateway, steady, ran, history>>

Tick ==
  /\ wantActive => ran
  /\ steady => txQueue = <<>> /\ ~credRequested
  /\ TimePasses /\ ran' = FALSE
  /\ askAge' = IF asked THEN Older(askAge, RequestGap) ELSE 0
  /\ unknownFor' = IF steady /\ wantActive /\ hasUrl /\ sendOwn /\ fix /\ ~known
                  THEN Older(unknownFor, Bound + 1) ELSE 0
  /\ silence' = IF started THEN Older(silence, HelloEvery) ELSE 0
  /\ UNCHANGED <<known, asked, steady>>

\* The gateway restarts or gives its entry to another tracker.
Forget ==
  /\ ~steady /\ known' = FALSE /\ asked' = FALSE /\ askAge' = 0
  /\ UNCHANGED <<senderVars, steady, ran, history>>

BecomeSteady ==
  /\ ~steady /\ wantActive /\ taskActive /\ txQueue = <<>>
  /\ steady' = TRUE /\ ran' = FALSE
  /\ UNCHANGED <<senderVars, gateway, history>>

Init ==
  /\ SenderInit
  /\ known = FALSE /\ asked = FALSE /\ askAge = 0
  /\ steady = FALSE /\ ran = FALSE
  /\ unknownFor = 0 /\ silence = 0

Next ==
  \/ Send \/ Loop \/ AskOthers \/ Switch \/ Inputs \/ OnOff \/ Tick \/ Forget \/ BecomeSteady

Spec == Init /\ [][Next]_vars

----------------------------------------------------------------------------

\* On a channel that works, a gateway that hears positions has the URL after one
\* of its request gaps at most, plus the time to the next position before and
\* after it: one request may have been lost or refused by the tracker's own gap,
\* but the two gaps do not keep refusing each other (gateway.cpp:97,
\* mesh.cpp:789), and nobody waits for the repetition after 10 minutes.
UrlArrivesSoon == unknownFor <= Bound

\* A node that relays and has a URL is heard at least every HelloEvery (README.md:338,
\* "jeder Tracker, der 15 Minuten lang nichts gesendet hat"), whatever was dropped
\* before.  A node without a URL relays as well, but mesh::loop never gets as far as
\* its hello (mesh.cpp:784): its neighbours take it for a foreign relay.
RelayIsHeard == steady /\ ran /\ Relays /\ hasUrl => silence < HelloEvery

----------------------------------------------------------------------------
(* The inductive invariant behind both; see ExchangeProofs *)

TypeOK ==
  /\ hasUrl \in BOOLEAN /\ wantActive \in BOOLEAN /\ taskActive \in BOOLEAN
  /\ sendOwn \in BOOLEAN /\ fix \in BOOLEAN /\ credRequested \in BOOLEAN
  /\ credSent \in BOOLEAN /\ posSent \in BOOLEAN /\ started \in BOOLEAN
  /\ known \in BOOLEAN /\ asked \in BOOLEAN /\ steady \in BOOLEAN /\ ran \in BOOLEAN
  /\ txQueue \in Seq(Kinds) /\ Len(txQueue) <= QueueLen
  /\ credAge \in 0..CredEvery /\ posAge \in 0..LongestGap /\ interval \in Intervals
  /\ ownAge \in 0..HelloEvery /\ askAge \in 0..RequestGap
  /\ unknownFor \in Nat /\ silence \in Nat

\* Once the channel is steady: what the first loop after a tick has settled.
SteadySound ==
  /\ steady => wantActive /\ taskActive
  /\ steady /\ ~ran => txQueue = <<>>
  /\ steady /\ ran /\ hasUrl =>
       /\ started /\ (Relays => ownAge < HelloEvery)
       /\ sendOwn => credSent /\ credAge < CredEvery
       /\ sendOwn /\ fix => posSent /\ posAge < LongestGap

\* The counted silence is never longer than the one maybeHello measures.
SilenceSound == silence <= (IF started THEN ownAge ELSE 0)

\* Until the URL is known, credentials come first in the queue and a position last.
CredentialsFirst == txQueue # <<>> /\ Head(txQueue) = "credentials"
PositionLast == txQueue \in {<<"position">>, <<"hello", "position">>}
QueueSound ==
  steady =>
    /\ ~known => txQueue \in {<<>>, <<"hello">>} \/ PositionLast \/ CredentialsFirst
    /\ ~known /\ PositionLast => sendOwn /\ posSent /\ posAge = 0
    /\ credRequested => txQueue = <<>>

\* The URL is known, or on its way and nothing can stop it.
Coming == known \/ CredentialsFirst \/ (credRequested /\ (credSent => credAge >= CredMinGap))

\* How long ago the gateway last had an occasion to ask, at most.
Occasion == IF PositionLast THEN LongestGap ELSE posAge

\* Until the URL comes: either no position was sent yet, or the gateway has asked
\* in vain, and early.
WaitSound ==
  /\ unknownFor > 0 => steady /\ hasUrl /\ sendOwn /\ fix /\ posSent
  /\ steady /\ ~Coming =>
       /\ credSent => credAge >= unknownFor \/ credAge = CredEvery
       /\ \/ unknownFor <= Occasion
          \/ /\ asked
             /\ unknownFor <= LongestGap + askAge + (IF askAge = RequestGap THEN Occasion ELSE 0)

IInv == TypeOK /\ SteadySound /\ SilenceSound /\ QueueSound /\ WaitSound /\ UrlArrivesSoon
=============================================================================

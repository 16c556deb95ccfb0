--------------------------- MODULE ExchangeProofs ---------------------------
(***************************************************************************)
(* Proofs about Exchange: a gateway that hears positions soon has the URL, *)
(* and a node that relays is heard, for any gaps and intervals that fit    *)
(* ExchangeAssumption.                                                     *)
(***************************************************************************)
EXTENDS Exchange, SequenceTheorems, TLAPS

\* A factor that grows makes the product grow.
LEMMA ProductGrows ==
  ASSUME NEW a \in Nat, NEW b \in Nat, NEW c \in Nat, a <= b
  PROVE  a * c <= b * c
<1>1. b - a \in Nat /\ b = a + (b - a)
  OBVIOUS
<1>2. b * c = a * c + (b - a) * c
  BY <1>1
<1>3. (b - a) * c \in Nat /\ a * c \in Nat
  BY <1>1
<1> QED
  BY <1>2, <1>3

\* LongestGap is the longest of the gaps, with and without the factor of a parked vehicle.
LEMMA LongestIsLongest ==
  /\ LongestGap \in Nat \ {0}
  /\ \A s \in Scales, i \in Intervals : s * i * Parked <= LongestGap /\ s * i <= LongestGap
<1> DEFINE gaps == {s * i * Parked : s \in Scales, i \in Intervals}
<1> USE SenderAssumption
<1>1. PICK i \in Intervals : \A j \in Intervals : j <= i
  OBVIOUS
<1>2. PICK s \in Scales : \A t \in Scales : t <= s
  OBVIOUS
<1>3. ASSUME NEW t \in Scales, NEW j \in Intervals
      PROVE  /\ t * j \in Nat /\ t * j * Parked \in Nat /\ t * j <= t * j * Parked
             /\ t * j * Parked <= s * i * Parked
  <2>1. t \in Nat /\ j \in Nat /\ s \in Nat /\ i \in Nat /\ Parked \in Nat /\ Parked >= 1
    OBVIOUS
  <2>2. t * j \in Nat /\ s * j \in Nat /\ s * i \in Nat
    BY <2>1
  <2>3. t * j <= s * j
    BY <1>2, <2>1, ProductGrows
  <2>4. j * s <= i * s /\ j * s = s * j /\ i * s = s * i
    BY <1>1, <2>1, ProductGrows
  <2>5. t * j <= s * i
    BY <2>2, <2>3, <2>4
  <2>6. t * j * Parked <= s * i * Parked
    BY <2>1, <2>2, <2>5, ProductGrows
  <2>7. 1 * (t * j) <= Parked * (t * j) /\ 1 * (t * j) = t * j /\ Parked * (t * j) = t * j * Parked
    BY <2>1, <2>2, ProductGrows
  <2> QED
    BY <2>1, <2>2, <2>6, <2>7
<1>4. s * i * Parked \in gaps /\ \A h \in gaps : h <= s * i * Parked
  BY <1>3
<1>5. LongestGap \in gaps /\ \A h \in gaps : h <= LongestGap
  <2>1. LongestGap = CHOOSE g \in gaps : \A h \in gaps : h <= g
    BY DEF LongestGap
  <2> HIDE DEF gaps
  <2> QED
    BY <1>4, <2>1
<1>6. ASSUME NEW t \in Scales, NEW j \in Intervals PROVE t * j * Parked >= 1 /\ t * j * Parked \in Nat
  <2>1. t \in Nat /\ j \in Nat /\ t >= 1 /\ j >= 1 /\ t * j \in Nat /\ 1 * j <= t * j
    BY ProductGrows
  <2> QED
    BY <2>1, <1>3
<1>7. LongestGap \in Nat \ {0}
  BY <1>5, <1>6
<1>8. ASSUME NEW t \in Scales, NEW j \in Intervals PROVE t * j * Parked <= LongestGap /\ t * j <= LongestGap
  <2>1. t * j * Parked \in gaps
    OBVIOUS
  <2>2. t * j * Parked <= LongestGap
    BY <2>1, <1>5
  <2> QED
    BY <2>2, <1>3, <1>7
<1> QED
  BY <1>7, <1>8

\* The constants as the steps use them.
LEMMA Numbers ==
  /\ QueueLen \in Nat /\ QueueLen >= 2 /\ RequestGap \in Nat /\ RequestGap >= 1
  /\ CredEvery \in Nat /\ CredEvery >= 1 /\ CredMinGap \in Nat /\ CredMinGap <= CredEvery
  /\ HelloEvery \in Nat /\ HelloEvery >= 1 /\ HelloFirst \in Nat /\ HelloFirst >= 1
  /\ HelloFirst <= HelloEvery /\ CredMinGap <= LongestGap
  /\ LongestGap \in Nat /\ LongestGap >= 1 /\ Relays \in BOOLEAN /\ FirstInterval \in Intervals
  BY SenderAssumption, ExchangeAssumption, LongestIsLongest

\* A position that has just been sent is not due again, and one as old as the longest gap is.
LEMMA WhenDue ==
  ASSUME NEW scale \in Scales, NEW parked \in BOOLEAN, NEW turned \in BOOLEAN,
         interval \in Intervals, posAge \in 0..LongestGap
  PROVE  /\ posSent /\ posAge = 0 => ~PositionDue(scale, parked, turned)
         /\ sendOwn /\ fix /\ ~PositionDue(scale, parked, turned) => posSent /\ posAge < LongestGap
<1>1. /\ scale \in Nat /\ scale >= 1 /\ interval \in Nat /\ interval >= 1
      /\ Parked \in Nat /\ Parked >= 1 /\ MinGap \in Nat /\ MinGap >= 1
  BY SenderAssumption
<1>2. scale * interval \in Nat /\ 1 * interval <= scale * interval
  BY <1>1, ProductGrows
<1>3. scale * interval >= 1
  BY <1>1, <1>2
<1>4. scale * interval * Parked \in Nat /\ 1 * Parked <= scale * interval * Parked
  BY <1>1, <1>2, <1>3, ProductGrows
<1>5. scale * MinGap \in Nat /\ 1 * MinGap <= scale * MinGap
  BY <1>1, ProductGrows
<1>6. scale * interval * Parked <= LongestGap /\ scale * interval <= LongestGap
  BY LongestIsLongest
<1>7. scale * interval >= 1 /\ scale * interval * Parked >= 1 /\ scale * MinGap >= 1
  BY <1>1, <1>3, <1>4, <1>5
<1>8. posSent /\ posAge = 0 => ~PositionDue(scale, parked, turned)
  BY <1>2, <1>4, <1>5, <1>7 DEF PositionDue
<1>9. sendOwn /\ fix /\ ~PositionDue(scale, parked, turned) => posSent /\ posAge < LongestGap
  BY <1>2, <1>4, <1>6, LongestIsLongest DEF PositionDue
<1> QED
  BY <1>8, <1>9

----------------------------------------------------------------------------
(* The queue *)

LEMMA PutKeeps ==
  ASSUME NEW q \in Seq(Kinds), NEW k \in Kinds, Len(q) <= QueueLen
  PROVE  /\ Put(q, k) \in Seq(Kinds) /\ Len(Put(q, k)) <= QueueLen
         /\ Len(q) <= Len(Put(q, k))
         /\ Put(q, k) # q => Len(q) < Len(Put(q, k))
         /\ q # <<>> => Put(q, k) # <<>> /\ Head(Put(q, k)) = Head(q)
<1>1. Len(q) \in Nat /\ QueueLen \in Nat
  BY Numbers
<1>2. CASE Len(q) < QueueLen
  <2>1. Put(q, k) = Append(q, k)
    BY <1>2 DEF Put
  <2>2. Append(q, k) \in Seq(Kinds) /\ Len(Append(q, k)) = Len(q) + 1
    OBVIOUS
  <2>3. q # <<>> => Append(q, k) # <<>> /\ Head(Append(q, k)) = Head(q)
    BY <2>2
  <2> QED
    BY <1>1, <1>2, <2>1, <2>2, <2>3
<1>3. CASE ~(Len(q) < QueueLen)
  BY <1>1, <1>3 DEF Put
<1> QED
  BY <1>2, <1>3

\* What is put into a short queue is in it.
LEMMA PutShort ==
  /\ Put(<<>>, "credentials") = <<"credentials">> /\ Put(<<>>, "hello") = <<"hello">>
  /\ Put(<<>>, "position") = <<"position">>
  /\ Put(<<"hello">>, "position") = <<"hello", "position">>
<1>1. 0 < QueueLen /\ 1 < QueueLen
  BY Numbers
<1>2. Len(<<>>) = 0 /\ Len(<<"hello">>) = 1
  OBVIOUS
<1>3. /\ Append(<<>>, "credentials") = <<"credentials">> /\ Append(<<>>, "hello") = <<"hello">>
      /\ Append(<<>>, "position") = <<"position">>
  OBVIOUS
<1>4. Append(<<"hello">>, "position") = <<"hello", "position">>
  <2> DEFINE s == Append(<<"hello">>, "position")
             t == <<"hello", "position">>
  <2>1. <<"hello">> \in Seq(Kinds) /\ "position" \in Kinds /\ t \in Seq(Kinds)
    BY DEF Kinds
  <2>2. s \in Seq(Kinds) /\ Len(s) = 2 /\ s[1] = "hello" /\ s[2] = "position"
    BY <2>1, AppendProperties
  <2>3. Len(t) = 2 /\ t[1] = "hello" /\ t[2] = "position"
    OBVIOUS
  <2> HIDE DEF s, t
  <2>4. \A i \in 1..Len(s) : s[i] = t[i]
    BY <2>2, <2>3
  <2>5. s = t
    BY <2>1, <2>2, <2>3, <2>4, SeqEqual
  <2> QED
    BY <2>5 DEF s, t
<1> QED
  BY <1>1, <1>2, <1>3, <1>4 DEF Put

LEMMA ShortQueues ==
  /\ Tail(<<"hello">>) = <<>> /\ Tail(<<"position">>) = <<>>
  /\ Tail(<<"hello", "position">>) = <<"position">>
  /\ Head(<<"hello">>) = "hello" /\ Head(<<"position">>) = "position"
  /\ Head(<<"hello", "position">>) = "hello" /\ Head(<<"credentials">>) = "credentials"
  /\ <<"hello">> # <<>> /\ <<"position">> # <<>> /\ <<"hello", "position">> # <<>>
  /\ <<"credentials">> # <<>> /\ <<"position">> # <<"hello">> /\ <<"hello">> # <<"hello", "position">>
  /\ <<"position">> # <<"hello", "position">>
  /\ Len(<<>>) = 0 /\ Len(<<"hello">>) = 1 /\ Len(<<"position">>) = 1 /\ Len(<<"hello", "position">>) = 2
  OBVIOUS

----------------------------------------------------------------------------
(* The steps *)

LEMMA InitSound == Init => IInv
<1> SUFFICES ASSUME Init PROVE IInv
  OBVIOUS
<1> USE Numbers
<1>1. TypeOK
  <2>1. txQueue \in Seq(Kinds) /\ Len(txQueue) <= QueueLen
    BY DEF Init, SenderInit
  <2>2. /\ hasUrl \in BOOLEAN /\ wantActive \in BOOLEAN /\ taskActive \in BOOLEAN
        /\ sendOwn \in BOOLEAN /\ fix \in BOOLEAN
        /\ credRequested \in BOOLEAN /\ credSent \in BOOLEAN /\ posSent \in BOOLEAN /\ started \in BOOLEAN
        /\ known \in BOOLEAN /\ asked \in BOOLEAN /\ steady \in BOOLEAN /\ ran \in BOOLEAN
    BY Zenon DEF Init, SenderInit
  <2>3. credAge \in 0..CredEvery /\ posAge \in 0..LongestGap /\ interval \in Intervals
    BY DEF Init, SenderInit
  <2>4. ownAge \in 0..HelloEvery /\ askAge \in 0..RequestGap /\ unknownFor \in Nat /\ silence \in Nat
    BY DEF Init, SenderInit
  <2> QED
    BY <2>1, <2>2, <2>3, <2>4 DEF TypeOK
<1>2. SteadySound /\ SilenceSound /\ QueueSound
  BY DEF Init, SenderInit, SteadySound, SilenceSound, QueueSound
<1>3. WaitSound
  BY DEF Init, SenderInit, WaitSound
<1>4. UrlArrivesSoon
  BY DEF Init, UrlArrivesSoon, Bound
<1> QED
  BY <1>1, <1>2, <1>3, <1>4 DEF IInv

\* mesh::loop without a URL leaves everything as it is.
LEMMA NoUrlSound == IInv /\ Loop /\ NoUrl => IInv'
<1> SUFFICES ASSUME IInv, Loop, NoUrl PROVE IInv'
  OBVIOUS
<1>1. /\ ~hasUrl /\ wantActive /\ ran' = TRUE /\ silence' = silence
      /\ UNCHANGED <<hasUrl, wantActive, sendOwn, fix, taskActive, txQueue, credRequested, credSent, credAge,
                     posSent, posAge, interval, started, ownAge, known, asked, askAge, steady, unknownFor>>
  BY DEF Loop, NoUrl, senderVars, inputs, credState, posState, helloState, gateway
<1>2. TypeOK'
  BY <1>1 DEF IInv, TypeOK
<1>3. SteadySound' /\ SilenceSound'
  BY <1>1 DEF IInv, SteadySound, SilenceSound
<1>4. QueueSound' /\ WaitSound' /\ UrlArrivesSoon'
  BY <1>1 DEF IInv, QueueSound, CredentialsFirst, PositionLast, Coming, Occasion, WaitSound,
              UrlArrivesSoon, Bound
<1> QED
  BY <1>2, <1>3, <1>4 DEF IInv

\* With one, the first loop after a tick finds room for all it may queue.
LEMMA QueueingSound == IInv /\ Loop /\ QueueMessages => IInv'
<1> SUFFICES ASSUME IInv, Loop, QueueMessages PROVE IInv'
  OBVIOUS
<1> USE Numbers
<1> DEFINE c == IF CredDue THEN Put(txQueue, "credentials") ELSE txQueue
<1>1. PICK scale \in Scales, parked \in BOOLEAN, turned \in BOOLEAN, silentFor \in SilenceAfter(c # txQueue) :
        LET position == PositionDue(scale, parked, turned)
            h == IF HelloDue(silentFor) THEN Put(c, "hello") ELSE c
            queue == IF position THEN Put(h, "position") ELSE h
        IN /\ txQueue' = queue
           /\ ownAge' = IF queue # txQueue THEN 0 ELSE silentFor
           /\ posSent' = (sendOwn /\ (posSent \/ position))
           /\ posAge' = IF position THEN 0 ELSE posAge
           /\ interval' \in Intervals \cup {interval}
  BY DEF QueueMessages
<1> DEFINE position == PositionDue(scale, parked, turned)
           h == IF HelloDue(silentFor) THEN Put(c, "hello") ELSE c
           queue == IF position THEN Put(h, "position") ELSE h
<1>2. /\ txQueue' = queue
      /\ ownAge' = IF queue # txQueue THEN 0 ELSE silentFor
      /\ posSent' = (sendOwn /\ (posSent \/ position))
      /\ posAge' = IF position THEN 0 ELSE posAge
      /\ interval' \in Intervals \cup {interval}
  BY <1>1
<1>3. /\ wantActive /\ hasUrl /\ ran' = TRUE /\ started' = TRUE /\ credRequested' = FALSE
      /\ credSent' = (credSent \/ CredDue) /\ credAge' = IF CredDue THEN 0 ELSE credAge
      /\ silence' = IF txQueue' # txQueue THEN 0 ELSE silence
      /\ UNCHANGED <<hasUrl, wantActive, sendOwn, fix, taskActive, known, asked, askAge, steady, unknownFor>>
  BY DEF Loop, QueueMessages, inputs, gateway
<1>4. TypeOK
  BY DEF IInv
<1>5. position \in BOOLEAN /\ CredDue \in BOOLEAN
  BY <1>4 DEF PositionDue, CredDue, TypeOK
<1>6. silentFor \in 0..HelloEvery /\ (c = txQueue => silentFor = IF started THEN ownAge ELSE HelloEvery - HelloFirst)
  BY <1>4 DEF SilenceAfter, TypeOK
<1>7. /\ c \in Seq(Kinds) /\ Len(c) <= QueueLen /\ Len(txQueue) <= Len(c)
      /\ c # txQueue => Len(txQueue) < Len(c)
      /\ txQueue # <<>> => c # <<>> /\ Head(c) = Head(txQueue)
  BY <1>4, PutKeeps DEF TypeOK, Kinds
<1>8. /\ h \in Seq(Kinds) /\ Len(h) <= QueueLen /\ Len(c) <= Len(h)
      /\ h # c => Len(c) < Len(h)
      /\ c # <<>> => h # <<>> /\ Head(h) = Head(c)
  <2> HIDE DEF c
  <2> QED
    BY <1>7, PutKeeps DEF Kinds
<1>9. /\ queue \in Seq(Kinds) /\ Len(queue) <= QueueLen /\ Len(h) <= Len(queue)
      /\ queue # h => Len(h) < Len(queue)
      /\ h # <<>> => queue # <<>> /\ Head(queue) = Head(h)
  <2> HIDE DEF c, h, position
  <2> QED
    BY <1>8, PutKeeps DEF Kinds
<1>10. queue = txQueue => h = txQueue /\ c = txQueue
  <2> HIDE DEF c, h, queue
  <2>1. Len(txQueue) \in Nat /\ Len(c) \in Nat /\ Len(h) \in Nat /\ Len(queue) \in Nat
    BY <1>4, <1>7, <1>8, <1>9 DEF TypeOK
  <2> QED
    BY <2>1, <1>7, <1>8, <1>9
<1> HIDE DEF queue, position
<1>11. TypeOK'
  <2>1. credSent' \in BOOLEAN /\ posSent' \in BOOLEAN
    BY <1>2, <1>3, Zenon
  <2>2. /\ hasUrl' \in BOOLEAN /\ wantActive' \in BOOLEAN /\ taskActive' \in BOOLEAN /\ sendOwn' \in BOOLEAN /\ fix' \in BOOLEAN
        /\ credRequested' \in BOOLEAN /\ started' \in BOOLEAN
        /\ known' \in BOOLEAN /\ asked' \in BOOLEAN /\ steady' \in BOOLEAN /\ ran' \in BOOLEAN
    BY <1>3, <1>4 DEF TypeOK
  <2>3. credAge' \in 0..CredEvery /\ posAge' \in 0..LongestGap /\ interval' \in Intervals
    BY <1>2, <1>3, <1>4 DEF TypeOK
  <2>4. ownAge' \in 0..HelloEvery /\ askAge' \in 0..RequestGap /\ unknownFor' \in Nat /\ silence' \in Nat
    BY <1>2, <1>3, <1>4, <1>6 DEF TypeOK
  <2> QED
    BY <2>1, <2>2, <2>3, <2>4, <1>2, <1>9 DEF TypeOK
\* A hello is due only in an empty queue, a position only after at most a hello.
<1>12. ASSUME steady
       PROVE  /\ CredDue => txQueue = <<>>
              /\ c = txQueue /\ HelloDue(silentFor) => txQueue = <<>>
  <2>1. ran => started /\ (Relays => ownAge < HelloEvery) /\ (sendOwn => credSent /\ credAge < CredEvery)
    BY <1>3, <1>12 DEF IInv, SteadySound
  <2>2. ~ran => txQueue = <<>>
    BY <1>12 DEF IInv, SteadySound
  <2>3. credRequested => txQueue = <<>>
    BY <1>12 DEF IInv, QueueSound
  <2>4. CredDue => txQueue = <<>>
    BY <2>1, <2>2, <2>3, <1>4 DEF CredDue, TypeOK
  <2>5. c = txQueue /\ HelloDue(silentFor) /\ ran => FALSE
    BY <2>1, <1>4, <1>6 DEF HelloDue, TypeOK
  <2> QED
    BY <2>2, <2>4, <2>5
<1>13. SteadySound'
  <2> SUFFICES ASSUME steady PROVE SteadySound'
    BY <1>3 DEF SteadySound
  <2>1. wantActive /\ taskActive
    BY DEF IInv, SteadySound
  <2>2. Relays => ownAge' < HelloEvery
    <3>1. CASE queue # txQueue
      BY <3>1, <1>2
    <3>2. CASE queue = txQueue
      <4>1. h = c /\ c = txQueue /\ ownAge' = silentFor
        BY <3>2, <1>10, <1>2
      <4>2. HelloDue(silentFor) => FALSE
        BY <4>1, <1>12, PutShort, ShortQueues
      <4> QED
        BY <4>1, <4>2, <1>6 DEF HelloDue
    <3> QED
      BY <3>1, <3>2
  <2>3. sendOwn => credSent' /\ credAge' < CredEvery
    <3>0. credSent \/ CredDue => credSent'
      BY <1>3, Zenon
    <3>1. CASE CredDue
      BY <3>0, <3>1, <1>3
    <3>2. CASE ~CredDue
      <4>1. sendOwn => credSent /\ ~(credAge >= CredEvery)
        BY <3>2, Zenon DEF CredDue
      <4> QED
        BY <4>1, <3>0, <3>2, <1>3, <1>4 DEF TypeOK
    <3> QED
      BY <3>1, <3>2
  <2>4. sendOwn /\ fix => posSent' /\ posAge' < LongestGap
    BY <1>2, <1>4, <1>5, WhenDue DEF TypeOK, position
  <2> QED
    BY <2>1, <2>2, <2>3, <2>4, <1>3 DEF SteadySound
<1>14. SilenceSound'
  <2>1. CASE queue # txQueue
    BY <2>1, <1>2, <1>3 DEF SilenceSound
  <2>2. CASE queue = txQueue
    <3>1. silence' = silence /\ ownAge' = silentFor /\ silence <= (IF started THEN ownAge ELSE 0)
      BY <2>2, <1>2, <1>3 DEF IInv, SilenceSound
    <3> QED
      BY <3>1, <2>2, <1>10, <1>6, <1>3, <1>4 DEF SilenceSound, TypeOK
  <2> QED
    BY <2>1, <2>2
\* What becomes of the queue while the URL is unknown.
<1>15. ASSUME steady, ~known
       PROVE  \/ CredentialsFirst'
              \/ /\ ~CredDue /\ ~CredentialsFirst
                 /\ \/ position /\ ~PositionLast /\ PositionLast' /\ posAge' = 0 /\ sendOwn /\ posSent'
                    \/ ~position /\ PositionLast /\ txQueue' = txQueue
                    \/ ~position /\ ~PositionLast /\ txQueue' \in {<<>>, <<"hello">>}
  <2>1. CASE CredentialsFirst
    BY <2>1, <1>2, <1>7, <1>8, <1>9 DEF CredentialsFirst
  <2>2. CASE CredDue
    <3>1. c = <<"credentials">>
      BY <2>2, <1>15, <1>12, PutShort
    <3> HIDE DEF c, h
    <3> QED
      BY <3>1, <1>2, <1>8, <1>9, ShortQueues DEF CredentialsFirst
  <2>3. CASE ~CredentialsFirst /\ ~CredDue /\ PositionLast
    <3>1. c = txQueue /\ txQueue # <<>> /\ sendOwn /\ posSent /\ posAge = 0
      BY <2>3, <1>15, ShortQueues DEF PositionLast, IInv, QueueSound
    <3>2. ~position
      BY <3>1, <1>4, WhenDue DEF position, TypeOK
    <3>3. ~HelloDue(silentFor)
      BY <3>1, <1>12, <1>15
    <3> QED
      BY <3>1, <3>2, <3>3, <2>3, <1>2 DEF queue
  <2>4. CASE ~CredentialsFirst /\ ~CredDue /\ ~PositionLast
    <3>1. c = txQueue /\ txQueue \in {<<>>, <<"hello">>}
      BY <2>4, <1>15 DEF IInv, QueueSound
    <3>2. h \in {<<>>, <<"hello">>}
      BY <3>1, <1>12, <1>15, PutShort
    <3>3. ~position => txQueue' \in {<<>>, <<"hello">>}
      BY <3>2, <1>2 DEF queue
    <3>4. position => txQueue' \in {<<"position">>, <<"hello", "position">>}
      BY <3>2, <1>2, PutShort DEF queue
    <3>5. position => sendOwn /\ posSent' /\ posAge' = 0
      BY <1>2 DEF position, PositionDue
    <3> QED
      BY <2>4, <3>3, <3>4, <3>5 DEF PositionLast
  <2> QED
    BY <2>1, <2>2, <2>3, <2>4
<1>16. QueueSound'
  BY <1>15, <1>2, <1>3, <1>5, ShortQueues DEF QueueSound, IInv, PositionLast, CredentialsFirst
<1>17. WaitSound'
  <2>1. unknownFor' > 0 => steady' /\ hasUrl' /\ sendOwn' /\ fix' /\ posSent'
    BY <1>2, <1>3 DEF IInv, WaitSound
  <2>2. ASSUME steady', ~Coming'
        PROVE  /\ ~known /\ ~CredDue /\ ~Coming
               /\ Occasion' \in Nat /\ Occasion \in Nat /\ Occasion <= Occasion'
    <3>1. ~known /\ ~CredentialsFirst' /\ steady
      BY <2>2, <1>3 DEF Coming
    <3>2. ~CredDue /\ ~CredentialsFirst
      BY <3>1, <1>15
    <3>3. ~Coming
      BY <3>1, <3>2, <1>4 DEF Coming, CredDue, TypeOK
    <3>4. Occasion \in 0..LongestGap
      BY <1>4 DEF Occasion, TypeOK
    <3>5. Occasion' = LongestGap \/ Occasion' = Occasion
      BY <3>1, <1>15, <1>2, <1>5, ShortQueues DEF Occasion, PositionLast
    <3> QED
      BY <3>1, <3>2, <3>3, <3>4, <3>5
  <2> QED
    BY <2>1, <2>2, <1>3, <1>4 DEF IInv, WaitSound, TypeOK
<1>18. UrlArrivesSoon'
  BY <1>3 DEF IInv, UrlArrivesSoon, Bound
<1> QED
  BY <1>11, <1>13, <1>14, <1>16, <1>17, <1>18 DEF IInv

LEMMA LoopSound == IInv /\ Loop => IInv'
  BY NoUrlSound, QueueingSound DEF Loop, MeshLoop

\* What a gateway makes of a message.
LEMMA GatewayCases ==
  ASSUME NEW kind, GatewayGets(kind)
  PROVE  \/ /\ kind = "credentials" /\ known' = TRUE
            /\ asked' = asked /\ askAge' = askAge /\ credRequested' = credRequested
         \/ /\ kind = "position" /\ ~known /\ MayAsk /\ known' = known /\ asked' = TRUE /\ askAge' = 0
            /\ credRequested' = TRUE \/ (~steady /\ credRequested' = credRequested)
         \/ /\ kind # "credentials" /\ (kind = "position" => known \/ ~MayAsk)
            /\ known' = known /\ asked' = asked /\ askAge' = askAge /\ credRequested' = credRequested
<1>1. CASE kind = "credentials" /\ known' = TRUE /\ UNCHANGED <<asked, askAge, credRequested>>
  BY <1>1
<1>2. CASE /\ kind = "position" /\ ~known /\ MayAsk
           /\ asked' = TRUE /\ askAge' = 0
           /\ credRequested' \in IF steady THEN {TRUE} ELSE {TRUE, credRequested}
           /\ UNCHANGED known
  <2>1. credRequested' = TRUE \/ (~steady /\ credRequested' = credRequested)
    BY <1>2
  <2> QED
    BY <1>2, <2>1
<1>3. CASE /\ kind \in {"hello", "request"} \/ (kind = "position" /\ (known \/ ~MayAsk))
           /\ UNCHANGED <<gateway, credRequested>>
  BY <1>3, Zenon DEF gateway
<1> QED
  BY <1>1, <1>2, <1>3 DEF GatewayGets

\* The task sends a message: on a steady channel the gateway gets it.
LEMMA SendSound == IInv /\ Send => IInv'
<1> SUFFICES ASSUME IInv, Send PROVE IInv'
  OBVIOUS
<1> USE Numbers
<1>1. /\ txQueue # <<>> /\ txQueue' = Tail(txQueue)
      /\ GatewayGets(Head(txQueue)) \/ Lost
      /\ UNCHANGED <<hasUrl, wantActive, sendOwn, fix, taskActive, credSent, credAge, posSent, posAge, interval,
                     started, ownAge, steady, ran, unknownFor, silence>>
  BY DEF Send, TakeMessage, inputs, credState, posState, helloState, history
<1>2. TypeOK
  BY DEF IInv
<1>3. txQueue' \in Seq(Kinds) /\ Len(txQueue') <= QueueLen
  BY <1>1, <1>2, HeadTailProperties DEF TypeOK
<1>4. /\ known' \in BOOLEAN /\ asked' \in BOOLEAN /\ credRequested' \in BOOLEAN /\ askAge' \in 0..RequestGap
  <2>1. CASE Lost
    BY <2>1, <1>2 DEF Lost, gateway, TypeOK
  <2>2. CASE GatewayGets(Head(txQueue))
    <3>1. askAge' \in {0, askAge}
      BY <2>2, GatewayCases
    <3>2. known' \in BOOLEAN /\ asked' \in BOOLEAN /\ credRequested' \in BOOLEAN
      BY <2>2, <1>2, GatewayCases, Zenon DEF TypeOK
    <3> QED
      BY <3>1, <3>2, <1>2 DEF TypeOK
  <2> QED
    BY <1>1, <2>1, <2>2
<1>5. TypeOK'
  BY <1>1, <1>2, <1>3, <1>4 DEF TypeOK
<1>6. SteadySound' /\ SilenceSound' /\ UrlArrivesSoon'
  BY <1>1 DEF IInv, SteadySound, SilenceSound, UrlArrivesSoon, Bound
<1>7. CASE ~steady
  BY <1>1, <1>5, <1>6, <1>7 DEF IInv, QueueSound, WaitSound
<1>8. CASE steady
  <2>1. ~credRequested /\ GatewayGets(Head(txQueue))
    BY <1>1, <1>8 DEF IInv, QueueSound, Lost
  <2>2. CASE known
    <3>1. known' /\ ~credRequested'
      BY <2>1, <2>2, <1>2, GatewayCases, Zenon DEF TypeOK
    <3> QED
      BY <3>1, <1>1, <1>5, <1>6 DEF IInv, QueueSound, WaitSound, Coming
  <2>3. CASE ~known /\ CredentialsFirst
    <3>1. known' /\ ~credRequested'
      <4>1. GatewayGets("credentials")
        BY <2>1, <2>3 DEF CredentialsFirst
      <4>2. known' = TRUE /\ credRequested' = credRequested
        BY <4>1, GatewayCases
      <4> QED
        BY <2>1, <4>2, Zenon
    <3> QED
      BY <3>1, <1>1, <1>5, <1>6 DEF IInv, QueueSound, WaitSound, Coming
  <2>4. CASE ~known /\ txQueue = <<"hello">>
    <3>1. txQueue' = <<>> /\ UNCHANGED <<known, asked, askAge, credRequested>>
      BY <2>1, <2>4, <1>1, ShortQueues DEF GatewayGets, gateway
    <3>2. ~Coming /\ ~PositionLast /\ ~PositionLast'
      BY <2>1, <2>4, <3>1, ShortQueues DEF Coming, CredentialsFirst, PositionLast
    <3>3. QueueSound'
      BY <3>1, <3>2, <1>1 DEF QueueSound
    <3>4. WaitSound'
      BY <3>1, <3>2, <1>1, <1>8 DEF IInv, WaitSound, Occasion
    <3> QED
      BY <3>3, <3>4, <1>5, <1>6 DEF IInv
  <2>5. CASE ~known /\ txQueue = <<"hello", "position">>
    <3>1. txQueue' = <<"position">> /\ UNCHANGED <<known, asked, askAge, credRequested>>
      BY <2>1, <2>5, <1>1, ShortQueues DEF GatewayGets, gateway
    <3>2. ~Coming /\ PositionLast /\ PositionLast'
      BY <2>1, <2>5, <3>1, ShortQueues DEF Coming, CredentialsFirst, PositionLast
    <3>3. QueueSound'
      BY <3>1, <3>2, <1>1, <2>1, <2>5 DEF IInv, QueueSound
    <3>4. WaitSound'
      BY <3>1, <3>2, <1>1, <1>8 DEF IInv, WaitSound, Occasion
    <3> QED
      BY <3>3, <3>4, <1>5, <1>6 DEF IInv
  <2>6. CASE ~known /\ txQueue = <<"position">>
    <3>1. txQueue' = <<>> /\ ~known'
      BY <2>1, <2>6, <1>1, ShortQueues, GatewayCases, Zenon
    <3>2. \/ asked' /\ askAge' = 0 /\ credRequested' = TRUE
          \/ asked /\ askAge < RequestGap /\ UNCHANGED <<asked, askAge, credRequested>>
      <4>1. MayAsk \/ (asked /\ askAge < RequestGap)
        BY <1>2 DEF MayAsk, TypeOK
      <4> QED
        BY <4>1, <2>1, <2>6, <1>8, ShortQueues, GatewayCases, Zenon
    <3>3. ~Coming /\ PositionLast /\ ~PositionLast' /\ ~CredentialsFirst'
      BY <2>1, <2>6, <3>1, ShortQueues DEF Coming, CredentialsFirst, PositionLast
    <3>4. /\ credSent => credAge >= unknownFor \/ credAge = CredEvery
          /\ \/ unknownFor <= LongestGap
             \/ asked /\ unknownFor <= LongestGap + askAge + (IF askAge = RequestGap THEN LongestGap ELSE 0)
      BY <3>3, <1>8 DEF IInv, WaitSound, Occasion
    <3>5. QueueSound'
      BY <3>1, <3>3 DEF QueueSound
    <3>6. ASSUME ~Coming'
          PROVE  asked' /\ unknownFor' <= LongestGap + askAge' + (IF askAge' = RequestGap THEN Occasion' ELSE 0)
      <4>1. CASE asked' /\ askAge' = 0 /\ credRequested' = TRUE
        <5>1. credSent /\ credAge < CredMinGap
          BY <4>1, <3>6, <1>1, <1>2 DEF Coming, TypeOK
        <5> QED
          BY <4>1, <5>1, <3>4, <1>1, <1>2 DEF TypeOK
      <4>2. CASE asked /\ askAge < RequestGap /\ UNCHANGED <<asked, askAge, credRequested>>
        BY <4>2, <3>4, <1>1, <1>2 DEF TypeOK
      <4> QED
        BY <4>1, <4>2, <3>2
    <3>7. WaitSound'
      BY <3>4, <3>6, <1>1 DEF IInv, WaitSound
    <3> QED
      BY <3>5, <3>7, <1>5, <1>6 DEF IInv
  <2> QED
    BY <2>2, <2>3, <2>4, <2>5, <2>6, <1>1, <1>8 DEF IInv, QueueSound, PositionLast
<1> QED
  BY <1>7, <1>8

\* A tick ends a round in which all that was due was sent and heard.
LEMMA TickSound == IInv /\ Tick => IInv'
<1> SUFFICES ASSUME IInv, Tick PROVE IInv'
  OBVIOUS
<1> USE Numbers
<1>1. /\ wantActive => ran
      /\ steady => txQueue = <<>> /\ ~credRequested
      /\ ran' = FALSE
      /\ credAge' = (IF credSent THEN Older(credAge, CredEvery) ELSE 0)
      /\ posAge' = (IF posSent THEN Older(posAge, LongestGap) ELSE 0)
      /\ ownAge' = (IF started THEN Older(ownAge, HelloEvery) ELSE 0)
      /\ askAge' = (IF asked THEN Older(askAge, RequestGap) ELSE 0)
      /\ unknownFor' = (IF steady /\ wantActive /\ hasUrl /\ sendOwn /\ fix /\ ~known THEN Older(unknownFor, Bound + 1) ELSE 0)
      /\ silence' = (IF started THEN Older(silence, HelloEvery) ELSE 0)
      /\ UNCHANGED <<hasUrl, wantActive, sendOwn, fix, taskActive, txQueue, credRequested, credSent, posSent,
                     interval, started, known, asked, steady>>
  BY DEF Tick, TimePasses, inputs
<1>2. TypeOK /\ UrlArrivesSoon
  BY DEF IInv
<1>3. Bound \in Nat /\ Bound = RequestGap + 2 * LongestGap
  BY DEF Bound
<1>4. /\ credAge' \in 0..CredEvery /\ posAge' \in 0..LongestGap /\ ownAge' \in 0..HelloEvery
      /\ askAge' \in 0..RequestGap /\ unknownFor' \in Nat /\ silence' \in Nat
  BY <1>1, <1>2, <1>3 DEF TypeOK, Older
<1>5. TypeOK'
  BY <1>1, <1>2, <1>4 DEF TypeOK
<1>6. SteadySound'
  BY <1>1 DEF IInv, SteadySound
<1>7. SilenceSound'
  BY <1>1, <1>2 DEF IInv, SilenceSound, TypeOK, Older
<1>8. QueueSound'
  BY <1>1, ShortQueues DEF IInv, QueueSound, PositionLast
<1>9. CASE steady /\ hasUrl /\ sendOwn /\ fix /\ ~known
  <2>1. wantActive /\ ran /\ credSent /\ credAge < CredEvery /\ posSent /\ posAge < LongestGap
    BY <1>1, <1>9 DEF IInv, SteadySound
  <2>2. ~Coming /\ Occasion = posAge /\ Occasion' = posAge'
    BY <1>1, <1>9, ShortQueues DEF Coming, CredentialsFirst, Occasion, PositionLast
  <2>3. /\ credAge >= unknownFor
        /\ \/ unknownFor <= posAge
           \/ asked /\ unknownFor <= LongestGap + askAge + (IF askAge = RequestGap THEN posAge ELSE 0)
    BY <2>1, <2>2, <1>2, <1>9 DEF IInv, WaitSound, TypeOK
  <2>4. unknownFor' = unknownFor + 1 /\ credAge' = credAge + 1 /\ posAge' = posAge + 1
    BY <2>1, <1>1, <1>2, <1>3, <1>9 DEF Older, UrlArrivesSoon, TypeOK
  <2>5. asked => (askAge' = askAge + 1 /\ askAge < RequestGap) \/ (askAge' = askAge /\ askAge = RequestGap)
    BY <1>1, <1>2 DEF Older, TypeOK
  <2>6. WaitSound'
    BY <2>1, <2>2, <2>3, <2>4, <2>5, <1>1, <1>2, <1>9 DEF WaitSound, TypeOK
  <2>7. UrlArrivesSoon'
    BY <2>1, <2>3, <2>4, <1>2, <1>3 DEF UrlArrivesSoon, TypeOK, Bound
  <2> QED
    BY <2>6, <2>7, <1>5, <1>6, <1>7, <1>8 DEF IInv
<1>10. CASE ~(steady /\ hasUrl /\ sendOwn /\ fix /\ ~known)
  <2>1. unknownFor' = 0
    BY <1>1, <1>10
  <2>2. Occasion' \in Nat
    BY <1>4 DEF Occasion
  <2>3. WaitSound'
    <3>1. unknownFor' <= Occasion' /\ credAge' >= unknownFor' /\ ~(unknownFor' > 0)
      BY <2>1, <2>2, <1>4
    <3> QED
      BY <3>1, Zenon DEF WaitSound
  <2> QED
    BY <2>1, <2>3, <1>3, <1>5, <1>6, <1>7, <1>8 DEF IInv, UrlArrivesSoon, Bound
<1> QED
  BY <1>9, <1>10

\* What only happens before the channel is steady, and inputs that change.
LEMMA OthersSound == IInv /\ (AskOthers \/ Switch \/ Inputs \/ OnOff \/ Forget \/ BecomeSteady) => IInv'
<1> USE Numbers
<1>1. ASSUME IInv, AskOthers PROVE IInv'
  <2>1. /\ ~steady /\ steady' = steady /\ started /\ txQueue' = Put(txQueue, "request")
        /\ ownAge' = (IF txQueue' # txQueue THEN 0 ELSE ownAge)
        /\ silence' = (IF txQueue' # txQueue THEN 0 ELSE silence)
        /\ UNCHANGED <<hasUrl, wantActive, sendOwn, fix, taskActive, credRequested, credSent, credAge, posSent, posAge,
                       interval, started, known, asked, askAge, ran, unknownFor>>
    BY <1>1 DEF AskOthers, RequestCredentials, inputs, credState, posState, gateway
  <2>2. txQueue' \in Seq(Kinds) /\ Len(txQueue') <= QueueLen
    BY <2>1, <1>1, PutKeeps DEF IInv, TypeOK, Kinds
  <2>3. TypeOK'
    BY <2>1, <2>2, <1>1 DEF IInv, TypeOK
  <2>4. SilenceSound'
    BY <2>1, <1>1 DEF IInv, SilenceSound
  <2> QED
    BY <2>1, <2>3, <2>4, <1>1 DEF IInv, SteadySound, QueueSound, WaitSound, UrlArrivesSoon, Bound
<1>2. ASSUME IInv, Switch PROVE IInv'
  <2>1. /\ taskActive # wantActive /\ taskActive' = wantActive
        /\ txQueue' = (IF wantActive THEN txQueue ELSE <<>>)
        /\ UNCHANGED <<hasUrl, wantActive, sendOwn, fix, credRequested, credSent, credAge, posSent, posAge,
                       interval, started, ownAge, known, asked, askAge, steady, ran, unknownFor, silence>>
    BY <1>2 DEF Switch, TaskSwitches, inputs, credState, posState, helloState, gateway, history
  <2>2. ~steady
    BY <2>1, <1>2 DEF IInv, SteadySound, TypeOK
  <2>3. txQueue' \in Seq(Kinds) /\ Len(txQueue') <= QueueLen
    BY <2>1, <1>2 DEF IInv, TypeOK
  <2>4. TypeOK'
    BY <2>1, <2>3, <1>2 DEF IInv, TypeOK
  <2> QED
    BY <2>1, <2>2, <2>4, <1>2 DEF IInv, SteadySound, SilenceSound, QueueSound, WaitSound, UrlArrivesSoon, Bound
<1>3. ASSUME IInv, Inputs PROVE IInv'
  <2>1. /\ ~(steady /\ ran) /\ sendOwn' \in BOOLEAN /\ fix' \in BOOLEAN /\ unknownFor' = 0
        /\ UNCHANGED <<hasUrl, wantActive, taskActive, txQueue, credRequested, credSent, credAge, posSent, posAge,
                       interval, started, ownAge, known, asked, askAge, steady, ran, silence>>
    BY <1>3 DEF Inputs, InputsChange, credState, posState, helloState, gateway
  <2>2. TypeOK'
    BY <2>1, <1>3 DEF IInv, TypeOK
  <2>3. SteadySound' /\ SilenceSound'
    BY <2>1, <1>3 DEF IInv, SteadySound, SilenceSound
  <2>4. steady => txQueue = <<>>
    BY <2>1, <1>3 DEF IInv, SteadySound
  <2>5. QueueSound'
    BY <2>1, <2>4, ShortQueues DEF QueueSound, PositionLast
  <2>6. Occasion' \in Nat
    BY <2>2 DEF Occasion, TypeOK
  <2>7. WaitSound'
    <3>1. unknownFor' <= Occasion' /\ credAge' >= unknownFor' /\ ~(unknownFor' > 0)
      BY <2>1, <2>2, <2>6 DEF TypeOK
    <3> QED
      BY <3>1, Zenon DEF WaitSound
  <2> QED
    BY <2>1, <2>2, <2>3, <2>5, <2>7 DEF IInv, UrlArrivesSoon, Bound
<1>4. ASSUME IInv, OnOff PROVE IInv'
  <2>1. /\ ~steady /\ wantActive' = ~wantActive
        /\ UNCHANGED <<hasUrl, sendOwn, fix, taskActive, txQueue, credRequested, credSent, credAge, posSent, posAge,
                       interval, started, ownAge, known, asked, askAge, steady, ran, unknownFor, silence>>
    BY <1>4 DEF OnOff, SetActive, credState, posState, helloState, gateway, history
  <2>2. TypeOK'
    BY <2>1, <1>4 DEF IInv, TypeOK
  <2> QED
    BY <2>1, <2>2, <1>4 DEF IInv, SteadySound, SilenceSound, QueueSound, WaitSound, UrlArrivesSoon, Bound
<1>5. ASSUME IInv, Forget PROVE IInv'
  <2>1. /\ ~steady /\ known' = FALSE /\ asked' = FALSE /\ askAge' = 0
        /\ UNCHANGED <<hasUrl, wantActive, sendOwn, fix, taskActive, txQueue, credRequested, credSent, credAge, posSent,
                       posAge, interval, started, ownAge, steady, ran, unknownFor, silence>>
    BY <1>5 DEF Forget, senderVars, inputs, credState, posState, helloState, history
  <2>2. TypeOK'
    <3>1. askAge' \in 0..RequestGap
      BY <2>1
    <3>2. known' \in BOOLEAN /\ asked' \in BOOLEAN
      BY <2>1, Zenon
    <3> QED
      BY <2>1, <3>1, <3>2, <1>5 DEF IInv, TypeOK
  <2> QED
    BY <2>1, <2>2, <1>5 DEF IInv, SteadySound, SilenceSound, QueueSound, WaitSound, UrlArrivesSoon, Bound
<1>6. ASSUME IInv, BecomeSteady PROVE IInv'
  <2>1. /\ ~steady /\ wantActive /\ taskActive /\ txQueue = <<>> /\ steady' = TRUE /\ ran' = FALSE
        /\ UNCHANGED <<hasUrl, wantActive, sendOwn, fix, taskActive, txQueue, credRequested, credSent, credAge, posSent,
                       posAge, interval, started, ownAge, known, asked, askAge, unknownFor, silence>>
    BY <1>6 DEF BecomeSteady, senderVars, inputs, credState, posState, helloState, gateway, history
  <2>2. TypeOK'
    BY <2>1, <1>6 DEF IInv, TypeOK
  <2>3. SteadySound' /\ SilenceSound'
    BY <2>1, <1>6 DEF IInv, SteadySound, SilenceSound
  <2>4. QueueSound'
    BY <2>1, ShortQueues DEF QueueSound, PositionLast
  <2>5. unknownFor = 0
    BY <2>1, <1>6 DEF IInv, WaitSound, TypeOK
  <2>6. Occasion' \in Nat /\ credAge' \in Nat
    BY <2>2 DEF Occasion, TypeOK
  <2> QED
    BY <2>1, <2>2, <2>3, <2>4, <2>5, <2>6 DEF IInv, WaitSound, UrlArrivesSoon, Bound
<1> QED
  BY <1>1, <1>2, <1>3, <1>4, <1>5, <1>6

LEMMA StepSound == IInv /\ [Next]_vars => IInv'
<1> SUFFICES ASSUME IInv, [Next]_vars PROVE IInv'
  OBVIOUS
<1>1. CASE Next
  BY <1>1, LoopSound, SendSound, TickSound, OthersSound DEF Next
<1>2. CASE UNCHANGED vars
  BY <1>2 DEF IInv, TypeOK, SteadySound, SilenceSound, QueueSound, CredentialsFirst, PositionLast, Coming,
    Occasion, WaitSound, UrlArrivesSoon, Bound,
    vars, senderVars, inputs, credState, posState, helloState, gateway, history
<1> QED
  BY <1>1, <1>2

LEMMA Inductive == Spec => []IInv
<1> QED
  BY InitSound, StepSound, PTL DEF Spec

----------------------------------------------------------------------------

\* Once nothing is lost any more, a gateway that hears positions has the URL within its own
\* request gap and two position gaps, whatever was lost, asked or refused before
\* (gateway.cpp:97, mesh.cpp:788-795).
THEOREM UrlArrives == Spec => []UrlArrivesSoon
<1>1. IInv => UrlArrivesSoon
  BY DEF IInv
<1> QED
  BY Inductive, <1>1, PTL

\* A node that relays and has a URL is heard once per HelloEvery at least, even if its
\* queue dropped what it wanted to send before (mesh.cpp:672-686, 784).
THEOREM RelayHeard == Spec => []RelayIsHeard
<1>1. IInv => RelayIsHeard
  BY Numbers DEF IInv, TypeOK, SteadySound, SilenceSound, RelayIsHeard
<1> QED
  BY Inductive, <1>1, PTL
=============================================================================

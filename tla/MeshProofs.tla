----------------------------- MODULE MeshProofs -----------------------------
(***************************************************************************)
(* Proofs about the mesh task: MeshTask for any number of packets, relay   *)
(* slots, places in the ring and attempts and for every relay mode,        *)
(* RxGuard for any longest packet.                                         *)
(***************************************************************************)
EXTENDS MeshTask, RxGuard, SequenceTheorems, TLAPS

\* The assumptions on the constants as the steps use them.
LEMMA Sizes ==
  /\ SeenSize \in Nat /\ SeenSize > 0 /\ TxQueueLen \in Nat /\ TxQueueLen > 0
  /\ MaxTries \in Nat /\ MaxTries > 0 /\ TriesMod \in Nat /\ TriesMod > MaxTries
  /\ RelaySlots \in Nat
  BY MeshTaskAssumption

LEMMA Markers ==
  NoPacket \notin Packets /\ NoId \notin Ids /\ OnChannel \subseteq Packets
  BY MeshTaskAssumption

\* The least element of a set of slots is one.
LEMMA OneFirst ==
  ASSUME NEW S \in SUBSET Slots, NEW s \in FirstOf(S), NEW t \in FirstOf(S)
  PROVE  s \in S /\ s \in Slots /\ s = t
<1>1. s \in Nat /\ t \in Nat /\ s <= t /\ t <= s /\ s \in S
  BY Sizes DEF FirstOf, Slots
<1> QED
  BY <1>1

\* A mark in the ring displaces at most its last one.
LEMMA RingKeeps ==
  ASSUME TypeOK, NEW e \in Packets \cup Ids, seen' = Push(e)
  PROVE  /\ seen' \in Seq(Packets \cup Ids) /\ Len(seen') <= SeenSize
         /\ e \in Remembered' /\ Remembered \ Falling \subseteq Remembered'
<1> DEFINE All == Packets \cup Ids
           joined == <<e>> \o seen
           len == IF Len(seen) < SeenSize THEN Len(seen) + 1 ELSE SeenSize
<1>1. seen \in Seq(All) /\ Len(seen) \in Nat /\ Len(seen) <= SeenSize /\ DOMAIN seen = 1..Len(seen)
  BY LenProperties DEF TypeOK
<1>2. <<e>> \in Seq(All) /\ Len(<<e>>) = 1 /\ <<e>>[1] = e
  OBVIOUS
<1>3. /\ joined \in Seq(All) /\ Len(joined) = Len(seen) + 1
      /\ joined[1] = e /\ \A i \in 1..Len(seen) : joined[i + 1] = seen[i]
  <2>1. /\ joined \in Seq(All) /\ Len(joined) = 1 + Len(seen)
        /\ \A i \in 1..(1 + Len(seen)) : joined[i] = IF i <= 1 THEN <<e>>[i] ELSE seen[i - 1]
    BY <1>1, <1>2, ConcatProperties
  <2> HIDE DEF joined
  <2> QED
    BY <1>1, <1>2, <2>1
<1>4. len \in Nat /\ 1 <= len /\ len <= Len(joined) /\ len <= SeenSize
  BY <1>1, <1>3, Sizes
<1> HIDE DEF joined
<1>5. /\ seen' \in Seq(All) /\ Len(seen') = len
      /\ \A i \in 1..len : seen'[i] = joined[i]
  <2>1. seen' = SubSeq(joined, 1, len)
    BY DEF Push, joined
  <2>2. \A i \in 1..len : joined[i] \in All
    BY <1>3, <1>4, ElementOfSeq
  <2> HIDE DEF len, All
  <2>3. /\ SubSeq(joined, 1, len) \in Seq(All)
        /\ Len(SubSeq(joined, 1, len)) = IF 1 <= len THEN len - 1 + 1 ELSE 0
        /\ \A i \in 1..(len - 1 + 1) : SubSeq(joined, 1, len)[i] = joined[1 + i - 1]
    BY <1>4, <2>2, SubSeqProperties
  <2> QED
    BY <1>4, <2>1, <2>3
<1>6. DOMAIN seen' = 1..len
  BY <1>5, LenProperties
<1>7. e \in Remembered'
  <2>1. 1 \in DOMAIN seen' /\ seen'[1] = e
    BY <1>3, <1>4, <1>5, <1>6
  <2> QED
    BY <2>1 DEF Remembered
<1>8. ASSUME NEW p \in Remembered, p \notin Falling PROVE p \in Remembered'
  <2>1. PICK i \in 1..Len(seen) : seen[i] = p
    BY <1>1, <1>8 DEF Remembered
  <2>2. i < SeenSize
    BY <1>1, <1>8, <2>1, Sizes DEF Falling
  <2>3. i + 1 \in 1..len
    BY <1>1, <2>1, <2>2, Sizes
  <2>4. i + 1 \in DOMAIN seen' /\ seen'[i + 1] = p
    BY <1>3, <1>5, <1>6, <2>1, <2>3
  <2> QED
    BY <2>4 DEF Remembered
<1> QED
  BY <1>4, <1>5, <1>7, <1>8

LEMMA WaitingSound == TypeOK => Waiting \subseteq Packets
  BY DEF TypeOK, Waiting

\* A counter of attempts is raised only while it stays below the limit.
LEMMA MoreTries ==
  ASSUME NEW tries \in 0..(MaxTries - 1), NEW result, Postponed(tries, result)
  PROVE  More(tries) \in 0..(MaxTries - 1)
<1>1. tries \in Nat /\ tries + 1 < MaxTries /\ tries + 1 < TriesMod
  BY Sizes DEF Postponed
<1>2. (tries + 1) % TriesMod = tries + 1
  BY <1>1, Sizes, SMT
<1> QED
  BY <1>1, <1>2, Sizes DEF More

LEMMA InitSound == Init => IInv
<1> SUFFICES ASSUME Init PROVE IInv
  OBVIOUS
<1>1. TypeOK
  <2>1. 0 \in 0..(MaxTries - 1)
    BY Sizes
  <2>2. \A S : <<>> \in Seq(S) /\ Len(<<>>) = 0
    BY EmptySeq
  <2>3. NoRelay \in [packet : Packets \cup {NoPacket}, tries : 0..(MaxTries - 1)]
    BY <2>1 DEF NoRelay
  <2>4. NoOwn \in [id : Ids \cup {NoId}, kind : Kinds, tries : 0..(MaxTries - 1), retry : BOOLEAN]
    BY <2>1 DEF NoOwn, Kinds
  <2>5. 0 <= SeenSize /\ 0 <= TxQueueLen
    BY Sizes
  <2>6. sends \in [Ids -> Nat]
    BY DEF Init
  <2> QED
    BY <2>2, <2>3, <2>4, <2>5, <2>6 DEF Init, TypeOK
<1>2. RingSound /\ PendingRelayIsAlone
  BY DEF Init, RingSound, PendingRelayIsAlone, Unused, NoRelay
<1>3. OwnSound /\ RepeatedOnce /\ AwaitedIsUnheard
  BY DEF Init, OwnSound, RepeatedOnce, AwaitedIsUnheard
<1> QED
  BY <1>1, <1>2, <1>3 DEF IInv

----------------------------------------------------------------------------
(* Received packets *)

LEMMA NewSound ==
  ASSUME IInv, NEW p \in Packets, HandleNew(p)
  PROVE  IInv'
<1>1. /\ ~AlreadySeen(p) /\ seen' = Push(p)
      /\ copies' = copies \ Falling /\ relayed' = relayed \ Falling
      /\ forgotten' = (forgotten \cup Falling) \cap Waiting
      /\ UNCHANGED <<wantActive, active, txQueue, own, credAck, sends, credentials, acked>>
      /\ relays' = relays \/ Schedule(p)
  BY DEF HandleNew, MarkSeen, sentOwn
<1>2. p \notin Remembered
  BY <1>1 DEF AlreadySeen
<1>3. /\ seen' \in Seq(Packets \cup Ids) /\ Len(seen') <= SeenSize
      /\ p \in Remembered' /\ Remembered \ Falling \subseteq Remembered'
  BY <1>1, RingKeeps DEF IInv
<1>4. /\ relays' \in [Slots -> [packet : Packets \cup {NoPacket}, tries : 0..(MaxTries - 1)]]
      /\ \A s \in Slots : relays'[s] = relays[s] \/ relays'[s].packet = p
      /\ (\A s \in Slots : relays[s].packet # p)
           => \A s, t \in Slots : relays'[s].packet = p /\ relays'[t].packet = p => s = t
  <2>1. CASE relays' = relays
    BY <2>1 DEF IInv, TypeOK
  <2>2. CASE Schedule(p)
    <3>1. \A s \in Slots : relays'[s] = IF s \in SlotFor(p) THEN [packet |-> p, tries |-> 0] ELSE relays[s]
      BY <2>2 DEF Schedule
    <3>2. \A s, t \in SlotFor(p) : s \in Slots /\ s = t
      BY OneFirst DEF SlotFor, Unused, Foreign
    <3>3. 0 \in 0..(MaxTries - 1)
      BY Sizes
    <3>4. relays' \in [Slots -> [packet : Packets \cup {NoPacket}, tries : 0..(MaxTries - 1)]]
      BY <2>2, <3>3 DEF Schedule, IInv, TypeOK
    <3> QED
      BY <3>1, <3>2, <3>4
  <2> QED
    BY <1>1, <2>1, <2>2
<1>5. TypeOK'
  BY <1>1, <1>3, <1>4, WaitingSound DEF IInv, TypeOK
<1>6. /\ \A s \in Slots : relays[s].packet # NoPacket =>
           relays[s].packet \in Waiting /\ relays[s].packet \in Remembered \cup forgotten
      /\ copies \cup relayed \subseteq Remembered
  BY DEF IInv, RingSound, Unused, Waiting
<1>7. RingSound'
  <2>1. ASSUME NEW s \in Slots, relays'[s].packet # NoPacket
        PROVE  relays'[s].packet \in Remembered' \cup forgotten'
    <3>1. CASE relays'[s] = relays[s]
      BY <1>1, <1>3, <1>6, <2>1, <3>1
    <3> QED
      BY <1>3, <1>4, <3>1
  <2>2. copies' \cup relayed' \subseteq Remembered'
    BY <1>1, <1>3, <1>6
  <2> QED
    BY <2>1, <2>2 DEF RingSound, Unused
<1>8. PendingRelayIsAlone'
  <2>1. p \notin copies \cup relayed
    BY <1>2, <1>6
  <2> SUFFICES ASSUME NEW s \in Slots, relays'[s].packet # NoPacket, relays'[s].packet \notin forgotten'
               PROVE  /\ relays'[s].packet \notin relayed' \cup copies'
                      /\ \A t \in Slots \ {s} : relays'[t].packet # relays'[s].packet
    BY DEF PendingRelayIsAlone, Unused
  <2>2. CASE relays'[s].packet = p
    \* A relay of p that waits already would have been forgotten.
    <3>1. \A t \in Slots : relays[t].packet # p
      BY <1>1, <1>2, <1>6, <2>2, Markers
    <3> QED
      BY <1>1, <1>4, <2>1, <2>2, <3>1
  <2>3. CASE relays'[s].packet # p
    <3>1. relays'[s] = relays[s] /\ relays[s].packet # NoPacket /\ relays[s].packet \in Waiting
      BY <1>4, <1>6, <2>3
    <3>2. relays[s].packet \notin forgotten
      BY <1>1, <3>1
    <3> QED
      BY <1>1, <1>4, <2>3, <3>1, <3>2 DEF IInv, PendingRelayIsAlone, Unused
  <2> QED
    BY <2>2, <2>3
<1>9. OwnSound' /\ RepeatedOnce' /\ AwaitedIsUnheard'
  BY <1>1 DEF IInv, OwnSound, RepeatedOnce, AwaitedIsUnheard
<1> QED
  BY <1>5, <1>7, <1>8, <1>9 DEF IInv

LEMMA CopySound ==
  ASSUME IInv, NEW p \in Packets, HandleCopy(p)
  PROVE  IInv'
<1>1. /\ AlreadySeen(p) /\ copies' = copies \cup {p}
      /\ relays' = [s \in Slots |-> IF relays[s].packet = p THEN NoRelay ELSE relays[s]]
      /\ UNCHANGED <<wantActive, active, seen, txQueue, own, credAck, relayed, forgotten,
                     sends, credentials, acked>>
  BY DEF HandleCopy, CancelRelay, sentOwn
<1>2. p \in Remembered /\ Remembered' = Remembered
  BY <1>1 DEF AlreadySeen, Remembered
<1>3. 0 \in 0..(MaxTries - 1) /\ NoRelay.packet = NoPacket /\ NoRelay.tries = 0
  BY Sizes DEF NoRelay
<1>4. TypeOK'
  BY <1>1, <1>3 DEF IInv, TypeOK, NoRelay
<1>5. \A s \in Slots : relays'[s].packet # NoPacket => relays'[s] = relays[s] /\ relays[s].packet # p
  BY <1>1, <1>3
<1>6. RingSound'
  BY <1>1, <1>2, <1>5 DEF IInv, RingSound, Unused
<1>7. PendingRelayIsAlone'
  BY <1>1, <1>5 DEF IInv, PendingRelayIsAlone, Unused
<1>8. OwnSound' /\ RepeatedOnce' /\ AwaitedIsUnheard'
  BY <1>1 DEF IInv, OwnSound, RepeatedOnce, AwaitedIsUnheard
<1> QED
  BY <1>4, <1>6, <1>7, <1>8 DEF IInv

LEMMA OwnCopySound ==
  ASSUME IInv, NEW id \in Ids, HandleOwnCopy(id)
  PROVE  IInv'
<1>1. /\ sends[id] > 0 /\ acked' = acked \cup {id}
      /\ credAck' = IF credAck = id THEN NoId ELSE credAck
      /\ UNCHANGED <<wantActive, active, seen, relays, txQueue, own, copies, relayed,
                     forgotten, sends, credentials>>
  BY DEF HandleOwnCopy, Acknowledge, heardOf
<1>2. TypeOK'
  BY <1>1 DEF IInv, TypeOK
<1>3. RingSound' /\ PendingRelayIsAlone' /\ RepeatedOnce'
  BY <1>1 DEF IInv, RingSound, Remembered, Unused, PendingRelayIsAlone, RepeatedOnce
<1>4. OwnSound'
  <2>1. own # NoOwn /\ ~own.retry => own.id # id
    BY <1>1 DEF IInv, OwnSound, TypeOK
  <2> QED
    BY <1>1, <2>1, Markers DEF IInv, OwnSound
<1>5. AwaitedIsUnheard'
  BY <1>1, Markers DEF IInv, TypeOK, AwaitedIsUnheard
<1> QED
  BY <1>2, <1>3, <1>4, <1>5 DEF IInv

----------------------------------------------------------------------------
(* Transmissions *)

LEMMA RelaysSound == IInv /\ ProcessRelays => IInv'
<1> SUFFICES ASSUME IInv, ProcessRelays PROVE IInv'
  OBVIOUS
<1>1. PICK due \in SUBSET (Slots \ Unused), result \in Results :
        \E s \in NextDue(due) :
          /\ relays' = [relays EXCEPT ![s] = IF Postponed(relays[s].tries, result)
                                               THEN [relays[s] EXCEPT !.tries = More(@)] ELSE NoRelay]
          /\ relayed' = IF result = "sent" THEN relayed \cup ({relays[s].packet} \cap Remembered) ELSE relayed
  BY DEF ProcessRelays
<1>2. PICK s \in NextDue(due) :
        /\ relays' = [relays EXCEPT ![s] = IF Postponed(relays[s].tries, result)
                                             THEN [relays[s] EXCEPT !.tries = More(@)] ELSE NoRelay]
        /\ relayed' = IF result = "sent" THEN relayed \cup ({relays[s].packet} \cap Remembered) ELSE relayed
  BY <1>1
<1>3. UNCHANGED <<wantActive, active, seen, txQueue, own, credAck, copies, forgotten,
                  sends, credentials, acked>>
  BY DEF ProcessRelays, sentOwn
<1>4. s \in due /\ s \in Slots /\ relays[s].packet # NoPacket
  BY OneFirst DEF NextDue, FirstOf, Unused
<1>5. /\ relays[s] \in [packet : Packets \cup {NoPacket}, tries : 0..(MaxTries - 1)]
      /\ relays[s].packet \in Packets /\ relays[s].tries \in 0..(MaxTries - 1)
  BY <1>4 DEF IInv, TypeOK
<1>6. /\ 0 \in 0..(MaxTries - 1) /\ NoRelay.packet = NoPacket
      /\ NoRelay \in [packet : Packets \cup {NoPacket}, tries : 0..(MaxTries - 1)]
  BY Sizes DEF NoRelay
<1>7. TypeOK'
  BY <1>2, <1>3, <1>5, <1>6, MoreTries DEF IInv, TypeOK
<1>8. \A t \in Slots : relays'[t].packet # NoPacket =>
        /\ relays'[t].packet = relays[t].packet
        /\ t = s => relayed' = relayed
  BY <1>2, <1>4, <1>5, <1>6 DEF IInv, TypeOK, Postponed
<1>9. RingSound'
  <2>1. Remembered' = Remembered
    BY <1>3 DEF Remembered
  <2> QED
    BY <1>2, <1>3, <1>8, <2>1 DEF IInv, RingSound, Unused
<1>10. PendingRelayIsAlone'
  <2> SUFFICES ASSUME NEW t \in Slots, relays'[t].packet # NoPacket, relays'[t].packet \notin forgotten'
               PROVE  /\ relays'[t].packet \notin relayed' \cup copies'
                      /\ \A u \in Slots \ {t} : relays'[u].packet # relays'[t].packet
    BY DEF PendingRelayIsAlone, Unused
  <2>1. /\ relays'[t].packet = relays[t].packet /\ relays[t].packet # NoPacket
        /\ relays[t].packet \notin relayed \cup copies
        /\ \A u \in Slots \ {t} : relays[u].packet # relays[t].packet
    BY <1>3, <1>8 DEF IInv, PendingRelayIsAlone, Unused
  <2>2. relays'[t].packet \notin relayed' \cup copies'
    BY <1>2, <1>3, <1>4, <1>8, <2>1
  <2>3. \A u \in Slots \ {t} : relays'[u].packet # relays'[t].packet
    BY <1>8, <2>1
  <2> QED
    BY <2>2, <2>3
<1>11. OwnSound' /\ RepeatedOnce' /\ AwaitedIsUnheard'
  BY <1>3 DEF IInv, OwnSound, RepeatedOnce, AwaitedIsUnheard
<1> QED
  BY <1>7, <1>9, <1>10, <1>11 DEF IInv

\* The repetition takes over the awaited credentials.
LEMMA LoadRetrySound == IInv /\ LoadRetry => IInv'
<1> SUFFICES ASSUME IInv, LoadRetry PROVE IInv'
  OBVIOUS
<1>1. /\ credAck # NoId /\ credAck' = NoId
      /\ own' = [id |-> credAck, kind |-> "credentials", tries |-> 0, retry |-> TRUE]
      /\ UNCHANGED <<wantActive, active, seen, relays, txQueue, copies, relayed, forgotten,
                     sends, credentials, acked>>
  BY DEF LoadRetry, history, heardOf, sentOwn
<1>2. TypeOK'
  <2>1. 0 \in 0..(MaxTries - 1)
    BY Sizes
  <2> QED
    BY <1>1, <2>1 DEF IInv, TypeOK, Kinds
<1>3. RingSound' /\ PendingRelayIsAlone' /\ RepeatedOnce'
  BY <1>1 DEF IInv, RingSound, Remembered, Unused, PendingRelayIsAlone, RepeatedOnce
<1>4. OwnSound'
  BY <1>1 DEF IInv, TypeOK, OwnSound
<1>5. AwaitedIsUnheard'
  BY <1>1, Markers DEF IInv, TypeOK, AwaitedIsUnheard
<1> QED
  BY <1>2, <1>3, <1>4, <1>5 DEF IInv

\* A message gets an id whose history begins anew.
LEMMA LoadNextSound == IInv /\ LoadNext => IInv'
<1> SUFFICES ASSUME IInv, LoadNext PROVE IInv'
  OBVIOUS
<1>1. PICK id \in Ids \ {credAck} :
        /\ own' = [id |-> id, kind |-> Head(txQueue), tries |-> 0, retry |-> FALSE]
        /\ seen' = Push(id) /\ copies' = copies \ Falling /\ relayed' = relayed \ Falling
        /\ forgotten' = (forgotten \cup Falling) \cap Waiting
        /\ sends' = [sends EXCEPT ![id] = 0] /\ acked' = acked \ {id}
        /\ credentials' = (credentials \ {id}) \cup (IF Head(txQueue) = "credentials" THEN {id} ELSE {})
  BY DEF LoadNext, MarkSeen
<1>2. /\ txQueue # <<>> /\ txQueue' = Tail(txQueue)
      /\ UNCHANGED <<wantActive, active, relays, credAck>>
  BY DEF LoadNext
<1>3. /\ seen' \in Seq(Packets \cup Ids) /\ Len(seen') <= SeenSize
      /\ Remembered \ Falling \subseteq Remembered'
  BY <1>1, RingKeeps DEF IInv
<1>4. Head(txQueue) \in Kinds /\ Tail(txQueue) \in Seq(Kinds) /\ Len(Tail(txQueue)) <= TxQueueLen
  <2>1. txQueue \in Seq(Kinds) /\ Len(txQueue) \in Nat /\ Len(txQueue) <= TxQueueLen
    BY LenProperties DEF IInv, TypeOK
  <2> QED
    BY <1>2, <2>1, HeadTailProperties, Sizes
<1>5. TypeOK'
  <2>1. 0 \in 0..(MaxTries - 1)
    BY Sizes
  <2> QED
    BY <1>1, <1>2, <1>3, <1>4, <2>1, WaitingSound DEF IInv, TypeOK
<1>6. RingSound'
  BY <1>1, <1>2, <1>3 DEF IInv, RingSound, Unused, Waiting
<1>7. PendingRelayIsAlone'
  BY <1>1, <1>2 DEF IInv, PendingRelayIsAlone, Unused, Waiting
<1>8. /\ sends \in [Ids -> Nat] /\ sends'[id] = 0
      /\ \A x \in Ids : x # id => sends'[x] = sends[x]
  BY <1>1 DEF IInv, TypeOK
<1>9. RepeatedOnce' /\ AwaitedIsUnheard'
  BY <1>1, <1>2, <1>8 DEF IInv, RepeatedOnce, AwaitedIsUnheard
<1>10. OwnSound'
  <2>1. own'.id = id /\ ~own'.retry /\ (id \in credentials' <=> own'.kind = "credentials")
    BY <1>1
  <2>2. credAck \in Ids \cup {NoId}
    BY DEF IInv, TypeOK
  <2> QED
    BY <1>1, <1>2, <1>8, <2>1, <2>2 DEF IInv, OwnSound
<1> QED
  BY <1>5, <1>6, <1>7, <1>9, <1>10 DEF IInv

\* Only the first transmission of credentials leads to a repetition.
LEMMA TransmitSound == IInv /\ TransmitOwn => IInv'
<1> SUFFICES ASSUME IInv, TransmitOwn PROVE IInv'
  OBVIOUS
<1>1. PICK result \in Results :
        /\ own' = IF Postponed(own.tries, result) THEN [own EXCEPT !.tries = More(@)] ELSE NoOwn
        /\ credAck' = IF result = "sent" /\ Awaited(own) THEN own.id ELSE credAck
        /\ sends' = IF result = "sent" THEN [sends EXCEPT ![own.id] = @ + 1] ELSE sends
  BY DEF TransmitOwn
<1>2. /\ own # NoOwn
      /\ UNCHANGED <<wantActive, active, seen, relays, txQueue, copies, relayed, forgotten,
                     credentials, acked>>
  BY DEF TransmitOwn, heardOf
<1>3. /\ own \in [id : Ids \cup {NoId}, kind : Kinds, tries : 0..(MaxTries - 1), retry : BOOLEAN]
      /\ own.id \in Ids /\ own.id # credAck /\ credAck \in Ids \cup {NoId}
      /\ sends \in [Ids -> Nat] /\ sends[own.id] <= (IF own.retry THEN 1 ELSE 0)
      /\ own.retry \in BOOLEAN /\ own.tries \in 0..(MaxTries - 1)
      /\ ~own.retry => own.id \notin acked
      /\ own.id \in credentials <=> own.kind = "credentials"
      /\ own.retry => own.kind = "credentials"
      /\ credAck # NoId => sends[credAck] <= 1 /\ credAck \in credentials
  BY <1>2 DEF IInv, TypeOK, OwnSound
<1>4. /\ own' = NoOwn \/ (result # "sent" /\ own' = [own EXCEPT !.tries = More(@)]
                            /\ More(own.tries) \in 0..(MaxTries - 1))
  BY <1>1, <1>3, MoreTries DEF Postponed
<1>5. NoOwn \in [id : Ids \cup {NoId}, kind : Kinds, tries : 0..(MaxTries - 1), retry : BOOLEAN]
  BY Sizes DEF NoOwn, Kinds
<1>6. TypeOK'
  <2>1. own' \in [id : Ids \cup {NoId}, kind : Kinds, tries : 0..(MaxTries - 1), retry : BOOLEAN]
    BY <1>3, <1>4, <1>5
  <2>2. sends' \in [Ids -> Nat] /\ credAck' \in Ids \cup {NoId}
    BY <1>1, <1>3
  <2> QED
    BY <1>2, <2>1, <2>2 DEF IInv, TypeOK
<1>7. RingSound' /\ PendingRelayIsAlone'
  BY <1>2 DEF IInv, RingSound, Remembered, Unused, PendingRelayIsAlone
<1>8. /\ sends'[own.id] = IF result = "sent" THEN sends[own.id] + 1 ELSE sends[own.id]
      /\ \A x \in Ids : x # own.id => sends'[x] = sends[x]
  BY <1>1, <1>3
<1>9. RepeatedOnce'
  <2>1. sends'[own.id] <= IF own.id \in credentials THEN 2 ELSE 1
    BY <1>3, <1>8
  <2> QED
    BY <1>2, <1>8, <2>1 DEF IInv, RepeatedOnce
<1>10. AwaitedIsUnheard'
  BY <1>1, <1>2, <1>3 DEF IInv, AwaitedIsUnheard, Awaited
<1>11. OwnSound'
  <2>1. own' # NoOwn =>
          /\ own'.id = own.id /\ own'.retry = own.retry /\ own'.kind = own.kind
          /\ result # "sent"
    BY <1>3, <1>4
  <2>2. credAck' # NoId => sends'[credAck'] <= 1 /\ credAck' \in credentials
    <3>1. CASE result = "sent" /\ Awaited(own)
      BY <1>1, <1>3, <1>8, <3>1 DEF Awaited
    <3>2. CASE ~(result = "sent" /\ Awaited(own))
      BY <1>1, <1>3, <1>8, <3>2
    <3> QED
      BY <3>1, <3>2
  <2> QED
    BY <1>1, <1>2, <1>3, <1>8, <2>1, <2>2 DEF OwnSound
<1> QED
  BY <1>6, <1>7, <1>9, <1>10, <1>11 DEF IInv

----------------------------------------------------------------------------

\* Switching, and messages from the main loop.
LEMMA SwitchSound ==
  ASSUME IInv, Activate \/ Deactivate \/ SetActive \/ EnqueueOwn
  PROVE  IInv'
<1> USE DEF history, heardOf, sentOwn
<1>1. CASE Deactivate
  <2>1. /\ relays' = [s \in Slots |-> NoRelay] /\ credAck' = NoId /\ txQueue' = <<>> /\ active' = FALSE
        /\ UNCHANGED <<wantActive, seen, own, copies, relayed, forgotten, sends, credentials, acked>>
    BY <1>1 DEF Deactivate
  <2>2. 0 \in 0..(MaxTries - 1) /\ NoRelay.packet = NoPacket
    BY Sizes DEF NoRelay
  <2>3. TypeOK'
    <3>1. txQueue' \in Seq(Kinds) /\ Len(txQueue') <= TxQueueLen
      BY <2>1, EmptySeq, Sizes
    <3>2. NoRelay \in [packet : Packets \cup {NoPacket}, tries : 0..(MaxTries - 1)]
      BY <2>2 DEF NoRelay
    <3> QED
      BY <2>1, <3>1, <3>2 DEF IInv, TypeOK
  <2>4. RingSound' /\ PendingRelayIsAlone'
    BY <2>1, <2>2 DEF IInv, RingSound, Remembered, Unused, PendingRelayIsAlone
  <2>5. OwnSound' /\ RepeatedOnce' /\ AwaitedIsUnheard'
    BY <2>1, Markers DEF IInv, TypeOK, OwnSound, RepeatedOnce, AwaitedIsUnheard
  <2> QED
    BY <2>3, <2>4, <2>5 DEF IInv
<1>2. CASE Activate \/ SetActive \/ EnqueueOwn
  <2>1. /\ UNCHANGED <<seen, relays, own, credAck, copies, relayed, forgotten, sends, credentials, acked>>
        /\ wantActive' \in BOOLEAN /\ active' \in BOOLEAN
    BY <1>2 DEF Activate, SetActive, EnqueueOwn, IInv, TypeOK
  <2>2. txQueue' \in Seq(Kinds) /\ Len(txQueue') <= TxQueueLen
    <3>1. txQueue \in Seq(Kinds) /\ Len(txQueue) \in Nat /\ Len(txQueue) <= TxQueueLen
      BY LenProperties DEF IInv, TypeOK
    <3>2. \A kind \in Kinds : Append(txQueue, kind) \in Seq(Kinds)
                              /\ Len(Append(txQueue, kind)) = Len(txQueue) + 1
      BY <3>1, AppendProperties
    <3> QED
      BY <1>2, <3>1, <3>2, Sizes DEF Activate, SetActive, EnqueueOwn
  <2>3. TypeOK'
    BY <2>1, <2>2 DEF IInv, TypeOK
  <2> QED
    BY <2>1, <2>3 DEF IInv, RingSound, Remembered, Unused, PendingRelayIsAlone, OwnSound,
                      RepeatedOnce, AwaitedIsUnheard
<1> QED
  BY <1>1, <1>2

LEMMA StepSound == IInv /\ [Next]_vars => IInv'
<1> SUFFICES ASSUME IInv, [Next]_vars PROVE IInv'
  OBVIOUS
<1>1. CASE UNCHANGED vars
  BY <1>1 DEF vars, history, heardOf, sentOwn, IInv, TypeOK, RingSound, Remembered, Unused, PendingRelayIsAlone,
              OwnSound, RepeatedOnce, AwaitedIsUnheard
<1>2. ASSUME NEW p \in Packets, HandleNew(p) \/ HandleCopy(p) PROVE IInv'
  BY <1>2, NewSound, CopySound
<1>3. ASSUME NEW id \in Ids, HandleOwnCopy(id) PROVE IInv'
  BY <1>3, OwnCopySound
<1> QED
  BY <1>1, <1>2, <1>3, RelaysSound, LoadRetrySound, LoadNextSound, TransmitSound, SwitchSound DEF Next

LEMMA Inductive == Spec => []IInv
  BY InitSound, StepSound, PTL DEF Spec

\* Counters, ring, slots and queue keep their bounds (mesh.cpp:529, 594).
THEOREM TypeCorrect == Spec => []TypeOK
  BY Inductive, PTL DEF IInv

\* As long as the ring holds a packet from the moment its relay was scheduled, it is
\* relayed at most once, and only if no other copy was heard (mesh.cpp:453); other
\* packets may push it out of the ring at any moment.
THEOREM RelaysAlone == Spec => []PendingRelayIsAlone
  BY Inductive, PTL DEF IInv

\* No own packet is on the air more than twice, and only credentials twice
\* (README.md:336, mesh.cpp:602).
THEOREM RepeatsOnce == Spec => []RepeatedOnce
  BY Inductive, PTL DEF IInv

\* What waits for its repetition was not heard relayed (mesh.cpp:446); credentials
\* loaded for it already are repeated whatever is heard then.
THEOREM AwaitsUnheard == Spec => []AwaitedIsUnheard
  BY Inductive, PTL DEF IInv

\* A new packet never displaces a waiting relay of the own channel (mesh.cpp:350).
THEOREM SlotKept == Spec => OwnRelayKeepsSlot
<1> DEFINE Kept == \A s \in Slots : relays[s].packet \in OnChannel
                     => relays'[s].packet \in {relays[s].packet, NoPacket}
<1>1. ASSUME TypeOK, [Next]_vars, NEW s \in Slots, relays[s].packet \in OnChannel
      PROVE  relays'[s].packet \in {relays[s].packet, NoPacket}
  <2>1. CASE relays' = relays
    BY <2>1
  <2>2. ASSUME NEW p \in Packets, Schedule(p) PROVE relays'[s] = relays[s]
    <3>1. s \notin SlotFor(p)
      BY <1>1, Markers DEF SlotFor, FirstOf, Unused, Foreign
    <3> QED
      BY <2>2, <3>1 DEF Schedule
  <2>3. ASSUME NEW p \in Packets, CancelRelay(p) PROVE relays'[s] \in {relays[s], NoRelay}
    BY <2>3 DEF CancelRelay
  <2>4. CASE ProcessRelays
    BY <1>1, <2>4 DEF ProcessRelays, TypeOK, NoRelay
  <2>5. CASE Deactivate
    BY <2>5 DEF Deactivate, NoRelay
  <2> QED
    BY <1>1, <2>1, <2>2, <2>3, <2>4, <2>5 DEF Next, HandleNew, HandleCopy, HandleOwnCopy, LoadRetry,
       LoadNext, TransmitOwn, Activate, SetActive, EnqueueOwn, vars, NoRelay
<1>2. TypeOK /\ [Next]_vars => Kept
  BY <1>1
<1>3. TypeOK /\ [Next]_vars => [Kept]_vars
  BY <1>2
<1> QED
  BY <1>3, TypeCorrect, PTL DEF Spec, OwnRelayKeepsSlot

-----------------------------------------------------------------------------
(* Readings of millis() *)

\* A remainder of a number below twice the modulus.
LEMMA ModSmall ==
  ASSUME NEW m \in Nat, m > 0, NEW a \in 0..2 * m - 1
  PROVE  a % m = IF a < m THEN a ELSE a - m
  BY SMT

\* Since is the difference, up to one wrap in between.
LEMMA SinceIs ==
  ASSUME NEW a \in 0..MillisMod - 1, NEW b \in 0..MillisMod - 1
  PROVE  Since(a, b) = IF b <= a THEN a - b ELSE a + MillisMod - b
<1>1. MillisMod \in Nat /\ MillisMod > 0 /\ a \in Nat /\ b \in Nat /\ a < MillisMod /\ b < MillisMod
  BY ClockAssumption
<1>2. a + MillisMod - b \in 0..2 * MillisMod - 1
  BY <1>1
<1>3. (a + MillisMod - b) % MillisMod
        = IF a + MillisMod - b < MillisMod THEN a + MillisMod - b ELSE a + MillisMod - b - MillisMod
  BY <1>1, <1>2, ModSmall
<1> QED
  BY <1>1, <1>3 DEF Since

\* It grows with the time, across a wrap too.
LEMMA SinceGrows ==
  ASSUME NEW a \in 0..MillisMod - 1, NEW b \in 0..MillisMod - 1,
         Since(a, b) + 1 < MillisMod
  PROVE  /\ (a + 1) % MillisMod \in 0..MillisMod - 1
         /\ Since((a + 1) % MillisMod, b) = Since(a, b) + 1
<1>1. MillisMod \in Nat /\ MillisMod > 0 /\ a \in Nat /\ b \in Nat /\ a < MillisMod /\ b < MillisMod
  BY ClockAssumption
<1>2. a + 1 \in 0..2 * MillisMod - 1
  BY <1>1
<1>3. (a + 1) % MillisMod = IF a + 1 < MillisMod THEN a + 1 ELSE a + 1 - MillisMod
  BY <1>1, <1>2, ModSmall
<1>4. (a + 1) % MillisMod \in 0..MillisMod - 1
  BY <1>1, <1>3
<1> QED
  BY <1>1, <1>3, <1>4, SinceIs

-----------------------------------------------------------------------------
(* RxGuard *)

LEMMA GuardNumbers ==
  /\ MillisMod \in Nat /\ MillisMod > 0 /\ MillisMod % 2 = 0
  /\ MaxPacket \in Nat /\ MaxPacket > 0 /\ MaxPacket + MaxPacket < MillisMod
  BY ClockAssumption, RxGuardAssumption, SMT

\* now | 1 is a reading of millis() again, and never 0.
LEMMA OddSound ==
  ASSUME NEW t \in 0..MillisMod - 1
  PROVE  Odd(t) \in 1..MillisMod - 1 /\ Odd(t) \in {t, t + 1}
<1>1. /\ MillisMod \in Nat /\ t \in Nat /\ t < MillisMod
      /\ MillisMod = 2 * (MillisMod \div 2) /\ MillisMod \div 2 \in Nat
      /\ t = 2 * (t \div 2) + (t % 2) /\ t \div 2 \in Nat /\ t % 2 \in {0, 1}
  BY GuardNumbers, SMT
<1>2. CASE t % 2 = 0
  <2>1. t + 1 < MillisMod
    BY <1>1, <1>2, SMT
  <2> QED
    BY <1>1, <1>2, <2>1 DEF Odd
<1>3. CASE t % 2 = 1
  BY <1>1, <1>3 DEF Odd
<1> QED
  BY <1>1, <1>2, <1>3

\* The first look at a header counts as busy only if it takes the time as it is:
\* a time one ahead is almost 2^32 ms ago.
LEMMA FirstLook ==
  ASSUME GuardTypeOK, since = 0, StillReceiving
  PROVE  SinceNow = millis /\ SinceNow # 0 /\ Elapsed = 0
<1>1. /\ MillisMod \in Nat /\ millis \in Nat /\ millis < MillisMod /\ millis \in 0..MillisMod - 1
      /\ MaxPacket \in Nat /\ MaxPacket + MaxPacket < MillisMod
  BY GuardNumbers DEF GuardTypeOK
<1>2. /\ SinceNow \in 0..MillisMod - 1 /\ SinceNow # 0 /\ SinceNow \in {millis, millis + 1}
  BY <1>1, OddSound DEF SinceNow
<1>3. Elapsed = IF SinceNow <= millis THEN millis - SinceNow ELSE millis + MillisMod - SinceNow
  BY <1>1, <1>2, SinceIs DEF Elapsed
<1>4. Elapsed < MaxPacket
  BY DEF StillReceiving
<1>5. SinceNow # millis + 1
  BY <1>1, <1>3, <1>4
<1> QED
  BY <1>1, <1>2, <1>3, <1>5

LEMMA GuardInitSound == GuardInit => GuardIInv
<1>1. 0 \in 0..MaxPacket - 1 /\ 0 \in 0..MillisMod - 1
  BY GuardNumbers
<1> QED
  BY <1>1 DEF GuardInit, GuardIInv, GuardTypeOK, PacketSound, TimedSound

LEMMA HeaderSound == GuardIInv /\ HeaderArrives => GuardIInv'
<1> SUFFICES ASSUME GuardIInv, HeaderArrives PROVE GuardIInv'
  OBVIOUS
<1> USE GuardNumbers DEF GuardIInv, HeaderArrives
<1>1. GuardTypeOK'
  <2>1. rest' \in 0..MaxPacket - 1 /\ air' \in {"none", "packet", "stuck"}
    BY DEF GuardTypeOK
  <2> QED
    BY <2>1 DEF GuardTypeOK
<1>2. PacketSound'
  BY DEF PacketSound
<1>3. TimedSound'
  BY DEF TimedSound
<1> QED
  BY <1>1, <1>2, <1>3

\* Time and the rest of the packet go on together.
LEMMA GuardTickSound == GuardIInv /\ GuardTick => GuardIInv'
<1> SUFFICES ASSUME GuardIInv, GuardTick PROVE GuardIInv'
  OBVIOUS
<1>1. GuardTypeOK /\ PacketSound /\ TimedSound
  BY DEF GuardIInv
<1>2. millis' \in 0..MillisMod - 1
  BY <1>1, GuardNumbers, SMT DEF GuardTypeOK, GuardTick
<1>3. GuardTypeOK' /\ PacketSound'
  <2>1. /\ rest \in Nat /\ rest <= MaxPacket - 1 /\ (air = "packet" => rest >= 1)
        /\ rest' = IF air = "packet" THEN rest - 1 ELSE rest
    BY <1>1, GuardNumbers DEF GuardTypeOK, PacketSound, GuardTick
  <2>2. rest' \in 0..MaxPacket - 1
    BY <2>1, GuardNumbers
  <2>3. air' = "packet" => rest' >= 1
    BY <2>1 DEF GuardTick
  <2>4. air' \in {"none", "packet", "stuck"} /\ dio1Flag' \in BOOLEAN
    BY <1>1 DEF GuardTypeOK, GuardTick
  <2> QED
    BY <1>1, <1>2, <2>2, <2>3, <2>4 DEF GuardTypeOK, PacketSound, GuardTick
<1>4. ASSUME timed' PROVE TimedSound'
  <2>1. timed /\ header /\ header' /\ since' = since /\ since # 0
    BY <1>1, <1>4 DEF TimedSound, GuardTick
  <2>2. CASE air' = "packet"
    <3>1. air = "packet" /\ rest' = rest - 1 /\ rest \in Nat /\ rest >= 1
      BY <1>1, <2>2, GuardNumbers DEF GuardTick, GuardTypeOK, PacketSound
    <3>2. millis \in 0..MillisMod - 1 /\ since \in 0..MillisMod - 1
      BY <1>1 DEF GuardTypeOK
    <3>3. Since(millis, since) \in Nat
      BY <3>2, SinceIs, GuardNumbers
    <3>4. Since(millis, since) + rest < MaxPacket
      BY <1>1, <2>1, <3>1 DEF TimedSound
    <3>5. Since(millis, since) + 1 < MillisMod
      BY <3>1, <3>3, <3>4, GuardNumbers
    <3>6. Since(millis', since') = Since(millis, since) + 1
      BY <2>1, <3>2, <3>5, SinceGrows DEF GuardTick
    <3>7. Since(millis', since') + rest' < MaxPacket
      BY <3>1, <3>3, <3>4, <3>6, GuardNumbers
    <3> QED
      BY <2>1, <3>7 DEF TimedSound
  <2>3. CASE air' # "packet"
    BY <2>1, <2>3 DEF TimedSound
  <2> QED
    BY <2>2, <2>3
<1>5. TimedSound'
  BY <1>4 DEF TimedSound
<1> QED
  BY <1>3, <1>5 DEF GuardIInv

LEMMA HandleRxSound == GuardIInv /\ HandleRx => GuardIInv'
  BY DEF GuardIInv, HandleRx, GuardTypeOK, PacketSound, TimedSound

LEMMA BusySound == GuardIInv /\ Busy => GuardIInv'
<1> SUFFICES ASSUME GuardIInv, Busy PROVE GuardIInv'
  OBVIOUS
<1>1. GuardTypeOK /\ PacketSound /\ TimedSound /\ StillReceiving /\ header
  BY DEF GuardIInv, Busy, StillReceiving
<1>2. /\ millis' = millis /\ air' = air /\ rest' = rest /\ header' = header /\ dio1Flag' = dio1Flag
      /\ since' = SinceNow
  BY DEF Busy, radio
<1>3. timed' \in BOOLEAN /\ (timed' <=> timed \/ since = 0)
  BY DEF Busy
<1>4. CASE since = 0
  <2>1. SinceNow = millis /\ SinceNow # 0 /\ Elapsed = 0
    BY <1>1, <1>4, FirstLook
  <2>2. Since(millis', since') = 0
    BY <1>2, <2>1 DEF Elapsed
  <2>3. GuardTypeOK'
    BY <1>1, <1>2, <1>3, <2>1 DEF GuardTypeOK
  <2>4. air = "packet" => 0 + rest < MaxPacket
    BY <1>1, GuardNumbers DEF GuardTypeOK
  <2>5. TimedSound'
    BY <1>1, <1>2, <2>1, <2>2, <2>4 DEF TimedSound
  <2>6. PacketSound'
    BY <1>1, <1>2 DEF PacketSound
  <2> QED
    BY <2>3, <2>5, <2>6 DEF GuardIInv
<1>5. CASE since # 0
  <2>1. since' = since
    BY <1>2, <1>5 DEF SinceNow
  <2>2. GuardTypeOK'
    BY <1>1, <1>2, <1>3, <2>1 DEF GuardTypeOK
  <2>3. PacketSound'
    BY <1>1, <1>2 DEF PacketSound
  <2>4. TimedSound'
    BY <1>1, <1>2, <1>3, <1>5, <2>1 DEF TimedSound
  <2> QED
    BY <2>2, <2>3, <2>4 DEF GuardIInv
<1> QED
  BY <1>4, <1>5

LEMMA GivenUpSound == GuardIInv /\ (GiveUp \/ Transmit) => GuardIInv'
<1>1. GuardIInv /\ GiveUp => GuardIInv'
  <2>1. 0 \in 0..MaxPacket - 1 /\ 0 \in 0..MillisMod - 1
    BY GuardNumbers
  <2> QED
    BY <2>1 DEF GuardIInv, GiveUp, GuardTypeOK, PacketSound, TimedSound
<1>2. GuardIInv /\ Transmit => GuardIInv'
  BY GuardNumbers DEF GuardIInv, Transmit, radio, GuardTypeOK, PacketSound, TimedSound
<1> QED
  BY <1>1, <1>2

LEMMA GuardStepSound == GuardIInv /\ [GuardNext]_guardVars => GuardIInv'
<1> SUFFICES ASSUME GuardIInv, [GuardNext]_guardVars PROVE GuardIInv'
  OBVIOUS
<1>1. CASE GuardNext
  BY <1>1, HeaderSound, GuardTickSound, HandleRxSound, BusySound, GivenUpSound
     DEF GuardNext, TryTransmit
<1>2. CASE UNCHANGED guardVars
  BY <1>2 DEF guardVars, GuardIInv, GuardTypeOK, PacketSound, TimedSound
<1> QED
  BY <1>1, <1>2

LEMMA GuardInductive == GuardSpec => []GuardIInv
  BY GuardInitSound, GuardStepSound, PTL DEF GuardSpec

\* Once receiving() has taken the time of a packet, that packet is received
\* completely, however often the task tries to transmit and wherever millis()
\* wraps (mesh.cpp:305-317).
THEOREM PacketSurvives == GuardSpec => TimedPacketSurvives
<1>1. GuardIInv /\ [GuardNext]_guardVars => [GiveUp /\ timed => air # "packet"]_guardVars
  <2> SUFFICES ASSUME GuardIInv, GiveUp, timed, air = "packet" PROVE FALSE
    OBVIOUS
  <2>1. GuardTypeOK /\ TimedSound /\ header /\ ~StillReceiving
    BY DEF GuardIInv, GiveUp
  <2>2. since # 0 /\ Since(millis, since) + rest < MaxPacket
    BY <2>1 DEF TimedSound
  <2>3. Elapsed = Since(millis, since)
    BY <2>2 DEF Elapsed, SinceNow
  <2>4. Since(millis, since) \in Nat /\ rest \in Nat
    BY <2>1, SinceIs, GuardNumbers DEF GuardTypeOK
  <2> QED
    BY <2>1, <2>2, <2>3, <2>4, GuardNumbers DEF StillReceiving
<1> QED
  BY <1>1, GuardInductive, PTL DEF GuardSpec, TimedPacketSurvives
=============================================================================

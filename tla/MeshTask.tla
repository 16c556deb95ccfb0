------------------------------ MODULE MeshTask ------------------------------
(***************************************************************************)
(* The mesh task of one tracker (mesh.cpp: handleRx, processRelays,        *)
(* processOwn, meshTask): duplicate suppression, the relay slots, the own  *)
(* packet and its single retry.  Delays, the channel state and the airtime *)
(* budgets are choices here (RxGuard and Airtime model them); what is done *)
(* with a received tracker message is the subject of Gateway.              *)
(***************************************************************************)
EXTENDS Naturals, Sequences, FiniteSets

CONSTANTS
  Packets,      \* other nodes' packets (sender and id)
  OnChannel,    \* those that decrypt to a tracker message
  Ids,          \* packet ids of the own node
  RelaySlots,   \* size of relays[]
  SeenSize,     \* size of seen[]
  TxQueueLen,   \* length of txQueue
  MaxTries,     \* kMaxCadRetries
  TriesMod,     \* tries is a uint8_t: 256
  RelayMode,    \* settings.relayMode
  NoPacket, NoId

ASSUME MeshTaskAssumption ==
  /\ OnChannel \subseteq Packets /\ NoPacket \notin Packets /\ NoId \notin Ids
  /\ RelaySlots \in Nat \ {0} /\ SeenSize \in Nat \ {0} /\ TxQueueLen \in Nat \ {0}
  /\ MaxTries \in Nat \ {0} /\ TriesMod \in Nat /\ TriesMod > MaxTries
  /\ RelayMode \in {"none", "own", "all"}

VARIABLES
  wantActive,   \* set by the main loop
  active,       \* the radio is receiving
  seen,         \* the ring, latest first; own packets take a place too
  relays,       \* relays[]: packet (NoPacket when unused) and tries
  txQueue,      \* kinds of the messages queued by the main loop
  own,          \* processOwn's statics: the own packet under way
  credAck,      \* id of the credentials waiting for a relayed copy
  copies,       \* history: packets heard again while remembered
  relayed,      \* history: packets this node relayed while remembered
  forgotten,    \* history: packets that fell out of the ring while a relay of theirs waited
  sends,        \* history: how often an own packet was sent
  credentials,  \* history: own ids that were given to credentials
  acked         \* history: own ids heard relayed after they were sent

heardOf == <<copies, relayed, forgotten>>
sentOwn == <<sends, credentials, acked>>
history == <<heardOf, sentOwn>>
vars == <<wantActive, active, seen, relays, txQueue, own, credAck, history>>

Slots == 1..RelaySlots
Kinds == {"credentials", "other"}
NoOwn == [id |-> NoId, kind |-> "other", tries |-> 0, retry |-> FALSE]
NoRelay == [packet |-> NoPacket, tries |-> 0]

----------------------------------------------------------------------------
(* handleRx *)

Remembered == {seen[i] : i \in DOMAIN seen}
AlreadySeen(p) == p \in Remembered
Push(e) == SubSeq(<<e>> \o seen, 1, IF Len(seen) < SeenSize THEN Len(seen) + 1 ELSE SeenSize)
Falling == IF Len(seen) < SeenSize THEN {} ELSE {seen[SeenSize]}

Waiting == {relays[s].packet : s \in Slots} \ {NoPacket}

\* markSeen; what falls out of the ring is forgotten, its relay may wait on.
MarkSeen(e) ==
  /\ seen' = Push(e)
  /\ copies' = copies \ Falling /\ relayed' = relayed \ Falling
  /\ forgotten' = (forgotten \cup Falling) \cap Waiting

Unused == {s \in Slots : relays[s].packet = NoPacket}
Foreign == {s \in Slots : relays[s].packet \notin OnChannel \cup {NoPacket}}
FirstOf(S) == {s \in S : \A t \in S : s <= t}

AnySlot(p) == IF Unused # {} THEN FirstOf(Unused) ELSE FirstOf(Slots)
\* scheduleRelay: a free slot, or for an own-channel packet that of a foreign one.
SlotFor(p) ==
  IF Unused # {} THEN FirstOf(Unused)
  ELSE IF p \in OnChannel THEN FirstOf(Foreign) ELSE {}
Schedule(p) ==
  relays' = [s \in Slots |-> IF s \in SlotFor(p) THEN [packet |-> p, tries |-> 0] ELSE relays[s]]

NothingCancelled(p) == UNCHANGED relays
CancelRelay(p) ==
  relays' = [s \in Slots |-> IF relays[s].packet = p THEN NoRelay ELSE relays[s]]

\* Relayed by this mode?  Own-channel positions may be suppressed by a gateway,
\* foreign packets need airtime budget, and either needs a hop left.
MayRelay(p) == RelayMode = "all" \/ (RelayMode = "own" /\ p \in OnChannel)

\* A packet that the ring does not hold, or holds no longer.
HandleNew(p) ==
  /\ active /\ ~AlreadySeen(p)
  /\ MarkSeen(p)
  /\ \/ MayRelay(p) /\ Schedule(p)
     \/ UNCHANGED relays
  /\ UNCHANGED <<wantActive, active, txQueue, own, credAck, sentOwn>>

\* Another copy: from a node that relayed it, or its sender's own retry.
HandleCopy(p) ==
  /\ active /\ AlreadySeen(p)
  /\ CancelRelay(p)
  /\ copies' = copies \cup {p}
  /\ UNCHANGED <<wantActive, active, seen, txQueue, own, credAck, relayed, forgotten, sentOwn>>

AckIgnored(id) == UNCHANGED credAck
\* A relayed copy of our own packet: it reached at least one other node.
Acknowledge(id) == credAck' = IF credAck = id THEN NoId ELSE credAck

HandleOwnCopy(id) ==
  /\ active /\ sends[id] > 0
  /\ Acknowledge(id) /\ acked' = acked \cup {id}
  /\ UNCHANGED <<wantActive, active, seen, relays, txQueue, own, heardOf, sends, credentials>>

----------------------------------------------------------------------------
(* processRelays *)

\* nextDueRelay among the relays that are due now: own channel first.
NextDue(due) ==
  LET mine == {s \in due : relays[s].packet \in OnChannel} IN
    IF mine # {} THEN FirstOf(mine) ELSE FirstOf(due)

Results == {"sent", "busy", "blocked", "failed"}
OnceTooOften(tries, result) == result = "busy" /\ tries < MaxTries
NeverGivesUp(tries, result) == result = "busy"
Postponed(tries, result) == result = "busy" /\ tries + 1 < MaxTries
More(tries) == (tries + 1) % TriesMod

\* One due relay is sent, postponed while the channel is busy, or given up
\* (blocked, failed, too many tries, or no budget for a foreign packet).
ProcessRelays ==
  /\ active
  /\ \E due \in SUBSET (Slots \ Unused), result \in Results :
     \E s \in NextDue(due) :
       LET r == relays[s] IN
         /\ relays' = [relays EXCEPT ![s] = IF Postponed(r.tries, result)
                                              THEN [r EXCEPT !.tries = More(@)] ELSE NoRelay]
         /\ relayed' = IF result = "sent" THEN relayed \cup ({r.packet} \cap Remembered) ELSE relayed
  /\ UNCHANGED <<wantActive, active, seen, txQueue, own, credAck, copies, forgotten, sentOwn>>

----------------------------------------------------------------------------
(* processOwn *)

\* No relay heard in time: the identical packet once more, before other messages.
LoadRetry ==
  /\ active /\ own = NoOwn /\ credAck # NoId
  /\ own' = [id |-> credAck, kind |-> "credentials", tries |-> 0, retry |-> TRUE]
  /\ credAck' = NoId
  /\ UNCHANGED <<wantActive, active, seen, relays, txQueue, history>>

\* The next queued message gets a random id, here one that is not in use.
LoadNext ==
  /\ active /\ own = NoOwn /\ txQueue # <<>>
  /\ \E id \in Ids \ {credAck} :
       /\ ~AlreadySeen(id)
       /\ own' = [id |-> id, kind |-> Head(txQueue), tries |-> 0, retry |-> FALSE]
       /\ MarkSeen(id)
       /\ sends' = [sends EXCEPT ![id] = 0] /\ acked' = acked \ {id}
       /\ credentials' = (credentials \ {id}) \cup
                           (IF Head(txQueue) = "credentials" THEN {id} ELSE {})
  /\ txQueue' = Tail(txQueue)
  /\ UNCHANGED <<wantActive, active, relays, credAck>>

AnyKindAwaited(o) == ~o.retry
\* Only the first transmission of credentials waits for a relayed copy.
Awaited(o) == o.kind = "credentials" /\ ~o.retry

TransmitOwn ==
  /\ active /\ own # NoOwn
  /\ \E result \in Results :
       /\ own' = IF Postponed(own.tries, result) THEN [own EXCEPT !.tries = More(@)] ELSE NoOwn
       /\ credAck' = IF result = "sent" /\ Awaited(own) THEN own.id ELSE credAck
       /\ sends' = IF result = "sent" THEN [sends EXCEPT ![own.id] = @ + 1] ELSE sends
  /\ UNCHANGED <<wantActive, active, seen, relays, txQueue, heardOf, credentials, acked>>

----------------------------------------------------------------------------
(* meshTask switching on and off, and the main loop *)

Activate ==
  /\ wantActive /\ ~active /\ active' = TRUE
  /\ UNCHANGED <<wantActive, seen, relays, txQueue, own, credAck, history>>

\* Everything waiting is dropped, except the packet processOwn has loaded.
Deactivate ==
  /\ ~wantActive /\ active /\ active' = FALSE
  /\ relays' = [s \in Slots |-> NoRelay] /\ credAck' = NoId /\ txQueue' = <<>>
  /\ UNCHANGED <<wantActive, seen, own, history>>

SetActive == wantActive' \in BOOLEAN /\ UNCHANGED <<active, seen, relays, txQueue, own, credAck, history>>

\* enqueue: a full queue drops the message.
EnqueueOwn ==
  /\ wantActive
  /\ \E kind \in Kinds : txQueue' = IF Len(txQueue) < TxQueueLen THEN Append(txQueue, kind) ELSE txQueue
  /\ UNCHANGED <<wantActive, active, seen, relays, own, credAck, history>>

Init ==
  /\ wantActive = FALSE /\ active = FALSE
  /\ seen = <<>> /\ relays = [s \in Slots |-> NoRelay]
  /\ txQueue = <<>> /\ own = NoOwn /\ credAck = NoId
  /\ copies = {} /\ relayed = {} /\ forgotten = {}
  /\ sends = [id \in Ids |-> 0] /\ credentials = {} /\ acked = {}

Next ==
  \/ (\E p \in Packets : HandleNew(p) \/ HandleCopy(p))
  \/ (\E id \in Ids : HandleOwnCopy(id))
  \/ ProcessRelays \/ LoadRetry \/ LoadNext \/ TransmitOwn
  \/ Activate \/ Deactivate \/ SetActive \/ EnqueueOwn

\* The task loops as long as the device runs.
Fairness == WF_vars(TransmitOwn) /\ WF_vars(Activate)

Spec == Init /\ [][Next]_vars /\ Fairness

----------------------------------------------------------------------------
(* What must hold. *)

\* The transmission counters stay below the limit and every packet is one that
\* the task may hold (mesh.cpp:529, 594).
TypeOK ==
  /\ wantActive \in BOOLEAN /\ active \in BOOLEAN
  /\ seen \in Seq(Packets \cup Ids) /\ Len(seen) <= SeenSize
  /\ relays \in [Slots -> [packet : Packets \cup {NoPacket}, tries : 0..(MaxTries - 1)]]
  /\ txQueue \in Seq(Kinds) /\ Len(txQueue) <= TxQueueLen
  /\ own \in [id : Ids \cup {NoId}, kind : Kinds, tries : 0..(MaxTries - 1), retry : BOOLEAN]
  /\ credAck \in Ids \cup {NoId}
  /\ copies \subseteq Packets /\ relayed \subseteq Packets /\ forgotten \subseteq Packets
  /\ sends \in [Ids -> Nat] /\ credentials \subseteq Ids /\ acked \subseteq Ids

\* A waiting relay whose packet the ring has held all along is the only one of its
\* packet, nobody was heard sending the packet again, and this node has not relayed
\* it: as long as the ring holds a packet it is relayed at most once, by a node that
\* is alone with it (the duplicate filter and cancelRelay, mesh.cpp:453).  When
\* SeenSize packets arrive while a relay waits, the next copy is new again: it
\* cancels nothing, and a second relay may be scheduled.
PendingRelayIsAlone ==
  \A s \in Slots \ Unused : LET p == relays[s].packet IN p \notin forgotten =>
    /\ p \notin relayed \cup copies
    /\ \A t \in Slots \ {s} : relays[t].packet # p

\* No newly received packet takes the slot of an own-channel relay that waits
\* (scheduleRelay, mesh.cpp:350).
OwnRelayKeepsSlot ==
  [][\A s \in Slots : relays[s].packet \in OnChannel
       => relays'[s].packet \in {relays[s].packet, NoPacket}]_vars

\* An own packet is on the air at most twice, and only credentials are repeated
\* (README.md:336, "einmal erneut").
RepeatedOnce == \A id \in Ids : sends[id] <= IF id \in credentials THEN 2 ELSE 1

\* Credentials wait for their repetition only while no other node was heard
\* relaying them (mesh.cpp:446).  A copy heard when the repetition is loaded
\* already, and waits for a free channel, does not stop it.
AwaitedIsUnheard == credAck \notin acked

\* A loaded own packet leaves processOwn, sent or given up, or the radio is
\* switched off: a busy channel does not hold it back for ever (mesh.cpp:594).
OwnPacketLeaves == own # NoOwn ~> own = NoOwn \/ ~active

----------------------------------------------------------------------------
(* The inductive invariant behind the safety properties; see MeshProofs *)

\* What the histories hold is remembered by the ring, what waits is or was.
RingSound ==
  /\ \A s \in Slots \ Unused : relays[s].packet \in Remembered \cup forgotten
  /\ copies \cup relayed \subseteq Remembered

\* An own packet that is loaded or awaited has not been sent too often yet.
OwnSound ==
  /\ own # NoOwn =>
       /\ own.id \in Ids /\ own.id # credAck
       /\ sends[own.id] <= (IF own.retry THEN 1 ELSE 0)
       /\ ~own.retry => own.id \notin acked
       /\ own.id \in credentials <=> own.kind = "credentials"
       /\ own.retry => own.kind = "credentials"
  /\ credAck # NoId => sends[credAck] <= 1 /\ credAck \in credentials

IInv ==
  /\ TypeOK /\ RingSound /\ OwnSound
  /\ PendingRelayIsAlone /\ RepeatedOnce /\ AwaitedIsUnheard
=============================================================================

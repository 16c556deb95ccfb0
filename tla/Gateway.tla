------------------------------ MODULE Gateway ------------------------------
(***************************************************************************)
(* The gateway role of a tracker: gateway.cpp (URL cache, NVS copy,        *)
(* forwarding over HTTP) together with the part of mesh.cpp it shares      *)
(* state with (handleRx's decision not to relay a position, the receive    *)
(* queue, the table of deliverable trackers).                              *)
(*                                                                         *)
(* Two actors run concurrently: the mesh task (core 0) receives packets,   *)
(* decides whether to relay a position and queues it; the main loop        *)
(* (core 1) drains the queue, caches URLs and posts positions.  A power    *)
(* failure or restart may come between any two steps; only NVS survives.   *)
(*                                                                         *)
(* An action ends where another actor, or a crash, can tell the            *)
(* difference.  The cache belongs to the main loop alone, so its updates   *)
(* up to and including the next shared access or NVS write are one step.   *)
(* Timestamps (LRU order, request gap) are the subject of GatewayLru; here *)
(* any entry may be the victim when the cache is full.                     *)
(***************************************************************************)
EXTENDS Naturals, Sequences, FiniteSets

CONSTANTS
  Nodes,        \* node numbers of the other trackers
  Urls,         \* request URLs
  Hashes,       \* 16-bit URL hashes
  TrackerUrls,  \* the URLs a tracker is ever configured with
  HashOf,       \* urlHash(); different URLs may collide
  CacheSize,    \* kCacheSize
  MaxHeard,     \* kMaxHeard, the size of the deliverable table
  RxQueueLen,   \* length of rxQueue
  NoNode, NoUrl, NoHash, NoMsg

ASSUME GatewayAssumption ==
  /\ NoNode \notin Nodes /\ NoUrl \notin Urls /\ NoHash \notin Hashes
  /\ TrackerUrls \in [Nodes -> SUBSET Urls]
  /\ HashOf \in [Urls -> Hashes]
  /\ CacheSize \in Nat \ {0} /\ MaxHeard \in Nat /\ CacheSize <= MaxHeard
  /\ RxQueueLen \in Nat \ {0}

Slots == 1..CacheSize

\* What trackers send: one of their URLs with its hash (decodeCredentials
\* checks it), or a position that carries only the hash of the current URL.
Credentials(n, u) == [type |-> "credentials", from |-> n, url |-> u, hash |-> HashOf[u]]
Position(n, u) == [type |-> "position", from |-> n, url |-> NoUrl, hash |-> HashOf[u]]
Sent(n) == UNION {{Credentials(n, u), Position(n, u)} : u \in TrackerUrls[n]}
Message == UNION {Sent(n) : n \in Nodes}

ASSUME NoMsgAssumption == NoMsg \notin Message

VARIABLES
  cache,         \* gateway::cache
  deliverable,   \* mesh::deliverable: node -> hash, NoHash if not listed
  nvsUrl,        \* NVS strings "u<node>"
  nvsIndex,      \* NVS blob "nodes"
  rxQueue,       \* mesh::rxQueue
  uplinkOnline,  \* mesh::uplinkOnline
  forward,       \* the main loop's argument of gateway::loop
  mainPc, mainMsg,   \* the main loop and the message it handles
  meshPc, meshMsg, meshSuppressed,   \* the mesh task and its packet
  lastPost       \* history: outcome of the last POST to the node's cached URL

nvs == <<nvsUrl, nvsIndex>>
main == <<mainPc, mainMsg>>
mesh == <<meshPc, meshMsg, meshSuppressed>>
vars == <<cache, deliverable, nvs, rxQueue, uplinkOnline, forward, main, mesh, lastPost>>

----------------------------------------------------------------------------
(* Helpers of gateway.cpp and mesh.cpp *)

Entry == [node : Nodes \cup {NoNode}, url : Urls \cup {NoUrl}, hash : Hashes \cup {NoHash}]
EmptyEntry == [node |-> NoNode, url |-> NoUrl, hash |-> NoHash]

\* find()
EntriesOf(n) == {s \in Slots : cache[s].node = n}
Cached(n) == EntriesOf(n) # {}

AnySlot == Slots
\* The slots findOrCreate may take: the first free one, else a used one.
Free == {s \in Slots : cache[s].node = NoNode}
Victims == IF Free # {} THEN {s \in Free : \A t \in Free : s <= t} ELSE Slots

\* What begin() loads for slot s.
Loaded(s) ==
  LET n == nvsIndex[s] IN
    IF n # NoNode /\ nvsUrl[n] # NoUrl
      THEN [node |-> n, url |-> nvsUrl[n], hash |-> HashOf[nvsUrl[n]]]
      ELSE EmptyEntry

\* setDeliverable takes the node's own slot or a free one, or does nothing.
Listed == {n \in Nodes : deliverable[n] # NoHash}
WithDeliverable(n, h) ==
  IF n \in Listed \/ Cardinality(Listed) < MaxHeard
    THEN [deliverable EXCEPT ![n] = h] ELSE deliverable

NotCleared(n) == deliverable
\* clearDeliverable; n may be the NoNode of an unused slot.
WithoutDeliverable(n) == [x \in Nodes |-> IF x = n THEN NoHash ELSE deliverable[x]]

PushUnbounded(m) == Append(rxQueue, m)
\* xQueueSend without waiting: a full queue drops the message.
Push(m) == IF Len(rxQueue) < RxQueueLen THEN Append(rxQueue, m) ELSE rxQueue

----------------------------------------------------------------------------
(* The mesh task: handleRx, canDeliver, handleTrackerMessage *)

ToQueue(suppressed) == meshPc' = "enqueue" /\ meshSuppressed' = suppressed

\* A new packet on the own channel.  A relayable position may be suppressed if
\* the gateway counts as online; anything else is treated as usual.
MeshReceive ==
  /\ meshPc = "listen"
  /\ \E m \in Message :
       /\ meshMsg' = m
       /\ \/ ToQueue(FALSE)
          \/ /\ m.type = "position" /\ uplinkOnline
             /\ meshPc' = "space" /\ UNCHANGED meshSuppressed
  /\ UNCHANGED <<cache, deliverable, nvs, rxQueue, uplinkOnline, forward, main, lastPost>>

SpaceUnchecked ==
  /\ meshPc = "space" /\ meshPc' = "known" /\ UNCHANGED meshSuppressed
  /\ UNCHANGED <<meshMsg, cache, deliverable, nvs, rxQueue, uplinkOnline, forward, main, lastPost>>

\* canDeliver, first check: a full queue would drop the position.
CheckSpace ==
  /\ meshPc = "space"
  /\ IF Len(rxQueue) < RxQueueLen
       THEN meshPc' = "known" /\ UNCHANGED meshSuppressed
       ELSE ToQueue(FALSE)
  /\ UNCHANGED <<meshMsg, cache, deliverable, nvs, rxQueue, uplinkOnline, forward, main, lastPost>>

\* canDeliver, second check: the sender is listed with the position's hash.
CheckKnown ==
  /\ meshPc = "known"
  /\ ToQueue(deliverable[meshMsg.from] = meshMsg.hash)
  /\ UNCHANGED <<meshMsg, cache, deliverable, nvs, rxQueue, uplinkOnline, forward, main, lastPost>>

\* handleTrackerMessage
Enqueue ==
  /\ meshPc = "enqueue"
  /\ rxQueue' = Push(meshMsg)
  /\ meshPc' = "listen" /\ meshMsg' = NoMsg /\ meshSuppressed' = FALSE
  /\ UNCHANGED <<cache, deliverable, nvs, uplinkOnline, forward, main, lastPost>>

MeshStep == MeshReceive \/ CheckSpace \/ CheckKnown \/ Enqueue

----------------------------------------------------------------------------
(* The main loop: loopMesh and gateway::loop *)

Goto(pc) == mainPc' = pc /\ mainMsg' = NoMsg
Handling(type) == mainPc = "handle" /\ mainMsg.type = type

\* loopMesh: the uplink only counts as online in gateway mode with WiFi, which
\* is also when positions are forwarded.
LoopStart ==
  /\ mainPc = "top" /\ Goto("drain")
  /\ \E f, o \in BOOLEAN : (o => f) /\ forward' = f /\ uplinkOnline' = o
  /\ UNCHANGED <<cache, deliverable, nvs, rxQueue, mesh, lastPost>>

\* gateway::loop takes the next message; with none left the loop starts over.
Receive ==
  /\ mainPc = "drain"
  /\ IF rxQueue = <<>>
       THEN Goto("top") /\ UNCHANGED rxQueue
       ELSE mainPc' = "handle" /\ mainMsg' = Head(rxQueue) /\ rxQueue' = Tail(rxQueue)
  /\ UNCHANGED <<cache, deliverable, nvs, uplinkOnline, forward, mesh, lastPost>>

\* Not forwarding, or the fix is more than kMaxPositionAgeSec old (whether it
\* is depends on two GPS clocks, so it always may be).
DropPosition ==
  /\ Handling("position") /\ Goto("drain")
  /\ UNCHANGED <<cache, deliverable, nvs, rxQueue, uplinkOnline, forward, mesh, lastPost>>

NvsKept(v) == nvsUrl
\* An evicted entry that has a URL loses its NVS string.
NvsWithout(v) ==
  IF cache[v].url # NoUrl THEN [nvsUrl EXCEPT ![cache[v].node] = NoUrl] ELSE nvsUrl

Reassigned(v, n) == [cache[v] EXCEPT !.node = n]
\* The slot starts over for its new node.
NewEntry(v, n) == [EmptyEntry EXCEPT !.node = n]

\* findOrCreate for a node without entry, on behalf of storeCredentials or of
\* askForCredentials.
CreateEntry ==
  /\ mainPc = "handle" /\ ~Cached(mainMsg.from)
  /\ mainMsg.type = "position" => forward
  /\ \E v \in Victims :
       /\ deliverable' = WithoutDeliverable(cache[v].node)
       /\ nvsUrl' = NvsWithout(v)
       /\ cache' = [cache EXCEPT ![v] = NewEntry(v, mainMsg.from)]
       /\ lastPost' = [n \in Nodes |-> IF n \in {cache[v].node, mainMsg.from}
                                         THEN "untried" ELSE lastPost[n]]
  /\ UNCHANGED <<nvsIndex, rxQueue, uplinkOnline, forward, main, mesh>>

\* storeCredentials, nothing new
StoreKnown ==
  /\ Handling("credentials") /\ Goto("drain")
  /\ \E s \in EntriesOf(mainMsg.from) : cache[s].hash = mainMsg.hash /\ cache[s].url = mainMsg.url
  /\ UNCHANGED <<cache, deliverable, nvs, rxQueue, uplinkOnline, forward, mesh, lastPost>>

\* storeCredentials, a new URL: deliverable at once, then the NVS string ...
StoreNew ==
  /\ Handling("credentials")
  /\ \E s \in EntriesOf(mainMsg.from) :
       /\ ~(cache[s].hash = mainMsg.hash /\ cache[s].url = mainMsg.url)
       /\ cache' = [cache EXCEPT ![s] = [@ EXCEPT !.url = mainMsg.url, !.hash = mainMsg.hash]]
  /\ deliverable' = WithDeliverable(mainMsg.from, mainMsg.hash)
  /\ nvsUrl' = [nvsUrl EXCEPT ![mainMsg.from] = mainMsg.url]
  /\ lastPost' = [lastPost EXCEPT ![mainMsg.from] = "untried"]
  /\ mainPc' = "saveIndex"
  /\ UNCHANGED <<mainMsg, nvsIndex, rxQueue, uplinkOnline, forward, mesh>>

\* ... and saveIndex.
SaveIndex ==
  /\ mainPc = "saveIndex" /\ Goto("drain")
  /\ nvsIndex' = [s \in Slots |-> IF cache[s].url # NoUrl THEN cache[s].node ELSE NoNode]
  /\ UNCHANGED <<cache, deliverable, nvsUrl, rxQueue, uplinkOnline, forward, mesh, lastPost>>

\* forwardPosition with no usable URL: askForCredentials (GatewayLru has the
\* gap between requests).
AskForCredentials ==
  /\ Handling("position") /\ forward /\ Goto("drain")
  /\ \E s \in EntriesOf(mainMsg.from) : cache[s].url = NoUrl \/ cache[s].hash # mainMsg.hash
  /\ UNCHANGED <<cache, deliverable, nvs, rxQueue, uplinkOnline, forward, mesh, lastPost>>

\* forwardPosition begins an HTTP request, which blocks the main loop.
StartPost ==
  /\ Handling("position") /\ forward
  /\ \E s \in EntriesOf(mainMsg.from) : cache[s].url # NoUrl /\ cache[s].hash = mainMsg.hash
  /\ mainPc' = "post"
  /\ UNCHANGED <<mainMsg, cache, deliverable, nvs, rxQueue,
                 uplinkOnline, forward, mesh, lastPost>>

\* After a POST gateway::loop returns, whatever the outcome.
PostSucceeds ==
  /\ mainPc = "post" /\ Goto("top")
  /\ \E s \in EntriesOf(mainMsg.from) :
       deliverable' = WithDeliverable(mainMsg.from, cache[s].hash)
  /\ lastPost' = [lastPost EXCEPT ![mainMsg.from] = "works"]
  /\ UNCHANGED <<cache, nvs, rxQueue, uplinkOnline, forward, mesh>>

FailureIgnored ==
  /\ mainPc = "post" /\ Goto("top")
  /\ lastPost' = [lastPost EXCEPT ![mainMsg.from] = "fails"]
  /\ UNCHANGED <<deliverable, cache, nvs, rxQueue, uplinkOnline, forward, mesh>>

PostFails ==
  /\ mainPc = "post" /\ Goto("top")
  /\ deliverable' = WithoutDeliverable(mainMsg.from)
  /\ lastPost' = [lastPost EXCEPT ![mainMsg.from] = "fails"]
  /\ UNCHANGED <<cache, nvs, rxQueue, uplinkOnline, forward, mesh>>

MainStep ==
  \/ LoopStart \/ Receive
  \/ DropPosition \/ CreateEntry \/ StoreKnown \/ StoreNew \/ SaveIndex
  \/ AskForCredentials \/ StartPost \/ PostSucceeds \/ PostFails

----------------------------------------------------------------------------

\* begin() after power-up with what NVS holds.
RamAfterBoot ==
  /\ cache' = [s \in Slots |-> Loaded(s)]
  /\ deliverable' = [n \in Nodes |->
        IF \E s \in Slots : Loaded(s).node = n THEN HashOf[nvsUrl[n]] ELSE NoHash]
  /\ rxQueue' = <<>> /\ uplinkOnline' = FALSE /\ forward' = FALSE
  /\ Goto("top")
  /\ meshPc' = "listen" /\ meshMsg' = NoMsg /\ meshSuppressed' = FALSE
  /\ lastPost' = [n \in Nodes |-> "untried"]

\* Power loss, restart after saving the settings, or an update.
Restart == RamAfterBoot /\ UNCHANGED nvs

Init ==
  /\ cache = [s \in Slots |-> EmptyEntry]
  /\ deliverable = [n \in Nodes |-> NoHash]
  /\ nvsUrl = [n \in Nodes |-> NoUrl] /\ nvsIndex = [s \in Slots |-> NoNode]
  /\ rxQueue = <<>> /\ uplinkOnline = FALSE /\ forward = FALSE
  /\ mainPc = "top" /\ mainMsg = NoMsg
  /\ meshPc = "listen" /\ meshMsg = NoMsg /\ meshSuppressed = FALSE
  /\ lastPost = [n \in Nodes |-> "untried"]

Next == MeshStep \/ MainStep \/ Restart

Spec == Init /\ [][Next]_vars

----------------------------------------------------------------------------
(* Properties *)

\* Every variable has its type: the receive queue never exceeds its length,
\* each actor has a message exactly while it works on one.
TypeOK ==
  /\ cache \in [Slots -> Entry]
  /\ deliverable \in [Nodes -> Hashes \cup {NoHash}]
  /\ nvsUrl \in [Nodes -> Urls \cup {NoUrl}]
  /\ nvsIndex \in [Slots -> Nodes \cup {NoNode}]
  /\ rxQueue \in Seq(Message) /\ Len(rxQueue) <= RxQueueLen
  /\ uplinkOnline \in BOOLEAN /\ forward \in BOOLEAN
  /\ mainPc \in {"top", "drain", "handle", "saveIndex", "post"}
  /\ IF mainPc \in {"top", "drain"} THEN mainMsg = NoMsg ELSE mainMsg \in Message
  /\ meshPc \in {"listen", "space", "known", "enqueue"}
  /\ IF meshPc = "listen" THEN meshMsg = NoMsg ELSE meshMsg \in Message
  /\ meshSuppressed \in BOOLEAN
  /\ lastPost \in [Nodes -> {"untried", "works", "fails"}]

\* The mesh task suppresses relays only for trackers whose URL the gateway has
\* in its cache, under the hash it lists for them (mesh.cpp:120): eviction, a
\* changed URL and a restart all keep the two tables in step.
DeliverableIsCached ==
  \A n \in Nodes : deliverable[n] # NoHash =>
    \E s \in EntriesOf(n) : cache[s].url # NoUrl /\ cache[s].hash = deliverable[n]

\* setDeliverable never finds the table full: a tracker whose new URL was just
\* stored is listed with it, however many trackers came and went before.
NewUrlIsDeliverable ==
  mainPc = "saveIndex" => deliverable[mainMsg.from] = mainMsg.hash

\* A position is posted only to a URL its own sender announced, and one that
\* has the hash in the position, even if URLs of different trackers collide.
PostGoesToOwnUrl ==
  mainPc = "post" =>
    \A s \in EntriesOf(mainMsg.from) :
      /\ cache[s].url \in TrackerUrls[mainMsg.from]
      /\ HashOf[cache[s].url] = mainMsg.hash

\* A position that is not relayed finds its place in the receive queue ("A full
\* queue would drop the position, so it must still be relayed", mesh.cpp:420),
\* although the check and the send are separate steps.
SuppressedFitsQueue ==
  meshPc = "enqueue" /\ meshSuppressed => Len(rxQueue) < RxQueueLen

\* After a failed POST the tracker's positions are relayed again until a POST
\* succeeds, its URL changes, or its entry starts over (gateway.cpp:129).
FailingIsRelayed ==
  \A n \in Nodes : lastPost[n] = "fails" => deliverable[n] = NoHash

\* The URL that begin() would restore for a node, and the one cached for it
\* now: sets of at most one URL.
Restorable(n) == {u \in Urls : nvsUrl[n] = u /\ \E s \in Slots : nvsIndex[s] = n}
Known(n) == {u \in Urls : \E s \in EntriesOf(n) : cache[s].url = u}

\* At every step a restart would restore exactly the URLs in the cache: none is
\* lost, none outlives its eviction, none is out of date.  Only the URL being
\* stored may be missing (gateways keep URLs over a restart, README.md:217).
RestartRestoresCache ==
  \A n \in Nodes :
    \/ Restorable(n) = Known(n)
    \/ mainPc = "saveIndex" /\ n = mainMsg.from /\ Restorable(n) = {}

----------------------------------------------------------------------------
(* The gateway as an address book *)

\* The cache as a map, and the nodes whose URL begin() would restore.
CachedNodes == {n \in Nodes : Cached(n)}
UrlInCache(n) == cache[CHOOSE s \in EntriesOf(n) : TRUE].url
BookOf == [n \in CachedNodes |-> UrlInCache(n)]
StoredOf == {n \in Nodes : Restorable(n) # {}}

Book == INSTANCE KnownUrls WITH
  Trackers <- Nodes, Announced <- TrackerUrls, Capacity <- CacheSize,
  book <- BookOf, stored <- StoredOf

\* Cache, NVS strings and index together are one address book, whatever step a
\* power failure hits: a newcomer costs one entry of a full cache and its NVS
\* string (gateway.cpp:55-75), and a restart brings back every URL but perhaps
\* the one that storeCredentials was writing (gateway.cpp:77-89, 149-157).
ImplementsKnownUrls == Book!Spec

----------------------------------------------------------------------------
(* The inductive invariant behind these properties; see GatewayProofs *)

\* A node has one entry at most; a URL in the cache is one its node announced.
CacheSound ==
  /\ \A s, t \in Slots : cache[s].node # NoNode /\ cache[s].node = cache[t].node => s = t
  /\ \A s \in Slots : cache[s].url # NoUrl =>
       /\ cache[s].node \in Nodes
       /\ cache[s].url \in TrackerUrls[cache[s].node]
       /\ cache[s].hash = HashOf[cache[s].url]

\* The same of the NVS copy.
NvsSound ==
  /\ \A s, t \in Slots : nvsIndex[s] # NoNode /\ nvsIndex[s] = nvsIndex[t] => s = t
  /\ \A n \in Nodes : nvsUrl[n] # NoUrl => nvsUrl[n] \in TrackerUrls[n]

\* What the main loop knows about the message it handles.
HandlerSound ==
  /\ mainPc = "post" => \E s \in EntriesOf(mainMsg.from) :
       cache[s].url # NoUrl /\ cache[s].hash = mainMsg.hash
  /\ mainPc = "saveIndex" =>
       /\ mainMsg.type = "credentials" /\ nvsUrl[mainMsg.from] = mainMsg.url
       /\ \E s \in EntriesOf(mainMsg.from) : cache[s].url = mainMsg.url
  /\ meshPc = "known" => Len(rxQueue) < RxQueueLen

\* Inductive: together the parts survive every step.
IInv ==
  /\ TypeOK /\ CacheSound /\ NvsSound /\ HandlerSound
  /\ DeliverableIsCached /\ NewUrlIsDeliverable /\ SuppressedFitsQueue
  /\ FailingIsRelayed /\ RestartRestoresCache

=============================================================================

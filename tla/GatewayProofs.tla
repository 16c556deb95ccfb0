--------------------------- MODULE GatewayProofs ---------------------------
(* Proofs about Gateway, for any number of trackers, URLs and cache slots.  *)
EXTENDS Gateway, SequenceTheorems, FiniteSetTheorems, TLAPS

USE GatewayAssumption, NoMsgAssumption DEF Slots

\* A message is one of its sender's URLs, or a position with the hash of one.
LEMMA MessageShape ==
  ASSUME NEW m \in Message
  PROVE  /\ m.from \in Nodes /\ m.hash \in Hashes /\ m.url \in Urls \cup {NoUrl}
         /\ m.type \in {"credentials", "position"}
         /\ m.type = "credentials" =>
              m.url \in Urls /\ m.url \in TrackerUrls[m.from] /\ m.hash = HashOf[m.url]
  <1>1. PICK n \in Nodes : m \in Sent(n)
    BY DEF Message
  <1>2. PICK u \in TrackerUrls[n] : m \in {Credentials(n, u), Position(n, u)}
    BY <1>1 DEF Sent
  <1>3. u \in Urls /\ HashOf[u] \in Hashes
    OBVIOUS
  <1>. QED
    BY <1>2, <1>3 DEF Credentials, Position

\* xQueueSend keeps the queue well-typed and within its length.
LEMMA PushType ==
  ASSUME TypeOK, NEW m \in Message
  PROVE  Push(m) \in Seq(Message) /\ Len(Push(m)) <= RxQueueLen
  <1>1. rxQueue \in Seq(Message) /\ Len(rxQueue) \in Nat /\ Len(rxQueue) <= RxQueueLen
    BY LenProperties DEF TypeOK
  <1>2. Append(rxQueue, m) \in Seq(Message) /\ Len(Append(rxQueue, m)) = Len(rxQueue) + 1
    BY <1>1, AppendProperties
  <1>. QED
    BY <1>1, <1>2 DEF Push

\* xQueueReceive keeps them too, and what it returns is a genuine message.
LEMMA PopType ==
  ASSUME TypeOK, rxQueue # <<>>
  PROVE  Head(rxQueue) \in Message /\ Tail(rxQueue) \in Seq(Message) /\ Len(Tail(rxQueue)) <= RxQueueLen
  <1>1. rxQueue \in Seq(Message) /\ Len(rxQueue) \in Nat /\ Len(rxQueue) <= RxQueueLen
    BY LenProperties DEF TypeOK
  <1>. QED
    BY <1>1, HeadTailProperties

----------------------------------------------------------------------------

\* The types hold after power-up with an empty NVS.
LEMMA TypeInit == Init => TypeOK
  <1> SUFFICES ASSUME Init PROVE TypeOK
    OBVIOUS
  <1>1. EmptyEntry \in Entry
    BY DEF EmptyEntry, Entry
  <1>2. rxQueue \in Seq(Message) /\ Len(rxQueue) <= RxQueueLen
    BY DEF Init
  <1>. QED
    BY <1>1, <1>2 DEF Init, TypeOK

\* The steps of the mesh task keep the types.
LEMMA TypeMesh == TypeOK /\ MeshStep => TypeOK'
  <1> SUFFICES ASSUME TypeOK, MeshStep PROVE TypeOK'
    OBVIOUS
  <1>1. CASE MeshReceive
    BY <1>1 DEF TypeOK, MeshReceive, ToQueue, main, nvs
  <1>2. CASE CheckSpace
    BY <1>2 DEF TypeOK, CheckSpace, ToQueue, main, nvs
  <1>3. CASE CheckKnown
    BY <1>3 DEF TypeOK, CheckKnown, ToQueue, main, nvs
  <1>4. CASE Enqueue
    <2>1. Push(meshMsg) \in Seq(Message) /\ Len(Push(meshMsg)) <= RxQueueLen
      BY <1>4, PushType DEF TypeOK, Enqueue
    <2>. QED
      BY <1>4, <2>1 DEF TypeOK, Enqueue, main, nvs
  <1>. QED
    BY <1>1, <1>2, <1>3, <1>4 DEF MeshStep

\* The steps of the main loop keep the types.
LEMMA TypeMain == TypeOK /\ MainStep => TypeOK'
  <1> SUFFICES ASSUME TypeOK, MainStep PROVE TypeOK'
    OBVIOUS
  <1> USE DEF Goto, Handling, mesh, nvs
  <1>1. CASE LoopStart
    BY <1>1 DEF TypeOK, LoopStart
  <1>2. CASE Receive
    <2>1. CASE rxQueue = <<>>
      BY <1>2, <2>1 DEF TypeOK, Receive
    <2>2. CASE rxQueue # <<>>
      BY <1>2, <2>2, PopType DEF TypeOK, Receive
    <2>. QED
      BY <2>1, <2>2
  <1>3. CASE DropPosition
    BY <1>3 DEF TypeOK, DropPosition
  <1>4. CASE CreateEntry
    <2>1. PICK v \in Slots :
            /\ deliverable' = WithoutDeliverable(cache[v].node)
            /\ nvsUrl' = NvsWithout(v)
            /\ cache' = [cache EXCEPT ![v] = NewEntry(v, mainMsg.from)]
            /\ lastPost' = [n \in Nodes |-> IF n \in {cache[v].node, mainMsg.from}
                                              THEN "untried" ELSE lastPost[n]]
      BY <1>4 DEF CreateEntry, Victims, Free
    <2>2. mainMsg.from \in Nodes
      BY <1>4, MessageShape DEF TypeOK, CreateEntry
    <2>3. cache' \in [Slots -> Entry]
      BY <2>1, <2>2 DEF TypeOK, NewEntry, EmptyEntry, Entry
    <2>4. deliverable' \in [Nodes -> Hashes \cup {NoHash}]
      BY <2>1 DEF TypeOK, WithoutDeliverable
    <2>5. nvsUrl' \in [Nodes -> Urls \cup {NoUrl}]
      BY <2>1 DEF TypeOK, NvsWithout
    <2>6. lastPost' \in [Nodes -> {"untried", "works", "fails"}]
      BY <2>1 DEF TypeOK
    <2>. QED
      BY <1>4, <2>3, <2>4, <2>5, <2>6 DEF TypeOK, CreateEntry, main
  <1>5. CASE StoreKnown
    BY <1>5 DEF TypeOK, StoreKnown
  <1>6. CASE StoreNew
    <2>1. mainMsg \in Message
      BY <1>6 DEF TypeOK, StoreNew
    <2>2. PICK s \in Slots :
            cache' = [cache EXCEPT ![s] = [@ EXCEPT !.url = mainMsg.url, !.hash = mainMsg.hash]]
      BY <1>6 DEF StoreNew, EntriesOf
    <2>3. cache' \in [Slots -> Entry]
      <3>1. [cache[s] EXCEPT !.url = mainMsg.url, !.hash = mainMsg.hash] \in Entry
        <4>1. cache[s] \in Entry /\ mainMsg.url \in Urls \cup {NoUrl} /\ mainMsg.hash \in Hashes
          BY <2>1, MessageShape DEF TypeOK
        <4>. QED
          BY <4>1 DEF Entry
      <3>. QED
        BY <2>2, <3>1 DEF TypeOK
    <2>4. deliverable' \in [Nodes -> Hashes \cup {NoHash}]
      BY <1>6, <2>1, MessageShape DEF TypeOK, StoreNew, WithDeliverable
    <2>5. nvsUrl' \in [Nodes -> Urls \cup {NoUrl}]
      BY <1>6, <2>1, MessageShape DEF TypeOK, StoreNew
    <2>. QED
      BY <1>6, <2>1, <2>3, <2>4, <2>5 DEF TypeOK, StoreNew
  <1>7. CASE SaveIndex
    BY <1>7 DEF TypeOK, SaveIndex, Entry
  <1>8. CASE AskForCredentials
    BY <1>8 DEF TypeOK, AskForCredentials
  <1>9. CASE StartPost
    BY <1>9 DEF TypeOK, StartPost
  <1>10. CASE PostSucceeds
    BY <1>10 DEF TypeOK, PostSucceeds, WithDeliverable, Entry, EntriesOf
  <1>11. CASE PostFails
    BY <1>11 DEF TypeOK, PostFails, WithoutDeliverable
  <1>. QED
    BY <1>1, <1>2, <1>3, <1>4, <1>5, <1>6, <1>7, <1>8, <1>9, <1>10, <1>11 DEF MainStep

\* What begin() loads for a slot is a cache entry.
LEMMA LoadedType == ASSUME TypeOK, NEW s \in Slots PROVE Loaded(s) \in Entry
  BY DEF TypeOK, Loaded, Entry, EmptyEntry

\* A restart keeps the types.
LEMMA TypeRestart == TypeOK /\ Restart => TypeOK'
  <1> SUFFICES ASSUME TypeOK, Restart PROVE TypeOK'
    OBVIOUS
  <1>1. cache' \in [Slots -> Entry]
    BY LoadedType DEF Restart, RamAfterBoot
  <1>2. deliverable' \in [Nodes -> Hashes \cup {NoHash}]
    BY DEF Restart, RamAfterBoot, Loaded, EmptyEntry, TypeOK
  <1>3. rxQueue' \in Seq(Message) /\ Len(rxQueue') <= RxQueueLen
    BY DEF Restart, RamAfterBoot
  <1>. QED
    BY <1>1, <1>2, <1>3 DEF TypeOK, Restart, RamAfterBoot, Goto, nvs

\* The receive queue stays within its length and every variable keeps its type,
\* in every reachable state of the gateway.
THEOREM TypeCorrect == Spec => []TypeOK
  <1>1. TypeOK /\ [Next]_vars => TypeOK'
    <2> SUFFICES ASSUME TypeOK, [Next]_vars PROVE TypeOK'
      OBVIOUS
    <2>1. CASE UNCHANGED vars
      BY <2>1 DEF TypeOK, vars, nvs, main, mesh
    <2>. QED
      BY <2>1, TypeMesh, TypeMain, TypeRestart DEF Next
  <1>. QED
    BY <1>1, TypeInit, PTL DEF Spec

----------------------------------------------------------------------------
(* The inductive invariant *)

\* The inductive invariant holds after power-up with an empty NVS.
LEMMA InvInit == Init => IInv
  <1> SUFFICES ASSUME Init PROVE IInv
    OBVIOUS
  <1>1. \A n \in Nodes : Known(n) = {} /\ Restorable(n) = {}
    BY DEF Init, Known, Restorable, EntriesOf, EmptyEntry
  <1>. QED
    BY <1>1, TypeInit DEF Init, IInv, CacheSound, NvsSound, HandlerSound, EmptyEntry,
       DeliverableIsCached, NewUrlIsDeliverable, SuppressedFitsQueue, FailingIsRelayed,
       RestartRestoresCache

\* The conjuncts about the tables hold after a step that leaves them alone.
LEMMA TablesUnchanged ==
  ASSUME IInv, UNCHANGED <<cache, deliverable, nvs, lastPost>>
  PROVE  /\ CacheSound' /\ NvsSound' /\ DeliverableIsCached' /\ FailingIsRelayed'
         /\ \A n \in Nodes : Known(n)' = Known(n) /\ Restorable(n)' = Restorable(n)
  BY DEF IInv, nvs, CacheSound, NvsSound, DeliverableIsCached, FailingIsRelayed, Known,
         Restorable, EntriesOf

\* Steps of the mesh task: it only fills the queue, and alone does so.
LEMMA InvMesh == IInv /\ MeshStep => IInv'
  <1> SUFFICES ASSUME IInv, MeshStep PROVE IInv'
    OBVIOUS
  <1>1. TypeOK'
    BY TypeMesh DEF IInv
  <1>2. UNCHANGED <<cache, deliverable, nvs, lastPost>> /\ UNCHANGED main
    BY DEF MeshStep, MeshReceive, CheckSpace, CheckKnown, Enqueue
  <1>3. NewUrlIsDeliverable' /\ RestartRestoresCache'
    BY <1>2, TablesUnchanged DEF IInv, NewUrlIsDeliverable, RestartRestoresCache, main
  <1>4. HandlerSound' /\ SuppressedFitsQueue'
    BY <1>2 DEF IInv, TypeOK, HandlerSound, SuppressedFitsQueue, EntriesOf, main, nvs,
       MeshStep, MeshReceive, CheckSpace, CheckKnown, Enqueue, ToQueue
  <1>. QED
    BY <1>1, <1>2, <1>3, <1>4, TablesUnchanged DEF IInv

\* Steps of the main loop that leave the tables alone.
LEMMA InvMainQuiet ==
  ASSUME IInv, \/ LoopStart \/ Receive \/ DropPosition \/ StoreKnown
               \/ AskForCredentials \/ StartPost
  PROVE  IInv'
  <1>1. TypeOK'
    BY TypeMain DEF IInv, MainStep
  <1>2. UNCHANGED <<cache, deliverable, nvs, lastPost>> /\ UNCHANGED mesh
    BY DEF LoopStart, Receive, DropPosition, StoreKnown, AskForCredentials, StartPost
  <1>3. mainPc # "saveIndex" /\ mainPc' # "saveIndex"
    BY DEF LoopStart, Receive, DropPosition, StoreKnown, AskForCredentials, StartPost,
       Goto, Handling
  <1>4. NewUrlIsDeliverable' /\ RestartRestoresCache'
    BY <1>2, <1>3, TablesUnchanged DEF IInv, NewUrlIsDeliverable, RestartRestoresCache
  <1>5. rxQueue' = rxQueue \/ (rxQueue # <<>> /\ rxQueue' = Tail(rxQueue))
    BY DEF LoopStart, Receive, DropPosition, StoreKnown, AskForCredentials, StartPost
  <1>6. Len(rxQueue') <= Len(rxQueue) /\ Len(rxQueue) \in Nat /\ Len(rxQueue') \in Nat
    <2>1. rxQueue \in Seq(Message)
      BY DEF IInv, TypeOK
    <2>. QED
      BY <1>5, <2>1, HeadTailProperties, LenProperties
  <1>7. SuppressedFitsQueue' /\ (meshPc' = "known" => Len(rxQueue') < RxQueueLen)
    BY <1>2, <1>6 DEF IInv, mesh, SuppressedFitsQueue, HandlerSound
  <1>8. mainPc' = "post" => \E s \in EntriesOf(mainMsg.from)' :
          cache'[s].url # NoUrl /\ cache'[s].hash = mainMsg'.hash
    BY <1>2 DEF LoopStart, Receive, DropPosition, StoreKnown, AskForCredentials, StartPost,
       Goto, EntriesOf
  <1>. QED
    BY <1>1, <1>2, <1>3, <1>4, <1>7, <1>8, TablesUnchanged DEF IInv, HandlerSound

\* findOrCreate with eviction: the victim leaves cache, deliverable and NVS.
LEMMA InvCreateEntry ==
  ASSUME IInv, CreateEntry
  PROVE  IInv'
  <1> DEFINE m == mainMsg
  <1>1. TypeOK'
    BY TypeMain DEF IInv, MainStep
  <1>2. PICK v \in Slots :
          /\ deliverable' = WithoutDeliverable(cache[v].node)
          /\ nvsUrl' = NvsWithout(v)
          /\ cache' = [cache EXCEPT ![v] = NewEntry(v, m.from)]
          /\ lastPost' = [n \in Nodes |-> IF n \in {cache[v].node, m.from}
                                            THEN "untried" ELSE lastPost[n]]
    BY DEF CreateEntry, Victims, Free
  <1>3. /\ mainPc = "handle" /\ m.from \in Nodes /\ EntriesOf(m.from) = {}
        /\ UNCHANGED <<nvsIndex, rxQueue, uplinkOnline, forward, main, mesh>>
    BY MessageShape DEF IInv, TypeOK, CreateEntry, Cached
  <1>4. /\ cache'[v] = [node |-> m.from, url |-> NoUrl, hash |-> NoHash]
        /\ \A s \in Slots : s # v => cache'[s] = cache[s]
    BY <1>2 DEF IInv, TypeOK, NewEntry, EmptyEntry
  <1>5. CacheSound'
    BY <1>3, <1>4 DEF IInv, CacheSound, EntriesOf
  <1>6. NvsSound'
    BY <1>2, <1>3 DEF IInv, TypeOK, NvsSound, NvsWithout
  <1>7. DeliverableIsCached'
    BY <1>2, <1>3, <1>4 DEF IInv, TypeOK, DeliverableIsCached, WithoutDeliverable, EntriesOf
  <1>8. FailingIsRelayed'
    BY <1>2 DEF IInv, TypeOK, FailingIsRelayed, WithoutDeliverable
  <1>9. HandlerSound' /\ NewUrlIsDeliverable' /\ SuppressedFitsQueue'
    BY <1>3 DEF IInv, HandlerSound, NewUrlIsDeliverable, SuppressedFitsQueue, main, mesh
  <1>10. ASSUME NEW n \in Nodes PROVE Restorable(n)' = Known(n)'
    <2>1. Restorable(n) = Known(n)
      BY <1>3 DEF IInv, RestartRestoresCache
    <2>2. CASE n = m.from
      <3>1. Known(n) = {} /\ Known(n)' = {}
        BY <1>3, <1>4, <2>2 DEF Known, EntriesOf
      <3>2. nvsUrl'[n] = nvsUrl[n] \/ nvsUrl'[n] = NoUrl
        BY <1>2 DEF IInv, TypeOK, CacheSound, NvsWithout
      <3>. QED
        BY <1>3, <2>1, <3>1, <3>2 DEF Restorable
    <2>3. CASE n # m.from /\ n = cache[v].node
      <3>1. Known(n)' = {}
        BY <1>3, <1>4, <2>3 DEF IInv, CacheSound, Known, EntriesOf
      <3>2. CASE cache[v].url = NoUrl
        <4>1. Known(n) = {}
          BY <2>3, <3>2 DEF IInv, CacheSound, Known, EntriesOf
        <4>. QED
          BY <1>2, <1>3, <2>1, <3>1, <3>2, <4>1 DEF Restorable, NvsWithout
      <3>3. CASE cache[v].url # NoUrl
        <4>1. nvsUrl'[n] = NoUrl
          BY <1>2, <2>3, <3>3 DEF IInv, TypeOK, NvsWithout
        <4>. QED
          BY <3>1, <4>1 DEF Restorable
      <3>. QED
        BY <3>2, <3>3
    <2>4. CASE n # m.from /\ n # cache[v].node
      <3>1. Known(n)' = Known(n)
        BY <1>4, <2>4 DEF Known, EntriesOf
      <3>2. nvsUrl'[n] = nvsUrl[n]
        BY <1>2, <2>4 DEF IInv, TypeOK, CacheSound, NvsWithout
      <3>. QED
        BY <1>3, <2>1, <3>1, <3>2 DEF Restorable
    <2>. QED
      BY <2>2, <2>3, <2>4
  <1>. QED
    BY <1>1, <1>5, <1>6, <1>7, <1>8, <1>9, <1>10 DEF IInv, RestartRestoresCache

\* The table of deliverable trackers has room for every cached one, since a
\* tracker is listed only while it occupies a slot of the smaller cache.
LEMMA RoomToList ==
  ASSUME IInv, NEW n \in Nodes, NEW s \in EntriesOf(n), n \notin Listed
  PROVE  Cardinality(Listed) < MaxHeard
  <1>1. IsFiniteSet(Slots) /\ Cardinality(Slots) = CacheSize
    BY FS_Interval
  <1>2. s \in Slots /\ IsFiniteSet(Slots \ {s}) /\ Cardinality(Slots \ {s}) = CacheSize - 1
    <2>1. s \in Slots
      BY DEF EntriesOf
    <2>. HIDE DEF Slots
    <2>. QED
      BY <1>1, <2>1, FS_RemoveElement
  <1> DEFINE slotOf == [x \in Listed |-> CHOOSE e \in EntriesOf(x) : TRUE]
  <1>3. \A x \in Listed : slotOf[x] \in Slots /\ cache[slotOf[x]].node = x
    BY DEF IInv, DeliverableIsCached, Listed, EntriesOf
  <1>4. slotOf \in Injection(Listed, Slots \ {s})
    <2>1. \A x \in Listed : slotOf[x] # s
      BY <1>3 DEF EntriesOf
    <2>2. \A x, y \in Listed : slotOf[x] = slotOf[y] => x = y
      BY <1>3
    <2>3. slotOf \in [Listed -> Slots \ {s}]
      BY <1>3, <2>1
    <2>. QED
      BY <2>2, <2>3 DEF Injection, IsInjective
  <1>5. IsFiniteSet(Listed) /\ Cardinality(Listed) <= Cardinality(Slots \ {s})
    BY <1>2, <1>4, FS_Injection DEF ExistsInjection
  <1>6. Cardinality(Listed) \in Nat
    BY <1>5, FS_CardinalityType
  <1>. QED
    BY <1>2, <1>5, <1>6

\* storeCredentials: cache, deliverable table and NVS string change together.
LEMMA InvStoreNew ==
  ASSUME IInv, StoreNew
  PROVE  IInv'
  <1> DEFINE m == mainMsg
  <1>1. TypeOK'
    BY TypeMain DEF IInv, MainStep
  <1>2. /\ m.from \in Nodes /\ m.url \in Urls /\ m.url \in TrackerUrls[m.from]
        /\ m.hash = HashOf[m.url] /\ m.hash \in Hashes /\ m.type = "credentials"
    BY MessageShape DEF IInv, TypeOK, StoreNew, Handling
  <1>3. PICK s \in EntriesOf(m.from) :
          cache' = [cache EXCEPT ![s] = [@ EXCEPT !.url = m.url, !.hash = m.hash]]
    BY DEF StoreNew
  <1>4. /\ mainPc = "handle" /\ mainPc' = "saveIndex" /\ mainMsg' = m
        /\ UNCHANGED <<nvsIndex, rxQueue, mesh>>
        /\ nvsUrl' = [nvsUrl EXCEPT ![m.from] = m.url]
        /\ lastPost' = [lastPost EXCEPT ![m.from] = "untried"]
    BY DEF StoreNew, Handling
  <1>5. /\ s \in Slots /\ cache[s].node = m.from
        /\ cache'[s].node = m.from /\ cache'[s].url = m.url /\ cache'[s].hash = m.hash
        /\ \A x \in Slots : x # s => cache'[x] = cache[x]
    <2>1. s \in Slots /\ cache[s].node = m.from /\ cache[s] \in Entry
      BY DEF IInv, TypeOK, EntriesOf
    <2>2. cache'[s] = [cache[s] EXCEPT !.url = m.url, !.hash = m.hash]
      BY <1>3, <2>1 DEF IInv, TypeOK
    <2>3. \A x \in Slots : x # s => cache'[x] = cache[x]
      BY <1>3 DEF IInv, TypeOK
    <2>. QED
      BY <2>1, <2>2, <2>3 DEF Entry
  <1>6. deliverable' = [deliverable EXCEPT ![m.from] = m.hash]
    BY <1>2, <1>3, RoomToList DEF StoreNew, WithDeliverable
  <1>7. CacheSound'
    BY <1>2, <1>5 DEF IInv, CacheSound
  <1>8. NvsSound'
    BY <1>2, <1>4 DEF IInv, TypeOK, NvsSound
  <1>9. HandlerSound' /\ SuppressedFitsQueue'
    <2>1. nvsUrl'[m.from] = m.url /\ s \in EntriesOf(m.from)'
      BY <1>2, <1>4, <1>5 DEF IInv, TypeOK, EntriesOf
    <2>2. mainPc' # "post" /\ (meshPc' = "known" => Len(rxQueue') < RxQueueLen)
      BY <1>4 DEF IInv, HandlerSound, mesh
    <2>3. HandlerSound'
      BY <1>2, <1>4, <1>5, <2>1, <2>2 DEF HandlerSound
    <2>. QED
      BY <1>4, <2>3 DEF IInv, SuppressedFitsQueue, mesh
  <1>10. DeliverableIsCached' /\ NewUrlIsDeliverable'
    <2>1. deliverable'[m.from] = m.hash /\ \A n \in Nodes : n # m.from => deliverable'[n] = deliverable[n]
      BY <1>2, <1>6 DEF IInv, TypeOK
    <2>2. s \in EntriesOf(m.from)' /\ cache'[s].url # NoUrl
      BY <1>2, <1>4, <1>5 DEF EntriesOf
    <2>3. \A n \in Nodes : n # m.from => EntriesOf(n)' = EntriesOf(n) /\ s \notin EntriesOf(n)
      BY <1>5 DEF EntriesOf
    <2>4. ASSUME NEW n \in Nodes, deliverable'[n] # NoHash
          PROVE  \E x \in EntriesOf(n)' : cache'[x].url # NoUrl /\ cache'[x].hash = deliverable'[n]
      <3>1. CASE n = m.from
        BY <1>4, <1>5, <2>1, <2>2, <3>1
      <3>2. CASE n # m.from
        BY <1>5, <2>1, <2>3, <2>4, <3>2 DEF IInv, DeliverableIsCached, EntriesOf
      <3>. QED
        BY <3>1, <3>2
    <2>. QED
      BY <1>4, <2>1, <2>4 DEF DeliverableIsCached, NewUrlIsDeliverable
  <1>11. FailingIsRelayed'
    BY <1>2, <1>4, <1>6 DEF IInv, TypeOK, FailingIsRelayed
  <1>12. ASSUME NEW n \in Nodes
         PROVE  \/ Restorable(n)' = Known(n)'
                \/ n = m.from /\ Restorable(n)' = {}
    <2>1. Restorable(n) = Known(n)
      BY <1>4 DEF IInv, RestartRestoresCache
    <2>2. CASE n = m.from
      <3>1. Known(n)' = {m.url}
        BY <1>2, <1>5, <2>2 DEF IInv, CacheSound, Known, EntriesOf
      <3>2. Restorable(n)' = {m.url} \/ Restorable(n)' = {}
        BY <1>2, <1>4, <2>2 DEF IInv, TypeOK, Restorable
      <3>. QED
        BY <2>2, <3>1, <3>2
    <2>3. CASE n # m.from
      <3>1. Known(n)' = Known(n)
        BY <1>5, <2>3 DEF Known, EntriesOf
      <3>2. Restorable(n)' = Restorable(n)
        BY <1>4, <2>3 DEF IInv, TypeOK, Restorable
      <3>. QED
        BY <2>1, <3>1, <3>2
    <2>. QED
      BY <2>2, <2>3
  <1>. QED
    BY <1>1, <1>4, <1>7, <1>8, <1>9, <1>10, <1>11, <1>12 DEF IInv, RestartRestoresCache

\* saveIndex brings the NVS copy in step with the cache again.
LEMMA InvSaveIndex ==
  ASSUME IInv, SaveIndex
  PROVE  IInv'
  <1>1. TypeOK'
    BY TypeMain DEF IInv, MainStep
  <1>2. /\ mainPc = "saveIndex" /\ mainPc' = "drain"
        /\ UNCHANGED <<cache, deliverable, nvsUrl, rxQueue, mesh, lastPost>>
        /\ nvsIndex' = [s \in Slots |-> IF cache[s].url # NoUrl THEN cache[s].node ELSE NoNode]
    BY DEF SaveIndex, Goto
  <1>3. CacheSound' /\ DeliverableIsCached' /\ FailingIsRelayed' /\ SuppressedFitsQueue'
    BY <1>2 DEF IInv, CacheSound, DeliverableIsCached, FailingIsRelayed, EntriesOf,
       SuppressedFitsQueue, mesh
  <1>4. NvsSound'
    BY <1>2 DEF IInv, CacheSound, NvsSound
  <1>5. HandlerSound' /\ NewUrlIsDeliverable'
    BY <1>2 DEF IInv, HandlerSound, NewUrlIsDeliverable, mesh
  <1>6. ASSUME NEW n \in Nodes PROVE Restorable(n)' = Known(n)'
    <2>1. Known(n)' = Known(n)
      BY <1>2 DEF Known, EntriesOf
    <2>2. ASSUME NEW u \in Known(n) PROVE nvsUrl[n] = u
      <3>1. CASE u \in Restorable(n)
        BY <3>1 DEF Restorable
      <3>2. CASE u \notin Restorable(n)
        <4>1. n = mainMsg.from
          BY <3>2 DEF IInv, RestartRestoresCache
        <4>. QED
          BY <1>2, <4>1 DEF IInv, HandlerSound, CacheSound, Known, EntriesOf
      <3>. QED
        BY <3>1, <3>2
    <2>3. ASSUME NEW u \in Urls
          PROVE  u \in Restorable(n)' <=> u \in Known(n)
      <3>1. u \in Known(n) => u \in Restorable(n)'
        BY <1>2, <2>2 DEF Known, Restorable, EntriesOf
      <3>2. ASSUME u \in Restorable(n)' PROVE u \in Known(n)
        <4>1. PICK s \in Slots : nvsIndex'[s] = n
          BY <3>2 DEF Restorable
        <4>2. cache[s].node = n /\ cache[s].url \in Urls
          BY <1>2, <4>1 DEF IInv, TypeOK, Entry
        <4>3. cache[s].url \in Known(n)
          BY <4>2 DEF Known, EntriesOf
        <4>. QED
          BY <1>2, <2>2, <3>2, <4>3 DEF Restorable
      <3>. QED
        BY <3>1, <3>2
    <2>. QED
      BY <2>1, <2>3 DEF Restorable, Known
  <1>. QED
    BY <1>1, <1>3, <1>4, <1>5, <1>6 DEF IInv, RestartRestoresCache

\* The two outcomes of a POST.
LEMMA InvPost ==
  ASSUME IInv, PostSucceeds \/ PostFails
  PROVE  IInv'
  <1> DEFINE n == mainMsg.from
  <1>1. TypeOK'
    BY TypeMain DEF IInv, MainStep
  <1>2. /\ mainPc = "post" /\ mainPc' = "top" /\ n \in Nodes
        /\ UNCHANGED <<cache, nvs, rxQueue, mesh>>
    BY MessageShape DEF IInv, TypeOK, PostSucceeds, PostFails, Goto
  <1>3. CacheSound' /\ NvsSound' /\ SuppressedFitsQueue'
    BY <1>2 DEF IInv, CacheSound, NvsSound, SuppressedFitsQueue, mesh, nvs
  <1>4. HandlerSound' /\ NewUrlIsDeliverable'
    BY <1>2 DEF IInv, HandlerSound, NewUrlIsDeliverable, mesh
  <1>5. RestartRestoresCache'
    BY <1>2 DEF IInv, RestartRestoresCache, Restorable, Known, EntriesOf, nvs
  <1>6. CASE PostFails
    <2>1. DeliverableIsCached' /\ FailingIsRelayed'
      BY <1>2, <1>6 DEF IInv, TypeOK, PostFails, WithoutDeliverable, DeliverableIsCached,
         FailingIsRelayed, EntriesOf
    <2>. QED
      BY <1>1, <1>3, <1>4, <1>5, <2>1 DEF IInv
  <1>7. CASE PostSucceeds
    <2>1. PICK s \in EntriesOf(n) : deliverable' = WithDeliverable(n, cache[s].hash)
      BY <1>7 DEF PostSucceeds
    <2>2. deliverable' = [deliverable EXCEPT ![n] = cache[s].hash]
      BY <1>2, <2>1, RoomToList DEF WithDeliverable
    <2>3. cache[s].url # NoUrl
      BY <1>2 DEF IInv, HandlerSound, CacheSound, EntriesOf
    <2>4. DeliverableIsCached'
      BY <1>2, <2>2, <2>3 DEF IInv, TypeOK, DeliverableIsCached, EntriesOf
    <2>5. FailingIsRelayed'
      BY <1>2, <1>7, <2>2 DEF IInv, TypeOK, PostSucceeds, FailingIsRelayed
    <2>. QED
      BY <1>1, <1>3, <1>4, <1>5, <2>4, <2>5 DEF IInv
  <1>. QED
    BY <1>6, <1>7

\* begin() rebuilds cache and deliverable table from NVS.
LEMMA InvRestart ==
  ASSUME IInv, Restart
  PROVE  IInv'
  <1>1. TypeOK'
    BY TypeRestart DEF IInv
  <1>2. /\ UNCHANGED nvs /\ rxQueue' = <<>> /\ mainPc' = "top" /\ meshPc' = "listen"
        /\ cache' = [s \in Slots |-> Loaded(s)]
        /\ deliverable' = [n \in Nodes |->
              IF \E s \in Slots : Loaded(s).node = n THEN HashOf[nvsUrl[n]] ELSE NoHash]
        /\ lastPost' = [n \in Nodes |-> "untried"]
    BY DEF Restart, RamAfterBoot, Goto
  <1>3. \A s \in Slots :
          \/ Loaded(s) = EmptyEntry /\ (nvsIndex[s] = NoNode \/ nvsUrl[nvsIndex[s]] = NoUrl)
          \/ /\ nvsIndex[s] \in Nodes /\ nvsUrl[nvsIndex[s]] \in Urls
             /\ nvsUrl[nvsIndex[s]] \in TrackerUrls[nvsIndex[s]]
             /\ Loaded(s).node = nvsIndex[s] /\ Loaded(s).url = nvsUrl[nvsIndex[s]]
             /\ Loaded(s).hash = HashOf[nvsUrl[nvsIndex[s]]]
    BY DEF IInv, TypeOK, NvsSound, Loaded
  <1>4. CacheSound'
    <2>1. ASSUME NEW s \in Slots, cache'[s].node # NoNode
          PROVE  cache'[s].node = nvsIndex[s] /\ nvsIndex[s] # NoNode
      BY <1>2, <1>3, <2>1 DEF EmptyEntry
    <2>2. ASSUME NEW s \in Slots, cache'[s].url # NoUrl
          PROVE  /\ cache'[s].node \in Nodes
                 /\ cache'[s].url \in TrackerUrls[cache'[s].node]
                 /\ cache'[s].hash = HashOf[cache'[s].url]
      BY <1>2, <1>3, <2>2 DEF EmptyEntry
    <2>. QED
      BY <2>1, <2>2 DEF IInv, NvsSound, CacheSound
  <1>5. NvsSound'
    BY <1>2 DEF IInv, NvsSound, nvs
  <1>6. HandlerSound' /\ NewUrlIsDeliverable' /\ SuppressedFitsQueue' /\ FailingIsRelayed'
    BY <1>2 DEF HandlerSound, NewUrlIsDeliverable, SuppressedFitsQueue, FailingIsRelayed
  <1>7. DeliverableIsCached'
    BY <1>2, <1>3 DEF DeliverableIsCached, EntriesOf, EmptyEntry
  <1>8. RestartRestoresCache'
    <2>1. ASSUME NEW n \in Nodes, NEW u \in Urls
          PROVE  u \in Restorable(n)' <=> u \in Known(n)'
      <3>1. u \in Restorable(n)' <=> nvsUrl[n] = u /\ \E s \in Slots : nvsIndex[s] = n
        BY <1>2 DEF Restorable, nvs
      <3>2. u \in Known(n)' <=> \E s \in Slots : Loaded(s).node = n /\ Loaded(s).url = u
        BY <1>2 DEF Known, EntriesOf
      <3>3. u # NoUrl /\ n # NoNode
        OBVIOUS
      <3>. QED
        BY <1>3, <3>1, <3>2, <3>3 DEF EmptyEntry
    <2>. QED
      BY <2>1 DEF RestartRestoresCache, Restorable, Known
  <1>. QED
    BY <1>1, <1>4, <1>5, <1>6, <1>7, <1>8 DEF IInv

----------------------------------------------------------------------------

\* The inductive invariant holds in every reachable state: every step of the mesh
\* task, every step of the main loop and a restart between any two of them keep it.
THEOREM Inductive == Spec => []IInv
  <1>1. IInv /\ [Next]_vars => IInv'
    <2> SUFFICES ASSUME IInv, [Next]_vars PROVE IInv'
      OBVIOUS
    <2>1. CASE UNCHANGED vars
      <3>1. TypeOK' /\ HandlerSound' /\ NewUrlIsDeliverable' /\ SuppressedFitsQueue'
        BY <2>1 DEF vars, nvs, main, mesh, IInv, TypeOK, HandlerSound, EntriesOf,
           NewUrlIsDeliverable, SuppressedFitsQueue
      <3>2. RestartRestoresCache'
        BY <2>1, TablesUnchanged DEF vars, main, IInv, RestartRestoresCache
      <3>. QED
        BY <2>1, <3>1, <3>2, TablesUnchanged DEF vars, IInv
    <2>. QED
      BY <2>1, InvMesh, InvMainQuiet, InvCreateEntry, InvStoreNew, InvSaveIndex, InvPost,
         InvRestart DEF Next, MainStep
  <1>. QED
    BY <1>1, InvInit, PTL DEF Spec

\* Relays are only ever suppressed for trackers with a cached URL of that hash.
THEOREM DeliverableCached == Spec => []DeliverableIsCached
  BY Inductive, PTL DEF IInv

\* The deliverable table never overflows.
THEOREM NewUrlDeliverable == Spec => []NewUrlIsDeliverable
  BY Inductive, PTL DEF IInv

\* A suppressed position always finds room in the receive queue.
THEOREM SuppressedFits == Spec => []SuppressedFitsQueue
  BY Inductive, PTL DEF IInv

\* A tracker whose last POST failed is relayed.
THEOREM FailingRelayed == Spec => []FailingIsRelayed
  BY Inductive, PTL DEF IInv

\* At every step, a restart restores the cache, up to the URL being stored.
THEOREM RestartRestores == Spec => []RestartRestoresCache
  BY Inductive, PTL DEF IInv

\* Positions are posted only to URLs their sender announced, with the hash they
\* carry.
THEOREM PostOwnUrl == Spec => []PostGoesToOwnUrl
  <1>1. IInv => PostGoesToOwnUrl
    BY DEF IInv, HandlerSound, CacheSound, PostGoesToOwnUrl, EntriesOf
  <1>. QED
    BY <1>1, Inductive, PTL

----------------------------------------------------------------------------
(* Gateway implements KnownUrls *)

\* The instance counts as its own module does.
LEMMA BookCardinality == \A S : Book!Cardinality(S) = Cardinality(S)
  BY Zenon DEF Book!Cardinality, Cardinality

\* A node's entry is unique, so its URL in the book is the one in its slot.
LEMMA UrlOfSlot ==
  ASSUME IInv, NEW s \in Slots, NEW n \in Nodes, cache[s].node = n
  PROVE  EntriesOf(n) = {s} /\ n \in CachedNodes /\ UrlInCache(n) = cache[s].url
  <1>1. EntriesOf(n) = {s}
    BY DEF IInv, CacheSound, EntriesOf
  <1>. QED
    BY <1>1 DEF CachedNodes, Cached, UrlInCache

\* The same after a step that keeps the invariant.
LEMMA UrlOfSlotNext ==
  ASSUME IInv', NEW s \in Slots, NEW n \in Nodes, cache'[s].node = n
  PROVE  EntriesOf(n)' = {s} /\ n \in CachedNodes' /\ UrlInCache(n)' = cache'[s].url
  <1>1. EntriesOf(n)' = {s}
    BY DEF IInv, CacheSound, EntriesOf
  <1>. QED
    BY <1>1 DEF CachedNodes, Cached, UrlInCache

\* The URLs of the cache are those of the book.
LEMMA KnownIsBook ==
  ASSUME IInv, NEW n \in Nodes
  PROVE  Known(n) # {} <=> n \in CachedNodes /\ UrlInCache(n) # NoUrl
  <1>1. ASSUME NEW s \in EntriesOf(n)
        PROVE  Known(n) # {} <=> UrlInCache(n) # NoUrl
    <2>1. s \in Slots /\ cache[s].node = n /\ EntriesOf(n) = {s} /\ UrlInCache(n) = cache[s].url
      BY UrlOfSlot DEF EntriesOf
    <2>2. cache[s].url \in Urls \cup {NoUrl}
      BY <2>1 DEF IInv, TypeOK, Entry
    <2>. QED
      BY <2>1, <2>2 DEF Known
  <1>. QED
    BY <1>1 DEF Known, CachedNodes, Cached

\* Outside storeCredentials exactly the URLs of the book are stored.
LEMMA StoredIsBook ==
  ASSUME IInv, mainPc # "saveIndex"
  PROVE  StoredOf = {n \in CachedNodes : UrlInCache(n) # NoUrl}
  BY KnownIsBook DEF IInv, RestartRestoresCache, StoredOf, CachedNodes

\* A slot is free if and only if the book is not full.
LEMMA RoomInBook ==
  ASSUME IInv
  PROVE  Free # {} <=> Cardinality(CachedNodes) < CacheSize
  <1>1. IsFiniteSet(Slots) /\ Cardinality(Slots) = CacheSize
    BY FS_Interval
  <1> HIDE DEF Slots
  <1> DEFINE slotOf == [n \in CachedNodes |-> CHOOSE s \in EntriesOf(n) : TRUE]
  <1>2. \A n \in CachedNodes : slotOf[n] \in Slots /\ cache[slotOf[n]].node = n /\ n # NoNode
    BY DEF CachedNodes, Cached, EntriesOf
  <1> HIDE DEF slotOf
  <1>3. ASSUME NEW f \in Free PROVE Cardinality(CachedNodes) < CacheSize
    <2>1. f \in Slots /\ IsFiniteSet(Slots \ {f}) /\ Cardinality(Slots \ {f}) = CacheSize - 1
      BY <1>1, FS_RemoveElement DEF Free
    <2>2. slotOf \in Injection(CachedNodes, Slots \ {f})
      <3>1. \A n \in CachedNodes : slotOf[n] \in Slots \ {f}
        BY <1>2 DEF Free
      <3>2. slotOf \in [CachedNodes -> Slots \ {f}]
        BY <3>1 DEF slotOf
      <3>. QED
        BY <1>2, <3>2 DEF Injection, IsInjective
    <2>3. IsFiniteSet(CachedNodes) /\ Cardinality(CachedNodes) <= CacheSize - 1
      BY <2>1, <2>2, FS_Injection DEF ExistsInjection
    <2>. QED
      BY <2>3, FS_CardinalityType
  <1>4. ASSUME Free = {} PROVE ~(Cardinality(CachedNodes) < CacheSize)
    <2> DEFINE nodeOf == [s \in Slots |-> cache[s].node]
    <2>1. \A s \in Slots : nodeOf[s] \in CachedNodes
      BY <1>4 DEF IInv, TypeOK, Entry, Free, CachedNodes, Cached, EntriesOf
    <2>2. nodeOf \in Injection(Slots, CachedNodes)
      <3>1. nodeOf \in [Slots -> CachedNodes]
        BY <2>1
      <3>2. \A s, t \in Slots : nodeOf[s] = nodeOf[t] => s = t
        BY <1>4 DEF IInv, CacheSound, Free
      <3>. QED
        BY <3>1, <3>2 DEF Injection, IsInjective
    <2>3. slotOf \in Injection(CachedNodes, Slots)
      <3>1. slotOf \in [CachedNodes -> Slots]
        BY <1>2 DEF slotOf
      <3>. QED
        BY <1>2, <3>1 DEF Injection, IsInjective
    <2>4. IsFiniteSet(CachedNodes)
      BY <1>1, <2>3, FS_Injection DEF ExistsInjection
    <2>5. CacheSize <= Cardinality(CachedNodes)
      BY <1>1, <2>2, <2>4, FS_Injection DEF ExistsInjection
    <2>. QED
      BY <2>4, <2>5, FS_CardinalityType
  <1>. QED
    BY <1>3, <1>4

----------------------------------------------------------------------------
(* Every step of the gateway is a step of the book, or none *)

\* Steps that touch neither the cache nor its copy are none.
LEMMA BookQuiet ==
  ASSUME UNCHANGED <<cache, nvs>>
  PROVE  UNCHANGED <<BookOf, StoredOf>>
  BY DEF nvs, BookOf, StoredOf, CachedNodes, Cached, UrlInCache, Restorable, EntriesOf

\* findOrCreate enters a tracker, and evicts one only from a full book.
LEMMA BookMeet ==
  ASSUME IInv, IInv', CreateEntry
  PROVE  Book!Meet(mainMsg.from)
  <1>0. PICK m \in Nodes : m = mainMsg.from
    BY MessageShape DEF IInv, TypeOK, CreateEntry
  <1>1. /\ mainPc = "handle" /\ mainPc' = "handle" /\ m \notin CachedNodes
    BY <1>0 DEF CreateEntry, Cached, CachedNodes, main
  <1>2. PICK v \in Victims : cache' = [cache EXCEPT ![v] = NewEntry(v, m)]
    BY <1>0 DEF CreateEntry
  <1>3. /\ v \in Slots /\ cache'[v].node = m /\ cache'[v].url = NoUrl
        /\ \A s \in Slots : s # v => cache'[s] = cache[s]
        /\ cache[v].node \in Nodes \cup {NoNode}
        /\ cache[v].node = NoNode <=> Free # {}
    BY <1>2 DEF IInv, TypeOK, NewEntry, EmptyEntry, Entry, Victims, Free
  <1> DEFINE out == {cache[v].node} \ {NoNode}
  <1>4. CachedNodes' = (CachedNodes \ out) \cup {m}
    <2>1. ASSUME NEW n \in Nodes
          PROVE  n \in CachedNodes' <=> n \in (CachedNodes \ out) \cup {m}
      <3>1. n \in CachedNodes' <=> \E s \in Slots : cache'[s].node = n
        BY DEF CachedNodes, Cached, EntriesOf
      <3>2. n \in CachedNodes <=> \E s \in Slots : cache[s].node = n
        BY DEF CachedNodes, Cached, EntriesOf
      <3>3. n \in out => \A s \in Slots : s # v => cache[s].node # n
        BY <1>3 DEF IInv, CacheSound
      <3>. QED
        BY <1>3, <3>1, <3>2, <3>3
    <2>. QED
      BY <1>1, <2>1 DEF CachedNodes
  <1>5. ASSUME NEW n \in CachedNodes \ out, n # m
        PROVE  UrlInCache(n)' = UrlInCache(n)
    <2>1. PICK s \in Slots : cache[s].node = n
      BY DEF CachedNodes, Cached, EntriesOf
    <2>2. s # v /\ n \in Nodes
      BY <2>1 DEF CachedNodes
    <2>. QED
      BY <1>3, <2>1, <2>2, UrlOfSlot, UrlOfSlotNext
  <1>6. UrlInCache(m)' = NoUrl
    BY <1>1, <1>3, UrlOfSlotNext
  <1>7. StoredOf' = StoredOf \ out
    <2>1. StoredOf = {n \in CachedNodes : UrlInCache(n) # NoUrl}
      BY <1>1, StoredIsBook
    <2>2. StoredOf' = {n \in CachedNodes' : UrlInCache(n)' # NoUrl}
      <3>1. \A n \in Nodes : Restorable(n)' = Known(n)'
        BY <1>1 DEF IInv, RestartRestoresCache
      <3>2. ASSUME NEW n \in Nodes
            PROVE  Known(n)' # {} <=> n \in CachedNodes' /\ UrlInCache(n)' # NoUrl
        <4>1. ASSUME NEW s \in Slots, cache'[s].node = n
              PROVE  Known(n)' # {} <=> UrlInCache(n)' # NoUrl
          <5>1. EntriesOf(n)' = {s} /\ UrlInCache(n)' = cache'[s].url
            BY <4>1, UrlOfSlotNext
          <5>2. cache'[s].url \in Urls \cup {NoUrl}
            BY DEF IInv, TypeOK, Entry
          <5>. QED
            BY <5>1, <5>2 DEF Known
        <4>. QED
          BY <4>1 DEF Known, CachedNodes, Cached, EntriesOf
      <3>. QED
        BY <3>1, <3>2 DEF StoredOf, CachedNodes
    <2>. QED
      BY <1>1, <1>4, <1>5, <1>6, <2>1, <2>2
  <1>8. /\ out \in SUBSET CachedNodes
        /\ Cardinality(out) = IF Cardinality(CachedNodes) < CacheSize THEN 0 ELSE 1
    <2>1. out \in SUBSET CachedNodes
      BY <1>3 DEF CachedNodes, Cached, EntriesOf
    <2>2. Cardinality({}) = 0 /\ Cardinality({cache[v].node}) = 1
      BY FS_EmptySet, FS_Singleton
    <2>3. CASE Free # {}
      <3>1. out = {}
        BY <1>3, <2>3
      <3>. QED
        BY <2>1, <2>2, <2>3, <3>1, RoomInBook
    <2>4. CASE Free = {}
      <3>1. out = {cache[v].node}
        BY <1>3, <2>4
      <3>. QED
        BY <2>1, <2>2, <2>4, <3>1, RoomInBook
    <2>. QED
      BY <2>3, <2>4
  <1>9. BookOf' = [n \in (CachedNodes \ out) \cup {m} |-> IF n = m THEN NoUrl ELSE BookOf[n]]
    BY <1>1, <1>4, <1>5, <1>6 DEF BookOf
  <1>10. DOMAIN BookOf = CachedNodes /\ {n \in CachedNodes : BookOf[n] # NoUrl} \ StoredOf = {}
    BY <1>1, StoredIsBook DEF BookOf
  <1>11. Book!Meet(m)
    <2>1. Book!Unstored = {}
      BY <1>10 DEF Book!Unstored, Book!WithUrl
    <2>2. /\ m \notin DOMAIN BookOf /\ out \in SUBSET DOMAIN BookOf
          /\ Cardinality(out) = IF Cardinality(DOMAIN BookOf) < CacheSize THEN 0 ELSE 1
          /\ BookOf' = [n \in (DOMAIN BookOf \ out) \cup {m} |-> IF n = m THEN NoUrl ELSE BookOf[n]]
          /\ StoredOf' = StoredOf \ out
      BY <1>1, <1>7, <1>8, <1>9, <1>10
    <2>. HIDE DEF out
    <2>. QED
      BY <2>1, <2>2, BookCardinality DEF Book!Meet
  <1>. QED
    BY <1>0, <1>11

\* storeCredentials: the tracker's URL, stored at once if the index has its slot.
LEMMA BookLearn ==
  ASSUME IInv, IInv', StoreNew
  PROVE  \E u \in TrackerUrls[mainMsg.from] : Book!Learn(mainMsg.from, u)
  <1>0. PICK m \in Nodes, u \in Urls : m = mainMsg.from /\ u = mainMsg.url /\ u \in TrackerUrls[m]
    BY MessageShape DEF IInv, TypeOK, StoreNew, Handling
  <1>1. /\ mainPc = "handle" /\ UNCHANGED nvsIndex
        /\ nvsUrl' = [nvsUrl EXCEPT ![m] = u]
    BY <1>0 DEF StoreNew, Handling
  <1>2. PICK s \in EntriesOf(m) :
          cache' = [cache EXCEPT ![s] = [@ EXCEPT !.url = u, !.hash = mainMsg.hash]]
    BY <1>0 DEF StoreNew
  <1>3. /\ s \in Slots /\ cache[s].node = m /\ cache'[s].node = m /\ cache'[s].url = u
        /\ \A x \in Slots : x # s => cache'[x] = cache[x]
    <2>1. s \in Slots /\ cache[s].node = m /\ cache[s] \in Entry
      BY DEF IInv, TypeOK, EntriesOf
    <2>2. cache'[s] = [cache[s] EXCEPT !.url = u, !.hash = mainMsg.hash]
      BY <1>2, <2>1 DEF IInv, TypeOK
    <2>3. \A x \in Slots : x # s => cache'[x] = cache[x]
      BY <1>2 DEF IInv, TypeOK
    <2>. QED
      BY <2>1, <2>2, <2>3 DEF Entry
  <1>4. CachedNodes' = CachedNodes /\ m \in CachedNodes
    BY <1>3 DEF CachedNodes, Cached, EntriesOf
  <1>5. ASSUME NEW n \in CachedNodes, n # m
        PROVE  UrlInCache(n)' = UrlInCache(n)
    <2>1. PICK x \in Slots : cache[x].node = n
      BY DEF CachedNodes, Cached, EntriesOf
    <2>2. x # s /\ n \in Nodes
      BY <1>3, <1>5, <2>1 DEF CachedNodes
    <2>. QED
      BY <1>3, <2>1, <2>2, UrlOfSlot, UrlOfSlotNext
  <1>6. UrlInCache(m)' = u
    BY <1>3, UrlOfSlotNext
  <1>7. BookOf' = [BookOf EXCEPT ![m] = u]
    BY <1>4, <1>5, <1>6 DEF BookOf
  <1>8. StoredOf' \in {StoredOf, StoredOf \cup {m}}
    <2>1. \A n \in Nodes : n # m => Restorable(n)' = Restorable(n)
      BY <1>1 DEF IInv, TypeOK, Restorable
    <2>2. m \in StoredOf => m \in StoredOf'
      BY <1>1 DEF IInv, TypeOK, StoredOf, Restorable
    <2>. QED
      BY <2>1, <2>2 DEF StoredOf
  <1>9. Book!Unstored = {} /\ m \in DOMAIN BookOf
    BY <1>1, <1>4, StoredIsBook DEF Book!Unstored, Book!WithUrl, BookOf
  <1>10. Book!Learn(m, u)
    BY <1>7, <1>8, <1>9 DEF Book!Learn
  <1>. QED
    BY <1>0, <1>10

\* saveIndex stores the whole book.
LEMMA BookStore ==
  ASSUME IInv, IInv', SaveIndex
  PROVE  Book!Store
  <1>1. UNCHANGED cache /\ mainPc' # "saveIndex"
    BY DEF SaveIndex, Goto
  <1>2. BookOf' = BookOf /\ CachedNodes' = CachedNodes
    BY <1>1 DEF BookOf, CachedNodes, Cached, UrlInCache, EntriesOf
  <1>3. StoredOf' = {n \in CachedNodes : UrlInCache(n) # NoUrl}
    <2>1. \A n \in Nodes : Restorable(n)' = Known(n)
      BY <1>1 DEF IInv, RestartRestoresCache, Known, EntriesOf
    <2>. QED
      BY <2>1, KnownIsBook DEF StoredOf, CachedNodes
  <1>. QED
    BY <1>2, <1>3 DEF Book!Store, Book!WithUrl, BookOf

\* begin() finds the stored part of the book.
LEMMA BookRestart ==
  ASSUME IInv, IInv', Restart
  PROVE  Book!Restart
  <1>1. UNCHANGED nvs /\ cache' = [s \in Slots |-> Loaded(s)]
    BY DEF Restart, RamAfterBoot
  <1>2. StoredOf' = StoredOf
    BY <1>1 DEF StoredOf, Restorable, nvs
  <1>3. ASSUME NEW n \in Nodes, NEW s \in Slots, nvsIndex[s] = n, nvsUrl[n] # NoUrl
        PROVE  n \in CachedNodes' /\ n \in CachedNodes /\ UrlInCache(n)' = UrlInCache(n)
    <2>1. cache'[s].node = n /\ cache'[s].url = nvsUrl[n]
      BY <1>1, <1>3 DEF Loaded
    <2>2. nvsUrl[n] \in Restorable(n)
      BY <1>3 DEF IInv, TypeOK, Restorable
    <2>3. nvsUrl[n] \in Known(n)
      BY <2>2 DEF IInv, RestartRestoresCache
    <2>4. PICK t \in EntriesOf(n) : cache[t].url = nvsUrl[n]
      BY <2>3 DEF Known
    <2>5. t \in Slots /\ cache[t].node = n
      BY <2>4 DEF EntriesOf
    <2>. QED
      BY <2>1, <2>4, <2>5, UrlOfSlot, UrlOfSlotNext
  <1>4. CachedNodes' = StoredOf
    <2>1. ASSUME NEW n \in Nodes
          PROVE  n \in CachedNodes' <=> \E s \in Slots : nvsIndex[s] = n /\ nvsUrl[n] # NoUrl
      <3>1. n \in CachedNodes' <=> \E s \in Slots : Loaded(s).node = n
        BY <1>1 DEF CachedNodes, Cached, EntriesOf
      <3>. QED
        BY <3>1 DEF Loaded, EmptyEntry
    <2>2. ASSUME NEW n \in Nodes
          PROVE  n \in StoredOf <=> \E s \in Slots : nvsIndex[s] = n /\ nvsUrl[n] # NoUrl
      BY DEF IInv, TypeOK, StoredOf, Restorable
    <2>. QED
      BY <2>1, <2>2 DEF CachedNodes, StoredOf
  <1>5. ASSUME NEW n \in StoredOf
        PROVE  n \in CachedNodes /\ UrlInCache(n)' = UrlInCache(n)
    <2>1. PICK s \in Slots : nvsIndex[s] = n /\ nvsUrl[n] # NoUrl
      BY DEF StoredOf, Restorable
    <2>. QED
      BY <1>3, <2>1 DEF StoredOf
  <1>6. BookOf' = [n \in StoredOf |-> BookOf[n]]
    BY <1>4, <1>5 DEF BookOf
  <1>. QED
    BY <1>2, <1>6 DEF Book!Restart

----------------------------------------------------------------------------

\* The empty cache and NVS are the empty book.
LEMMA BookInit == Init => Book!Init
  <1> SUFFICES ASSUME Init PROVE Book!Init
    OBVIOUS
  <1>1. CachedNodes = {} /\ StoredOf = {}
    BY DEF Init, EmptyEntry, CachedNodes, Cached, EntriesOf, StoredOf, Restorable
  <1>. QED
    BY <1>1 DEF Book!Init, BookOf

\* Every step of the gateway and every restart is a step of the book, or none.
LEMMA BookStep ==
  ASSUME IInv, IInv', [Next]_vars
  PROVE  [Book!Next]_(Book!vars)
  <1>1. CASE UNCHANGED <<cache, nvs>>
    BY <1>1, BookQuiet DEF Book!vars
  <1>2. CASE CreateEntry
    <2>1. mainMsg.from \in Nodes
      BY <1>2, MessageShape DEF IInv, TypeOK, CreateEntry
    <2>. QED
      BY <1>2, <2>1, BookMeet DEF Book!Next
  <1>3. CASE StoreNew
    <2>1. mainMsg.from \in Nodes
      BY <1>3, MessageShape DEF IInv, TypeOK, StoreNew, Handling
    <2>. QED
      BY <1>3, <2>1, BookLearn DEF Book!Next
  <1>4. CASE SaveIndex
    BY <1>4, BookStore DEF Book!Next
  <1>5. CASE Restart
    BY <1>5, BookRestart DEF Book!Next
  <1>6. CASE ~UNCHANGED <<cache, nvs>>
    <2>1. CreateEntry \/ StoreNew \/ SaveIndex \/ Restart
      BY <1>6 DEF Next, vars, MeshStep, MeshReceive, CheckSpace, CheckKnown, Enqueue, MainStep,
         LoopStart, Receive, DropPosition, StoreKnown, AskForCredentials, StartPost,
         PostSucceeds, PostFails
    <2>. QED
      BY <1>2, <1>3, <1>4, <1>5, <2>1
  <1>. QED
    BY <1>1, <1>6

\* The gateway is an address book: cache and NVS together do what KnownUrls
\* promises, through evictions, changed URLs and a restart between any two steps.
THEOREM IsAddressBook == Spec => ImplementsKnownUrls
  <1>1. IInv /\ IInv' /\ [Next]_vars => [Book!Next]_(Book!vars)
    BY BookStep
  <1>. QED
    BY <1>1, BookInit, Inductive, PTL DEF Spec, ImplementsKnownUrls, Book!Spec
=============================================================================

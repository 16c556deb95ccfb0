---------------------------- MODULE GatewayLru ----------------------------
(***************************************************************************)
(* The clocks of the URL cache in gateway.cpp: which entry findOrCreate    *)
(* replaces, and how often askForCredentials asks.  Times are readings of  *)
(* millis(), which wraps at MillisMod; the uptime does not.  The histories *)
(* usedAt and askedAt record it for each node, whether or not the node     *)
(* still has an entry.                                                     *)
(***************************************************************************)
EXTENDS Clock

CONSTANTS
  Nodes, NoNode,
  CacheSize,    \* kCacheSize
  RequestGap,   \* kCredRequestGapMs
  MaxUptime     \* bound of the model: the gateway is switched off then

ASSUME LruAssumption ==
  /\ NoNode \notin Nodes
  /\ CacheSize \in Nat \ {0} /\ RequestGap \in Nat
  /\ MaxUptime \in Nat \ {0}

VARIABLES
  uptime,   \* true time since power-up
  cache,    \* gateway::cache; hasUrl stands for a URL and its hash
  usedAt,   \* history: uptime when an entry of the node was last used, 0 = not since power-up
  askedAt   \* history: uptime of the last request to a node, 0 = none

lruVars == <<uptime, cache, usedAt, askedAt>>

Slots == 1..CacheSize
Millis == uptime % MillisMod

Entry(n, url) == [node |-> n, hasUrl |-> url, lastUsed |-> 0, lastRequest |-> 0]
SlotOf(n) == {s \in Slots : cache[s].node = n}
Free == SlotOf(NoNode)

\* A scan that keeps the last of the candidates instead of the oldest.
NewestVictim == {v \in Slots : \A s \in Slots : cache[s].lastUsed <= cache[v].lastUsed}
\* The first slot with the smallest lastUsedMs.
OldestVictim ==
  {v \in Slots : \A s \in Slots :
     /\ cache[v].lastUsed <= cache[s].lastUsed
     /\ s < v => cache[v].lastUsed < cache[s].lastUsed}

\* findOrCreate: the node's entry, or a free slot, or the victim.
Chosen(n) ==
  IF SlotOf(n) # {} THEN SlotOf(n)
  ELSE IF Free # {} THEN {s \in Free : \A t \in Free : s <= t}
  ELSE OldestVictim
Found(n, s) == IF cache[s].node = n THEN cache[s] ELSE Entry(n, FALSE)

Used(n) == usedAt' = [usedAt EXCEPT ![n] = uptime]

\* storeCredentials
Store(n) ==
  \E s \in Chosen(n) :
    /\ cache' = [cache EXCEPT ![s] =
         [Found(n, s) EXCEPT !.hasUrl = TRUE, !.lastUsed = Millis]]
    /\ Used(n) /\ UNCHANGED <<uptime, askedAt>>

\* forwardPosition with a usable URL
Forward(n) ==
  \E s \in SlotOf(n) :
    /\ cache[s].hasUrl
    /\ cache' = [cache EXCEPT ![s].lastUsed = Millis]
    /\ Used(n) /\ UNCHANGED <<uptime, askedAt>>

MayAskAgain(e) == e.lastRequest = 0 \/ Since(Millis, e.lastRequest) < RequestGap
\* 0 stands for "never asked".
MayAsk(e) == e.lastRequest = 0 \/ Since(Millis, e.lastRequest) >= RequestGap

\* askForCredentials: a position without a usable URL, i.e. an unknown node or
\* one whose hash does not match.  Asking counts as a use only for an entry
\* that was never used.
Ask(n) ==
  \E s \in Chosen(n) :
    LET e == Found(n, s) IN
      IF MayAsk(e)
        THEN /\ cache' = [cache EXCEPT ![s] = [e EXCEPT
                  !.lastRequest = Millis,
                  !.lastUsed = IF @ = 0 THEN Millis ELSE @]]
             /\ askedAt' = [askedAt EXCEPT ![n] = uptime]
             /\ IF e.lastUsed = 0 THEN Used(n) ELSE UNCHANGED usedAt
             /\ UNCHANGED uptime
        ELSE cache' = [cache EXCEPT ![s] = e] /\ UNCHANGED <<usedAt, uptime, askedAt>>

LruTick == uptime < MaxUptime /\ uptime' = uptime + 1 /\ UNCHANGED <<cache, usedAt, askedAt>>

\* begin(): any set of nodes comes back from NVS, with no time of use.  Power
\* goes off at any time; setup() runs for a while before the first loop.
Booted(c) ==
  \E known \in [Slots -> Nodes \cup {NoNode}] :
    /\ \A s, t \in Slots : known[s] = known[t] /\ s # t => known[s] = NoNode
    /\ c = [s \in Slots |-> Entry(known[s], known[s] # NoNode)]

LruInit ==
  /\ uptime = 1 /\ Booted(cache)
  /\ usedAt = [n \in Nodes |-> 0] /\ askedAt = [n \in Nodes |-> 0]

Reboot ==
  /\ uptime' = 1
  /\ cache' = [s \in Slots |-> IF cache[s].hasUrl THEN Entry(cache[s].node, TRUE)
                                                  ELSE Entry(NoNode, FALSE)]
  /\ usedAt' = [n \in Nodes |-> 0] /\ askedAt' = [n \in Nodes |-> 0]

LruNext ==
  \/ \E n \in Nodes : Store(n) \/ Forward(n) \/ Ask(n)
  \/ LruTick \/ Reboot

LruSpec == LruInit /\ [][LruNext]_lruVars

----------------------------------------------------------------------------

\* When millis() last began at 0: at power-up, or at a wrap.
LastWrap == uptime - Millis

\* "reusing the least recently used slot" (gateway.cpp:54), as far as readings of
\* millis() tell: a tracker used since millis() last began at 0 is without an entry
\* only if every slot is taken, by one used later (or at once with it) or by one
\* not used since that beginning, whose old reading the code takes for a late one.
LostOnlyToLater ==
  \A n \in Nodes : usedAt[n] # 0 /\ usedAt[n] >= LastWrap /\ SlotOf(n) = {} =>
    \A s \in Slots :
      /\ cache[s].node # NoNode
      /\ LET m == cache[s].node IN usedAt[n] <= usedAt[m] \/ usedAt[m] < LastWrap

\* While a node keeps its entry it is asked at most once per request gap, even
\* if every one of its positions is refused.
AskedOncePerGap ==
  [][\A n \in Nodes :
       /\ askedAt'[n] # askedAt[n] /\ askedAt'[n] # 0 /\ askedAt[n] # 0
       /\ \E s \in SlotOf(n) : cache[s].lastRequest # 0
       => uptime - askedAt[n] >= RequestGap]_lruVars

----------------------------------------------------------------------------
(* The inductive invariant behind both; see AgeProofs *)

LruTypeOK ==
  /\ uptime \in 1..MaxUptime
  /\ cache \in [Slots -> [node : Nodes \cup {NoNode}, hasUrl : BOOLEAN,
                        lastUsed : 0..MillisMod - 1, lastRequest : 0..MillisMod - 1]]
  /\ usedAt \in [Nodes -> 0..uptime] /\ askedAt \in [Nodes -> 0..uptime]

\* No node has two entries.
OneEntry ==
  \A s, t \in Slots : s # t /\ cache[s].node = cache[t].node => cache[s].node = NoNode

\* An entry holds readings of the true times.
StampsSound ==
  /\ \A s \in Slots, n \in Nodes :
       cache[s].node = n => cache[s].lastUsed = usedAt[n] % MillisMod
  /\ \A s \in Slots : cache[s].node = NoNode => cache[s].lastUsed = 0
  /\ \A s \in Slots, n \in Nodes :
       cache[s].node = n /\ cache[s].lastRequest # 0 =>
         cache[s].lastRequest = askedAt[n] % MillisMod

\* Who lost its entry since millis() last began at 0 has the smallest reading.
LostReadsOldest ==
  \A n \in Nodes : usedAt[n] # 0 /\ usedAt[n] >= LastWrap /\ SlotOf(n) = {} =>
    \A s \in Slots :
      cache[s].node # NoNode /\ usedAt[n] % MillisMod <= cache[s].lastUsed

LruIInv == LruTypeOK /\ OneEntry /\ StampsSound /\ LostReadsOldest
=============================================================================

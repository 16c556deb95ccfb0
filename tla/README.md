# Formal model of the UAV BOS hardware tracker

TLA+ modules, TLC configurations and TLAPS proofs for the firmware in `src/`
(ESP32-S3, Arduino/FreeRTOS): a GNSS tracker that posts its position over the
vehicle WiFi, sends it encrypted over a LoRa mesh, relays other trackers'
packets, and as a *gateway* posts the positions of trackers without WiFi.
Paths below are relative to the repository's `src/` directory; `README.md` with
a line number means the repository's own README.

## 1. The system

### 1.1 Threads

* **Main loop** (Arduino `loop()`, core 1): button, state machine, web portal,
  uplink, gateway forwarding, updates. HTTP requests block it for seconds.
* **Mesh task** (core 0): the only user of the radio. Receives, relays, sends.
* **GNSS task** (core 0): feeds the parser; readers take a snapshot under a mutex.

Main loop and mesh task share two FreeRTOS queues (`txQueue` main → task,
`rxQueue` task → main), the flags `wantActive` and `uplinkOnline`, and a spin-locked
table `deliverable[]`. Nothing else synchronises them. Only NVS survives a
restart, and a restart (unplugged cable, saved settings, update) may come at any time.

### 1.2 Components

| Component | State | Operations | Hard behaviour | Correct when |
|---|---|---|---|---|
| **Gateway** `src/gateway.cpp`, receive side of `src/mesh.cpp` | URL cache of 32 entries, NVS strings `u<node>` and index `nodes`, `deliverable[]`, `rxQueue`, `uplinkOnline` | `begin`, `loop`, `storeCredentials`, `findOrCreate`, `askForCredentials`, `forwardPosition`, `saveIndex`; `handleRx`, `canDeliver`, `handleTrackerMessage`, `setDeliverable`, `clearDeliverable` | Three copies of one fact (RAM, table, NVS) changed by separate writes on two cores; eviction, colliding 16-bit hashes, failed POSTs, power loss between writes | a position is posted only to its sender's URL; a relay is withheld only if the position can be posted; a restart restores the cache |
| **Mesh task** `src/mesh.cpp` | duplicate ring `seen[]`, `relays[]`, own packet, `credAck`, `active` | `handleRx`, `scheduleRelay`, `cancelRelay`, `processRelays`, `processOwn`, `transmit`, `meshTask` | timers against received copies, bounded ring and slots, busy channel, switched off at any time | each packet is relayed at most once and only while nobody else did; own packets are repeated once; nothing waits for ever |
| **Reception guard** `receiving()` | `sinceMs`, IRQ flags of the radio | called before every transmission | header without payload, wrap of `millis()`, a static that outlives the packet | a packet being received is not aborted; a dead header does not silence the node |
| **Airtime account** | 60 buckets | `addAirtime`, `airtimeLastHourMs`, `foreignBudgetLeft` | bucket borders, reuse, wrap, booking at the end | the legal 10 % are never exceeded; foreign packets stay within their share |
| **The mesh as a whole** | one packet on several nodes | each node's rules for relaying, cancelling, repeating | loss, nodes that forget or restart, foreign nodes of two firmware generations | a flood ends; what trackers are told of its way is true; cancelling does not lose the packet |
| **Mesh sender** `mesh::loop`, `maybeHello` | time stamps of the last position, credentials, hello | queue a message | retries, lost requests, full queue | a position at most per interval, a URL reaches the gateway |
| **Main loop** `src/main.cpp` | `state`, selection, pending web request, `apAutoLeave` | `enter*`, `applyMode`, `switchMode`, `handleButton`, `handleWebModeRequest`, `loop*` | button, web page, timeouts and lost WiFi in any order | state, radio and web server fit mode and settings; an abandoned tracker finds back to the WiFi |
| **Web portal** `src/portal.cpp` | server on/off, requested mode | `handleSave`, `handleMode`, `handleReset`, `startAp`, `startSta`, `stop`, pages | requests arrive between any two loops | as above |
| **Settings** `src/config.cpp` | settings in RAM, 14 NVS keys | `load`, `loadMeshKey`, `save`, `saveMode`, `clear`, `sanitize` | a power failure between two keys, firmware with other built-in keys | the tracker starts with settings it can run with, its own mesh key, and a password of its network |
| **Uplink** `src/uplink.cpp` | `consecutiveFails`, backoff | `post`, `nextDelayMs` | backoff, 16-bit counter, stale result | retries are spaced; a failing uplink is seen as such |
| **Update** `src/ota.cpp`, `checkOta` | window, last attempt | `loop` | window by `millis()`, failing download | an update is tried until it worked or the window closes |
| **Message formats** `src/meshproto.cpp` | – | encode, decode | lengths, rounding | decode inverts encode, foreign bytes are refused |
| **GNSS** `src/gnss.cpp` | last date, time, location | `gnssTask`, `snapshot`, `unixTime`, `daysFromCivil` | date and time from different sentences; a sample used after a blocking request | the age of positions is judged right |
| **Display, certificates, pins, build scripts, case** | – | – | – | not modelled: output, constants, 3D models |

The components meet as follows. `loopMesh` (main) computes whether the gateway
counts as online and runs `gateway::loop`, which drains `rxQueue` and may block
in a POST. The mesh task reads `uplinkOnline` and `deliverable[]` to decide
whether *not* to relay a position it puts into `rxQueue`. `mesh::loop` and
`gateway` fill `txQueue`. `switchMode` and `applyMode` set `wantActive`, which
the mesh task follows. The web portal leaves a requested mode for the main loop
or saves settings and restarts.

The hazards this design is exposed to are listed with their lines in
`PROJECT.json` (`hazards`), each with the property that would catch it.

## 2. Modules and how they correspond to the code

`map` in `PROJECT.json` names the source lines of each definition. An action is
one handler, cut only where another actor or a power failure can tell the
difference; cores, queues and NVS writes set those cuts.

### Gateway, MCGateway, KnownUrls, GatewayProofs
The two actors are `MeshStep` and `MainStep`, each with a program counter
(`meshPc`: listen → space → known → enqueue; `mainPc`: top → drain → handle → ... ).
`canDeliver` is two steps because it looks at two things the main loop changes
meanwhile: room in the queue, then the table. `storeCredentials` is cut between
the NVS string and `saveIndex`; a POST is cut between request and answer, and
`gateway::loop` returns after it. `Restart` may come at any point and keeps only NVS.
Positions carry only the hash of the URL, credentials carry both; hashes may
collide. The history variable `lastPost` records the outcome of the last POST.
The choice of the victim when the cache is full is left open here.

`KnownUrls` is what all this promises, without slots, tables and steps: an
address book that knows at most `Capacity` trackers, lets a newcomer displace one
of them and only when full, and after a restart holds every URL but perhaps the
one learnt last. `Gateway` maps its slots to the book (`Known`, `StoredNodes`),
and `ImplementsKnownUrls` is checked by TLC and proved in `GatewayProofs`.

### Clock
Readings of `millis()` and their difference in `uint32_t` (`Since`), shared by the
modules in which `millis()` wraps: `RxGuard`, `Airtime`, `GatewayLru`.

### GatewayLru (proofs in AgeProofs)
The clocks that `Gateway` leaves out: `findOrCreate`'s order by `lastUsedMs` and
the gap of `askForCredentials`, on a `millis()` that wraps. The histories `usedAt` and `askedAt`
record uses and requests of every node in true uptime, whether or not it still has an entry.

### MeshTask, MeshProofs
`handleRx` is `HandleNew`, `HandleCopy` and `HandleOwnCopy`; `processRelays`,
`processOwn` (`LoadRetry`, `LoadNext`, `TransmitOwn`) and the switching in
`meshTask` follow the code. Times, channel state and budgets are free choices
(`Results`: sent, busy, blocked, failed), so a relay may wait while any number of packets
pass through the ring. `forgotten` holds the packets that fell out of it while their relay
waited; what the properties say of a packet, they say as long as the ring holds it. In
the code this case is rare and possible: on LongFast a relay may be
postponed seven times by up to 255 slots, on the order of a minute, in which 64 short packets fit. Random packet ids
are drawn from those not in use; a collision of random 16-bit ids is not modelled.

### Flood, MCFlood (proofs in MessageProofs)
One packet on its way through several nodes. A tracker follows `handleRx`,
`scheduleRelay`, `cancelRelay` and, for the origin, `processOwn` with its single
repetition; a Meshtastic node follows the same rules as far as the firmware
relies on them, and may leave the relay byte untouched (older firmware). Any
transmission may reach any of the other nodes; a node may decline, find the channel
busy, give up, forget the packet or restart. The header goes through `WriteFlags`
and `ReadFlags` of `Formats`. Slots, delays and airtime are those of the modules
around this one; the only thing kept of time is that the origin's repetition comes
after the relays that were not postponed (30 s against at most 271 slots, 24 s).
The history field `lost` marks what excuses a packet that nobody relayed.

### Sender
`mesh::loop`, `maybeHello`, `enqueue` and `requestCredentials`, with the part of
the mesh task that takes from `txQueue` or empties it. Time stamps are kept as
ages that stop at the largest value a comparison tells apart. Movement and course
(`parked`, `turned`), airtime (`Scales`) and the random offset (`Intervals`) are
choices. The loop reads `millis()` once and `enqueue` reads it again;
`SilenceAfter` keeps both outcomes, the same millisecond or a later one, in which
case the unsigned difference wraps. `hasUrl` is a setting read at start: without a request
URL `mesh::loop` returns early (`NoUrl`, mesh.cpp:784), although `switchMode` lets such a
tracker relay.

### Exchange, ExchangeProofs
Extends `Sender` with the gateway's entry for this tracker and a channel that
loses packets: position → request → credentials, with a minimum gap on either
side. `steady` marks the point from which nothing is lost, the queue is drained
within a tick and nobody switches off or forgets; before it anything may have
happened, so the promises are about every state the pair can get into.

### Uplink (proofs in LimitProofs)
One round of the main loop of a gateway: `loopRunning` (with `checkOta` and the
POST of the own position), `loopMesh` and `gateway::loop`, with `uplink::post`
for both kinds of positions. Requests block the loop (`pc` in `check`, `post`,
`forwardPost`) while time passes and the WiFi may go. `running` is the state
machine of `Tracker` reduced to Running or not; `fails` wraps as the 16-bit
counter does. `Shifted` is `base << n`, the doubling delay, as a recursive function. A successful installation restarts the tracker, that is, it begins
a new behaviour: nothing in this module survives a restart.

### RxGuard (proofs in MeshProofs)
`receiving()`, the radio's header-valid and packet-done flags, and a `millis()`
that wraps. The guard `~dio1Flag` of the transmission attempts says that the
task handles a finished packet right before it tries to transmit.

### Airtime (proofs in LimitProofs)
The buckets with the checks of `transmit` and `processRelays`; a transmission
occupies as many ticks as its time on air. `SumTo` is the loop of `airtimeLastHourMs`.
The history `onAir` is what was really sent: each tick with its power-up, its kind and the end
of its transmission, which is when `addAirtime` books it. `Boot` empties the buckets, as a restart
does, and leaves the history alone.

### FixAge (proofs in AgeProofs)
How old a position is when a gateway judges it. The sender's and the gateway's
`gnssTask` (`Sentence`: RMC carries the date and time, GGA the time only),
`snapshot` at the top of a round of the main loop (`Sample`), and the end of the
round, at most `MaxBlock` later, at which the position is sent (`SendsPosition`) or
taken from the queue and compared (`TakesPosition`, `TooOld`). The way through
the mesh takes any time. The GNSS module is assumed not to fall silent for good: `unixTime` asks
whether a time is valid, not how old it is (gnss.cpp:96). Days are short so that midnight comes early.

### Settings, SettingsProofs
The mesh key and the vehicle WiFi from the settings page (`handleSave`) through
`config::save`, cut at each NVS key, to `config::load` at a start of any
firmware (`Boot` chooses the built-in key). A password stands for the network it
was typed for. `Tracker` has the same save with other keys: the ones the state
machine depends on.

### Formats, Credentials, Calendar (proofs in MessageProofs and AgeProofs)
`meshproto.cpp`'s integers, flags, positions and credentials and `gnss.cpp`'s
date arithmetic as operators. They have no state and no run of their own
(`Flood` uses the flags): the theorems state for all values what they compute.
A float is an integer in tenths of the step it is rounded to, and a message is
a record of its fields.

### Tracker, TrackerProofs
`main.cpp`'s state machine with the portal requests and NVS writes that drive it.
`enterX` set everything a state closes and opens. `config::save` is written key
by key (`SaveKey`), and a power failure may come between the keys. Of the
settings the model keeps whether WiFi and URL are set, and the mode; timeouts
may fire whenever their condition holds. `Restart` stands for power failure and
for the restart after saving. Environment: WiFi in and out of range, the link
coming up, a device on the AP, the user leaving for good.

## 3. Runs

Passing runs; each finishes within a few minutes at most. Deadlock is checked except
in `flood` (once its packet is gone, nothing is left to do) and `fixage` (time stops
at `End`). `gateway` also checks the refinement `ImplementsKnownUrls`.

| Run | Instance | What it shows |
|---|---|---|
| `gateway` | 3 trackers, 2 slots, queue of 1, a hash shared by two trackers, one tracker with two URLs, restarts | cache, table and NVS stay in step through evictions, URL changes and power failures; positions go only to the sender's own URL; suppressed positions fit the queue; a failing tracker is relayed |
| `lru` | 3 trackers, 2 slots, 7 ticks of uptime, `millis()` modulo 4 | a tracker loses its entry only to ones used later, or before the wrap; one request per gap |
| `airtime` | 3 buckets of 2 ticks, 13 ticks of time, restarts, no wrap | the account agrees with what was sent since power-up; each power-up keeps limit and foreign share over all but the last bucket |
| `rxguard` | `millis()` modulo 12, packets of up to 4 ticks | dead headers clear (liveness); a packet whose start was taken survives |
| `mesh` | 2 packets (one foreign), 2 own ids, 2 slots, ring of 2, 2 tries | while the ring holds its packet a pending relay is alone; own-channel relays keep their slots; only credentials are sent twice, and wait for that only unheard; every own packet leaves (liveness) |
| `exchange` | queue of 2, gaps of 3 ticks, intervals of 1 and 2 | once the channel works the URL arrives within a request gap and two positions; a relaying node with a URL is never silent for longer than the hello interval |
| `uplink` | backoff up to 3 ticks, window of 6, failure counter modulo 4 | online only after a recent success; the own position is posted or handed to the mesh in time; a failed update check is repeated |
| `tracker` | one tracker, full state space | state, radio, portal and NVS fit; user APs stay; an abandoned tracker returns to running (liveness) |
| `flood` | origin, a tracker that relays all, one that relays trackers' packets, a Meshtastic node; 3 hops | floods end (liveness); hops and "via foreign" are reported truly; a packet somebody meant to relay is relayed |
| `settings` | 2 networks, 2 keys and the placeholder | the password is of the network in use; the mesh key survives other firmware and cut-off saves |
| `fixage` | days of 6 s, 7 s around a midnight, age limit, validity and rounds of 2 s | no fresh position is dropped; none is posted long after it was measured |

A run that shows where the code departs from what a comment says (`findings`
quotes the lines):

| Run | Statement | What happens |
|---|---|---|
| `rxguard_first` | sending does not abort a reception (mesh.cpp:303) | `now \| 1` lies in the future for even readings: the first look aborts the packet |

Further departures that the models contain, without a run of their own:
* a gateway with internet sends positions itself (README.md:318), but one received
  before and handled after a WiFi loss is neither relayed nor posted (mesh.cpp:487;
  `CheckKnown` and `Receive` in `Gateway`);
* a hello is for nodes that were silent for 15 minutes (README.md:338), but credentials
  queued in a later millisecond than the loop has read make the silence wrap, and a
  hello follows at once (mesh.cpp:682; `SilenceAfter` in `Sender`);
* a power failure between the NVS keys `ssid` and `pass` pairs the new network with
  the old password, and an empty password field then keeps it (`torn` in `Settings`);
* saving the placeholder key takes effect until the next restart only, since
  it is never stored (config.cpp:82; `KeysToWrite`);
* URLs of more than 200 characters pass the settings page (portal.cpp:488-496) but
  are never sent over LoRa (meshproto.cpp:175), and `credSent` is set all the same
  (mesh.cpp:791-794; `CanBeSent`);
* between the first sentence after midnight and the first date `unixTime` is a day
  early (gnss.cpp:95-98), not "0 = unknown" as gnss.h:17 has it: a position sent then is
  dropped as too old, and a gateway in that state drops nothing (`RightDay`);
* the gateway compares with the fix sampled before an update check that may have
  blocked the round (`MaxBlock` in `FixAge`);
* a relay that a busy channel postpones beyond the 30 s of `kCredAckTimeoutMs` may
  be cancelled by its own sender's repetition (mesh.cpp:455; `history.lost` in `Flood`);
* a tracker is deliverable as soon as its URL is stored or restored, before any
  POST to it succeeded, whereas README.md:320-321 speaks of the last transmission
  to that URL (`StoreNew`, `RamAfterBoot` in `Gateway`);
* the airtime account counts the running minute and the 59 before it, so 10 % of
  the last full hour (README.md:268) can be exceeded (`LimitHolds` is about 59 minutes);
* "someone else relayed it already" (mesh.cpp:454) is also concluded from the
  repetition of a packet by its own sender, which then nobody relays (`HandleCopy`);
* `credSent` is set although a full queue dropped the credentials, so they are
  not repeated for 10 minutes (README.md:216) unless a gateway asks (`MeshLoop`);
* a failed download ends the attempts to update, a failed check does not (`EndCheck`);
* "reusing the least recently used slot" (gateway.cpp:54) is not so once `millis()` has
  wrapped (49.7 days of uptime): an entry last used before the wrap reads as used late,
  and ones used after it make way first (the last alternative in `LostOnlyToLater`);
* a tracker that loses its entry is asked for its URL again at its next position,
  however soon, and a stamp that happens to read 0 counts as never asked
  (gateway.cpp:97; `AskedOncePerGap` excludes both);
* at the wrap the account forgets the last hour, so the limit may be reached
  twice (`airtime` with `MillisMod = 7`);
* at every restart the account begins anew (mesh.cpp:178), so a tracker that was switched off
  and on may send up to the limit again within the same hour, against README.md:268: in
  `airtime` the sum over all power-ups of a window exceeds `Limit`, which is
  why `LimitHolds` speaks of each power-up;
* every tracker silent for 15 minutes sends a hello (README.md:338), but one without a request
  URL, which the button can put into a LoRa mode and which then relays (main.cpp:113-118),
  never does (mesh.cpp:784; `NoUrl` in `Sender`), so `RelayIsHeard` asks for a URL;
* when 64 packets push a packet out of the ring while its relay waits, the next copy
  is taken for a new packet (mesh.cpp:453-458; 585 for the own packets): it cancels nothing, and a second relay may be
  scheduled (`forgotten` in `MeshTask`);
* URLs are repeated when no relay was heard for 30 s (README.md:336), but a copy heard when
  the repetition is loaded already and waits for the channel does not stop it
  (mesh.cpp:552, 446; `LoadRetry`);
* `sinceMs` survives a packet that was read without a transmission attempt after it,
  and then aborts the next packet (`TimedPacketSurvives` excludes this by `timed`);
* a web request waiting for its 500 ms ends a selection made at the button
  after it (`ApplyRequest` clears `modeSelecting`).

### Bounds, and why they are enough

* **Gateway.** The code has 32 entries in the cache and in the table and 8 places in the queue; what
  matters is that there are more trackers than slots (eviction), that two URLs
  share a hash, that a tracker changes its URL, and that the queue fills. Symmetry is not used.
  The theorems hold for all sizes.
* **GatewayLru.** `MaxUptime` 7 is nearly twice `MillisMod` 4: entries are used on either side
  of a wrap and evicted on either side. `RequestGap` 2 leaves time to ask, wait and ask again; three trackers on two
  slots evict each other repeatedly.
* **Airtime.** `Buckets` 3, `Minute` 2, `MaxUptime` 10 let buckets be reused, `MaxTime` 13 in all lets
  a restart follow a full hour or precede it, `MaxPowerUps` 2 lets the hour hold what two power-ups sent;
  `Limit` 3 and `MaxToa` 2 let several packets cross a border. `MillisMod` 100 keeps the wrap out.
* **RxGuard.** `MillisMod` 12 is even, as 2^32, and exceeds twice the packet
  time; the time starts anywhere, so every position of the wrap is met.
* **MeshTask.** Two packets and two own ids fill a ring of two places and push out packets whose
  relay waits; with two slots one packet can get two relays, and a new own-channel packet that
  finds both taken displaces a foreign one; `MaxTries` 2 below the counter's range `TriesMod` 4 lets a packet
  be postponed once and given up then. The relay mode is `all`: the others relay a
  subset. Two own ids let a second packet follow while the first is repeated.
* **Flood.** Four nodes are one of each kind; any of them may hear any other, so
  every topology is included. Hop limit 3 is the default (config.h) and one more
  than is needed for a packet to come back to a node that forgot it.
* **Settings.** Two networks and two keys tell old from new. The theorems hold for any.
* **FixAge.** `Start` 9 and `End` 16 with days of 6 s put midnight at 12, with a
  whole age limit (2 s), round (2 s) and validity (2 s) on either side. The theorems
  hold for any.
* **Exchange.** `QueueLen` 2 is shorter than what one round can queue
  (credentials, hello and position), so the queue overflows. `CredEvery` 10 exceeds
  the promised bound of 7 ticks, so the regular repetition cannot stand in for the
  answer to a request. `CredMinGap` is 2 and `RequestGap` 3 (30 s and 60 s in the
  code): the two gaps overlap in every phase. The assumptions the promises need are
  met by the code: `QueueLen` at least 2 (4, mesh.cpp:762; with one place hellos could
  crowd out positions), and `CredMinGap` no longer than the longest time between positions (30 s
  against 120 s less 10 % for a parked vehicle, mesh.cpp:64-66, 807; a tracker whose own
  gap outlasts two positions could refuse two requests in a row). `Intervals` {1, 2} stand for the random offset.
* **Uplink.** `FailsMod` 4 exceeds `MaxShift` and `Fresh`, as 65536 exceeds 6 and
  the number of POSTs in two minutes, so the wrap is met. `MaxBackoff` 3 lies
  between `Base` and the uncapped delay 4. `Window` 6 leaves room for several
  checks. Times of 2 for `MaxPost` and `MaxCheck` pass as well. The promised
  times add the longest round (`Round`) to the delays, since the loop only looks once a round.
* **Tracker.** Nothing is bounded: the state space is finite as it is.

### Fairness

* **RxGuard.** Weak fairness of time and of handling a finished packet; strong
  fairness of the two transmission attempts with a header set. The task loops
  every few milliseconds and always has something to send sooner or later (a
  hello each 15 minutes), whereas the time window in which the header counts as
  stale lasts for almost all of the 49.7 days, so an attempt falls into it.
* **MeshTask.** Weak fairness of `TransmitOwn` and `Activate`: the task's loop
  calls both each time round.
* **Flood.** Weak fairness, per node, of sending or giving up a scheduled relay:
  `processRelays` comes round in every loop of the task and gives up after eight attempts.
* **Exchange, Uplink.** No fairness: their promises are bounds in ticks, and a tick
  waits for the loop to come round (`ran`), in `Exchange` also for the queue once
  the channel is steady.
* **Tracker.** Weak fairness of every main-loop action whose condition stays
  true, of a WiFi that stays in range and is being tried, and of a restart that
  was requested. None of the user's actions is fair. Every HTTP request has a
  timeout, so the main loop always comes round.

## 4. Proofs

All proofs are checked by TLAPS for every value of the constants that satisfies
the named assumptions of their module. For `Gateway` and `Tracker`
(`GatewayAssumption`, `NoMsgAssumption`, `TrackerAssumption`): markers are not data, sizes are positive, `HashOf` is any
function, and the deliverable table is at least as large as the cache
(both are 32 in the code, `kMaxHeard` and `kCacheSize`).

**Gateway.** Seven theorems: `TypeCorrect`, `DeliverableCached`,
`NewUrlDeliverable`, `PostOwnUrl`, `SuppressedFits`, `FailingRelayed`,
`RestartRestores`. The properties are not inductive alone. `IInv` adds
* `CacheSound`: a node has at most one slot, and a cached URL is one its node
  announced, with that URL's hash; without it `DeliverableIsCached` could be
  broken by evicting the other copy of a node's entry;
* `NvsSound`: the same of NVS, needed because a restart makes the cache from it;
* `HandlerSound`: what the main loop and the mesh task have established about
  the message they hold: `StartPost`'s conditions still hold when the answer
  comes, and the place `canDeliver` found in the queue is still free, since only
  the mesh task appends.

The interesting lemma is `RoomToList`: `setDeliverable` always finds room.
`DeliverableIsCached` maps each listed node to a slot of its own that holds it
(`CacheSound` makes the map injective), so if a node that is in the cache is not
listed, fewer nodes are listed than there are slots, and slots are no more than
table places. The proof that `Next` preserves `IInv` has a lemma per action or
group of actions that disturb the same conjuncts.

**Tracker.** `TypeCorrect`, `StateFits`, `RadioFits`, `PortalFits`,
`SettingsSurvive`, `UserApStaysOpen`. `IInv` adds
* `SavingSound`: the keys still to be written are a suffix of `save`'s order and
  end with the restart, so nothing else happens in between;
* `AutoLeaveSound`: an AP that may close by itself was opened with settings to
  return to; without it `LeaveAp` could run a tracker with no URL.

Properties hold of the state and settings only between saves (`Idle`); a restart
makes both again from NVS, whatever mixture of keys it holds.

**Address book.** `IsAddressBook`: every step of `Gateway` is a step of
`KnownUrls` or none. The book changes in `CreateEntry` (`Meet`), when a URL enters the
RAM slot (`Learn`), when the index is written (`Store`) and at a restart. Two facts of
`IInv` carry it: a node has one slot, so that slots and book entries correspond, and
what is in NVS agrees with RAM except while a URL is being stored. `RoomInBook`
is the counting argument: a slot is free exactly when the book is not full.

**Settings.** `PasswordFits`, `UpdatesKeepKey`, under `SettingsAssumption` (keys, placeholder
and the empty string differ). `IInv` adds `LeftSound` (what is left to write is the end of
`save`'s order, and a key is written only if it is one), `KeySound` (the key in NVS is one
that may be in use, or any may) and `PasswordSound`: settings in use, in NVS and
on their way there each hold a password of their own network, except NVS while the
password is the next key to be written. That exception is why `torn` is needed.

**Age of positions.** `FreshForwarded`, `StaleDropped`, under `FixAgeAssumption` (numbers
are natural, a day is not empty, the clock does not start on day 0). `IInv` adds `GpsSound`
(the last sentence is of this second or the one before; date and location are not
younger), and `WasSound`, the same of a sample at the time it was taken, which
remains true of a position on its way through the mesh. The bound of
`OldIsDropped` is the exact sum of the three delays.

**Formats.** `FlagsRoundTrip`, `PositionRoundTrip`, `UrlArrives`, `DaysCountUp` and
`MidnightCounts` are about the operators of `Formats`, `Credentials` and `Calendar` for all inputs:
what is decoded is what was encoded, up to half a step of each field and clamped
at the ends of its range (a heading within half a step below a full turn is cut off, a full turn is 0); every URL that is sent passes the receiver's checks,
whatever the hash; day numbers grow by one from each day to the next
(`Tomorrow` is the calendar they are compared with), leap years included.

**Mesh task.** `TypeCorrect`, `RelaysAlone`, `RepeatsOnce`, `AwaitsUnheard`, `SlotKept`,
under `MeshTaskAssumption`. `IInv` adds
* `RingSound`: what was relayed or heard again and is still told of is in the ring, and a packet that
  waits to be relayed is in the ring or forgotten. Only then is a packet that is neither
  a new one, and its relay the only one; the lemma `RingKeeps` says what an insertion keeps;
* `OwnSound`: a loaded packet or one that waits for its repetition was sent at most as
  often as that allows, the two are different packets, and what is repeated is credentials.

**Flood.** `ReportsTrue`, `ScheduledRelayed`, for any number of nodes in any topology, under
`FloodAssumption`. `CopiesSound` says of each waiting copy what its header tells (`TellsItsWay`): the hop
limit is what the relays so far left of it, and the relay byte is that of the last relay or, if
that one leaves it alone, of an earlier one. `FlagsKept` carries it through the
encoding of the flags. `NothingYet`: no relay is scheduled before the first transmission.

**Sender and gateway.** `UrlArrives`, `RelayHeard`, for any gaps, intervals and length of the
queue, under `SenderAssumption` and `ExchangeAssumption`, `RelayHeard` for nodes with a URL. `UrlArrivesSoon` bounds a time, so
`IInv` has to say at each moment how much of it can be gone, and why the rest is enough:
* `SteadySound`: what the first `mesh::loop` after a tick has settled, above all that the queue
  is empty at the end of a tick and that positions and hellos are not overdue;
* `QueueSound`: until the URL is known, credentials come first in the queue and a position last, so
  that a drop from the full queue hits neither;
* `Coming`: the URL is known, queued first, or requested from a tracker that will not refuse. Nothing undoes it;
* `WaitSound`: until then the time without URL is at most the time since the last position (the
  gateway had no occasion to ask), or the gateway asked, was refused or not heard, and asks again at the first
  position after its gap. The tracker's own gap is over by then, because
  its credentials are at least as old as the wait. This is where `CredMinGap <= LongestGap` is needed.

**Reception guard.** `PacketSurvives`, an action property, at any reading of `millis()` and across its wrap.
`TimedSound`: the time since a packet's start was taken and the time until its end are together less than the
longest packet. Only a reading that was odd starts this (`now | 1` of an even one lies ahead
of the clock; the difference is then 2^32 - 1 and the packet is lost: `rxguard_first`).

**Cache clocks.** `AskedOnce` and `LostToLater`, for any uptime and number of wraps,
under `LruAssumption`. `StampsSound`: the entries' stamps are the true times modulo the wrap; with
`OneEntry` (a node has one entry) a difference of stamps is then never more than the true
time, so a tracker is never asked too early. `LostReadsOldest` carries the order: who lost its entry
since `millis()` last began at 0 has a reading no larger than any in the cache, and every later
change of an entry keeps this, since it only brings readings that are larger. A tick into a wrap empties it.

**Uplink.** `OnlineProven`, `CheckRepeated`, `OwnFindsAWay`, under `UplinkAssumption`. The bounds are sums of
delays, so `IInv` has to say how much of each is used up at every point of a round:
* `SinceMesh` and `SinceSend`: the longest time since `loopMesh` last decided, and since the
  check for updates last could have started (`OnlineSound`, `CheckSound`);
* `FailsSound`: a kind of POST fails at most once a round, so the 16-bit counter of one
  with a fresh success has not wrapped to the 0 that would mean success. This is where
  `FailsMod > Fresh` is needed;
* `GoodSound`: the last success of all began no earlier than a fresh one of either kind;
* `SilenceSound`, for `OwnPositionHasAWay`: after a failure the position went to the mesh no longer ago
  than `SinceJudged`, the time since `loopRunning` last judged whether to send, and the delay. At a
  counter of 0 this need not be so: a POST may have failed and the counter wrapped.
  `Unnoticed` is what that costs; the next POST comes after the plain interval, and the sum is within the bound.

**Airtime.** `AccountTrue`, `LimitKept`, `ForeignLimitKept`, for any number and length of buckets, limits and
times on air and any number of restarts, as long as `millis()` has not wrapped. `BucketsSound`: a bucket of the last hour holds as much as was
booked in its minute, and a minute of the last hour still has its bucket. `SumCounts` turns the sum
over buckets into the cardinality of one set, by induction over the buckets; `HourCovers` and
`HourEnds` are the arithmetic of minutes that put the set between the two
windows of `AccountAgrees`. `LimitSound` and `ForeignSound` count what is left of the
transmission under way as sent: the check before it pays for all of it. `PastSound` keeps for each earlier
power-up what these said when it ended.

**Recursion.** `Shifted` and `SumTo` are recursive functions. The library's induction takes an operator as a
parameter, which the provers cannot instantiate; `LimitProofs` therefore derives from the well-foundedness of `<` an
induction for sets of numbers (`Induction`) and the existence of recursively defined
functions (`Recursion`), and uses these.

**Only model-checked:** the liveness properties (`StuckHeaderClears`, `OwnPacketLeaves`,
`ReturnsToRunning`, `FloodEnds`): liveness under fairness is out of the prover's reach. Every invariant
and action property of the passing runs is a theorem. The three of `Airtime` have
the hypothesis `MaxUptime < MillisMod`, that is less than 49.7 days of uptime from power-up; beyond it TLC
finds them violated (see the departures in section 3).

## 5. Not modelled

* Encryption, authentication tags, nonces, the channel hash and the Protobuf wrapper
  (`encodeData`, `decodeData`): decoding gives a message of the own channel or none.
* The lengths of random delays and contention windows beyond "a relay waits"; who is heard how strongly.
* Status pages, scan and authentication of the portal; the display; sentences themselves (a library parses them).
* Collisions of random packet ids and of node numbers.
* Redirects, version numbers and the download of an update; TLS.
* `pollButton`: what a press means is modelled in `Tracker`, not how it is sampled. The
  loop may be blocked for seconds by a request, and two presses with an unseen release
  between them then look like one long one; no document says what should happen.
* `config::sanitize` and the numeric settings: the same clamping on every way in.
* The overflow of `unixTime` in 2106 and of the NVS.

## 6. Plan

Done, in this order: `Gateway`, `GatewayLru`, `MeshTask`, `Airtime`, `RxGuard`, `Tracker`;
`Sender` and `Exchange`; `Uplink`; `KnownUrls` and the refinement; `Flood`;
`Settings`; `FixAge`; `Formats`, `Credentials`, `Calendar`; the proofs of section 4.

Still worth doing:

1. What liveness rests on, as theorems: the measure that each step of `Flood` lowers, and
   the number of attempts that bounds how long an own packet waits.
2. `Airtime` against a sliding-window limit as its abstract specification.
3. `Button`: `pollButton` at a loop that blocks.
4. `Sender` composed with `MeshTask`: how old a position may be when it is sent.

------------------------------- MODULE Flood -------------------------------
(***************************************************************************)
(* One packet of a tracker on its way through the mesh: every node follows *)
(* the rules of mesh.cpp (handleRx, scheduleRelay, cancelRelay, processOwn *)
(* with its single repetition) or those of a Meshtastic relay, over a      *)
(* channel on which any transmission may reach any of the other nodes.     *)
(*                                                                         *)
(* Slots, delays, the busy channel and the airtime account of a single     *)
(* node are the subject of MeshTask, RxGuard and Airtime; here a relay is  *)
(* sent, or given up, at some time after it was scheduled.                 *)
(***************************************************************************)
EXTENDS Integers, FiniteSets, Functions, Formats

CONSTANTS
  Trackers,      \* nodes on the own channel
  Origin,        \* the tracker that sends the packet
  Meshtastic,    \* other nodes that relay; they cannot read it
  RelayMode,     \* settings.relayMode of each tracker
  HopLimit,      \* settings.hopLimit of Origin
  NodeByte,      \* nodeNum & 0xFF
  NoCopy

ASSUME FloodAssumption ==
  /\ Origin \in Trackers /\ Trackers \cap Meshtastic = {}
  /\ RelayMode \in [Trackers -> {"all", "own", "none"}]
  /\ HopLimit \in 1..7
  /\ NodeByte \in [Trackers \cup Meshtastic -> 0..255]
  /\ NoCopy \notin [flags : 0..255, byte : 0..255, count : Nat, last : Trackers \cup Meshtastic]

Nodes == Trackers \cup Meshtastic
Others == Nodes \ {Origin}

VARIABLES
  type,        \* what the packet is: "position" or "credentials"
  untouched,   \* Meshtastic nodes whose older firmware leaves the relay byte as it is
  heard,       \* tracker -> trackers in its table heard[]
  seen,        \* the nodes that remember the packet
  relays,      \* node -> the copy it is going to send, or NoCopy
  origin,      \* Origin: "send", "awaits" a relayed copy (credAck), "done"
  reports,     \* what the last transmission made trackers note about the sender
  history      \* did any node schedule a relay, send one, lose one or find the channel busy?

vars == <<type, untouched, heard, seen, relays, origin, reports, history>>

\* A copy on the air: flags and relay byte of its header, and as a history the
\* number of relays (up to one more than allowed) and the node that sent it.
Copy(flags, byte, count, last) ==
  [flags |-> flags, byte |-> byte, count |-> count, last |-> last]

\* processOwn: hop limit and hop start are those of the settings.
FirstCopy ==
  Copy(WriteFlags([hopLimit |-> HopLimit, wantAck |-> FALSE, viaMqtt |-> FALSE, hopStart |-> HopLimit]),
       NodeByte[Origin], 0, Origin)

----------------------------------------------------------------------------
(* Receiving *)

HopsLeft(c) == ReadFlags(c.flags).hopLimit

SameHopLimit(h) == h.hopLimit
\* scheduleRelay: one hop less, own relay byte.
NextHopLimit(h) == h.hopLimit - 1
Relayed(c, n) ==
  LET h == ReadFlags(c.flags) IN
    Copy(WriteFlags([h EXCEPT !.hopLimit = NextHopLimit(h)]),
         IF n \in untouched THEN c.byte ELSE NodeByte[n],
         IF c.count > HopLimit THEN c.count ELSE c.count + 1, n)

\* A tracker that knows the relay byte takes the relay for a tracker, and its
\* own byte for its own; the originator's byte after a hop is old firmware's.
ByteOfAny(n, c) ==
  c.byte # NodeByte[n] /\ \A t \in heard[n] : NodeByte[t] # c.byte
RelayedByForeign(n, c) ==
  c.byte # NodeByte[n] /\ \A t \in heard[n] \ {Origin} : NodeByte[t] # c.byte

\* handleTrackerMessage: what is noted about the packet's sender.
Hops(c) ==
  LET h == ReadFlags(c.flags) IN
    IF h.hopStart >= h.hopLimit THEN h.hopStart - h.hopLimit ELSE 0
Report(n, c) ==
  [node |-> n, hops |-> Hops(c), viaForeign |-> Hops(c) # 0 /\ RelayedByForeign(n, c), copy |-> c]

Willing(n) == IF n \in Trackers THEN RelayMode[n] # "none" ELSE TRUE

\* The receivers R of a copy.  Those in W do not relay it: no slot is free, a
\* gateway delivers the position itself, or a Meshtastic node is not meant to.
Receive(c, R, W) ==
  LET new == (R \ {Origin}) \ seen
      takers == {n \in new \ W : HopsLeft(c) > 0 /\ Willing(n)} IN
    /\ seen' = seen \cup new
    /\ relays' = [n \in Others |->
         IF n \in takers THEN Relayed(c, n)
         ELSE IF n \in R \/ n = c.last THEN NoCopy       \* cancelRelay, or just sent
         ELSE relays[n]]
    /\ reports' = {Report(n, c) : n \in new \cap Trackers}
    /\ heard' = [n \in Trackers |-> IF n \in new THEN heard[n] \cup {Origin} ELSE heard[n]]
    /\ history' = [history EXCEPT !.scheduled = @ \/ takers # {},
                                  !.relayed = @ \/ c.last # Origin]

----------------------------------------------------------------------------

SendsFirst ==
  /\ origin = "send"
  /\ origin' = IF type = "credentials" THEN "awaits" ELSE "done"
  /\ \E R \in SUBSET Others : \E W \in SUBSET R : Receive(FirstCopy, R, W)
  /\ UNCHANGED <<type, untouched>>

AtOnce == TRUE
\* kCredAckTimeoutMs is 30 s.  A relay waits at most 16 + 255 slots (24 s with the
\* slowest preset), so it is on the air by then unless the channel was busy.
RepetitionDue == history.lost \/ \A n \in Others : relays[n] = NoCopy

\* No relayed copy was heard in time: the identical packet once more.
Repeats ==
  /\ origin = "awaits" /\ RepetitionDue /\ origin' = "done"
  /\ \E R \in SUBSET Others : \E W \in SUBSET R : Receive(FirstCopy, R, W)
  /\ UNCHANGED <<type, untouched>>

\* processRelays sends the copy; Origin takes it for an acknowledgement.
Relays(n) ==
  /\ relays[n] # NoCopy
  /\ \E R \in SUBSET (Nodes \ {n}) : \E W \in SUBSET R :
       /\ Receive(relays[n], R, W)
       /\ origin' = IF Origin \in R /\ origin = "awaits" THEN "done" ELSE origin
  /\ UNCHANGED <<type, untouched>>

\* The channel is busy: the relay waits for up to 255 slots more.
Postpones(n) ==
  /\ relays[n] # NoCopy
  /\ history' = [history EXCEPT !.lost = TRUE] /\ reports' = {}
  /\ UNCHANGED <<type, untouched, heard, seen, relays, origin>>

\* Busy too often, or no airtime left.
GivesUp(n) ==
  /\ relays[n] # NoCopy
  /\ relays' = [relays EXCEPT ![n] = NoCopy]
  /\ history' = [history EXCEPT !.lost = TRUE] /\ reports' = {}
  /\ UNCHANGED <<type, untouched, heard, seen, origin>>

\* 64 other packets came by, long after the relay was sent.
Forgets(n) ==
  /\ n \in seen /\ relays[n] = NoCopy
  /\ seen' = seen \ {n} /\ reports' = {}
  /\ UNCHANGED <<type, untouched, heard, relays, origin, history>>

\* A restart loses everything but the settings.
Restarts(n) ==
  /\ seen' = seen \ {n} /\ reports' = {}
  /\ heard' = IF n \in Trackers THEN [heard EXCEPT ![n] = {}] ELSE heard
  /\ relays' = IF n = Origin THEN relays ELSE [relays EXCEPT ![n] = NoCopy]
  /\ origin' = IF n = Origin THEN "done" ELSE origin
  /\ history' = [history EXCEPT !.lost = @ \/ (n # Origin /\ relays[n] # NoCopy)]
  /\ UNCHANGED <<type, untouched>>

Init ==
  /\ type \in {"position", "credentials"}
  /\ untouched \in SUBSET Meshtastic
  /\ heard \in {h \in [Trackers -> SUBSET Trackers] : h[Origin] = {} /\ \A n \in Trackers : n \notin h[n]}
  /\ seen = {} /\ relays = [n \in Others |-> NoCopy]
  /\ origin = "send" /\ reports = {}
  /\ history = [scheduled |-> FALSE, relayed |-> FALSE, lost |-> FALSE]

Next ==
  \/ SendsFirst \/ Repeats
  \/ \E n \in Others : Relays(n) \/ Postpones(n) \/ GivesUp(n) \/ Forgets(n)
  \/ \E n \in Nodes : Restarts(n)

\* Every task loops; a scheduled relay is sent or given up after eight attempts.
Fairness == \A n \in Others : WF_vars(Relays(n) \/ GivesUp(n))

Spec == Init /\ [][Next]_vars /\ Fairness

----------------------------------------------------------------------------
(* What must hold. *)

TypeOK ==
  /\ type \in {"position", "credentials"} /\ untouched \subseteq Meshtastic
  /\ heard \in [Trackers -> SUBSET Trackers] /\ seen \subseteq Others
  /\ relays \in [Others -> [flags : 0..255, byte : 0..255, count : Nat, last : Nodes] \cup {NoCopy}]
  /\ origin \in {"send", "awaits", "done"}
  /\ history \in [scheduled : BOOLEAN, relayed : BOOLEAN, lost : BOOLEAN]

\* The flood of a packet ends, even if nodes forget it or restart and take it for
\* a new one when it comes back: with each relay it loses a hop (mesh.cpp:365,
\* 482), and its origin never relays it (mesh.cpp:446).
FloodEnds == <>[](\A n \in Others : relays[n] = NoCopy)

\* A tracker is told the true way of a packet: how often it was relayed, at most
\* as often as the hop limit allows (README.md:284), and whether the last relay was
\* a foreign node (README.md:332) - an estimate, as line 335 says: it takes bytes
\* that tell the nodes apart, trackers that were heard before, and a relay that
\* does not leave another relay's byte in the packet.
ReportsAreTrue ==
  \A r \in reports :
    /\ r.hops = r.copy.count /\ r.hops <= HopLimit
    /\ (/\ IsInjective(NodeByte)
        /\ Trackers \ {Origin, r.node} \subseteq heard[r.node]
        /\ r.copy.last \in untouched => r.copy.count = 1)
         => r.viaForeign = (r.copy.last \in Meshtastic)

\* Nodes that cancel their relays for each other (mesh.cpp:454) do not leave the
\* packet unsent, not even when the second copy is the sender's own repetition: once
\* a node meant to relay it, and none found the channel busy, restarted or is still
\* waiting, some node has relayed it.
ScheduledIsRelayed ==
  history.scheduled /\ ~history.lost /\ (\A n \in Others : relays[n] = NoCopy)
    => history.relayed

----------------------------------------------------------------------------
(* The inductive invariant behind the last two; see FloodProofs *)

\* A copy tells how often it was relayed, and by its byte who relayed it last.
TellsItsWay(c) ==
  /\ c.count <= HopLimit /\ (c.count = 0 <=> c.last = Origin)
  /\ ReadFlags(c.flags) =
       [hopLimit |-> HopLimit - c.count, wantAck |-> FALSE, viaMqtt |-> FALSE, hopStart |-> HopLimit]
  /\ \/ c.byte = NodeByte[c.last]
     \/ c.last \in untouched /\ (c.count = 1 => c.byte = NodeByte[Origin])

CopiesSound ==
  \A n \in Others : relays[n] # NoCopy => relays[n].last = n /\ TellsItsWay(relays[n])

\* Before the first transmission there is nothing to relay.
NothingYet == origin = "send" => ~history.scheduled /\ \A n \in Others : relays[n] = NoCopy

IInv == TypeOK /\ CopiesSound /\ NothingYet /\ ScheduledIsRelayed /\ ReportsAreTrue
=============================================================================

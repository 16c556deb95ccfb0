------------------------------ MODULE Tracker ------------------------------
(***************************************************************************)
(* The main loop of one tracker: the state machine of main.cpp with the    *)
(* parts of portal.cpp and config.cpp it drives, the user at the button    *)
(* and at the web page, the vehicle WiFi, and power failures.              *)
(*                                                                         *)
(* Of the settings the model keeps whether a WiFi and a request URL are    *)
(* set, and the mode.  Timeouts (30 s to connect, 5 min of AP idleness,    *)
(* 3 s after the last press, 500 ms after a web request) may fire at any   *)
(* time their condition holds.  Backlight and display are left out.        *)
(***************************************************************************)
EXTENDS Naturals, Sequences

CONSTANTS
  RadioWorks,   \* mesh::begin finds the radio and a valid key
  NoMode

Modes == {"WifiOnly", "Gateway", "Offline", "LoraOnly"}

ASSUME TrackerAssumption == RadioWorks \in BOOLEAN /\ NoMode \notin Modes

VARIABLES
  cfg, stored,     \* settings in RAM and in NVS
  state,           \* main.cpp's State
  apAutoLeave,
  portal,          \* the web server: "off", "ap" or "sta"
  trying, linked,  \* WiFi.begin in effect; WiFi.status() == WL_CONNECTED
  client,          \* a device is connected to the AP
  meshActive,
  modeSelecting, selectedMode,
  requestedMode,   \* portal: a request not taken yet
  pending,         \* main: a request taken, waiting for its 500 ms
  saving,          \* keys config::save has still to write, or <<"reboot">>
  saved,           \* the settings being saved
  inRange,         \* the vehicle WiFi can be reached
  userAway,        \* nobody uses the tracker any more, and it keeps its power
  userAp           \* history: the AP was opened by the user, or needs one

net == <<state, apAutoLeave, portal, trying, linked, client, userAp>>
choice == <<modeSelecting, selectedMode, requestedMode, pending>>
save == <<saving, saved>>
settings == <<cfg, stored>>
vars == <<settings, net, meshActive, choice, save, inRange, userAway>>

Config == [hasWifi : BOOLEAN, hasUrl : BOOLEAN, mode : Modes]
Factory == [hasWifi |-> FALSE, hasUrl |-> FALSE, mode |-> "WifiOnly"]

UsesWifi(mode) == mode # "LoraOnly"
UsesLora(mode) == mode # "WifiOnly"
configReady(c) == c.hasUrl /\ (UsesWifi(c.mode) => c.hasWifi)

NextInEnum(mode) ==
  CASE mode = "WifiOnly" -> "Gateway" [] mode = "Gateway" -> "LoraOnly"
    [] mode = "LoraOnly" -> "Offline" [] OTHER -> NoMode
NextMode(mode) ==
  CASE mode = "WifiOnly" -> "Gateway" [] mode = "Gateway" -> "Offline"
    [] mode = "Offline" -> "LoraOnly" [] OTHER -> "WifiOnly"

----------------------------------------------------------------------------
(* Entering a state: every way in closes what the previous state had open. *)

enterConnecting ==
  /\ state' = "Connecting" /\ portal' = "off" /\ client' = FALSE
  /\ trying' = TRUE /\ linked' = FALSE
  /\ UNCHANGED <<apAutoLeave, userAp>>

AutoLeaveKept(c, auto) == apAutoLeave \/ auto
AutoLeave(c, auto) == auto /\ UsesWifi(c.mode) /\ configReady(c)

\* After a timeout the vehicle WiFi is still tried in the background.
enterConfigAp(c, auto) ==
  /\ state' = "ConfigAp" /\ portal' = "ap" /\ client' = FALSE
  /\ apAutoLeave' = AutoLeave(c, auto) /\ userAp' = ~auto
  /\ trying' = AutoLeave(c, auto) /\ linked' = FALSE

enterRunning ==
  /\ state' = "Running" /\ portal' = "sta" /\ client' = FALSE
  /\ UNCHANGED <<apAutoLeave, userAp, trying, linked>>

PortalLeftOn ==
  /\ state' = "LoraOnly" /\ UNCHANGED portal /\ client' = FALSE
  /\ trying' = FALSE /\ linked' = FALSE
  /\ UNCHANGED <<apAutoLeave, userAp>>
enterLoraOnly ==
  /\ state' = "LoraOnly" /\ portal' = "off" /\ client' = FALSE
  /\ trying' = FALSE /\ linked' = FALSE
  /\ UNCHANGED <<apAutoLeave, userAp>>

SetMesh(c) == meshActive' = (UsesLora(c.mode) /\ RadioWorks)

applyMode(c) ==
  /\ SetMesh(c)
  /\ \/ ~configReady(c) /\ enterConfigAp(c, FALSE)
     \/ configReady(c) /\ UsesWifi(c.mode) /\ enterConnecting
     \/ configReady(c) /\ ~UsesWifi(c.mode) /\ enterLoraOnly

RadioNotSwitched(c) == UNCHANGED <<net, meshActive>>
\* Between two modes with WiFi only the radio changes and the web page stays up.
SwitchRadio(c) == SetMesh(c) /\ UNCHANGED net

ModeNotSaved(mode) == UNCHANGED stored
saveMode(mode) == stored' = [stored EXCEPT !.mode = mode]

StaysUpInOne(old, new) == UsesWifi(old) \/ UsesWifi(new)
StaysUp(old, new) == UsesWifi(old) /\ UsesWifi(new)

switchMode(mode) ==
  \/ mode = cfg.mode /\ UNCHANGED <<settings, net, meshActive>>
  \/ /\ mode # cfg.mode
     /\ LET c == [cfg EXCEPT !.mode = mode] IN
          /\ cfg' = c /\ saveMode(mode)
          /\ IF StaysUp(cfg.mode, mode) THEN SwitchRadio(c) ELSE applyMode(c)

----------------------------------------------------------------------------
(* The button *)

\* While config::save runs and until the restart nothing else does.
Idle == saving = <<>>
UserActs == Idle /\ ~userAway

ShortPress ==
  /\ UserActs
  /\ modeSelecting' = TRUE
  /\ selectedMode' = NextMode(IF modeSelecting THEN selectedMode ELSE cfg.mode)
  /\ UNCHANGED <<settings, net, meshActive, requestedMode, pending, save, inRange, userAway>>

HoldBacklight ==
  /\ UserActs /\ modeSelecting' = FALSE
  /\ UNCHANGED <<settings, net, meshActive, selectedMode, requestedMode, pending,
                 save, inRange, userAway>>

HoldAp ==
  /\ UserActs /\ modeSelecting' = FALSE
  /\ \/ state # "ConfigAp" /\ enterConfigAp(cfg, FALSE) /\ UNCHANGED meshActive
     \/ state = "ConfigAp" /\ configReady(cfg) /\ applyMode(cfg)
     \/ state = "ConfigAp" /\ ~configReady(cfg) /\ UNCHANGED <<net, meshActive>>
  /\ UNCHANGED <<settings, selectedMode, requestedMode, pending, save, inRange, userAway>>

\* Three seconds after the last press.
CommitSelection ==
  /\ Idle /\ modeSelecting /\ modeSelecting' = FALSE
  /\ switchMode(selectedMode)
  /\ UNCHANGED <<selectedMode, requestedMode, pending, save, inRange, userAway>>

----------------------------------------------------------------------------
(* The web page *)

\* Served in the states whose loop calls portal::loop, to a device on the AP or
\* in the vehicle WiFi.
Reachable == state \in {"ConfigAp", "Running"} /\ portal # "off" /\ (client \/ linked)

handleMode(mode) ==
  /\ UserActs /\ Reachable
  /\ cfg.hasUrl /\ (mode # "LoraOnly" => cfg.hasWifi)
  /\ requestedMode' = mode
  /\ UNCHANGED <<settings, net, meshActive, modeSelecting, selectedMode, pending, save, inRange, userAway>>

\* handleWebModeRequest takes a request; a later one replaces an earlier one.
TakeRequest ==
  /\ Idle /\ requestedMode # NoMode
  /\ pending' = requestedMode /\ requestedMode' = NoMode
  /\ UNCHANGED <<settings, net, meshActive, modeSelecting, selectedMode, save, inRange, userAway>>

\* ... and applies it 500 ms later.
ApplyRequest ==
  /\ Idle /\ pending # NoMode /\ requestedMode = NoMode
  /\ pending' = NoMode /\ modeSelecting' = FALSE
  /\ switchMode(pending)
  /\ UNCHANGED <<selectedMode, requestedMode, save, inRange, userAway>>

\* handleSave: a request URL is needed, a WiFi only in modes that use it.
handleSave(next) ==
  /\ UserActs /\ Reachable
  /\ configReady(next)
  /\ saved' = next /\ saving' = <<"hasWifi", "hasUrl", "mode", "reboot">>
  /\ UNCHANGED <<settings, net, meshActive, choice, inRange, userAway>>

\* config::save writes one key after the other.
SaveKey ==
  /\ saving # <<>> /\ Head(saving) # "reboot"
  /\ stored' = [stored EXCEPT ![Head(saving)] = saved[Head(saving)]]
  /\ saving' = Tail(saving)
  /\ cfg' = IF Head(saving') = "reboot" THEN saved ELSE cfg
  /\ UNCHANGED <<net, meshActive, choice, saved, inRange, userAway>>

\* config::clear; the settings in RAM stay until the restart.
handleReset ==
  /\ UserActs /\ Reachable
  /\ stored' = Factory /\ saving' = <<"reboot">>
  /\ UNCHANGED <<cfg, net, meshActive, choice, saved, inRange, userAway>>

----------------------------------------------------------------------------
(* The loop of each state *)

Connected ==
  /\ Idle /\ state = "Connecting" /\ linked /\ enterRunning
  /\ UNCHANGED <<settings, meshActive, choice, save, inRange, userAway>>

ConnectTimeout ==
  /\ Idle /\ state = "Connecting" /\ ~linked /\ enterConfigAp(cfg, TRUE)
  /\ UNCHANGED <<settings, meshActive, choice, save, inRange, userAway>>

MayLeaveAp == apAutoLeave /\ ~client /\ linked
LeaveAp ==
  /\ Idle /\ state = "ConfigAp" /\ MayLeaveAp /\ enterRunning
  /\ UNCHANGED <<settings, meshActive, choice, save, inRange, userAway>>

IdleAfterTimeout == Idle /\ state = "ConfigAp" /\ apAutoLeave /\ ~MayLeaveAp /\ ~client
\* A connected device counts as activity.
ApIdle == Idle /\ state = "ConfigAp" /\ ~MayLeaveAp /\ ~client
LeaveIdleAp ==
  /\ ApIdle /\ configReady(cfg) /\ applyMode(cfg)
  /\ UNCHANGED <<settings, choice, save, inRange, userAway>>

WifiLost ==
  /\ Idle /\ state = "Running" /\ ~linked /\ enterConnecting
  /\ UNCHANGED <<settings, meshActive, choice, save, inRange, userAway>>

----------------------------------------------------------------------------
(* Power-up, and the environment *)

\* setup(): applyMode on the stored settings.  Statics and the portal start over.
Restart ==
  /\ \/ ~userAway
     \/ saving = <<"reboot">>
  /\ cfg' = stored /\ UNCHANGED stored
  /\ modeSelecting' = FALSE /\ selectedMode' = "WifiOnly"
  /\ requestedMode' = NoMode /\ pending' = NoMode
  /\ saving' = <<>> /\ saved' = Factory
  /\ applyMode(stored)
  /\ UNCHANGED <<inRange, userAway>>

RangeChanges ==
  /\ inRange' = ~inRange /\ linked' = (linked /\ inRange')
  /\ UNCHANGED <<settings, state, apAutoLeave, portal, trying, client, userAp, meshActive, choice,
                 save, userAway>>

Link ==
  /\ trying /\ inRange /\ ~linked /\ linked' = TRUE
  /\ UNCHANGED <<settings, state, apAutoLeave, portal, trying, client, userAp, meshActive, choice,
                 save, inRange, userAway>>

ClientChanges ==
  /\ portal = "ap" /\ client' = ~client
  /\ UNCHANGED <<settings, state, apAutoLeave, portal, trying, linked, userAp, meshActive, choice,
                 save, inRange, userAway>>

UserLeaves ==
  /\ ~userAway /\ userAway' = TRUE
  /\ UNCHANGED <<settings, net, meshActive, choice, save, inRange>>

Init ==
  /\ stored = Factory /\ cfg = Factory
  /\ state = "ConfigAp" /\ portal = "ap" /\ apAutoLeave = FALSE /\ userAp = TRUE
  /\ trying = FALSE /\ linked = FALSE /\ client = FALSE /\ meshActive = FALSE
  /\ modeSelecting = FALSE /\ selectedMode = "WifiOnly"
  /\ requestedMode = NoMode /\ pending = NoMode
  /\ saving = <<>> /\ saved = Factory
  /\ inRange \in BOOLEAN /\ userAway = FALSE

User ==
  \/ ShortPress \/ HoldBacklight \/ HoldAp \/ handleReset
  \/ (\E mode \in Modes : handleMode(mode)) \/ (\E next \in Config : handleSave(next))
MainLoop ==
  \/ CommitSelection \/ TakeRequest \/ ApplyRequest \/ SaveKey
  \/ Connected \/ ConnectTimeout \/ LeaveAp \/ LeaveIdleAp \/ WifiLost
Environment == RangeChanges \/ Link \/ ClientChanges \/ UserLeaves
Next == User \/ MainLoop \/ Restart \/ Environment

\* The main loop comes round every few milliseconds, or after an HTTP request
\* with a timeout; a WiFi in range that is tried for long enough connects; a
\* requested restart happens.
Fairness ==
  /\ WF_vars(CommitSelection) /\ WF_vars(TakeRequest) /\ WF_vars(ApplyRequest) /\ WF_vars(SaveKey)
  /\ WF_vars(Connected) /\ WF_vars(LeaveAp) /\ WF_vars(LeaveIdleAp) /\ WF_vars(WifiLost)
  /\ WF_vars(ConnectTimeout)
  /\ WF_vars(Link) /\ WF_vars(saving = <<"reboot">> /\ Restart)

Spec == Init /\ [][Next]_vars /\ Fairness

----------------------------------------------------------------------------
(* Properties *)

\* Types, and nobody is connected to an AP that is closed.
TypeOK ==
  /\ cfg \in Config /\ stored \in Config /\ saved \in Config
  /\ state \in {"Connecting", "ConfigAp", "Running", "LoraOnly"}
  /\ portal \in {"off", "ap", "sta"}
  /\ {apAutoLeave, trying, linked, client, meshActive, modeSelecting, inRange,
      userAway, userAp} \subseteq BOOLEAN
  /\ selectedMode \in Modes /\ requestedMode \in Modes \cup {NoMode} /\ pending \in Modes \cup {NoMode}
  /\ saving \in Seq({"hasWifi", "hasUrl", "mode", "reboot"}) /\ Len(saving) <= 4
  /\ client => portal = "ap"

\* The tracker is in a state its mode and settings allow: it connects or runs
\* only with a WiFi and a URL, and WiFi is off only in the mode without WiFi,
\* whichever of button, web page, timeout or restart changed the mode last
\* (configReady, applyMode and the short cut in switchMode, main.cpp:112).
StateFitsSettings ==
  Idle =>
    /\ state \in {"Connecting", "Running"} => UsesWifi(cfg.mode) /\ configReady(cfg)
    /\ state = "LoraOnly" => ~UsesWifi(cfg.mode) /\ configReady(cfg)

\* The LoRa radio listens exactly in the modes that use it (README.md:203-208).
RadioFitsMode == Idle => meshActive = (UsesLora(cfg.mode) /\ RadioWorks)

\* The web server runs exactly where its loop is called, in the matching mode;
\* in particular it is off whenever WiFi is.
PortalFitsState ==
  portal = CASE state = "ConfigAp" -> "ap" [] state = "Running" -> "sta" [] OTHER -> "off"

\* A restart at any time changes nothing about the settings the tracker runs
\* with ("Die Betriebsart bleibt nach einem Neustart erhalten", README.md:211).
SettingsSurviveRestart == Idle => stored = cfg

\* An AP that the user opened is not closed because the vehicle WiFi is there
\* (main.cpp:37): it is not even tried meanwhile.
UserApStays == state = "ConfigAp" /\ userAp => ~MayLeaveAp /\ ~trying

\* Once nobody uses a configured tracker, its AP is free and the vehicle WiFi
\* stays in range, it ends up running: no timeout, lost connection, opened AP or
\* half-finished dialog leaves it stuck (README.md:149-151).
ReturnsToRunning ==
  <>[](userAway /\ inRange /\ ~client)
    => <>[](UsesWifi(cfg.mode) /\ configReady(cfg) => state = "Running")

----------------------------------------------------------------------------
(* The inductive invariant behind the safety properties; see TrackerProofs *)

\* The keys still to be written, always with the restart at the end.
SavingSound ==
  saving \in {<<>>, <<"hasWifi", "hasUrl", "mode", "reboot">>, <<"hasUrl", "mode", "reboot">>,
              <<"mode", "reboot">>, <<"reboot">>}

\* An AP that may close by itself was opened by a timeout, with settings to
\* return to.
AutoLeaveSound ==
  /\ Idle /\ state = "ConfigAp" /\ apAutoLeave => UsesWifi(cfg.mode) /\ configReady(cfg)
  /\ state = "ConfigAp" /\ userAp => ~apAutoLeave /\ ~trying

\* Inductive: each property needs the types, and some need each other.
IInv ==
  /\ TypeOK /\ SavingSound /\ AutoLeaveSound
  /\ StateFitsSettings /\ RadioFitsMode /\ PortalFitsState
  /\ SettingsSurviveRestart /\ UserApStays

=============================================================================

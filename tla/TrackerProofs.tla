--------------------------- MODULE TrackerProofs ---------------------------
(* Proofs about Tracker: the safety properties of the state machine.        *)
EXTENDS Tracker, TLAPS

USE TrackerAssumption

\* The types of the variables that entering a state sets, and of the others.
NetType ==
  /\ state \in {"Connecting", "ConfigAp", "Running", "LoraOnly"} /\ portal \in {"off", "ap", "sta"}
  /\ apAutoLeave \in BOOLEAN /\ trying \in BOOLEAN /\ linked \in BOOLEAN /\ client \in BOOLEAN
  /\ userAp \in BOOLEAN /\ meshActive \in BOOLEAN
  /\ client => portal = "ap"

ChoiceType ==
  /\ modeSelecting \in BOOLEAN /\ selectedMode \in Modes
  /\ requestedMode \in Modes \cup {NoMode} /\ pending \in Modes \cup {NoMode}

RestType ==
  /\ cfg \in Config /\ stored \in Config /\ saved \in Config
  /\ inRange \in BOOLEAN /\ userAway \in BOOLEAN

\* What must hold of the state machine, whichever step was taken.
NetSound ==
  /\ NetType /\ AutoLeaveSound
  /\ StateFitsSettings /\ RadioFitsMode /\ PortalFitsState

\* The inductive invariant in the parts the proofs work with.
PInv == NetSound /\ ChoiceType /\ RestType /\ SavingSound /\ SettingsSurviveRestart

\* The keys to save are a short sequence.
LEMMA SavingType ==
  SavingSound => saving \in Seq({"hasWifi", "hasUrl", "mode", "reboot"}) /\ Len(saving) <= 4
  <1>1. CASE saving = <<>>
    BY <1>1
  <1>2. CASE saving = <<"hasWifi", "hasUrl", "mode", "reboot">>
    BY <1>2
  <1>3. CASE saving = <<"hasUrl", "mode", "reboot">>
    BY <1>3
  <1>4. CASE saving = <<"mode", "reboot">>
    BY <1>4
  <1>5. CASE saving = <<"reboot">>
    BY <1>5
  <1>. QED
    BY <1>1, <1>2, <1>3, <1>4, <1>5 DEF SavingSound

\* The parts amount to the inductive invariant.
LEMMA Parts == PInv => IInv
  <1>1. PInv => TypeOK
    BY SavingType DEF PInv, TypeOK, NetSound, NetType, ChoiceType, RestType
  <1>2. PInv => UserApStays
    BY DEF PInv, NetSound, NetType, AutoLeaveSound, UserApStays, MayLeaveAp
  <1>. QED
    BY <1>1, <1>2 DEF PInv, IInv, NetSound

\* config::save writes the next key, and the restart comes last.
LEMMA NextKey ==
  ASSUME SavingSound, saving # <<>>, Head(saving) # "reboot"
  PROVE  /\ Head(saving) \in {"hasWifi", "hasUrl", "mode"}
         /\ Tail(saving) # <<>>
         /\ Tail(saving) \in {<<"hasUrl", "mode", "reboot">>, <<"mode", "reboot">>, <<"reboot">>}
  <1>1. CASE saving = <<"hasWifi", "hasUrl", "mode", "reboot">>
    BY <1>1
  <1>2. CASE saving = <<"hasUrl", "mode", "reboot">>
    BY <1>2
  <1>3. CASE saving = <<"mode", "reboot">>
    BY <1>3
  <1>4. saving # <<"reboot">>
    OBVIOUS
  <1>. QED
    BY <1>1, <1>2, <1>3, <1>4 DEF SavingSound

\* applyMode leads from anywhere to a sound state for the settings it is given.
LEMMA AppliedSound ==
  ASSUME NetType, NEW c \in Config, cfg' = c, applyMode(c)
  PROVE  NetSound'
  <1>1. CASE ~configReady(c) /\ enterConfigAp(c, FALSE)
    BY <1>1 DEF applyMode, SetMesh, enterConfigAp, AutoLeave, NetSound, NetType, AutoLeaveSound,
       StateFitsSettings, RadioFitsMode, PortalFitsState, UsesLora
  <1>2. CASE configReady(c) /\ UsesWifi(c.mode) /\ enterConnecting
    BY <1>2 DEF applyMode, SetMesh, enterConnecting, NetSound, NetType, AutoLeaveSound,
       StateFitsSettings, RadioFitsMode, PortalFitsState, UsesLora
  <1>3. CASE configReady(c) /\ ~UsesWifi(c.mode) /\ enterLoraOnly
    BY <1>3 DEF applyMode, SetMesh, enterLoraOnly, NetSound, NetType, AutoLeaveSound,
       StateFitsSettings, RadioFitsMode, PortalFitsState, UsesLora
  <1>. QED
    BY <1>1, <1>2, <1>3 DEF applyMode

\* switchMode keeps the state machine sound and the stored mode up to date.
LEMMA SwitchSound ==
  ASSUME NetSound, RestType, SettingsSurviveRestart, Idle, NEW mode \in Modes, switchMode(mode),
         UNCHANGED save
  PROVE  NetSound' /\ SettingsSurviveRestart' /\ cfg' \in Config /\ stored' \in Config
  <1>1. CASE mode = cfg.mode /\ UNCHANGED <<settings, net, meshActive>>
    BY <1>1 DEF settings, net, save, NetSound, NetType, AutoLeaveSound, StateFitsSettings,
       RadioFitsMode, PortalFitsState, SettingsSurviveRestart, RestType, Idle, MayLeaveAp
  <1>2. CASE mode # cfg.mode
    <2>. DEFINE c == [cfg EXCEPT !.mode = mode]
    <2>1. /\ c \in Config /\ c.mode = mode
          /\ c.hasWifi = cfg.hasWifi /\ c.hasUrl = cfg.hasUrl
      BY DEF RestType, Config
    <2>2. /\ cfg' = c /\ saveMode(mode)
          /\ IF StaysUp(cfg.mode, mode) THEN SwitchRadio(c) ELSE applyMode(c)
      BY <1>2 DEF switchMode
    <2>3. stored' = c
      BY <2>2 DEF saveMode, SettingsSurviveRestart
    <2>. HIDE DEF c
    <2>4. CASE StaysUp(cfg.mode, mode)
      <3>1. UsesWifi(cfg.mode) /\ UsesWifi(c.mode) /\ (configReady(cfg) <=> configReady(c))
        BY <2>1, <2>4 DEF StaysUp, configReady
      <3>2. meshActive' = (UsesLora(c.mode) /\ RadioWorks) /\ UNCHANGED net
        BY <2>2, <2>4 DEF SwitchRadio, SetMesh
      <3>3. NetType' /\ PortalFitsState' /\ RadioFitsMode'
        BY <2>2, <3>2 DEF NetSound, NetType, net, PortalFitsState, RadioFitsMode, UsesLora
      <3>4. StateFitsSettings' /\ AutoLeaveSound'
        BY <2>2, <3>1, <3>2 DEF NetSound, net, StateFitsSettings, AutoLeaveSound, Idle, save
      <3>. QED
        BY <2>1, <2>2, <2>3, <3>3, <3>4 DEF NetSound, SettingsSurviveRestart
    <2>5. CASE ~StaysUp(cfg.mode, mode)
      BY <2>1, <2>2, <2>3, <2>5, AppliedSound DEF NetSound, SettingsSurviveRestart
    <2>. QED
      BY <2>4, <2>5
  <1>. QED
    BY <1>1, <1>2 DEF switchMode

\* The soundness of the state machine depends on these variables only.
LEMMA NetUnchanged ==
  ASSUME NetSound, UNCHANGED <<cfg, net, meshActive, saving>>
  PROVE  NetSound'
  BY DEF net, NetSound, NetType, AutoLeaveSound, StateFitsSettings, RadioFitsMode,
     PortalFitsState, Idle

----------------------------------------------------------------------------

\* The invariant holds on a new tracker.
LEMMA InvInit == Init => PInv
  <1>. SUFFICES ASSUME Init PROVE PInv
    OBVIOUS
  <1>1. NetSound
    BY DEF Init, Factory, NetSound, NetType, AutoLeaveSound, StateFitsSettings, RadioFitsMode,
       PortalFitsState, configReady, UsesLora
  <1>2. ChoiceType /\ RestType /\ SavingSound /\ SettingsSurviveRestart
    BY DEF Init, Factory, ChoiceType, RestType, Config, Modes, SavingSound, SettingsSurviveRestart
  <1>. QED
    BY <1>1, <1>2 DEF PInv

\* What the user does at the button and at the web page keeps it.
LEMMA InvUser == PInv /\ User => PInv'
  <1>. SUFFICES ASSUME PInv, User PROVE PInv'
    OBVIOUS
  <1>. USE DEF PInv, save, settings
  <1>1. CASE ShortPress
    <2>1. ChoiceType'
      BY <1>1 DEF ShortPress, ChoiceType, RestType, Config, Modes, NextMode
    <2>. QED
      BY <1>1, <2>1, NetUnchanged DEF ShortPress, RestType, SavingSound, SettingsSurviveRestart, Idle
  <1>2. CASE HoldBacklight
    BY <1>2, NetUnchanged DEF HoldBacklight, ChoiceType, RestType, SavingSound,
       SettingsSurviveRestart, Idle
  <1>3. CASE HoldAp
    <2>1. NetSound'
      <3>1. CASE enterConfigAp(cfg, FALSE) /\ UNCHANGED meshActive
        BY <1>3, <3>1 DEF HoldAp, enterConfigAp, AutoLeave, NetSound, NetType, AutoLeaveSound,
           StateFitsSettings, RadioFitsMode, PortalFitsState, Idle
      <3>2. CASE applyMode(cfg)
        BY <1>3, <3>2, AppliedSound DEF HoldAp, NetSound, RestType
      <3>3. CASE UNCHANGED <<net, meshActive>>
        BY <1>3, <3>3, NetUnchanged DEF HoldAp
      <3>. QED
        BY <1>3, <3>1, <3>2, <3>3 DEF HoldAp
    <2>. QED
      BY <1>3, <2>1 DEF HoldAp, ChoiceType, RestType, SavingSound, SettingsSurviveRestart, Idle
  <1>4. CASE handleReset
    BY <1>4 DEF handleReset, choice, net, Factory, Config, Modes, ChoiceType, RestType, SavingSound,
       SettingsSurviveRestart, Idle, NetSound, NetType, AutoLeaveSound, StateFitsSettings,
       RadioFitsMode, PortalFitsState
  <1>5. ASSUME NEW mode \in Modes, handleMode(mode) PROVE PInv'
    BY <1>5, NetUnchanged DEF handleMode, ChoiceType, RestType, SavingSound,
       SettingsSurviveRestart, Idle
  <1>6. ASSUME NEW next \in Config, handleSave(next) PROVE PInv'
    BY <1>6 DEF handleSave, choice, net, ChoiceType, RestType, SavingSound,
       SettingsSurviveRestart, Idle, NetSound, NetType, AutoLeaveSound, StateFitsSettings,
       RadioFitsMode, PortalFitsState
  <1>. QED
    BY <1>1, <1>2, <1>3, <1>4, <1>5, <1>6 DEF User

\* A step of the main loop keeps it.
LEMMA InvMainLoop == PInv /\ MainLoop => PInv'
  <1>. SUFFICES ASSUME PInv, MainLoop PROVE PInv'
    OBVIOUS
  <1>. USE DEF PInv, save, settings
  <1>1. CASE CommitSelection
    BY <1>1, SwitchSound DEF CommitSelection, ChoiceType, RestType, SavingSound
  <1>2. CASE TakeRequest
    BY <1>2, NetUnchanged DEF TakeRequest, ChoiceType, RestType, SavingSound,
       SettingsSurviveRestart, Idle
  <1>3. CASE ApplyRequest
    <2>1. pending \in Modes
      BY <1>3 DEF ApplyRequest, ChoiceType
    <2>. QED
      BY <1>3, <2>1, SwitchSound DEF ApplyRequest, ChoiceType, RestType, SavingSound
  <1>4. CASE SaveKey
    <2>1. SavingSound' /\ saving' # <<>> /\ saving # <<>>
      BY <1>4, NextKey DEF SaveKey, SavingSound
    <2>2. cfg' \in Config /\ stored' \in Config
      BY <1>4, NextKey DEF SaveKey, RestType, Config
    <2>. QED
      BY <1>4, <2>1, <2>2 DEF SaveKey, choice, net, ChoiceType, RestType, SettingsSurviveRestart,
         Idle, NetSound, NetType, AutoLeaveSound, StateFitsSettings, RadioFitsMode, PortalFitsState
  <1>5. CASE Connected \/ LeaveAp \/ ConnectTimeout \/ WifiLost
    <2>1. NetSound'
      BY <1>5 DEF Connected, LeaveAp, MayLeaveAp, ConnectTimeout, WifiLost, enterRunning,
         enterConnecting, enterConfigAp, AutoLeave, NetSound, NetType, AutoLeaveSound,
         StateFitsSettings, RadioFitsMode, PortalFitsState, Idle
    <2>. QED
      BY <1>5, <2>1 DEF Connected, LeaveAp, ConnectTimeout, WifiLost, choice, ChoiceType, RestType,
         SavingSound, SettingsSurviveRestart, Idle
  <1>6. CASE LeaveIdleAp
    <2>1. NetSound'
      BY <1>6, AppliedSound DEF LeaveIdleAp, NetSound, RestType
    <2>. QED
      BY <1>6, <2>1 DEF LeaveIdleAp, choice, ChoiceType, RestType, SavingSound,
         SettingsSurviveRestart, Idle
  <1>. QED
    BY <1>1, <1>2, <1>3, <1>4, <1>5, <1>6 DEF MainLoop

\* A restart at any time keeps it, even one between two keys being saved.
LEMMA InvRestart == PInv /\ Restart => PInv'
  <1>. SUFFICES ASSUME PInv, Restart PROVE PInv'
    OBVIOUS
  <1>1. NetSound'
    BY AppliedSound DEF PInv, Restart, NetSound, RestType
  <1>2. ChoiceType' /\ RestType' /\ SavingSound' /\ SettingsSurviveRestart'
    BY DEF PInv, Restart, Factory, Config, Modes, ChoiceType, RestType, SavingSound,
       SettingsSurviveRestart
  <1>. QED
    BY <1>1, <1>2 DEF PInv

\* What happens around the tracker keeps it.
LEMMA InvEnvironment == PInv /\ Environment => PInv'
  <1>. SUFFICES ASSUME PInv, Environment PROVE PInv'
    OBVIOUS
  <1>1. NetSound'
    <2>1. CASE RangeChanges \/ Link
      <3>1. linked' \in BOOLEAN
        BY <2>1 DEF RangeChanges, Link
      <3>2. UNCHANGED <<settings, state, apAutoLeave, portal, trying, client, userAp, meshActive, save>>
        BY <2>1 DEF RangeChanges, Link
      <3>. QED
        BY <3>1, <3>2 DEF PInv, settings, save, NetSound, NetType, AutoLeaveSound,
           StateFitsSettings, RadioFitsMode, PortalFitsState, Idle
    <2>2. CASE ClientChanges
      BY <2>2 DEF PInv, ClientChanges, settings, save, NetSound, NetType, AutoLeaveSound,
         StateFitsSettings, RadioFitsMode, PortalFitsState, Idle
    <2>3. CASE UserLeaves
      BY <2>3, NetUnchanged DEF PInv, UserLeaves, settings, save
    <2>. QED
      BY <2>1, <2>2, <2>3 DEF Environment
  <1>2. ChoiceType' /\ RestType' /\ SavingSound' /\ SettingsSurviveRestart'
    BY DEF PInv, Environment, RangeChanges, Link, ClientChanges, UserLeaves, settings, save, choice,
       ChoiceType, RestType, SavingSound, SettingsSurviveRestart, Idle
  <1>. QED
    BY <1>1, <1>2 DEF PInv

\* The invariant holds in every reachable state.
THEOREM Inductive == Spec => []IInv
  <1>1. PInv /\ UNCHANGED vars => PInv'
    <2>1. PInv /\ UNCHANGED vars => NetSound'
      BY NetUnchanged DEF PInv, vars, settings, save
    <2>2. PInv /\ UNCHANGED vars => ChoiceType' /\ RestType' /\ SavingSound' /\ SettingsSurviveRestart'
      BY DEF PInv, vars, settings, choice, save, ChoiceType, RestType, SavingSound,
         SettingsSurviveRestart, Idle
    <2>. QED
      BY <2>1, <2>2 DEF PInv
  <1>2. PInv /\ [Next]_vars => PInv'
    BY <1>1, InvUser, InvMainLoop, InvRestart, InvEnvironment DEF Next
  <1>. QED
    BY <1>2, InvInit, Parts, PTL DEF Spec

\* Every variable keeps its type, and nobody is connected to a closed AP.
THEOREM TypeCorrect == Spec => []TypeOK
  BY Inductive, PTL DEF IInv

\* The state of the main loop always fits the mode and the settings.
THEOREM StateFits == Spec => []StateFitsSettings
  BY Inductive, PTL DEF IInv

\* The radio listens exactly in the modes that use it.
THEOREM RadioFits == Spec => []RadioFitsMode
  BY Inductive, PTL DEF IInv

\* The web server runs exactly in the states that serve it.
THEOREM PortalFits == Spec => []PortalFitsState
  BY Inductive, PTL DEF IInv

\* A restart between any two steps changes no setting the tracker runs with.
THEOREM SettingsSurvive == Spec => []SettingsSurviveRestart
  BY Inductive, PTL DEF IInv

\* An AP opened by the user is not closed because the vehicle WiFi is there.
THEOREM UserApStaysOpen == Spec => []UserApStays
  BY Inductive, PTL DEF IInv
=============================================================================

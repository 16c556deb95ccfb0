------------------------------ MODULE Settings ------------------------------
(***************************************************************************)
(* The settings of a tracker that outlive its firmware: the mesh key and   *)
(* the vehicle WiFi, from the settings page (handleSave of portal.cpp)     *)
(* through config::save, which writes one key of NVS after the other, to   *)
(* config::load at the next start.  Power may fail at any point, and the   *)
(* next start may be one of another firmware with another built-in key.    *)
(*                                                                         *)
(* A password is represented by the network it was typed for.  Modes and   *)
(* the states they lead to are the subject of Tracker; numbers are clamped *)
(* to the same ranges on every way in and are left out.                    *)
(***************************************************************************)
EXTENDS Naturals, Sequences

CONSTANTS
  Ssids,         \* names of WiFi networks
  Keys,          \* valid mesh keys
  Placeholder,   \* kPlaceholderMeshKey
  Empty          \* the empty string

ASSUME SettingsAssumption ==
  Placeholder \notin Keys /\ Empty \notin Keys \cup Ssids \cup {Placeholder}

VARIABLES
  nvs,      \* the keys "ssid", "pass", "url" and "meshkey"
  cfg,      \* the settings in use
  next,     \* the settings config::save is writing
  left,     \* the keys it has yet to write
  build,    \* MESH_PSK_B64 of the installed firmware
  healing,  \* history: this save was given a password, or another network
  torn,     \* history: power failed between a network and its password
  kept      \* history: the mesh keys that may be in use after a restart

vars == <<nvs, cfg, next, left, build, healing, torn, kept>>

NoPassword == <<>>
Passwords == {NoPassword} \cup {<<s>> : s \in Ssids \cup {Empty}}
AnyKey == Keys \cup {Placeholder}
Saved == [ssid : Ssids \cup {Empty}, pass : Passwords, url : BOOLEAN, meshkey : AnyKey \cup {Empty}]
Erased == [ssid |-> Empty, pass |-> NoPassword, url |-> FALSE, meshkey |-> Empty]

----------------------------------------------------------------------------
(* config.cpp *)

BuildKeyWins(stored, built) ==
  IF built \in Keys THEN built ELSE IF stored \in AnyKey THEN stored ELSE Placeholder
\* loadMeshKey
MeshKey(stored, built) ==
  IF stored \in AnyKey THEN stored ELSE IF built \in Keys THEN built ELSE Placeholder

\* config::load; a built-in key that is used is stored.
load(stored, built) ==
  LET key == MeshKey(stored.meshkey, built) IN
    /\ cfg' = [stored EXCEPT !.meshkey = key]
    /\ nvs' = IF key = Placeholder THEN stored ELSE [stored EXCEPT !.meshkey = key]
    /\ kept' = IF key = Placeholder THEN AnyKey ELSE {key}

\* config::save: the placeholder is never stored.
KeysToWrite(s) ==
  IF s.meshkey \in Keys THEN <<"ssid", "pass", "url", "meshkey">> ELSE <<"ssid", "pass", "url">>

----------------------------------------------------------------------------
(* portal.cpp *)

PasswordKept(ssid, typed) == IF typed THEN <<ssid>> ELSE cfg.pass
\* An empty field keeps the password, unless the network changes.
PasswordFor(ssid, typed) ==
  IF typed THEN <<ssid>> ELSE IF ssid # cfg.ssid THEN NoPassword ELSE cfg.pass

\* The posted form; usesWifi is that of the posted mode, an empty key or URL
\* leaves the old one.  Other forms are answered with 400.
handleSave(ssid, typed, url, usesWifi, key) ==
  /\ left = <<>>
  /\ usesWifi => ssid # Empty
  /\ url \/ cfg.url
  /\ LET s == [ssid |-> ssid, pass |-> PasswordFor(ssid, typed), url |-> TRUE,
               meshkey |-> IF key = Empty THEN cfg.meshkey ELSE key] IN
       /\ next' = s /\ left' = KeysToWrite(s)
       /\ kept' = IF s.meshkey \in Keys THEN kept \cup {s.meshkey} ELSE kept
  /\ healing' = (typed \/ ssid # cfg.ssid)
  /\ UNCHANGED <<nvs, cfg, build, torn>>

\* One key after the other.  When all are written the settings are used, and the
\* tracker restarts.
SaveKey ==
  /\ left # <<>> /\ Head(left) # "reboot"
  /\ LET k == Head(left)
         done == Tail(left) = <<>> IN
       /\ nvs' = [nvs EXCEPT ![k] = next[k]]
       /\ torn' = (torn /\ ~(done /\ healing))
       /\ left' = IF done THEN <<"reboot">> ELSE Tail(left)
       /\ cfg' = IF done THEN next ELSE cfg
       /\ kept' = IF k = "meshkey" THEN {next.meshkey} ELSE kept
  /\ UNCHANGED <<next, build, healing>>

\* handleReset: config::clear, then a restart.
handleReset ==
  /\ left = <<>>
  /\ nvs' = Erased /\ left' = <<"reboot">>
  /\ kept' = AnyKey
  /\ UNCHANGED <<cfg, next, build, healing, torn>>

\* A restart: requested, after a power failure, or with another firmware.
Boot ==
  /\ build' \in AnyKey \cup {Empty}
  /\ load(nvs, build')
  /\ left' = <<>> /\ next' = Erased /\ healing' = FALSE
  /\ torn' = (nvs # Erased /\ (torn \/ (left # <<>> /\ Head(left) = "pass")))

Init ==
  /\ build \in AnyKey \cup {Empty}
  /\ nvs = [Erased EXCEPT !.meshkey = IF build \in Keys THEN build ELSE Empty]
  /\ cfg = [Erased EXCEPT !.meshkey = MeshKey(Empty, build)]
  /\ kept = (IF build \in Keys THEN {build} ELSE AnyKey)
  /\ left = <<>> /\ next = Erased /\ healing = FALSE /\ torn = FALSE

Next ==
  \/ \E ssid \in Ssids \cup {Empty}, typed, url, usesWifi \in BOOLEAN, key \in AnyKey \cup {Empty} :
       handleSave(ssid, typed, url, usesWifi, key)
  \/ SaveKey \/ handleReset \/ Boot

Spec == Init /\ [][Next]_vars

----------------------------------------------------------------------------
(* Properties *)

TypeOK ==
  /\ {nvs, cfg, next} \subseteq Saved /\ build \in AnyKey \cup {Empty}
  /\ {healing, torn} \subseteq BOOLEAN /\ kept \subseteq AnyKey

\* "The key survives firmware updates and is only deleted by a factory reset"
\* (README.md:243, config.cpp:14-15): whichever firmware starts, and wherever power
\* failed during a save, the key in use is the one that was adopted first or typed
\* in last.
KeyStays == [][Boot => cfg'.meshkey \in kept]_vars

\* "An empty field keeps a stored password unless the SSID is changed"
\* (portal.cpp:67): the password in use was typed for the network in use, after any
\* sequence of saves, restarts and resets in which power never failed between the
\* two writes of a save that was not repeated since.
PasswordIsForNetwork == torn \/ cfg.pass \in {NoPassword, <<cfg.ssid>>}

----------------------------------------------------------------------------
(* The inductive invariant behind them; see SettingsProofs *)

About(k) == left # <<>> /\ Head(left) = k
ShortWrite == {<<"ssid", "pass", "url">>, <<"pass", "url">>, <<"url">>}
LongWrite ==
  {<<"ssid", "pass", "url", "meshkey">>, <<"pass", "url", "meshkey">>, <<"url", "meshkey">>, <<"meshkey">>}

\* What is left to write is the end of config::save; a key is written if it is one.
LeftSound ==
  /\ left \in {<<>>, <<"reboot">>} \cup ShortWrite \cup LongWrite
  /\ left \in LongWrite => next.meshkey \in Keys

\* A key in NVS is one that may be used after a restart; without one any may be.
KeySound == kept = AnyKey \/ (nvs.meshkey \in Keys /\ nvs.meshkey \in kept)

\* Settings in use, in NVS and on their way there each have a password of their
\* network; NVS has not while it holds the new network and the old password.
Fits(s) == s.pass \in {NoPassword, <<s.ssid>>}
PasswordSound ==
  /\ torn \/ Fits(cfg)
  /\ torn \/ Fits(nvs) \/ About("pass")
  /\ left \in ShortWrite \cup LongWrite => torn \/ Fits(next)
  /\ healing => Fits(next)
  /\ About("pass") \/ About("url") \/ About("meshkey") => nvs.ssid = next.ssid
  /\ About("url") \/ About("meshkey") => nvs.pass = next.pass

IInv == TypeOK /\ LeftSound /\ KeySound /\ PasswordSound
=============================================================================

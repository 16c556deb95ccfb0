--------------------------- MODULE SettingsProofs ---------------------------
(***************************************************************************)
(* Proofs about Settings, for any networks and mesh keys: a firmware       *)
(* update never swaps the key, and a password stays with its network.      *)
(***************************************************************************)
EXTENDS Settings, TLAPS

USE SettingsAssumption


\* What SaveKey writes, and what is left then.
LEMMA NextKey ==
  ASSUME LeftSound, left # <<>>, Head(left) # "reboot"
  PROVE  /\ Head(left) \in {"ssid", "pass", "url", "meshkey"}
         /\ left \in ShortWrite \cup LongWrite
         /\ Tail(left) = <<>> \/ Tail(left) \in ShortWrite \/ (left \in LongWrite /\ Tail(left) \in LongWrite)
         /\ Head(left) = "ssid" => Tail(left) # <<>> /\ Head(Tail(left)) = "pass"
         /\ Head(left) = "pass" => Tail(left) # <<>> /\ Head(Tail(left)) = "url"
         /\ Head(left) = "url" => Tail(left) = <<>> \/ Head(Tail(left)) = "meshkey"
         /\ Head(left) = "meshkey" => Tail(left) = <<>> /\ left \in LongWrite
<1>1. left # <<"reboot">>
  OBVIOUS
<1>2. left \in ShortWrite \cup LongWrite
  BY <1>1 DEF LeftSound
<1>3. CASE left = <<"ssid", "pass", "url">>
  BY <1>3 DEF ShortWrite
<1>4. CASE left = <<"pass", "url">>
  BY <1>4 DEF ShortWrite
<1>5. CASE left = <<"url">>
  BY <1>5 DEF ShortWrite
<1>6. CASE left = <<"ssid", "pass", "url", "meshkey">>
  BY <1>6 DEF LongWrite
<1>7. CASE left = <<"pass", "url", "meshkey">>
  BY <1>7 DEF LongWrite
<1>8. CASE left = <<"url", "meshkey">>
  BY <1>8 DEF LongWrite
<1>9. CASE left = <<"meshkey">>
  BY <1>9 DEF LongWrite
<1> QED
  BY <1>2, <1>3, <1>4, <1>5, <1>6, <1>7, <1>8, <1>9 DEF ShortWrite, LongWrite

\* A handler in the code sees the settings only between saves.
LEMMA FirstKeys ==
  ASSUME NEW s
  PROVE  /\ KeysToWrite(s) # <<>> /\ Head(KeysToWrite(s)) = "ssid"
         /\ KeysToWrite(s) \in ShortWrite \cup LongWrite
         /\ KeysToWrite(s) \in LongWrite => s.meshkey \in Keys
<1>1. CASE s.meshkey \in Keys
  <2>1. KeysToWrite(s) = <<"ssid", "pass", "url", "meshkey">>
    BY <1>1 DEF KeysToWrite
  <2> QED
    BY <1>1, <2>1 DEF LongWrite
<1>2. CASE s.meshkey \notin Keys
  <2>1. KeysToWrite(s) = <<"ssid", "pass", "url">>
    BY <1>2 DEF KeysToWrite
  <2>2. <<"ssid", "pass", "url">> \notin LongWrite
    BY DEF LongWrite
  <2> QED
    BY <2>1, <2>2 DEF ShortWrite
<1> QED
  BY <1>1, <1>2

\* Erased settings are settings, with or without a mesh key.
LEMMA ErasedType ==
  /\ Erased \in Saved /\ Fits(Erased)
  /\ \A key \in AnyKey \cup {Empty} :
       /\ [Erased EXCEPT !.meshkey = key] \in Saved
       /\ Fits([Erased EXCEPT !.meshkey = key]) /\ [Erased EXCEPT !.meshkey = key].meshkey = key
<1>1. NoPassword \in Passwords
  BY DEF Passwords
<1> QED
  BY <1>1 DEF Erased, Saved, AnyKey, Fits

LEMMA InitSound == Init => IInv
<1> SUFFICES ASSUME Init PROVE IInv
  OBVIOUS
<1>1. TypeOK
  <2>1. MeshKey(Empty, build) \in AnyKey /\ (IF build \in Keys THEN build ELSE Empty) \in AnyKey \cup {Empty}
    BY DEF MeshKey, AnyKey
  <2>2. nvs \in Saved /\ cfg \in Saved /\ next \in Saved
    BY <2>1, ErasedType DEF Init
  <2> QED
    BY <2>2 DEF Init, TypeOK, AnyKey
<1>2. LeftSound
  BY DEF Init, LeftSound, ShortWrite, LongWrite
<1>3. KeySound
  BY DEF Init, KeySound, Erased
<1>4. PasswordSound
  BY DEF Init, PasswordSound, Fits, NoPassword, Erased, About, ShortWrite, LongWrite
<1> QED
  BY <1>1, <1>2, <1>3, <1>4 DEF IInv

LEMMA SaveSound ==
  ASSUME IInv, NEW ssid \in Ssids \cup {Empty}, NEW typed \in BOOLEAN, NEW url \in BOOLEAN,
         NEW usesWifi \in BOOLEAN, NEW key \in AnyKey \cup {Empty},
         handleSave(ssid, typed, url, usesWifi, key)
  PROVE  IInv'
<1> DEFINE s == [ssid |-> ssid, pass |-> PasswordFor(ssid, typed), url |-> TRUE,
                 meshkey |-> IF key = Empty THEN cfg.meshkey ELSE key]
<1>1. /\ left = <<>> /\ next' = s /\ left' = KeysToWrite(s)
      /\ kept' = IF s.meshkey \in Keys THEN kept \cup {s.meshkey} ELSE kept
      /\ healing' = (typed \/ ssid # cfg.ssid)
      /\ UNCHANGED <<nvs, cfg, build, torn>>
  BY DEF handleSave
<1>2. PasswordFor(ssid, typed) \in Passwords
  BY DEF PasswordFor, Passwords, IInv, TypeOK, Saved
<1>3. s \in Saved
  BY <1>2 DEF Saved, IInv, TypeOK
<1>4. s.ssid = ssid /\ s.pass = PasswordFor(ssid, typed)
  OBVIOUS
<1>5. /\ torn \/ Fits(s)
      /\ typed \/ ssid # cfg.ssid => Fits(s)
  BY <1>4 DEF Fits, PasswordFor, NoPassword, IInv, PasswordSound
<1> HIDE DEF s
<1>6. TypeOK'
  BY <1>1, <1>3 DEF IInv, TypeOK, AnyKey
<1>7. LeftSound' /\ left' \in ShortWrite \cup LongWrite /\ left' # <<>> /\ Head(left') = "ssid"
  BY <1>1, FirstKeys DEF LeftSound, ShortWrite, LongWrite
<1>8. KeySound'
  BY <1>1 DEF IInv, KeySound, AnyKey
<1>9. PasswordSound'
  BY <1>1, <1>5, <1>7 DEF IInv, PasswordSound, Fits, About, ShortWrite, LongWrite
<1> QED
  BY <1>6, <1>7, <1>8, <1>9 DEF IInv

LEMMA SaveKeySound ==
  ASSUME IInv, SaveKey
  PROVE  IInv'
<1> DEFINE k == Head(left)
           done == Tail(left) = <<>>
<1>1. /\ left # <<>> /\ k # "reboot"
      /\ nvs' = [nvs EXCEPT ![k] = next[k]]
      /\ torn' = (torn /\ ~(done /\ healing))
      /\ left' = IF done THEN <<"reboot">> ELSE Tail(left)
      /\ cfg' = IF done THEN next ELSE cfg
      /\ kept' = IF k = "meshkey" THEN {next.meshkey} ELSE kept
      /\ UNCHANGED <<next, build, healing>>
  BY DEF SaveKey
<1>2. LeftSound
  BY DEF IInv
<1>3. /\ k \in {"ssid", "pass", "url", "meshkey"}
      /\ left \in ShortWrite \cup LongWrite
      /\ done \/ Tail(left) \in ShortWrite \/ (left \in LongWrite /\ Tail(left) \in LongWrite)
      /\ k = "ssid" => ~done /\ Head(Tail(left)) = "pass"
      /\ k = "pass" => ~done /\ Head(Tail(left)) = "url"
      /\ k = "url" => done \/ Head(Tail(left)) = "meshkey"
      /\ k = "meshkey" => done /\ left \in LongWrite
  BY <1>1, <1>2, NextKey
<1> HIDE DEF k
<1>4. nvs \in Saved /\ next \in Saved /\ cfg \in Saved
  BY DEF IInv, TypeOK
<1>5. /\ nvs' \in Saved
      /\ nvs'.ssid = IF k = "ssid" THEN next.ssid ELSE nvs.ssid
      /\ nvs'.pass = IF k = "pass" THEN next.pass ELSE nvs.pass
      /\ nvs'.meshkey = IF k = "meshkey" THEN next.meshkey ELSE nvs.meshkey
  BY <1>1, <1>3, <1>4 DEF Saved
<1>6. LeftSound'
  BY <1>1, <1>2, <1>3 DEF LeftSound, ShortWrite, LongWrite
<1>7. k = "meshkey" => next.meshkey \in Keys
  BY <1>2, <1>3 DEF LeftSound
<1>8. TypeOK'
  BY <1>1, <1>4, <1>5, <1>7 DEF IInv, TypeOK, AnyKey
<1>9. KeySound'
  BY <1>1, <1>5, <1>7 DEF IInv, KeySound
<1>10. PasswordSound'
  <2> DEFINE h == Head(left')
  <2>1. /\ left' # <<>>
        /\ done => h = "reboot"
        /\ ~done => h = Head(Tail(left))
    BY <1>1, <1>3
  <2>2. k = "ssid" => h = "pass"
    BY <1>3, <2>1
  <2>3. k = "pass" => h = "url"
    BY <1>3, <2>1
  <2>4. k = "url" => h \in {"meshkey", "reboot"}
    BY <1>3, <2>1
  <2>5. k = "meshkey" => h = "reboot"
    BY <1>3, <2>1
  <2>6. torn \/ Fits(next)
    BY <1>3 DEF IInv, PasswordSound
  <2>7. healing => Fits(next)
    BY DEF IInv, PasswordSound
  <2>8. /\ k \in {"pass", "url", "meshkey"} => nvs.ssid = next.ssid
        /\ k \in {"url", "meshkey"} => nvs.pass = next.pass
        /\ torn \/ Fits(nvs) \/ k = "pass"
        /\ torn \/ Fits(cfg)
    BY <1>1, <1>3 DEF IInv, PasswordSound, About, k
  <2> QED
    <3>1. torn' \/ Fits(next)
      BY <1>1, <2>6, <2>7
    <3>2. torn' \/ Fits(cfg')
      BY <1>1, <2>7, <2>8, <3>1
    <3>3. torn' \/ Fits(nvs') \/ h = "pass"
      <4>1. CASE k = "ssid"
        BY <2>2, <4>1
      <4>2. CASE k # "ssid"
        <5>1. nvs'.ssid = next.ssid /\ nvs'.pass = next.pass
          BY <1>3, <1>5, <2>8, <4>2
        <5> QED
          BY <3>1, <5>1 DEF Fits
      <4> QED
        BY <4>1, <4>2
    <3>4. h \in {"pass", "url", "meshkey"} => nvs'.ssid = next.ssid
      BY <1>3, <1>5, <2>2, <2>3, <2>4, <2>5, <2>8
    <3>5. h \in {"url", "meshkey"} => nvs'.pass = next.pass
      BY <1>3, <1>5, <2>2, <2>3, <2>4, <2>5, <2>8
    <3> QED
      BY <1>1, <2>7, <3>1, <3>2, <3>3, <3>4, <3>5 DEF PasswordSound, Fits, About
<1> QED
  BY <1>6, <1>8, <1>9, <1>10 DEF IInv

LEMMA ResetSound ==
  ASSUME IInv, handleReset
  PROVE  IInv'
<1>1. TypeOK'
  BY DEF handleReset, IInv, TypeOK, Saved, Passwords, NoPassword, Erased, AnyKey
<1>2. LeftSound'
  BY DEF handleReset, LeftSound, ShortWrite, LongWrite
<1>3. KeySound'
  BY DEF handleReset, KeySound
<1>4. PasswordSound'
  BY DEF handleReset, IInv, PasswordSound, Fits, NoPassword, Erased, About, ShortWrite, LongWrite
<1> QED
  BY <1>1, <1>2, <1>3, <1>4 DEF IInv

LEMMA BootSound ==
  ASSUME IInv, Boot
  PROVE  IInv'
<1> DEFINE key == MeshKey(nvs.meshkey, build')
<1>1. /\ cfg' = [nvs EXCEPT !.meshkey = key]
      /\ nvs' = IF key = Placeholder THEN nvs ELSE [nvs EXCEPT !.meshkey = key]
      /\ kept' = IF key = Placeholder THEN AnyKey ELSE {key}
      /\ build' \in AnyKey \cup {Empty}
      /\ left' = <<>> /\ next' = Erased /\ healing' = FALSE
      /\ torn' = (nvs # Erased /\ (torn \/ (left # <<>> /\ Head(left) = "pass")))
  BY DEF Boot, load
<1>2. key \in AnyKey
  BY DEF MeshKey, AnyKey
<1>3. nvs \in Saved
  BY DEF IInv, TypeOK
<1> HIDE DEF key
<1>4. /\ cfg' \in Saved /\ nvs' \in Saved /\ nvs'.ssid = nvs.ssid /\ nvs'.pass = nvs.pass
      /\ cfg'.ssid = nvs.ssid /\ cfg'.pass = nvs.pass
      /\ key # Placeholder => nvs'.meshkey = key
  BY <1>1, <1>2, <1>3 DEF Saved
<1>5. TypeOK'
  BY <1>1, <1>2, <1>4, ErasedType DEF IInv, TypeOK, AnyKey
<1>6. LeftSound'
  BY <1>1 DEF LeftSound, ShortWrite, LongWrite
<1>7. KeySound'
  BY <1>1, <1>2, <1>4 DEF KeySound, AnyKey
<1>8. torn' \/ Fits(nvs)
  <2>1. CASE nvs = Erased
    BY <2>1, ErasedType
  <2>2. CASE nvs # Erased
    BY <1>1, <2>2 DEF IInv, PasswordSound, About
  <2> QED
    BY <2>1, <2>2
<1>9. PasswordSound'
  BY <1>1, <1>4, <1>8 DEF PasswordSound, Fits, About, ShortWrite, LongWrite
<1> QED
  BY <1>5, <1>6, <1>7, <1>9 DEF IInv

LEMMA StepSound == IInv /\ [Next]_vars => IInv'
<1> SUFFICES ASSUME IInv, [Next]_vars PROVE IInv'
  OBVIOUS
<1>1. CASE SaveKey
  BY <1>1, SaveKeySound
<1>2. CASE handleReset
  BY <1>2, ResetSound
<1>3. CASE Boot
  BY <1>3, BootSound
<1>4. CASE UNCHANGED vars
  BY <1>4 DEF vars, IInv, TypeOK, LeftSound, KeySound, PasswordSound, Fits, About
<1>5. CASE \E ssid \in Ssids \cup {Empty}, typed, url, usesWifi \in BOOLEAN, key \in AnyKey \cup {Empty} :
             handleSave(ssid, typed, url, usesWifi, key)
  BY <1>5, SaveSound
<1> QED
  BY <1>1, <1>2, <1>3, <1>4, <1>5 DEF Next

\* After any saves, restarts and resets the password in use is one that was typed
\* for the network in use, unless power failed between the two (portal.cpp:485).
THEOREM PasswordFits == Spec => []PasswordIsForNetwork
<1>1. IInv => PasswordIsForNetwork
  BY DEF IInv, PasswordSound, Fits, PasswordIsForNetwork
<1> QED
  BY <1>1, InitSound, StepSound, PTL DEF Spec

\* No firmware, whatever its built-in key, and no power failure changes the mesh key
\* that was adopted or typed in (config.cpp:16-28).
THEOREM UpdatesKeepKey == Spec => KeyStays
<1>1. IInv /\ [Next]_vars => [Boot => cfg'.meshkey \in kept]_vars
  <2> SUFFICES ASSUME IInv, Boot PROVE cfg'.meshkey \in kept
    OBVIOUS
  <2> DEFINE key == MeshKey(nvs.meshkey, build')
  <2>1. cfg' = [nvs EXCEPT !.meshkey = key] /\ nvs \in Saved
    BY DEF Boot, load, IInv, TypeOK
  <2>2. cfg'.meshkey = key
    BY <2>1 DEF Saved
  <2>3. key \in AnyKey /\ (nvs.meshkey \in Keys => key = nvs.meshkey)
    BY DEF MeshKey, AnyKey
  <2> QED
    BY <2>2, <2>3 DEF IInv, KeySound
<1> QED
  BY <1>1, InitSound, StepSound, PTL DEF Spec, KeyStays
=============================================================================

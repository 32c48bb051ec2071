------------------------- MODULE OrazioParam_proofs -------------------------
(***************************************************************************)
(* What the client saved survives restarts and new firmware, for every set *)
(* of firmware images and of values: the properties of OrazioParam as      *)
(* theorems.  Neither is inductive.  IInv adds what each place of a boot   *)
(* can rely on: which parameters in the EEPROM suit the protocol version   *)
(* that is stored beside them and are the ones that were saved, while      *)
(* paramInit rewrites both one after the other and may be cut off between  *)
(* any two writes.                                                         *)
(***************************************************************************)
EXTENDS OrazioParam, TLAPS

Undamaged == ParamTypes \ damaged

(* The refresh has still to write t. *)
Unwritten(t) == \E k \in step .. 5 : Writes[k] = t

(* Where the program may be, and what it may be writing. *)
Control ==
  /\ pc \in {"off", "boot", "refresh", "load", "run", "save"}
  /\ step \in 1 .. 5
  /\ pc \in {"load", "save"} => step \in 1 .. 3
  /\ torn \in BOOLEAN /\ (torn => pc \in {"refresh", "save"})

(* In RAM there is nothing laid out for another firmware, except where a   *)
(* damaged parameter was loaded.                                           *)
RamSuits ==
  /\ pc # "off" =>
       \A t \in Undamaged : params[t].protocol = firmware.protocol
  /\ pc \in {"boot", "refresh"} => params = Default(firmware)

(* The version in the EEPROM tells the truth about the parameters beside   *)
(* it, or says nothing.  A refresh that has passed its first write has the *)
(* new version stored before the parameters that go with it.               *)
EepromSuits ==
  LET stored == version.protocol IN
  /\ pc \in {"off", "boot"} \/ (pc = "refresh" /\ step = 1) =>
       stored = 0 \/ \A t \in Undamaged : eeprom[t].protocol = stored
  /\ pc = "refresh" /\ step = 1 =>
       stored # firmware.protocol /\ (torn => stored = 0)
  /\ pc = "refresh" /\ step > 1 =>
       /\ stored = firmware.protocol
       /\ \A t \in Undamaged :
            Unwritten(t) \/ eeprom[t].protocol = firmware.protocol
  /\ pc \in {"load", "run", "save"} =>
       /\ stored = firmware.protocol
       /\ \A t \in Undamaged :
            eeprom[t].protocol = firmware.protocol \/ (torn /\ t = Target)

(* What was saved is in the EEPROM, or, once a refresh has begun, in RAM   *)
(* and on its way there.  A refresh that was cut off in its first write    *)
(* leaves no version, and then nothing but defaults counts as saved.       *)
SavedSuits ==
  /\ pc \in {"off", "boot"} \/ (pc = "refresh" /\ step = 1 /\ ~torn) =>
       IF version.protocol = 0
       THEN \A t \in Undamaged : saved[t].value = "default"
       ELSE \A t \in Undamaged : eeprom[t] = saved[t]
  /\ pc = "refresh" /\ (step > 1 \/ torn) => saved = Default(firmware)
  /\ pc = "refresh" /\ step > 1 =>
       \A t \in Undamaged : Unwritten(t) \/ eeprom[t] = saved[t]
  /\ pc \in {"load", "run", "save"} =>
       \A t \in Undamaged : eeprom[t] = saved[t] \/ (torn /\ t = Target)

IInv == TypeOK /\ Control /\ RamSuits /\ EepromSuits /\ SavedSuits
----------------------------------------------------------------------------
(* What is written and read in which order. *)
LEMMA Order ==
  /\ Len(Writes) = 5 /\ Len(Loads) = 3
  /\ Writes[1] = "protocol" /\ Writes[2] = "firmware"
  /\ Writes[3] = "ParamSystem" /\ Writes[4] = "ParamJoints"
  /\ Writes[5] = "ParamDrive"
  /\ Loads[1] = "ParamSystem" /\ Loads[2] = "ParamJoints"
  /\ Loads[3] = "ParamDrive"
BY DEF Writes, Loads

(* Parameters and versions are different things. *)
LEMMA Disjoint == ParamTypes \cap Versions = {}
BY DEF ParamTypes, Versions

(* What is being written is a version or a set of parameters. *)
LEMMA TargetType ==
  ASSUME Control, pc \in {"refresh", "save"}
  PROVE  /\ Target \in Versions \cup ParamTypes
         /\ pc = "save" => Target \in ParamTypes
         /\ pc = "refresh" => Target = Writes[step]
         /\ pc = "refresh" /\ step > 2 => Target \in ParamTypes
BY Order DEF Control, Target, Versions, ParamTypes

(* The position of a set of parameters among the loads. *)
LEMMA Position ==
  ASSUME NEW t \in ParamTypes
  PROVE  LET n == CHOOSE k \in 1 .. 3 : Loads[k] = t
         IN  n \in 1 .. 3 /\ Loads[n] = t
<1>1. \E k \in 1 .. 3 : Loads[k] = t
  BY Order DEF ParamTypes
<1> QED BY <1>1

(* The default parameters suit the firmware and are well formed. *)
LEMMA DefaultSuits ==
  ASSUME NEW f \in Firmwares
  PROVE  /\ Default(f) \in [ParamTypes -> ParamSets]
         /\ \A t \in ParamTypes : Default(f)[t].protocol = f.protocol
BY ParamConstants DEF Default, ParamSets

(* Garbage has the form of a set of parameters, with no protocol.          *)
LEMMA GarbageType == Garbage \in ParamSets /\ Garbage.protocol = 0
BY ParamConstants DEF Garbage, ParamSets
----------------------------------------------------------------------------
(* The state is well formed *)

LEMMA EraseType ==
  ASSUME TypeOK, Control, pc \in {"refresh", "save"}, Erase,
         saved' \in [ParamTypes -> ParamSets]
  PROVE  TypeOK' /\ Control'
<1>1. Target \in Versions \cup ParamTypes
  BY TargetType
<1>2. DOMAIN version' = Versions /\ eeprom' \in [ParamTypes -> ParamSets]
  BY <1>1, GarbageType DEF Erase, TypeOK
<1>3. pc' = pc /\ step' = step /\ torn' = TRUE
  BY DEF Erase
<1>4. TypeOK'
  BY <1>2, <1>3 DEF Erase, TypeOK, Control
<1>5. Control'
  BY <1>3 DEF Control
<1> QED BY <1>4, <1>5

(* Writing one set keeps the state well formed.                            *)
LEMMA WriteType ==
  ASSUME TypeOK, Control, pc \in {"refresh", "save"}, Write
  PROVE  /\ DOMAIN version' = Versions
         /\ eeprom' \in [ParamTypes -> ParamSets]
         /\ torn' \in BOOLEAN /\ ~torn'
         /\ damaged' \subseteq ParamTypes
<1>1. Target \in Versions \cup ParamTypes
  BY TargetType
<1>2. DOMAIN version' = Versions
  <2>1. CASE Target = "protocol" BY <2>1 DEF Write, TypeOK
  <2>2. CASE Target = "firmware" BY <2>2 DEF Write, TypeOK
  <2>3. CASE Target \notin {"protocol", "firmware"}
    BY <2>3 DEF Write, TypeOK
  <2> QED BY <2>1, <2>2, <2>3
<1>3. eeprom' \in [ParamTypes -> ParamSets]
  BY <1>1, Disjoint DEF Write, TypeOK
<1>4. torn' \in BOOLEAN /\ ~torn'
  BY Zenon DEF Write
<1> QED BY <1>2, <1>3, <1>4 DEF Write, TypeOK

(* The state is well formed in every reachable state. *)
THEOREM TypeCorrect == Spec => [](TypeOK /\ Control)
<1>1. Init => TypeOK /\ Control
  <2> SUFFICES ASSUME Init PROVE TypeOK /\ Control
    OBVIOUS
  <2>1. {eeprom, params, saved} \subseteq [ParamTypes -> ParamSets]
    BY DefaultSuits, GarbageType DEF Init
  <2>2. torn \in BOOLEAN /\ ~torn
    BY Zenon DEF Init
  <2> QED BY <2>1, <2>2 DEF Init, TypeOK, Control
<1>2. TypeOK /\ Control /\ [Next]_vars => TypeOK' /\ Control'
  <2> SUFFICES ASSUME TypeOK, Control, [Next]_vars
               PROVE  TypeOK' /\ Control'
    OBVIOUS
  <2>1. CASE PowerOn
    BY <2>1, DefaultSuits DEF PowerOn, TypeOK, Control
  <2>2. CASE paramInit
    BY <2>2 DEF paramInit, TypeOK, Control
  <2>3. CASE RefreshErase
    <3>1. saved' \in [ParamTypes -> ParamSets]
      BY <2>3, DefaultSuits DEF RefreshErase, TypeOK
    <3> QED BY <2>3, <3>1, EraseType DEF RefreshErase
  <2>4. CASE RefreshWrite
    <3>1. /\ pc = "refresh" /\ Write /\ UNCHANGED <<firmware, params, saved>>
          /\ IF step < 5 THEN step' = step + 1 /\ UNCHANGED pc
                         ELSE step' = 1 /\ pc' = "run"
      BY <2>4, Order DEF RefreshWrite
    <3>2. Control'
      BY <3>1, WriteType DEF Control
    <3> QED BY <3>1, <3>2, WriteType DEF TypeOK, Control
  <2>5. CASE LoadOne
    <3>1. Loads[step] \in ParamTypes
      BY <2>5, Order DEF LoadOne, Control, ParamTypes
    <3>2. params' \in [ParamTypes -> ParamSets]
      BY <2>5, <3>1 DEF LoadOne, TypeOK
    <3>3. Control'
      BY <2>5, Order DEF LoadOne, Control
    <3> QED BY <2>5, <3>2, <3>3, Order DEF LoadOne, TypeOK, Control
  <2>6. ASSUME NEW t \in ParamTypes, NEW v \in Values, setParams(t, v)
        PROVE  TypeOK' /\ Control'
    <3>1. [protocol |-> firmware.protocol, value |-> v] \in ParamSets
      BY DEF TypeOK, ParamSets
    <3> QED BY <2>6, <3>1 DEF setParams, TypeOK, Control
  <2>7. ASSUME NEW t \in ParamTypes, paramSave(t)
        PROVE  TypeOK' /\ Control'
    <3>1. step' \in 1 .. 3
      BY <2>7, Position DEF paramSave
    <3> QED BY <2>7, <3>1 DEF paramSave, TypeOK, Control
  <2>8. ASSUME NEW t \in ParamTypes, paramLoad(t)
        PROVE  TypeOK' /\ Control'
    BY <2>8 DEF paramLoad, TypeOK, Control
  <2>9. CASE SaveErase
    BY <2>9, EraseType DEF SaveErase, TypeOK
  <2>10. CASE SaveWrite
    <3>1. /\ pc = "save" /\ Write /\ UNCHANGED <<firmware, params>>
          /\ pc' = "run" /\ step' = 1
      BY <2>10 DEF SaveWrite
    <3>2. saved' \in [ParamTypes -> ParamSets]
      BY <2>10, <3>1, TargetType DEF SaveWrite, TypeOK
    <3> QED BY <3>1, <3>2, WriteType DEF TypeOK, Control
  <2>11. CASE PowerFailure
    <3>1. Interrupted \subseteq ParamTypes
      BY TargetType DEF Interrupted
    <3>2. torn' \in BOOLEAN /\ ~torn'
      BY <2>11, Zenon DEF PowerFailure
    <3> QED BY <2>11, <3>1, <3>2 DEF PowerFailure, TypeOK, Control
  <2>12. CASE Flash
    BY <2>12 DEF Flash, TypeOK, Control
  <2>13. CASE UNCHANGED vars
    BY <2>13 DEF vars, TypeOK, Control
  <2> QED BY <2>1, <2>2, <2>3, <2>4, <2>5, <2>6, <2>7, <2>8, <2>9, <2>10,
             <2>11, <2>12, <2>13 DEF Next, Client
<1> QED BY <1>1, <1>2, PTL DEF Spec
----------------------------------------------------------------------------
(* The inductive invariant *)

(* The first write of a refresh destroys the version.  From then on what   *)
(* the client has saved, under another protocol, is given up for defaults. *)
LEMMA RefreshForgets ==
  ASSUME IInv, RefreshErase
  PROVE  saved' = Default(firmware)
<1>1. /\ pc = "refresh" /\ firmware \in Firmwares /\ ~torn /\ step \in 1 .. 5
      /\ saved \in [ParamTypes -> ParamSets]
      /\ saved' = [t \in ParamTypes |->
           IF saved[t].protocol = firmware.protocol /\ t \notin damaged
           THEN saved[t] ELSE Default(firmware)[t]]
  BY DEF RefreshErase, Erase, IInv, TypeOK, Control
<1>2. ASSUME NEW t \in Undamaged, saved[t].protocol = firmware.protocol
      PROVE  saved[t] = Default(firmware)[t]
  <2>1. CASE step > 1
    BY <2>1, <1>1 DEF IInv, SavedSuits
  <2>2. CASE step = 1 /\ version.protocol = 0
    <3>1. saved[t].value = "default"
      BY <1>1, <2>2 DEF IInv, SavedSuits
    <3>2. saved[t] = [protocol |-> saved[t].protocol, value |-> saved[t].value]
      BY <1>1 DEF ParamSets, Undamaged
    <3> QED BY <1>2, <3>1, <3>2 DEF Default, Undamaged
  <2>3. CASE step = 1 /\ version.protocol # 0
    <3>1. eeprom[t] = saved[t] /\ eeprom[t].protocol = version.protocol
      BY <1>1, <2>3 DEF IInv, SavedSuits, EepromSuits
    <3>2. version.protocol # firmware.protocol
      BY <1>1, <2>3 DEF IInv, EepromSuits
    <3> QED BY <1>2, <3>1, <3>2
  <2> QED BY <2>1, <2>2, <2>3, <1>1
<1>3. \A t \in ParamTypes :
        (IF saved[t].protocol = firmware.protocol /\ t \notin damaged
         THEN saved[t] ELSE Default(firmware)[t]) = Default(firmware)[t]
  BY <1>2 DEF Undamaged
<1> QED BY <1>1, <1>3, Zenon DEF Default

(* Erasing touches what is being written and nothing else.                 *)
LEMMA EraseEffect ==
  ASSUME IInv, pc \in {"refresh", "save"}, Erase
  PROVE  /\ \A t \in ParamTypes : t # Target => eeprom'[t] = eeprom[t]
         /\ version'.protocol = IF Target = "protocol" THEN 0
                                ELSE version.protocol
<1>1. Target \in Versions \cup ParamTypes
  BY TargetType DEF IInv
<1>2. \A t \in ParamTypes : t # Target => eeprom'[t] = eeprom[t]
  BY <1>1, Disjoint DEF Erase, IInv, TypeOK
<1>3. version'.protocol = IF Target = "protocol" THEN 0 ELSE version.protocol
  <2>1. CASE Target = "protocol"
    BY <2>1 DEF Erase, IInv, TypeOK, Versions
  <2>2. CASE Target = "firmware"
    BY <2>2 DEF Erase, IInv, TypeOK, Versions
  <2>3. CASE Target \notin {"protocol", "firmware"}
    BY <2>3, <1>1 DEF Erase, Versions
  <2> QED BY <2>1, <2>2, <2>3
<1> QED BY <1>2, <1>3

(* Once the first write of a refresh has begun, the parameters it has      *)
(* still to write are those that a power failure would damage.             *)
LEMMA RefreshEraseKeeps ==
  ASSUME IInv, RefreshErase
  PROVE  RamSuits' /\ EepromSuits' /\ SavedSuits'
<1>1. /\ pc = "refresh" /\ Erase /\ torn' /\ ~torn /\ step \in 1 .. 5
      /\ Target' = Target /\ UNCHANGED <<pc, step, firmware, params, damaged>>
  BY DEF RefreshErase, Erase, Target, IInv, Control
<1>2. \A t \in ParamTypes : t # Target => eeprom'[t] = eeprom[t]
  BY <1>1, EraseEffect
<1>3. RamSuits'
  BY <1>1 DEF RamSuits, IInv, Undamaged
<1>4. saved' = Default(firmware)
  BY RefreshForgets
<1>5. firmware.protocol # 0
  BY ParamConstants DEF IInv, TypeOK
<1>6. CASE step = 1
  <2>1. version'.protocol = 0
    BY <1>6, <1>1, Order, EraseEffect DEF Target
  <2> QED BY <1>6, <1>1, <1>3, <1>4, <1>5, <2>1 DEF EepromSuits, SavedSuits
<1>7. CASE step > 1
  <2>1. version'.protocol = version.protocol
    <3>1. Target # "protocol"
      BY <1>7, <1>1, Order, TargetType DEF IInv
    <3> QED BY <3>1, <1>1, EraseEffect
  <2>2. \A t \in ParamTypes : Unwritten(t)' = Unwritten(t)
    BY <1>1 DEF Unwritten
  <2>3. \A t \in ParamTypes : t = Target => Unwritten(t)
    BY <1>1, TargetType DEF Unwritten, IInv
  <2>4. EepromSuits'
    BY <1>7, <1>1, <1>2, <2>1, <2>2, <2>3 DEF EepromSuits, IInv, Undamaged
  <2>5. saved' = saved
    BY <1>7, <1>1, <1>4 DEF IInv, SavedSuits
  <2>6. SavedSuits'
    BY <1>7, <1>1, <1>2, <1>4, <2>2, <2>3, <2>5
       DEF SavedSuits, IInv, Undamaged
  <2> QED BY <1>3, <2>4, <2>6
<1> QED BY <1>1, <1>6, <1>7

(* A save that begins leaves the other parameters alone.                   *)
LEMMA SaveEraseKeeps ==
  ASSUME IInv, SaveErase
  PROVE  RamSuits' /\ EepromSuits' /\ SavedSuits'
<1>1. /\ pc = "save" /\ Erase /\ torn' /\ ~torn
      /\ Target' = Target /\ UNCHANGED <<pc, step, firmware, params, damaged>>
      /\ UNCHANGED saved
  BY DEF SaveErase, Erase, Target
<1>2. Target \in ParamTypes
  BY <1>1, TargetType DEF IInv
<1>3. \A t \in ParamTypes : t # Target => eeprom'[t] = eeprom[t]
  BY <1>1, EraseEffect
<1>4. version'.protocol = version.protocol
  <2>1. Target # "protocol"
    BY <1>2 DEF ParamTypes
  <2> QED BY <2>1, <1>1, EraseEffect
<1>5. RamSuits'
  BY <1>1 DEF RamSuits, IInv, Undamaged
<1>6. EepromSuits'
  BY <1>1, <1>3, <1>4 DEF EepromSuits, IInv, Undamaged
<1>7. SavedSuits'
  BY <1>1, <1>3 DEF SavedSuits, IInv, Undamaged
<1> QED BY <1>5, <1>6, <1>7

(* Writing puts the parameters in RAM in their place in the EEPROM.        *)
LEMMA WriteEffect ==
  ASSUME IInv, pc \in {"refresh", "save"}, Write
  PROVE  /\ \A t \in ParamTypes :
              /\ t # Target => eeprom'[t] = eeprom[t]
              /\ t = Target => eeprom'[t] = params[t]
         /\ \A t \in ParamTypes \ damaged' :
              t \in damaged => Sound /\ t = Target
         /\ version'.protocol = IF Target = "protocol"
                               THEN firmware.protocol ELSE version.protocol
<1>1. Target \in Versions \cup ParamTypes
  BY TargetType DEF IInv
<1>2. \A t \in ParamTypes :
        /\ t # Target => eeprom'[t] = eeprom[t]
        /\ t = Target => eeprom'[t] = params[t]
  BY <1>1, Disjoint DEF Write, IInv, TypeOK
<1>3. damaged' = damaged \/ (Sound /\ damaged' = damaged \ {Target})
  BY DEF Write
<1>4. version'.protocol = IF Target = "protocol"
                          THEN firmware.protocol ELSE version.protocol
  <2>1. CASE Target = "protocol"
    BY <2>1 DEF Write, IInv, TypeOK, Versions
  <2>2. CASE Target = "firmware"
    BY <2>2 DEF Write, IInv, TypeOK, Versions
  <2>3. CASE Target \notin {"protocol", "firmware"}
    BY <2>3 DEF Write
  <2> QED BY <2>1, <2>2, <2>3
<1> QED BY <1>2, <1>3, <1>4

(* The write at startup: the defaults go to the EEPROM one by one.         *)
LEMMA RefreshWriteKeeps ==
  ASSUME IInv, RefreshWrite
  PROVE  RamSuits' /\ EepromSuits' /\ SavedSuits'
<1>1. /\ pc = "refresh" /\ Write /\ UNCHANGED <<firmware, params, saved>>
      /\ IF step < 5 THEN step' = step + 1 /\ pc' = "refresh"
                     ELSE step' = 1 /\ pc' = "run"
  BY Order DEF RefreshWrite
<1>2. Target = Writes[step] /\ step \in 1 .. 5 /\ torn /\ ~torn'
  <2>1. torn /\ ~torn'
    BY <1>1, Zenon DEF Write
  <2> QED BY <1>1, <2>1, TargetType DEF IInv, Control
<1>3. params = Default(firmware) /\ saved = params
  BY <1>1, <1>2 DEF IInv, RamSuits, SavedSuits
<1>4. \A t \in ParamTypes : params[t].protocol = firmware.protocol
  BY <1>3, DefaultSuits DEF IInv, TypeOK
<1>5. RamSuits'
  BY <1>1, <1>3, <1>4 DEF RamSuits, Undamaged
<1>6. version'.protocol = firmware.protocol
  <2>1. CASE step = 1
    BY <2>1, <1>1, <1>2, Order, WriteEffect
  <2>2. CASE step > 1
    <3>1. version.protocol = firmware.protocol
      BY <2>2, <1>1 DEF IInv, EepromSuits
    <3> QED BY <3>1, <1>1, WriteEffect
  <2> QED BY <2>1, <2>2, <1>2
<1>7. \A t \in ParamTypes \ damaged' :
        \/ \E k \in step + 1 .. 5 : Writes[k] = t
        \/ eeprom'[t] = saved[t] /\ eeprom'[t].protocol = firmware.protocol
  <2> SUFFICES ASSUME NEW t \in ParamTypes \ damaged',
                      ~ \E k \in step + 1 .. 5 : Writes[k] = t
               PROVE  /\ eeprom'[t] = saved[t]
                      /\ eeprom'[t].protocol = firmware.protocol
    OBVIOUS
  <2>1. CASE t = Target
    BY <2>1, <1>1, <1>3, <1>4, WriteEffect
  <2>2. CASE t # Target
    <3>1. ~Unwritten(t) /\ t \notin damaged
      BY <2>2, <1>1, <1>2, WriteEffect DEF Unwritten
    <3>2. step > 1
      BY <3>1, <1>2, Order DEF Unwritten, ParamTypes
    <3>3. eeprom[t].protocol = firmware.protocol /\ eeprom[t] = saved[t]
      BY <1>1, <3>1, <3>2 DEF IInv, EepromSuits, SavedSuits, Undamaged
    <3> QED BY <2>2, <3>3, <1>1, WriteEffect
  <2> QED BY <2>1, <2>2
<1>8. CASE step < 5
  <2>1. \A t \in ParamTypes : Unwritten(t)' <=>
                               \E k \in step + 1 .. 5 : Writes[k] = t
    BY <1>1, <1>8 DEF Unwritten
  <2>2. pc' = "refresh" /\ step' > 1
    BY <1>1, <1>2, <1>8
  <2>3. EepromSuits'
    BY <1>1, <1>6, <1>7, <2>1, <2>2 DEF EepromSuits, Undamaged
  <2>4. SavedSuits'
    BY <1>1, <1>2, <1>3, <1>7, <2>1, <2>2 DEF SavedSuits, Undamaged
  <2> QED BY <1>5, <2>3, <2>4
<1>9. CASE step = 5
  <2>1. \A t \in ParamTypes \ damaged' :
          eeprom'[t] = saved[t] /\ eeprom'[t].protocol = firmware.protocol
    BY <1>7, <1>9
  <2> QED BY <1>1, <1>2, <1>5, <1>6, <1>9, <2>1
          DEF EepromSuits, SavedSuits, Undamaged
<1> QED BY <1>2, <1>8, <1>9

(* The write of a save: what counts as saved is in the EEPROM then.        *)
LEMMA SaveWriteKeeps ==
  ASSUME IInv, SaveWrite
  PROVE  RamSuits' /\ EepromSuits' /\ SavedSuits'
<1>1. /\ pc = "save" /\ Write /\ UNCHANGED <<firmware, params>>
      /\ step' = 1 /\ pc' = "run"
      /\ saved' = [saved EXCEPT ![Target] = params[Target]]
  BY DEF SaveWrite
<1>2. Target \in ParamTypes
  BY <1>1, TargetType DEF IInv
<1>3. \A t \in ParamTypes \ damaged' : params[t].protocol = firmware.protocol
  BY <1>1, WriteEffect DEF IInv, RamSuits, Undamaged, Sound
<1>4. RamSuits'
  BY <1>1, <1>3 DEF RamSuits, Undamaged
<1>5. \A t \in ParamTypes \ damaged' :
        eeprom'[t].protocol = firmware.protocol /\ eeprom'[t] = saved'[t]
  <2> SUFFICES ASSUME NEW t \in ParamTypes \ damaged'
               PROVE  /\ eeprom'[t].protocol = firmware.protocol
                      /\ eeprom'[t] = saved'[t]
    OBVIOUS
  <2>1. CASE t = Target
    <3>1. saved'[t] = params[t]
      BY <2>1, <1>1, <1>2 DEF IInv, TypeOK
    <3> QED BY <2>1, <3>1, <1>1, <1>3, WriteEffect
  <2>2. CASE t # Target
    <3>1. t \notin damaged
      BY <2>2, <1>1, WriteEffect
    <3>2. eeprom[t].protocol = firmware.protocol /\ eeprom[t] = saved[t]
      BY <1>1, <2>2, <3>1 DEF IInv, EepromSuits, SavedSuits, Undamaged
    <3>3. saved'[t] = saved[t]
      BY <2>2, <1>1, <1>2 DEF IInv, TypeOK
    <3> QED BY <2>2, <3>2, <3>3, <1>1, WriteEffect
  <2> QED BY <2>1, <2>2
<1>6. version'.protocol = firmware.protocol
  <2>1. Target # "protocol"
    BY <1>2 DEF ParamTypes
  <2> QED BY <2>1, <1>1, WriteEffect DEF IInv, EepromSuits
<1>7. EepromSuits' /\ SavedSuits'
  BY <1>1, <1>5, <1>6 DEF EepromSuits, SavedSuits, Undamaged
<1> QED BY <1>4, <1>7

(* paramInit believes the version it finds: it loads what suits the        *)
(* firmware, or rewrites everything.                                       *)
LEMMA paramInitKeeps ==
  ASSUME IInv, paramInit
  PROVE  RamSuits' /\ EepromSuits' /\ SavedSuits'
<1>1. ~torn /\ pc = "boot" /\ firmware.protocol # 0
  BY ParamConstants DEF paramInit, IInv, Control, TypeOK
<1>2. ~torn' /\ step' = 1 /\ UNCHANGED <<firmware, version, eeprom, params>>
      /\ UNCHANGED <<saved, damaged>>
      /\ pc' = IF version.protocol = firmware.protocol THEN "load" ELSE "refresh"
  BY <1>1, Zenon DEF paramInit
<1>3. RamSuits'
  BY <1>1, <1>2 DEF RamSuits, IInv, Undamaged
<1>4. EepromSuits'
  BY <1>1, <1>2 DEF EepromSuits, IInv, Undamaged
<1>5. SavedSuits'
  BY <1>1, <1>2 DEF SavedSuits, IInv, Undamaged
<1> QED BY <1>3, <1>4, <1>5

(* Loading one set of parameters puts what suits the firmware into RAM,    *)
(* unless it was damaged.                                                  *)
LEMMA LoadKeeps ==
  ASSUME IInv, pc \in {"load", "run"}, NEW t \in ParamTypes,
         params' = [params EXCEPT ![t] = eeprom[t]], pc' \in {"load", "run"},
         UNCHANGED <<firmware, version, eeprom, torn, saved, damaged>>
  PROVE  RamSuits' /\ EepromSuits' /\ SavedSuits'
<1>1. ~torn
  BY DEF IInv, Control
<1>2. RamSuits'
  BY <1>1 DEF RamSuits, EepromSuits, IInv, Undamaged, TypeOK
<1>3. EepromSuits'
  BY <1>1 DEF EepromSuits, IInv, Undamaged
<1>4. SavedSuits'
  BY <1>1 DEF SavedSuits, IInv, Undamaged
<1> QED BY <1>2, <1>3, <1>4

(* A power failure leaves what it does not damage as it was.               *)
LEMMA PowerFailureKeeps ==
  ASSUME IInv, PowerFailure
  PROVE  RamSuits' /\ EepromSuits' /\ SavedSuits'
<1>1. /\ pc' = "off" /\ UNCHANGED <<firmware, version, eeprom, saved>>
      /\ damaged' = damaged \cup Interrupted
      /\ firmware.protocol # 0 /\ step \in 1 .. 5
  BY ParamConstants DEF PowerFailure, IInv, TypeOK
<1>2. RamSuits'
  BY <1>1 DEF RamSuits
<1>3. CASE pc = "save"
  <2>1. torn => Target \in damaged'
    BY <1>1, <1>3 DEF Interrupted
  <2>2. version.protocol = firmware.protocol
    BY <1>3 DEF IInv, EepromSuits
  <2> QED BY <1>1, <1>2, <1>3, <2>1, <2>2
          DEF IInv, EepromSuits, SavedSuits, Undamaged
<1>4. CASE pc = "refresh" /\ step = 1
  <2>1. CASE torn
    <3>1. version.protocol = 0 /\ saved = Default(firmware)
      BY <1>4, <2>1 DEF IInv, EepromSuits, SavedSuits
    <3>2. \A t \in ParamTypes : saved[t].value = "default"
      BY <3>1 DEF Default
    <3> QED BY <1>1, <1>2, <3>1, <3>2 DEF EepromSuits, SavedSuits, Undamaged
  <2>2. CASE ~torn
    BY <1>1, <1>2, <1>4, <2>2 DEF IInv, EepromSuits, SavedSuits, Undamaged
  <2> QED BY <2>1, <2>2
<1>5. CASE pc = "refresh" /\ step > 1
  <2>1. version.protocol = firmware.protocol
    BY <1>5 DEF IInv, EepromSuits
  <2>2. \A t \in ParamTypes : Unwritten(t) => t \in damaged'
    BY <1>1, <1>5, <2>1, Order DEF Interrupted, Unwritten
  <2> QED BY <1>1, <1>2, <1>5, <2>1, <2>2
          DEF IInv, EepromSuits, SavedSuits, Undamaged
<1>6. CASE pc = "boot"
  BY <1>1, <1>2, <1>6 DEF IInv, EepromSuits, SavedSuits, Undamaged
<1>7. CASE pc \in {"load", "run"}
  <2>1. ~torn
    BY <1>7 DEF IInv, Control
  <2> QED BY <1>1, <1>2, <1>7, <2>1
          DEF IInv, EepromSuits, SavedSuits, Undamaged
<1> QED BY <1>1, <1>3, <1>4, <1>5, <1>6, <1>7 DEF IInv, Control, PowerFailure

(* Every step keeps what the saved sets mean.                              *)
LEMMA Inductive ==
  IInv /\ [Next]_vars => RamSuits' /\ EepromSuits' /\ SavedSuits'
<1> SUFFICES ASSUME IInv, [Next]_vars
             PROVE  RamSuits' /\ EepromSuits' /\ SavedSuits'
  OBVIOUS
<1>1. CASE PowerOn
  <2>1. /\ pc = "off" /\ pc' = "boot" /\ params' = Default(firmware)
        /\ UNCHANGED <<firmware, version, eeprom, saved, damaged>>
    BY <1>1 DEF PowerOn
  <2>2. \A t \in ParamTypes : params'[t].protocol = firmware.protocol
    BY <2>1, DefaultSuits DEF IInv, TypeOK
  <2> QED BY <2>1, <2>2 DEF IInv, RamSuits, EepromSuits, SavedSuits, Undamaged
<1>2. CASE paramInit
  BY <1>2, paramInitKeeps
<1>3. CASE RefreshErase
  BY <1>3, RefreshEraseKeeps
<1>4. CASE RefreshWrite
  BY <1>4, RefreshWriteKeeps
<1>5. CASE LoadOne
  <2>1. Loads[step] \in ParamTypes
    BY <1>5, Order DEF LoadOne, IInv, Control, ParamTypes
  <2>2. pc' \in {"load", "run"}
    BY <1>5 DEF LoadOne
  <2> QED BY <1>5, <2>1, <2>2, LoadKeeps DEF LoadOne
<1>6. ASSUME NEW t \in ParamTypes, NEW v \in Values, setParams(t, v)
      PROVE  RamSuits' /\ EepromSuits' /\ SavedSuits'
  <2>1. ~torn
    BY <1>6 DEF setParams, IInv, Control
  <2> QED BY <1>6, <2>1 DEF setParams, IInv, TypeOK, RamSuits,
                            EepromSuits, SavedSuits, Undamaged
<1>7. ASSUME NEW t \in ParamTypes, paramSave(t)
      PROVE  RamSuits' /\ EepromSuits' /\ SavedSuits'
  <2>1. ~torn
    BY <1>7 DEF paramSave, IInv, Control
  <2> QED BY <1>7, <2>1 DEF paramSave, IInv, RamSuits, EepromSuits,
                            SavedSuits, Undamaged
<1>8. ASSUME NEW t \in ParamTypes, paramLoad(t)
      PROVE  RamSuits' /\ EepromSuits' /\ SavedSuits'
  BY <1>8, LoadKeeps DEF paramLoad
<1>9. CASE SaveErase
  BY <1>9, SaveEraseKeeps
<1>10. CASE SaveWrite
  BY <1>10, SaveWriteKeeps
<1>11. CASE PowerFailure
  BY <1>11, PowerFailureKeeps
<1>12. CASE Flash
  <2>1. pc = "off" /\ pc' = "off" /\ UNCHANGED <<version, eeprom, saved, damaged>>
    BY <1>12 DEF Flash
  <2> QED BY <2>1 DEF IInv, RamSuits, EepromSuits, SavedSuits, Undamaged
<1>13. CASE UNCHANGED vars
  <2>1. Target' = Target /\ \A t \in ParamTypes : Unwritten(t)' = Unwritten(t)
    BY <1>13 DEF vars, Target, Unwritten
  <2> QED BY <1>13, <2>1 DEF vars, IInv, RamSuits, EepromSuits, SavedSuits,
                             Undamaged
<1> QED BY <1>1, <1>2, <1>3, <1>4, <1>5, <1>6, <1>7, <1>8, <1>9, <1>10,
           <1>11, <1>12, <1>13 DEF Next, Client

(* The inductive invariant holds in every reachable state. *)
THEOREM Invariance == Spec => []IInv
<1>1. Init => RamSuits /\ EepromSuits /\ SavedSuits
  BY DEF Init, RamSuits, EepromSuits, SavedSuits, Versions, Garbage, Undamaged
<1> QED BY <1>1, Inductive, TypeCorrect, PTL DEF Spec, IInv

(* What the client saved (Orazio_paramSave) is what Orazio_paramInit and   *)
(* Orazio_paramLoad read, after any number of restarts, updates that keep  *)
(* the protocol and power failures, and the defaults after an update that  *)
(* changes it, for all firmware images; a power failure costs only the     *)
(* parameters that were being written.                                     *)
THEOREM SavedIsKeptAlways == Spec => SavedIsKept
<1>1. ASSUME IInv, NEW t \in ParamTypes \ damaged, Loading(t)
      PROVE  params'[t] = saved[t]
  <2>1. pc \in {"load", "run"} /\ params'[t] = eeprom[t]
    BY <1>1 DEF Loading, LoadOne, paramLoad, IInv, TypeOK
  <2>2. ~torn
    BY <2>1, <1>1 DEF IInv, Control
  <2> QED BY <1>1, <2>1, <2>2 DEF IInv, SavedSuits, Undamaged
<1>2. IInv /\ [Next]_vars =>
        [\A t \in ParamTypes \ damaged : Loading(t) => params'[t] = saved[t]]_vars
  BY <1>1
<1> QED BY <1>2, Invariance, PTL DEF Spec, SavedIsKept

(* While the system runs, every set of parameters not damaged by a power   *)
(* failure is laid out for the running firmware, for all firmware images:  *)
(* comparing the protocol version alone, as Orazio_paramInit does, is      *)
(* enough.                                                                 *)
THEOREM LayoutMatchesAlways == Spec => []LayoutMatches
<1>1. IInv => LayoutMatches
  BY DEF IInv, RamSuits, LayoutMatches, Undamaged
<1> QED BY <1>1, Invariance, PTL
=============================================================================

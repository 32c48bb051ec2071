----------------------------- MODULE OrazioParam -----------------------------
(***************************************************************************)
(* The parameters in the EEPROM (src/server/orazio_param.c) over the life  *)
(* of a board: boots, saves and loads, new firmware, and a power failure   *)
(* at any point, also in the middle of a write.                            *)
(*                                                                         *)
(* A set of parameters is the protocol version that laid it out and a      *)
(* value.  What the drive and the H-bridges do with new parameters is in   *)
(* OrazioComm and OrazioServer.  The EEPROM is one that takes every write, *)
(* as that of the AVR does; the one of the dsPIC (FlashEEPROM) may refuse. *)
(* The two versions inside system_params, which paramInit sets last to     *)
(* what it has read, are reported to the client and decide nothing: they   *)
(* are left out.                                                           *)
(***************************************************************************)
EXTENDS Naturals, Sequences

CONSTANTS
  Firmwares,            \* firmware images: protocol and firmware version
  Values                \* values of parameters, "default" among them

ASSUME ParamConstants ==
  /\ Firmwares \subseteq [protocol : Nat \ {0}, version : Nat]
  /\ "default" \in Values

ParamTypes == {"ParamSystem", "ParamJoints", "ParamDrive"}
Versions == {"protocol", "firmware"}

Garbage == [protocol |-> 0, value |-> "default"]

VARIABLES
  pc,                   \* "off", "boot", "refresh", "load", "run" or "save"
  step,                 \* position in Writes or in Loads
  firmware,             \* the image in the flash
  version,              \* EEPROM: protocol and firmware version, 0: garbage
  eeprom,               \* EEPROM: the parameters
  torn,                 \* a write has begun and not ended
  params,               \* RAM: the parameters
  saved,                \* history: what the client saved last, or the
                        \* defaults if the protocol has changed since
  damaged               \* history: parameters not soundly saved any more

vars == <<pc, step, firmware, version, eeprom, torn, params, saved, damaged>>

Default(f) == [t \in ParamTypes |-> [protocol |-> f.protocol,
                                     value |-> "default"]]

(* Mistake: the drive parameters are not refreshed. *)
Writes_NoDrive == <<"protocol", "firmware", "ParamSystem", "ParamJoints">>

(* The order in which paramInit refreshes the EEPROM. *)
Writes == <<"protocol", "firmware", "ParamSystem", "ParamJoints", "ParamDrive">>

Loads == <<"ParamSystem", "ParamJoints", "ParamDrive">>

(* The parameters, or the version, that is being written. *)
Target == IF pc = "refresh" THEN Writes[step] ELSE Loads[step]

(* What is being saved suits the firmware. *)
Sound == Target \in ParamTypes /\ params[Target].protocol = firmware.protocol

(* A new board: nothing of use is in the EEPROM. *)
Init ==
  /\ pc = "off" /\ step = 1
  /\ firmware \in Firmwares
  /\ version = [v \in Versions |-> 0]
  /\ eeprom = [t \in ParamTypes |-> Garbage]
  /\ torn = FALSE
  /\ params = Default(firmware)
  /\ saved = eeprom
  /\ damaged = {}
----------------------------------------------------------------------------
(* EEPROM_write, in two steps *)

Erase ==
  /\ ~torn
  /\ torn' = TRUE
  /\ IF Target \in Versions
     THEN version' = [version EXCEPT ![Target] = 0] /\ UNCHANGED eeprom
     ELSE eeprom' = [eeprom EXCEPT ![Target] = Garbage] /\ UNCHANGED version
  /\ UNCHANGED <<pc, step, firmware, params, damaged>>

Write ==
  /\ torn
  /\ torn' = FALSE
  /\ CASE Target = "protocol" ->
            version' = [version EXCEPT !.protocol = firmware.protocol]
       [] Target = "firmware" ->
            version' = [version EXCEPT !.firmware = firmware.version]
       [] OTHER -> UNCHANGED version
  /\ eeprom' = IF Target \in Versions THEN eeprom
               ELSE [eeprom EXCEPT ![Target] = params[Target]]
  /\ damaged' = IF Sound THEN damaged \ {Target} ELSE damaged
----------------------------------------------------------------------------
(* Boot *)

PowerOn ==
  /\ pc = "off"
  /\ pc' = "boot"
  /\ params' = Default(firmware)
  /\ UNCHANGED <<step, firmware, version, eeprom, torn, saved, damaged>>

(* Mistake: new firmware of the same protocol refreshes the parameters.    *)
paramInit_Strict ==
  /\ pc = "boot"
  /\ step' = 1
  /\ pc' = IF version.protocol = firmware.protocol
               /\ version.firmware = firmware.version
           THEN "load" ELSE "refresh"
  /\ UNCHANGED <<firmware, version, eeprom, torn, params, saved, damaged>>

(* Orazio_paramInit compares the protocol version, and only that.          *)
paramInit ==
  /\ pc = "boot"
  /\ step' = 1
  /\ pc' = IF version.protocol = firmware.protocol THEN "load" ELSE "refresh"
  /\ UNCHANGED <<firmware, version, eeprom, torn, params, saved, damaged>>

(* Once a firmware begins to rewrite the EEPROM, it owes its client the    *)
(* defaults, but never in place of what was saved under its own protocol.  *)
RefreshErase ==
  /\ pc = "refresh"
  /\ Erase
  /\ saved' = [t \in ParamTypes |->
       IF saved[t].protocol = firmware.protocol /\ t \notin damaged
       THEN saved[t] ELSE Default(firmware)[t]]

RefreshWrite ==
  /\ pc = "refresh"
  /\ Write
  /\ IF step < Len(Writes) THEN step' = step + 1 /\ UNCHANGED pc
                           ELSE step' = 1 /\ pc' = "run"
  /\ UNCHANGED <<firmware, params, saved>>

(* paramInit, continued: the parameters are read one after the other. *)
LoadOne ==
  /\ pc = "load"
  /\ params' = [params EXCEPT ![Loads[step]] = eeprom[Loads[step]]]
  /\ IF step < Len(Loads) THEN step' = step + 1 /\ UNCHANGED pc
                          ELSE step' = 1 /\ pc' = "run"
  /\ UNCHANGED <<firmware, version, eeprom, torn, saved, damaged>>
----------------------------------------------------------------------------
(* The running system, on behalf of the client *)

(* A parameter packet changes the parameters in RAM. *)
setParams(t, v) ==
  /\ pc = "run"
  /\ params' = [params EXCEPT ![t] = [protocol |-> firmware.protocol,
                                      value |-> v]]
  /\ UNCHANGED <<pc, step, firmware, version, eeprom, torn, saved, damaged>>

paramSave(t) ==
  /\ pc = "run"
  /\ pc' = "save"
  /\ step' = CHOOSE k \in 1 .. 3 : Loads[k] = t
  /\ UNCHANGED <<firmware, version, eeprom, torn, params, saved, damaged>>

SaveErase == pc = "save" /\ Erase /\ UNCHANGED saved

SaveWrite ==
  /\ pc = "save"
  /\ Write
  /\ saved' = [saved EXCEPT ![Target] = params[Target]]
  /\ pc' = "run" /\ step' = 1
  /\ UNCHANGED <<firmware, params>>

paramLoad(t) ==
  /\ pc = "run"
  /\ params' = [params EXCEPT ![t] = eeprom[t]]
  /\ UNCHANGED <<pc, step, firmware, version, eeprom, torn, saved, damaged>>

(* The parameters whose saving a power failure prevents now: those that    *)
(* paramInit has still to write once the versions say they are there.      *)
Interrupted ==
  CASE pc = "save" /\ torn                                -> {Target}
    [] pc = "refresh" /\ version.protocol = firmware.protocol ->
         {t \in ParamTypes : \E k \in step .. Len(Writes) : Writes[k] = t}
    [] OTHER                                              -> {}

PowerFailure ==
  /\ pc # "off"
  /\ pc' = "off" /\ step' = 1 /\ torn' = FALSE
  /\ damaged' = damaged \cup Interrupted
  /\ UNCHANGED <<firmware, version, eeprom, params, saved>>

(* New firmware is flashed. *)
Flash ==
  /\ pc = "off"
  /\ firmware' \in Firmwares
  /\ UNCHANGED <<pc, step, version, eeprom, torn, params, saved, damaged>>

Client == \E t \in ParamTypes :
            (\E v \in Values : setParams(t, v)) \/ paramSave(t) \/ paramLoad(t)

Next == \/ PowerOn \/ paramInit \/ RefreshErase \/ RefreshWrite \/ LoadOne
        \/ Client \/ SaveErase \/ SaveWrite \/ PowerFailure \/ Flash

Spec == Init /\ [][Next]_vars
----------------------------------------------------------------------------
ParamSets == [protocol : {0} \cup {f.protocol : f \in Firmwares},
              value : Values]

(* The state is well formed. *)
TypeOK ==
  /\ pc \in {"off", "boot", "refresh", "load", "run", "save"}
  /\ step \in 1 .. 5 /\ (pc = "load" => step <= 3)
  /\ firmware \in Firmwares
  /\ DOMAIN version = Versions
  /\ {eeprom, params, saved} \subseteq [ParamTypes -> ParamSets]
  /\ torn \in BOOLEAN /\ (torn => pc \in {"refresh", "save"})
  /\ damaged \subseteq ParamTypes

(* The parameters t are read from the EEPROM. *)
Loading(t) == (LoadOne /\ Loads[step] = t) \/ paramLoad(t)

(* What the client saved comes back: whenever a set of parameters is read  *)
(* from the EEPROM, at boot or for the client, it is the one that was      *)
(* saved last, after any number of restarts and of new firmware that keeps *)
(* the protocol, or the defaults if the protocol has changed since.  A     *)
(* power failure costs only the parameters that were being written.        *)
SavedIsKept ==
  [][\A t \in ParamTypes \ damaged : Loading(t) => params'[t] = saved[t]]_vars

(* When the system runs, all parameters that were not damaged are laid out *)
(* for the firmware that runs, whichever firmware wrote the EEPROM.        *)
LayoutMatches ==
  pc \in {"run", "save"} =>
    \A t \in ParamTypes \ damaged : params[t].protocol = firmware.protocol
=============================================================================

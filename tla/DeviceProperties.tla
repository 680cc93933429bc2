--------------------------- MODULE DeviceProperties ---------------------------
(***************************************************************************)
(* ZeWrapper::zeDeviceGetProperties and zeDeviceGetRTASPropertiesExp        *)
(* (level_zero/ze_wrapper.cpp). With the internal builder the driver knows  *)
(* nothing of ray tracing: when the first structure of the caller's pNext   *)
(* chain asks for it the wrapper answers itself, from the identifiers of    *)
(* the device, takes the structure out of the chain for the driver's call,  *)
(* and puts it back. Definitions named Mut... are faulty versions of the    *)
(* definition that follows them.                                            *)
(***************************************************************************)
EXTENDS Integers, Sequences

CONSTANTS
  Chains \* The chains of structures behind the program's properties.

DevicePropertiesAssumption == Chains \subseteq Seq({"RTAS", "other"})

(* Families of devices, each a range or list of identifiers, and the format *)
(* of their acceleration structures.                                        *)
Version1 == {"DG2", "BMG", "PVC", "MTL", "LNL"}
Version2 == {"PTL"}
Families == Version1 \union Version2 \union {"older"}

VARIABLES
  mode,    \* ZeWrapper::rtas_builder.
  device,  \* Vendor and family of the device; family "none" is a null handle.
  disable, \* EMBREE_DISABLE_DEVICEID_CHECK is 1.
  chain,   \* The chain that is reached from props.
  given,   \* History: the chain as the program gave it.
  at,      \* "idle", "ask", "unlinked", "linked", "back".
  format,  \* rtasFormat in the structure.
  result   \* What the call answers.

vars == <<mode, device, disable, chain, given, at, format, result>>

Init ==
  /\ mode \in {"INTERNAL", "LEVEL_ZERO"}
  /\ device \in [vendor : {"Intel", "other"}, family : Families \union {"none"}]
  /\ disable \in BOOLEAN
  /\ chain \in Chains /\ given = chain
  /\ at = "idle" /\ format = "unset" /\ result = "none"

(* What the driver may answer.                                              *)
DriverAnswers ==
  IF device.family = "none" THEN {"INVALID_NULL_HANDLE"} ELSE {"SUCCESS", "DEVICE_LOST"}

(* The test of mode and chain, and the call of the driver when there is     *)
(* nothing to answer.                                                       *)
Begin ==
  /\ at = "idle"
  /\ IF mode = "INTERNAL" /\ chain # <<>> /\ Head(chain) = "RTAS"
     THEN at' = "ask" /\ result' = result
     ELSE at' = "back" /\ result' \in DriverAnswers
  /\ UNCHANGED <<mode, device, disable, chain, given, format>>

(* The format of a device.                                                  *)
DeviceFormat ==
  IF device.vendor # "Intel" THEN "INVALID"
  ELSE IF disable \/ device.family \in Version1 THEN "VERSION_1"
  ELSE IF device.family \in Version2 THEN "VERSION_2"
  ELSE "INVALID"

(* zeDeviceGetRTASPropertiesExp, which asks the driver for the identifiers, *)
(* and the end of the call when it fails.                                   *)
AskDevice ==
  /\ at = "ask"
  /\ \E status \in DriverAnswers :
       IF status # "SUCCESS"
       THEN /\ format' = (IF device.family = "none" THEN format ELSE "INVALID")
            /\ result' = status
       ELSE /\ format' = DeviceFormat
            /\ result' = IF DeviceFormat = "INVALID" THEN "ERROR_UNKNOWN" ELSE "SUCCESS"
  /\ IF result' = "SUCCESS" THEN at' = "unlinked" /\ chain' = Tail(chain)
     ELSE at' = "back" /\ chain' = chain
  /\ UNCHANGED <<mode, device, disable, given>>

MutCallDriver ==
  /\ at = "unlinked"
  /\ result' \in DriverAnswers
  /\ chain' = IF result' = "SUCCESS" THEN given ELSE chain
  /\ at' = "back"
  /\ UNCHANGED <<mode, device, disable, given, format>>

(* The driver fills what is left of the chain, and the first structure is   *)
(* linked again.                                                            *)
CallDriver ==
  /\ at = "unlinked"
  /\ result' \in DriverAnswers
  /\ chain' = <<"RTAS">> \o chain
  /\ at' = "back"
  /\ UNCHANGED <<mode, device, disable, given, format>>

(* The program looks at the answer and may ask again.                       *)
Again ==
  /\ at = "back"
  /\ at' = "idle" /\ format' = "unset" /\ result' = "none"
  /\ UNCHANGED <<mode, device, disable, chain, given>>

Next == Begin \/ AskDevice \/ CallDriver \/ Again

Spec == Init /\ [][Next]_vars

------------------------------------------------------------------------------
(* Whatever fails, the program gets its chain back, and a call that succeeds*)
(* has filled in a format that the device supports.                         *)
ChainKept ==
  at = "back" =>
    /\ chain = given
    /\ result = "SUCCESS" /\ mode = "INTERNAL" /\ chain # <<>> /\ Head(chain) = "RTAS" =>
         /\ device.vendor = "Intel"
         /\ format = IF device.family \in Version2 /\ ~disable THEN "VERSION_2" ELSE "VERSION_1"
==============================================================================

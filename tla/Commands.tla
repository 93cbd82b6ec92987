------------------------------- MODULE Commands -------------------------------
(***************************************************************************)
(* libnsm's codecs: what each encoder and decoder makes of a message's     *)
(* length.  A message is its number of bytes, MCTP's NSM header of five    *)
(* included; a request has two bytes before its arguments, a response six  *)
(* before its payload, a refusal ends after its reason code.               *)
(*                                                                         *)
(*   type, code   where the device looks the command up                    *)
(*   sends        bytes of the encoded request                             *)
(*   takes        lengths the request decoder lets through                 *)
(*   answers      bytes of the encoded answer                              *)
(*   accepts      lengths the answer's decoder lets through: of an answer  *)
(*                of which only the first bytes came, below "answers", and *)
(*                above it of one with a larger payload                    *)
(*   refusal      which refusals the answer's decoder understands          *)
(*                                                                         *)
(* An answer whose size is not fixed has a typical one: a table has one    *)
(* element, a bitmap of authorized keys one byte, a mask of data sources   *)
(* one, a histogram six buckets of four bytes, a debug record 44 bytes, a  *)
(* log record 42, a driver's version 24; four preset profiles and five     *)
(* workload profiles are told at once.                                     *)
(***************************************************************************)
EXTENDS Integers

\* No message of the model is longer.
MaxLength == 400

AtLeast(n) == n .. MaxLength
Exactly(n) == {n}
Unchecked == 0 .. MaxLength

\* The two encodings of a refusal.
ShortRefusal == 9
PaddedRefusal == 11

\* A response without a payload.
CommonResponse == 11

(* refusal:                                                                *)
(*   "reason"  decode_reason_code_and_cc first: the completion code is     *)
(*             known whatever the length, and the result is good only for  *)
(*             a short refusal                                             *)
(*   "full"    the length of the answer is checked before the completion   *)
(*             code is read                                                *)
(*   "any"     the completion code is read and is not an error             *)
(*   "never"   a completion code other than success is an error            *)
Command(type, code, sends, takes, answers, accepts) ==
    [type |-> type, code |-> code, sends |-> sends, takes |-> takes,
     answers |-> answers, accepts |-> accepts, refusal |-> "reason"]

----------------------------------------------------------------------------
\* base.c

Ping == Command("discovery", 0, 7, Unchecked, 11, Exactly(11))
GetSupportedNvidiaMessageTypes == Command("discovery", 1, 7, Unchecked, 43, AtLeast(43))
GetSupportedCommandCodes == Command("discovery", 2, 8, Unchecked, 43, AtLeast(43))
QueryDeviceIdentification == Command("discovery", 9, 7, Unchecked, 13, AtLeast(13))
GetHistogramFormat == Command("discovery", 13, 13, AtLeast(13), 51, AtLeast(28))
GetHistogramData == Command("discovery", 14, 13, AtLeast(13), 38, AtLeast(15))

----------------------------------------------------------------------------
\* debug-token.c

QueryTokenParameters == Command("diagnostics", 84, 8, AtLeast(8), 151, AtLeast(151))
ProvideToken == Command("diagnostics", 85, 8, AtLeast(65542), 11, AtLeast(11))
DisableTokens == Command("diagnostics", 86, 7, AtLeast(7), 11, AtLeast(11))
QueryTokenStatus == Command("diagnostics", 87, 8, AtLeast(8), 19, AtLeast(19))
QueryDeviceIds == Command("diagnostics", 88, 7, AtLeast(7), 19, AtLeast(19))

----------------------------------------------------------------------------
\* device-capability-discovery.c

SetEventSubscription ==
    [Command("discovery", 6, 9, AtLeast(9), 11, AtLeast(11)) EXCEPT !.refusal = "full"]
ConfigureEventAcknowledgement ==
    [Command("discovery", 10, 16, AtLeast(16), 19, AtLeast(19))
        EXCEPT !.refusal = "full"]
SetCurrentEventSources ==
    [Command("discovery", 5, 16, Exactly(16), 11, AtLeast(11))
        EXCEPT !.refusal = "full"]

----------------------------------------------------------------------------
\* device-configuration.c

ErrorInjectionTypes(code) ==
    Command("configuration", code, 7, AtLeast(7), 19, Exactly(19))
GetSupportedErrorInjectionTypes == ErrorInjectionTypes(5)
GetCurrentErrorInjectionTypes == ErrorInjectionTypes(7)
SetErrorInjectionMode == Command("configuration", 3, 8, Exactly(8), 11, Exactly(11))
GetErrorInjectionMode == Command("configuration", 4, 7, AtLeast(7), 16, Exactly(16))
SetCurrentErrorInjectionTypes ==
    Command("configuration", 6, 15, Exactly(15), 11, Exactly(11))
GetFpgaDiagnosticsSettings ==
    Command("configuration", 100, 8, AtLeast(8), 12, AtLeast(12))
GetFpgaDiagnosticsSettingsWp ==
    [GetFpgaDiagnosticsSettings EXCEPT !.answers = 19, !.accepts = AtLeast(12)]
GetFpgaDiagnosticsSettingsWpJumper ==
    [GetFpgaDiagnosticsSettings EXCEPT !.answers = 12, !.accepts = AtLeast(12)]
GetPowerSupplyStatus ==
    [GetFpgaDiagnosticsSettings EXCEPT !.answers = 12, !.accepts = AtLeast(12)]
GetGpuPresence ==
    [GetFpgaDiagnosticsSettings EXCEPT !.answers = 12, !.accepts = AtLeast(12)]
GetGpuPowerStatus ==
    [GetFpgaDiagnosticsSettings EXCEPT !.answers = 12, !.accepts = AtLeast(12)]
GetGpuIstMode ==
    [GetFpgaDiagnosticsSettings EXCEPT !.answers = 12, !.accepts = AtLeast(12)]
EnableDisableGpuIstMode == Command("configuration", 98, 9, AtLeast(9), 11, Exactly(11))
GetReconfigurationPermissions ==
    Command("configuration", 65, 8, AtLeast(8), 12, AtLeast(12))
SetReconfigurationPermissions ==
    Command("configuration", 64, 10, AtLeast(10), 11, Exactly(11))
GetConfidentialComputeMode ==
    Command("configuration", 9, 7, AtLeast(7), 13, Exactly(13))
SetConfidentialComputeMode ==
    Command("configuration", 8, 8, Exactly(8), 11, AtLeast(11))
GetEGMMode == Command("configuration", 67, 7, AtLeast(7), 12, Exactly(12))
SetEGMMode == Command("configuration", 66, 8, Exactly(8), 11, AtLeast(11))

----------------------------------------------------------------------------
\* diagnostics.c

\* A table of tagged samples: a header, then a tag, a length and the data of
\* each.  One sample of "size" bytes.
Table(size) == 9 + 2 + size
GetDeviceResetStatistics ==
    [Command("diagnostics", 0, 7, Exactly(7), Table(2), AtLeast(9)) EXCEPT !.refusal = "any"]
ResetNetworkDevice == Command("diagnostics", 83, 8, AtLeast(8), 11, Exactly(11))
EnableDisableWp == Command("diagnostics", 101, 9, AtLeast(9), 11, Exactly(11))
GetNetworkDeviceDebugInfo ==
    Command("diagnostics", 80, 13, Exactly(13), 59, AtLeast(15))
EraseTrace == Command("diagnostics", 81, 7, Exactly(7), 12, Exactly(12))
GetNetworkDeviceLogInfo == Command("diagnostics", 82, 11, Exactly(11), 81, AtLeast(39))
EraseDebugInfo == Command("diagnostics", 89, 9, Exactly(9), 13, Exactly(13))

----------------------------------------------------------------------------
\* firmware-utils.c

\* The state of a firmware device is a header of seven tags and, for each slot,
\* nine.  A decoder goes on while there are bytes for another tag.
Tag(bytes) == 2 + bytes
\* Where a tag begins that may be missing (not the first of a slot), and the bytes of all.
HeaderTags == {0, 3, 6, 9, 13, 16, 26}
HeaderBytes == 29
SlotTags == {3, 21, 27, 30, 33, 36, 39, 43}
SlotBytes == 47
UpToATag(tags) == {begin + rest : begin \in tags, rest \in 0 .. Tag(1) - 1}
QueryGetErotStateParameters ==
    LET slots == 9 + HeaderBytes
        whole == slots + SlotBytes
    IN  Command("firmware", 1, 12, AtLeast(12), whole,
                {9 + bytes : bytes \in UpToATag(HeaderTags)}
                    \cup {slots + bytes : bytes \in UpToATag(SlotTags)} \cup AtLeast(whole))
Irreversible(answers, accepts) ==
    Command("firmware", 2, 8, AtLeast(8), answers, accepts)
IrreversibleAnswers == <<12, 11, 19>>
\* The decoders leave the header of the answer out of the length they ask for.
IrreversibleAccepts == <<AtLeast(6), AtLeast(5), AtLeast(13)>>
FirmwareIrreversibleConfigQuery ==
    Irreversible(IrreversibleAnswers[1], IrreversibleAccepts[1])
FirmwareIrreversibleConfigDisable ==
    Irreversible(IrreversibleAnswers[2], IrreversibleAccepts[2])
FirmwareIrreversibleConfigEnable ==
    Irreversible(IrreversibleAnswers[3], IrreversibleAccepts[3])
CodeAuthKeyPermQuery ==
    Command("firmware", 3, 12, AtLeast(12), 20, {16 + 4 * bytes : bytes \in 1 .. 4})
CodeAuthKeyPermUpdate == Command("firmware", 4, 22, Exactly(22), 15, AtLeast(15))
QueryFirmwareSecurityVersionNumber ==
    Command("firmware", 5, 12, AtLeast(12), 19, AtLeast(19))
FirmwareUpdateSecVer == Command("firmware", 6, 23, AtLeast(23), 15, AtLeast(9))

----------------------------------------------------------------------------
\* network-ports.c

GetPortTelemetryCounter == Command("network", 1, 8, AtLeast(8), 271, 15 .. 271)
QueryPortStatus == Command("network", 67, 8, AtLeast(8), 13, Exactly(13))
QueryPortCharacteristics == Command("network", 66, 8, AtLeast(8), 27, Exactly(27))
QueryPortsAvailable == Command("network", 65, 7, Exactly(7), 12, Exactly(12))
SetPortDisableFuture == Command("network", 68, 39, Exactly(39), 11, AtLeast(11))
GetPortDisableFuture == Command("network", 69, 7, Exactly(7), 43, AtLeast(43))
GetPowerMode == Command("network", 11, 7, Exactly(7), 24, Exactly(24))
SetPowerMode == Command("network", 10, 21, Exactly(21), 11, Exactly(11))
GetSwitchIsolationMode == Command("network", 9, 7, AtLeast(7), 12, Exactly(12))
SetSwitchIsolationMode == Command("network", 8, 8, Exactly(8), 11, AtLeast(11))
GetFabricManagerState == Command("network", 14, 7, Exactly(7), 29, AtLeast(29))

----------------------------------------------------------------------------
\* pci-links.c

QueryScalarGroupTelemetry == Command("pci", 4, 9, AtLeast(9), 12, AtLeast(12))
QueryScalarGroupTelemetryV1Group0 ==
    [QueryScalarGroupTelemetry EXCEPT !.answers = 27]
QueryScalarGroupTelemetryV1Group1 ==
    [QueryScalarGroupTelemetry EXCEPT !.answers = 31]
QueryScalarGroupTelemetryV1Group2 ==
    [QueryScalarGroupTelemetry EXCEPT !.answers = 27]
QueryScalarGroupTelemetryV1Group3 ==
    [QueryScalarGroupTelemetry EXCEPT !.answers = 15]
QueryScalarGroupTelemetryV1Group4 ==
    [QueryScalarGroupTelemetry EXCEPT !.answers = 39]
QueryScalarGroupTelemetryV1Group5 ==
    [QueryScalarGroupTelemetry EXCEPT !.answers = 19]
QueryScalarGroupTelemetryV1Group6 ==
    [QueryScalarGroupTelemetry EXCEPT !.answers = 19]
QueryScalarGroupTelemetryV1Group8 ==
    [QueryScalarGroupTelemetry EXCEPT !.answers = 75, !.accepts = 12 .. 75]
QueryScalarGroupTelemetryV1Group9 ==
    [QueryScalarGroupTelemetry EXCEPT !.answers = 19, !.accepts = 12 .. 19]
AssertPcieFundamentalReset == Command("pci", 96, 9, Exactly(9), 11, AtLeast(11))
QueryAvailableClearableScalarDataSources ==
    Command("pci", 2, 9, Exactly(9), 14, AtLeast(13))
ClearDataSource == Command("pci", 5, 10, Exactly(10), 11, AtLeast(11))

----------------------------------------------------------------------------
\* platform-environmental.c

SendSpiCommand == Command("environment", 128, 10, Unchecked, 11, AtLeast(11))
SendSpiTransaction == Command("environment", 128, 19, Unchecked, 11, AtLeast(11))
ReadSpiStatus == Command("environment", 129, 8, Unchecked, 16, AtLeast(16))
\* A property of that many bytes: the decoder asks for the first and copies as
\* many as the header of the answer says.
GetInventoryInformation(size) ==
    Command("environment", 12, 8, AtLeast(8), CommonResponse + size, AtLeast(12))
GetInventoryNvU8 == GetInventoryInformation(1)
GetInventoryNvU32 == GetInventoryInformation(4)
GetInventoryVersion == GetInventoryInformation(8)
GetInventoryString == GetInventoryInformation(16)
\* As if the decoder asked for the answer of an energy count.
GetTemperatureReadingAsEnergy ==
    Command("environment", 0, 8, AtLeast(8), 15, Exactly(19))
GetTemperatureReading == Command("environment", 0, 8, AtLeast(8), 15, Exactly(15))
ReadThermalParameter == Command("environment", 2, 8, AtLeast(8), 15, Exactly(15))
GetCurrentPowerDraw == Command("environment", 3, 9, AtLeast(9), 15, Exactly(15))
GetMaxObservedPower == Command("environment", 4, 9, AtLeast(9), 15, Exactly(15))
GetDriverInfo == Command("environment", 14, 7, Exactly(7), 36, 13 .. 112)
GetCurrentEnergyCount == Command("environment", 6, 8, AtLeast(8), 19, Exactly(19))
GetVoltage == Command("environment", 15, 8, AtLeast(8), 15, Exactly(15))
GetAltitudePressure == Command("environment", 106, 7, Unchecked, 15, Exactly(15))
GetMIGMode == Command("environment", 77, 7, AtLeast(7), 12, Exactly(12))
SetMIGMode == Command("environment", 78, 8, Exactly(8), 11, AtLeast(11))
GetECCMode == Command("environment", 79, 7, AtLeast(7), 12, Exactly(12))
SetECCMode == Command("environment", 124, 8, Exactly(8), 11, AtLeast(11))
GetECCErrorCounts == Command("environment", 125, 7, AtLeast(7), 33, Exactly(33))
GetProgrammableEDPpScalingFactor ==
    Command("environment", 9, 7, AtLeast(7), 14, Exactly(14))
SetProgrammableEDPpScalingFactor ==
    Command("environment", 10, 10, Exactly(10), 11, AtLeast(11))
SetPowerLimit == Command("environment", 8, 17, Exactly(17), 11, AtLeast(11))
GetPowerLimit == Command("environment", 7, 11, Exactly(11), 23, Exactly(23))
GetClockLimit == Command("environment", 17, 8, AtLeast(8), 27, Exactly(27))
GetCurrClockFreq == Command("environment", 11, 8, AtLeast(8), 15, Exactly(15))
GetCurrentClockEventReasonCode ==
    Command("environment", 68, 7, AtLeast(7), 15, Exactly(15))
GetAccumGPUUtilTime == Command("environment", 70, 7, AtLeast(7), 19, Exactly(19))
GetCurrentUtilization == Command("environment", 71, 7, AtLeast(7), 19, AtLeast(19))
GetRowRemapState == Command("environment", 127, 7, AtLeast(7), 12, Exactly(12))
GetRowRemappingCounts == Command("environment", 126, 7, AtLeast(7), 19, Exactly(19))
GetRowRemapAvailability == Command("environment", 172, 7, AtLeast(7), 21, Exactly(21))
GetMemoryCapacityUtil == Command("environment", 173, 7, AtLeast(7), 19, Exactly(19))
GetClockOutputEnableState == Command("environment", 97, 8, AtLeast(8), 15, Exactly(15))
SetClockLimit == Command("environment", 16, 17, Exactly(17), 11, AtLeast(11))
GetViolationDuration == Command("environment", 69, 7, AtLeast(7), 83, Exactly(83))
GetPowersmoothingFeatinfo == Command("environment", 118, 7, AtLeast(7), 27, Exactly(27))
GetHardwareLifetimeCricuitry ==
    Command("environment", 119, 7, AtLeast(7), 15, Exactly(15))
GetCurrentProfileInfo == Command("environment", 122, 7, AtLeast(7), 27, Exactly(27))
QueryAdminOverride == Command("environment", 113, 7, AtLeast(7), 27, Exactly(27))
SetActivePresetProfile ==
    [Command("environment", 123, 8, AtLeast(8), 11, Exactly(11))
        EXCEPT !.refusal = "never"]
SetupAdminOverride == Command("environment", 114, 15, AtLeast(15), 11, Exactly(11))
ApplyAdminOverride ==
    [Command("environment", 115, 7, AtLeast(7), 11, Exactly(11))
        EXCEPT !.refusal = "never"]
ToggleImmediateRampdown == Command("environment", 116, 8, AtLeast(8), 11, Exactly(11))
ToggleFeatureState == Command("environment", 117, 8, AtLeast(8), 11, Exactly(11))
\* The clients of these two go through the profiles they were told of, and do
\* not look at the result of the decoder of one.
GetPresetProfile == Command("environment", 120, 7, AtLeast(7), 79, AtLeast(16))
UpdatePresetProfileParam ==
    Command("environment", 121, 15, AtLeast(15), 11, Exactly(11))
EnableWorkloadPowerProfile ==
    Command("environment", 165, 39, AtLeast(39), 11, Exactly(11))
DisableWorkloadPowerProfile ==
    Command("environment", 166, 39, AtLeast(39), 11, Exactly(11))
GetWorkloadPowerProfileStatus ==
    Command("environment", 164, 7, AtLeast(7), 107, AtLeast(107))
GetWorkloadPowerProfileInfo ==
    Command("environment", 163, 9, AtLeast(9), 195, AtLeast(10))

----------------------------------------------------------------------------
\* Tables of samples, platform-environmental.c

(* The decoder of a table looks at its header alone, and each sample is    *)
(* decoded by itself.                                                      *)
Aggregate(command, size) ==
    [command EXCEPT !.answers = Table(size), !.accepts = AtLeast(9), !.refusal = "any"]
\* A sample with the time before the reading.
Timestamped(table) == [table EXCEPT !.answers = @ + 2 + 8]
AggregateTemperature == Aggregate(GetTemperatureReading, 4)
AggregateThermalParameter == Aggregate(ReadThermalParameter, 4)
PowerDrawSample == 4
AggregatePowerDraw == Timestamped(Aggregate(GetCurrentPowerDraw, PowerDrawSample))
AggregatePeakPower == Timestamped(Aggregate(GetMaxObservedPower, PowerDrawSample))
AggregateEnergyCount == Aggregate(GetCurrentEnergyCount, 8)
AggregateVoltage == Aggregate(GetVoltage, 4)
GpmPercentage == 4
GpmBandwidth == 8
Gpm(code, sends, size) ==
    Aggregate(Command("environment", code, sends, AtLeast(sends), 0, {}), size)
QueryAggregateGpmMetrics == Gpm(73, 11, GpmPercentage)
QueryPerInstanceGpmMetrics == Gpm(74, 15, GpmBandwidth)
============================================================================

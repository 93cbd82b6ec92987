--------------------------- MODULE Exchange_proofs ---------------------------
(***************************************************************************)
(* Two kinds of facts make an exchange end well: what each codec, object   *)
(* and handler is (the tables of the modules Exchange uses), and what the  *)
(* steps of an exchange make of any that is like that.                     *)
(***************************************************************************)
EXTENDS Exchange, TLAPS

(* A command's answer is one its decoder takes, and its decoder takes no   *)
(* shorter one, but for the decoders that are named in Exchange.           *)
Sound(command) ==
    /\ command.answers \in Nat
    /\ command.answers \in command.accepts
    /\ command.refusal \in {"reason", "full", "any", "never"}
    /\ \/ command \in AsksForLess
       \/ TakesWhatIsThere(command)
       \/ \A n \in command.accepts : n \in Nat /\ n >= command.answers

(* A client of a program concludes that it has succeeded from a decoded    *)
(* answer that is not a refusal, but for those that are named in Exchange; *)
(* the commands these send are not among those the mockup accepts.  Only   *)
(* the size of an inventory property is compared.                          *)
OfInventory(command) == command.type = "environment" /\ command.code = 12
Concludes(p, c) ==
    /\ c.compares => OfInventory(c.command)
    /\ c.onError \in {"kept", "cleared", "fresh"}
    /\ c.onRefusal \in {"kept", "cleared", "fresh"}
    /\ \/ c.concludes = "either"
       \/ c.concludes \in {"cc", "always"} /\ c.name \in IgnoresRc[p]
       \/ /\ c.concludes = "rc"
          /\ \/ c.command.refusal = "any"
             \/ c.name \in ReturnsRc[p] /\ c.command.type # "environment"

(* A handler of the mockup answers what libnsm encodes with what libnsm    *)
(* decodes, whole, but for those MockupFallsShort names.                   *)
CutOff == {Mockup!C!GetHistogramData, Mockup!C!GetNetworkDeviceLogInfo} \cup Mockup!Properties
Suits(h) ==
    /\ h.command.sends \in h.takes \/ h.command = Mockup!C!ProvideToken
    /\ \/ h.kind = "refused"
       \/ h.kind = "accepted" /\ h.command.type = "environment" /\ h.command.refusal = "reason"
       \/ /\ h.kind = "ok"
          /\ \/ h.command \in CutOff /\ ~h.whole
             \/ /\ h.whole
                /\ h.sent \in h.command.accepts
                /\ OfInventory(h.command) => h.sent <= h.command.answers

----------------------------------------------------------------------------
(* The codecs, one file of libnsm after the other.                         *)

(* The decoders that ask for less than they read.                         *)
LEMMA Asking ==
    /\ C!GetHistogramFormat \in AsksForLess /\ C!GetHistogramData \in AsksForLess
    /\ C!GetFpgaDiagnosticsSettingsWp \in AsksForLess
    /\ C!GetNetworkDeviceDebugInfo \in AsksForLess
    /\ C!GetNetworkDeviceLogInfo \in AsksForLess
    /\ C!FirmwareIrreversibleConfigQuery \in AsksForLess
    /\ C!FirmwareIrreversibleConfigDisable \in AsksForLess
    /\ C!FirmwareIrreversibleConfigEnable \in AsksForLess
    /\ C!FirmwareUpdateSecVer \in AsksForLess /\ C!GetPortTelemetryCounter \in AsksForLess
    /\ C!QueryScalarGroupTelemetryV1Group0 \in AsksForLess
    /\ C!QueryScalarGroupTelemetryV1Group1 \in AsksForLess
    /\ C!QueryScalarGroupTelemetryV1Group2 \in AsksForLess
    /\ C!QueryScalarGroupTelemetryV1Group3 \in AsksForLess
    /\ C!QueryScalarGroupTelemetryV1Group4 \in AsksForLess
    /\ C!QueryScalarGroupTelemetryV1Group5 \in AsksForLess
    /\ C!QueryScalarGroupTelemetryV1Group6 \in AsksForLess
    /\ C!QueryScalarGroupTelemetryV1Group8 \in AsksForLess
    /\ C!QueryScalarGroupTelemetryV1Group9 \in AsksForLess
    /\ C!QueryAvailableClearableScalarDataSources \in AsksForLess
    /\ C!GetInventoryNvU32 \in AsksForLess /\ C!GetInventoryVersion \in AsksForLess
    /\ C!GetInventoryString \in AsksForLess /\ C!GetDriverInfo \in AsksForLess
    /\ C!GetPresetProfile \in AsksForLess /\ C!GetWorkloadPowerProfileInfo \in AsksForLess
  <1>1. \A c \in {C!GetInventoryNvU32, C!GetInventoryVersion, C!GetInventoryString} :
           c # C!GetInventoryNvU8
    BY DEF
       C!Command, C!MaxLength, C!AtLeast, C!CommonResponse, C!GetInventoryInformation,
       C!GetInventoryNvU8, C!GetInventoryNvU32, C!GetInventoryVersion, C!GetInventoryString
  <1> QED
    BY <1>1 DEF AsksForLess, Inventory

\* base.c
LEMMA SoundBase ==
    /\ Sound(C!Ping) /\ Sound(C!GetSupportedNvidiaMessageTypes)
    /\ Sound(C!GetSupportedCommandCodes) /\ Sound(C!QueryDeviceIdentification)
    /\ Sound(C!GetHistogramFormat) /\ Sound(C!GetHistogramData)
  BY Asking DEF Sound,
     C!Command, C!MaxLength, C!Unchecked, C!Exactly, C!Ping, C!AtLeast,
     C!GetSupportedNvidiaMessageTypes, C!GetSupportedCommandCodes,
     C!QueryDeviceIdentification, C!GetHistogramFormat, C!GetHistogramData

\* debug-token.c
LEMMA SoundDebugToken ==
    /\ Sound(C!QueryTokenParameters) /\ Sound(C!ProvideToken) /\ Sound(C!DisableTokens)
    /\ Sound(C!QueryTokenStatus) /\ Sound(C!QueryDeviceIds)
  BY DEF Sound,
     C!Command, C!MaxLength, C!AtLeast, C!QueryTokenParameters, C!ProvideToken,
     C!DisableTokens, C!QueryTokenStatus, C!QueryDeviceIds

\* device-capability-discovery.c
LEMMA SoundCapabilities ==
    /\ Sound(C!SetEventSubscription) /\ Sound(C!ConfigureEventAcknowledgement)
    /\ Sound(C!SetCurrentEventSources)
  BY DEF Sound,
     C!Command, C!MaxLength, C!AtLeast, C!SetEventSubscription,
     C!ConfigureEventAcknowledgement, C!Exactly, C!SetCurrentEventSources

\* device-configuration.c
LEMMA SoundConfiguration ==
    /\ Sound(C!GetSupportedErrorInjectionTypes) /\ Sound(C!GetCurrentErrorInjectionTypes)
    /\ Sound(C!SetErrorInjectionMode) /\ Sound(C!GetErrorInjectionMode)
    /\ Sound(C!SetCurrentErrorInjectionTypes) /\ Sound(C!GetFpgaDiagnosticsSettings)
    /\ Sound(C!GetFpgaDiagnosticsSettingsWp) /\ Sound(C!GetFpgaDiagnosticsSettingsWpJumper)
    /\ Sound(C!GetPowerSupplyStatus) /\ Sound(C!GetGpuPresence)
    /\ Sound(C!GetGpuPowerStatus) /\ Sound(C!GetGpuIstMode)
    /\ Sound(C!EnableDisableGpuIstMode) /\ Sound(C!GetReconfigurationPermissions)
    /\ Sound(C!SetReconfigurationPermissions) /\ Sound(C!GetConfidentialComputeMode)
    /\ Sound(C!SetConfidentialComputeMode) /\ Sound(C!GetEGMMode) /\ Sound(C!SetEGMMode)
  <1>1.
        /\ Sound(C!GetSupportedErrorInjectionTypes)
        /\ Sound(C!GetCurrentErrorInjectionTypes) /\ Sound(C!SetErrorInjectionMode)
        /\ Sound(C!GetErrorInjectionMode) /\ Sound(C!SetCurrentErrorInjectionTypes)
        /\ Sound(C!GetFpgaDiagnosticsSettings) /\ Sound(C!GetFpgaDiagnosticsSettingsWp)
        /\ Sound(C!GetFpgaDiagnosticsSettingsWpJumper) /\ Sound(C!GetPowerSupplyStatus)
    BY Asking DEF Sound,
       C!Command, C!MaxLength, C!AtLeast, C!Exactly, C!ErrorInjectionTypes,
       C!GetSupportedErrorInjectionTypes, C!GetCurrentErrorInjectionTypes,
       C!SetErrorInjectionMode, C!GetErrorInjectionMode, C!SetCurrentErrorInjectionTypes,
       C!GetFpgaDiagnosticsSettings, C!GetFpgaDiagnosticsSettingsWp,
       C!GetFpgaDiagnosticsSettingsWpJumper, C!GetPowerSupplyStatus
  <1>2.
        /\ Sound(C!GetGpuPresence) /\ Sound(C!GetGpuPowerStatus) /\ Sound(C!GetGpuIstMode)
        /\ Sound(C!EnableDisableGpuIstMode) /\ Sound(C!GetReconfigurationPermissions)
        /\ Sound(C!SetReconfigurationPermissions) /\ Sound(C!GetConfidentialComputeMode)
        /\ Sound(C!SetConfidentialComputeMode) /\ Sound(C!GetEGMMode)
        /\ Sound(C!SetEGMMode)
    BY DEF Sound,
       C!Command, C!MaxLength, C!AtLeast, C!GetFpgaDiagnosticsSettings, C!GetGpuPresence,
       C!GetGpuPowerStatus, C!GetGpuIstMode, C!Exactly, C!EnableDisableGpuIstMode,
       C!GetReconfigurationPermissions, C!SetReconfigurationPermissions,
       C!GetConfidentialComputeMode, C!SetConfidentialComputeMode, C!GetEGMMode,
       C!SetEGMMode
  <1> QED
    BY <1>1, <1>2

\* diagnostics.c
LEMMA SoundDiagnostics ==
    /\ Sound(C!GetDeviceResetStatistics) /\ Sound(C!ResetNetworkDevice)
    /\ Sound(C!EnableDisableWp) /\ Sound(C!GetNetworkDeviceDebugInfo)
    /\ Sound(C!EraseTrace) /\ Sound(C!GetNetworkDeviceLogInfo) /\ Sound(C!EraseDebugInfo)
  BY Asking DEF Sound, TakesWhatIsThere,
     C!Command, C!Exactly, C!Table, C!MaxLength, C!AtLeast, C!GetDeviceResetStatistics,
     C!ResetNetworkDevice, C!EnableDisableWp, C!GetNetworkDeviceDebugInfo, C!EraseTrace,
     C!GetNetworkDeviceLogInfo, C!EraseDebugInfo

\* firmware-utils.c
LEMMA SoundFirmware ==
    /\ Sound(C!QueryGetErotStateParameters) /\ Sound(C!FirmwareIrreversibleConfigQuery)
    /\ Sound(C!FirmwareIrreversibleConfigDisable)
    /\ Sound(C!FirmwareIrreversibleConfigEnable) /\ Sound(C!CodeAuthKeyPermQuery)
    /\ Sound(C!CodeAuthKeyPermUpdate) /\ Sound(C!QueryFirmwareSecurityVersionNumber)
    /\ Sound(C!FirmwareUpdateSecVer)
  BY Asking DEF Sound, TakesWhatIsThere,
     C!HeaderBytes, C!SlotBytes, C!Command, C!MaxLength, C!AtLeast, C!Tag, C!UpToATag,
     C!HeaderTags, C!SlotTags, C!QueryGetErotStateParameters, C!Irreversible,
     C!IrreversibleAnswers, C!IrreversibleAccepts, C!FirmwareIrreversibleConfigQuery,
     C!FirmwareIrreversibleConfigDisable, C!FirmwareIrreversibleConfigEnable,
     C!CodeAuthKeyPermQuery, C!Exactly, C!CodeAuthKeyPermUpdate,
     C!QueryFirmwareSecurityVersionNumber, C!FirmwareUpdateSecVer

\* network-ports.c
LEMMA SoundPorts ==
    /\ Sound(C!GetPortTelemetryCounter) /\ Sound(C!QueryPortStatus)
    /\ Sound(C!QueryPortCharacteristics) /\ Sound(C!QueryPortsAvailable)
    /\ Sound(C!SetPortDisableFuture) /\ Sound(C!GetPortDisableFuture)
    /\ Sound(C!GetPowerMode) /\ Sound(C!SetPowerMode) /\ Sound(C!GetSwitchIsolationMode)
    /\ Sound(C!SetSwitchIsolationMode) /\ Sound(C!GetFabricManagerState)
  BY Asking DEF Sound,
     C!Command, C!MaxLength, C!AtLeast, C!GetPortTelemetryCounter, C!Exactly,
     C!QueryPortStatus, C!QueryPortCharacteristics, C!QueryPortsAvailable,
     C!SetPortDisableFuture, C!GetPortDisableFuture, C!GetPowerMode, C!SetPowerMode,
     C!GetSwitchIsolationMode, C!SetSwitchIsolationMode, C!GetFabricManagerState

\* pci-links.c
LEMMA SoundPci ==
    /\ Sound(C!QueryScalarGroupTelemetry) /\ Sound(C!QueryScalarGroupTelemetryV1Group0)
    /\ Sound(C!QueryScalarGroupTelemetryV1Group1)
    /\ Sound(C!QueryScalarGroupTelemetryV1Group2)
    /\ Sound(C!QueryScalarGroupTelemetryV1Group3)
    /\ Sound(C!QueryScalarGroupTelemetryV1Group4)
    /\ Sound(C!QueryScalarGroupTelemetryV1Group5)
    /\ Sound(C!QueryScalarGroupTelemetryV1Group6)
    /\ Sound(C!QueryScalarGroupTelemetryV1Group8)
    /\ Sound(C!QueryScalarGroupTelemetryV1Group9) /\ Sound(C!AssertPcieFundamentalReset)
    /\ Sound(C!QueryAvailableClearableScalarDataSources) /\ Sound(C!ClearDataSource)
  <1>1.
        /\ Sound(C!QueryScalarGroupTelemetry) /\ Sound(C!QueryScalarGroupTelemetryV1Group0)
        /\ Sound(C!QueryScalarGroupTelemetryV1Group1)
    BY Asking DEF Sound,
       C!Command, C!MaxLength, C!AtLeast, C!QueryScalarGroupTelemetry,
       C!QueryScalarGroupTelemetryV1Group0, C!QueryScalarGroupTelemetryV1Group1
  <1>2.
        /\ Sound(C!QueryScalarGroupTelemetryV1Group2)
        /\ Sound(C!QueryScalarGroupTelemetryV1Group3)
        /\ Sound(C!QueryScalarGroupTelemetryV1Group4)
    BY Asking DEF Sound,
       C!Command, C!MaxLength, C!AtLeast, C!QueryScalarGroupTelemetry,
       C!QueryScalarGroupTelemetryV1Group2, C!QueryScalarGroupTelemetryV1Group3,
       C!QueryScalarGroupTelemetryV1Group4
  <1>3.
        /\ Sound(C!QueryScalarGroupTelemetryV1Group5)
        /\ Sound(C!QueryScalarGroupTelemetryV1Group6)
        /\ Sound(C!QueryScalarGroupTelemetryV1Group8)
    BY Asking DEF Sound,
       C!Command, C!MaxLength, C!AtLeast, C!QueryScalarGroupTelemetry,
       C!QueryScalarGroupTelemetryV1Group5, C!QueryScalarGroupTelemetryV1Group6,
       C!QueryScalarGroupTelemetryV1Group8
  <1>4.
        /\ Sound(C!QueryScalarGroupTelemetryV1Group9)
        /\ Sound(C!AssertPcieFundamentalReset)
        /\ Sound(C!QueryAvailableClearableScalarDataSources) /\ Sound(C!ClearDataSource)
    BY Asking DEF Sound,
       C!Command, C!MaxLength, C!AtLeast, C!QueryScalarGroupTelemetry,
       C!QueryScalarGroupTelemetryV1Group9, C!Exactly, C!AssertPcieFundamentalReset,
       C!QueryAvailableClearableScalarDataSources, C!ClearDataSource
  <1> QED
    BY <1>1, <1>2, <1>3, <1>4

\* platform-environmental.c
LEMMA SoundEnvironment ==
    /\ Sound(C!SendSpiCommand) /\ Sound(C!SendSpiTransaction) /\ Sound(C!ReadSpiStatus)
    /\ Sound(C!GetInventoryNvU8) /\ Sound(C!GetInventoryNvU32)
    /\ Sound(C!GetInventoryVersion) /\ Sound(C!GetInventoryString)
    /\ Sound(C!GetTemperatureReading) /\ Sound(C!ReadThermalParameter)
    /\ Sound(C!GetCurrentPowerDraw) /\ Sound(C!GetMaxObservedPower)
    /\ Sound(C!GetDriverInfo) /\ Sound(C!GetCurrentEnergyCount) /\ Sound(C!GetVoltage)
    /\ Sound(C!GetAltitudePressure) /\ Sound(C!GetMIGMode) /\ Sound(C!SetMIGMode)
    /\ Sound(C!GetECCMode) /\ Sound(C!SetECCMode) /\ Sound(C!GetECCErrorCounts)
    /\ Sound(C!GetProgrammableEDPpScalingFactor)
    /\ Sound(C!SetProgrammableEDPpScalingFactor) /\ Sound(C!SetPowerLimit)
    /\ Sound(C!GetPowerLimit) /\ Sound(C!GetClockLimit) /\ Sound(C!GetCurrClockFreq)
    /\ Sound(C!GetCurrentClockEventReasonCode) /\ Sound(C!GetAccumGPUUtilTime)
    /\ Sound(C!GetCurrentUtilization) /\ Sound(C!GetRowRemapState)
    /\ Sound(C!GetRowRemappingCounts) /\ Sound(C!GetRowRemapAvailability)
    /\ Sound(C!GetMemoryCapacityUtil) /\ Sound(C!GetClockOutputEnableState)
    /\ Sound(C!SetClockLimit) /\ Sound(C!GetViolationDuration)
    /\ Sound(C!GetPowersmoothingFeatinfo) /\ Sound(C!GetHardwareLifetimeCricuitry)
    /\ Sound(C!GetCurrentProfileInfo) /\ Sound(C!QueryAdminOverride)
    /\ Sound(C!SetActivePresetProfile) /\ Sound(C!SetupAdminOverride)
    /\ Sound(C!ApplyAdminOverride) /\ Sound(C!ToggleImmediateRampdown)
    /\ Sound(C!ToggleFeatureState) /\ Sound(C!GetPresetProfile)
    /\ Sound(C!UpdatePresetProfileParam) /\ Sound(C!EnableWorkloadPowerProfile)
    /\ Sound(C!DisableWorkloadPowerProfile) /\ Sound(C!GetWorkloadPowerProfileStatus)
    /\ Sound(C!GetWorkloadPowerProfileInfo)
  <1>1.
        /\ Sound(C!SendSpiCommand) /\ Sound(C!SendSpiTransaction) /\ Sound(C!ReadSpiStatus)
        /\ Sound(C!GetInventoryNvU8) /\ Sound(C!GetInventoryNvU32)
        /\ Sound(C!GetInventoryVersion) /\ Sound(C!GetInventoryString)
        /\ Sound(C!GetTemperatureReading) /\ Sound(C!ReadThermalParameter)
        /\ Sound(C!GetCurrentPowerDraw)
    BY Asking DEF Sound,
       C!Command, C!MaxLength, C!Unchecked, C!AtLeast, C!SendSpiCommand,
       C!SendSpiTransaction, C!ReadSpiStatus, C!CommonResponse, C!GetInventoryInformation,
       C!GetInventoryNvU8, C!GetInventoryNvU32, C!GetInventoryVersion,
       C!GetInventoryString, C!Exactly, C!GetTemperatureReading, C!ReadThermalParameter,
       C!GetCurrentPowerDraw
  <1>2.
        /\ Sound(C!GetMaxObservedPower) /\ Sound(C!GetDriverInfo)
        /\ Sound(C!GetCurrentEnergyCount) /\ Sound(C!GetVoltage)
        /\ Sound(C!GetAltitudePressure) /\ Sound(C!GetMIGMode) /\ Sound(C!SetMIGMode)
        /\ Sound(C!GetECCMode) /\ Sound(C!SetECCMode) /\ Sound(C!GetECCErrorCounts)
    BY Asking DEF Sound,
       C!Command, C!MaxLength, C!AtLeast, C!Exactly, C!GetMaxObservedPower,
       C!GetDriverInfo, C!GetCurrentEnergyCount, C!GetVoltage, C!Unchecked,
       C!GetAltitudePressure, C!GetMIGMode, C!SetMIGMode, C!GetECCMode, C!SetECCMode,
       C!GetECCErrorCounts
  <1>3.
        /\ Sound(C!GetProgrammableEDPpScalingFactor)
        /\ Sound(C!SetProgrammableEDPpScalingFactor) /\ Sound(C!SetPowerLimit)
        /\ Sound(C!GetPowerLimit) /\ Sound(C!GetClockLimit) /\ Sound(C!GetCurrClockFreq)
        /\ Sound(C!GetCurrentClockEventReasonCode) /\ Sound(C!GetAccumGPUUtilTime)
        /\ Sound(C!GetCurrentUtilization) /\ Sound(C!GetRowRemapState)
    BY DEF Sound,
       C!Command, C!MaxLength, C!AtLeast, C!Exactly, C!GetProgrammableEDPpScalingFactor,
       C!SetProgrammableEDPpScalingFactor, C!SetPowerLimit, C!GetPowerLimit,
       C!GetClockLimit, C!GetCurrClockFreq, C!GetCurrentClockEventReasonCode,
       C!GetAccumGPUUtilTime, C!GetCurrentUtilization, C!GetRowRemapState
  <1>4.
        /\ Sound(C!GetRowRemappingCounts) /\ Sound(C!GetRowRemapAvailability)
        /\ Sound(C!GetMemoryCapacityUtil) /\ Sound(C!GetClockOutputEnableState)
        /\ Sound(C!SetClockLimit) /\ Sound(C!GetViolationDuration)
        /\ Sound(C!GetPowersmoothingFeatinfo) /\ Sound(C!GetHardwareLifetimeCricuitry)
        /\ Sound(C!GetCurrentProfileInfo) /\ Sound(C!QueryAdminOverride)
    BY DEF Sound,
       C!Command, C!MaxLength, C!AtLeast, C!Exactly, C!GetRowRemappingCounts,
       C!GetRowRemapAvailability, C!GetMemoryCapacityUtil, C!GetClockOutputEnableState,
       C!SetClockLimit, C!GetViolationDuration, C!GetPowersmoothingFeatinfo,
       C!GetHardwareLifetimeCricuitry, C!GetCurrentProfileInfo, C!QueryAdminOverride
  <1>5.
        /\ Sound(C!SetActivePresetProfile) /\ Sound(C!SetupAdminOverride)
        /\ Sound(C!ApplyAdminOverride) /\ Sound(C!ToggleImmediateRampdown)
        /\ Sound(C!ToggleFeatureState) /\ Sound(C!GetPresetProfile)
        /\ Sound(C!UpdatePresetProfileParam) /\ Sound(C!EnableWorkloadPowerProfile)
        /\ Sound(C!DisableWorkloadPowerProfile) /\ Sound(C!GetWorkloadPowerProfileStatus)
        /\ Sound(C!GetWorkloadPowerProfileInfo)
    BY Asking DEF Sound,
       C!Command, C!MaxLength, C!AtLeast, C!Exactly, C!SetActivePresetProfile,
       C!SetupAdminOverride, C!ApplyAdminOverride, C!ToggleImmediateRampdown,
       C!ToggleFeatureState, C!GetPresetProfile, C!UpdatePresetProfileParam,
       C!EnableWorkloadPowerProfile, C!DisableWorkloadPowerProfile,
       C!GetWorkloadPowerProfileStatus, C!GetWorkloadPowerProfileInfo
  <1> QED
    BY <1>1, <1>2, <1>3, <1>4, <1>5

\* Tables of samples, platform-environmental.c
LEMMA SoundTables ==
    /\ Sound(C!AggregateTemperature) /\ Sound(C!AggregateThermalParameter)
    /\ Sound(C!AggregatePowerDraw) /\ Sound(C!AggregatePeakPower)
    /\ Sound(C!AggregateEnergyCount) /\ Sound(C!AggregateVoltage)
    /\ Sound(C!QueryAggregateGpmMetrics) /\ Sound(C!QueryPerInstanceGpmMetrics)
  BY DEF Sound, TakesWhatIsThere,
     C!Table, C!MaxLength, C!AtLeast, C!Aggregate, C!Command, C!Exactly,
     C!GetTemperatureReading, C!AggregateTemperature, C!ReadThermalParameter,
     C!AggregateThermalParameter, C!Timestamped, C!GetCurrentPowerDraw, C!PowerDrawSample,
     C!AggregatePowerDraw, C!GetMaxObservedPower, C!AggregatePeakPower,
     C!GetCurrentEnergyCount, C!AggregateEnergyCount, C!GetVoltage, C!AggregateVoltage,
     C!Gpm, C!GpmPercentage, C!QueryAggregateGpmMetrics, C!GpmBandwidth,
     C!QueryPerInstanceGpmMetrics

----------------------------------------------------------------------------
(* The objects of nsmd.                                                    *)

(* Every object sends a command of libnsm.                                 *)
LEMMA NsmdCommands == \A c \in Nsmd!All : Sound(c.command)
  <1>1.
        /\ Nsmd!C!Ping = C!Ping
        /\ Nsmd!C!GetSupportedNvidiaMessageTypes = C!GetSupportedNvidiaMessageTypes
        /\ Nsmd!C!GetSupportedCommandCodes = C!GetSupportedCommandCodes
        /\ Nsmd!C!QueryDeviceIdentification = C!QueryDeviceIdentification
        /\ Nsmd!C!GetHistogramFormat = C!GetHistogramFormat
        /\ Nsmd!C!GetHistogramData = C!GetHistogramData
    BY DEF
       C!Command, Nsmd!C!Command, C!MaxLength, Nsmd!C!MaxLength, C!Unchecked,
       Nsmd!C!Unchecked, C!Exactly, Nsmd!C!Exactly, C!Ping, Nsmd!C!Ping, C!AtLeast,
       Nsmd!C!AtLeast, C!GetSupportedNvidiaMessageTypes,
       Nsmd!C!GetSupportedNvidiaMessageTypes, C!GetSupportedCommandCodes,
       Nsmd!C!GetSupportedCommandCodes, C!QueryDeviceIdentification,
       Nsmd!C!QueryDeviceIdentification, C!GetHistogramFormat, Nsmd!C!GetHistogramFormat,
       C!GetHistogramData, Nsmd!C!GetHistogramData
  <1>2.
        /\ Nsmd!C!QueryTokenParameters = C!QueryTokenParameters
        /\ Nsmd!C!ProvideToken = C!ProvideToken /\ Nsmd!C!DisableTokens = C!DisableTokens
        /\ Nsmd!C!QueryTokenStatus = C!QueryTokenStatus
        /\ Nsmd!C!QueryDeviceIds = C!QueryDeviceIds
    BY DEF
       C!Command, Nsmd!C!Command, C!MaxLength, Nsmd!C!MaxLength, C!AtLeast, Nsmd!C!AtLeast,
       C!QueryTokenParameters, Nsmd!C!QueryTokenParameters, C!ProvideToken,
       Nsmd!C!ProvideToken, C!DisableTokens, Nsmd!C!DisableTokens, C!QueryTokenStatus,
       Nsmd!C!QueryTokenStatus, C!QueryDeviceIds, Nsmd!C!QueryDeviceIds
  <1>3.
        /\ Nsmd!C!SetEventSubscription = C!SetEventSubscription
        /\ Nsmd!C!ConfigureEventAcknowledgement = C!ConfigureEventAcknowledgement
        /\ Nsmd!C!SetCurrentEventSources = C!SetCurrentEventSources
    BY DEF
       C!Command, Nsmd!C!Command, C!MaxLength, Nsmd!C!MaxLength, C!AtLeast, Nsmd!C!AtLeast,
       C!SetEventSubscription, Nsmd!C!SetEventSubscription,
       C!ConfigureEventAcknowledgement, Nsmd!C!ConfigureEventAcknowledgement, C!Exactly,
       Nsmd!C!Exactly, C!SetCurrentEventSources, Nsmd!C!SetCurrentEventSources
  <1>4.
        /\ Nsmd!C!GetSupportedErrorInjectionTypes = C!GetSupportedErrorInjectionTypes
        /\ Nsmd!C!GetCurrentErrorInjectionTypes = C!GetCurrentErrorInjectionTypes
        /\ Nsmd!C!SetErrorInjectionMode = C!SetErrorInjectionMode
        /\ Nsmd!C!GetErrorInjectionMode = C!GetErrorInjectionMode
        /\ Nsmd!C!SetCurrentErrorInjectionTypes = C!SetCurrentErrorInjectionTypes
        /\ Nsmd!C!GetFpgaDiagnosticsSettingsWp = C!GetFpgaDiagnosticsSettingsWp
        /\ Nsmd!C!GetFpgaDiagnosticsSettingsWpJumper = C!GetFpgaDiagnosticsSettingsWpJumper
        /\ Nsmd!C!GetPowerSupplyStatus = C!GetPowerSupplyStatus
        /\ Nsmd!C!GetGpuPresence = C!GetGpuPresence
        /\ Nsmd!C!GetGpuPowerStatus = C!GetGpuPowerStatus
        /\ Nsmd!C!GetReconfigurationPermissions = C!GetReconfigurationPermissions
        /\ Nsmd!C!SetReconfigurationPermissions = C!SetReconfigurationPermissions
        /\ Nsmd!C!GetConfidentialComputeMode = C!GetConfidentialComputeMode
        /\ Nsmd!C!SetConfidentialComputeMode = C!SetConfidentialComputeMode
        /\ Nsmd!C!GetEGMMode = C!GetEGMMode /\ Nsmd!C!SetEGMMode = C!SetEGMMode
    BY DEF
       C!Command, Nsmd!C!Command, C!MaxLength, Nsmd!C!MaxLength, C!AtLeast, Nsmd!C!AtLeast,
       C!Exactly, Nsmd!C!Exactly, C!ErrorInjectionTypes, Nsmd!C!ErrorInjectionTypes,
       C!GetSupportedErrorInjectionTypes, Nsmd!C!GetSupportedErrorInjectionTypes,
       C!GetCurrentErrorInjectionTypes, Nsmd!C!GetCurrentErrorInjectionTypes,
       C!SetErrorInjectionMode, Nsmd!C!SetErrorInjectionMode, C!GetErrorInjectionMode,
       Nsmd!C!GetErrorInjectionMode, C!SetCurrentErrorInjectionTypes,
       Nsmd!C!SetCurrentErrorInjectionTypes, C!GetFpgaDiagnosticsSettings,
       Nsmd!C!GetFpgaDiagnosticsSettings, C!GetFpgaDiagnosticsSettingsWp,
       Nsmd!C!GetFpgaDiagnosticsSettingsWp, C!GetFpgaDiagnosticsSettingsWpJumper,
       Nsmd!C!GetFpgaDiagnosticsSettingsWpJumper, C!GetPowerSupplyStatus,
       Nsmd!C!GetPowerSupplyStatus, C!GetGpuPresence, Nsmd!C!GetGpuPresence,
       C!GetGpuPowerStatus, Nsmd!C!GetGpuPowerStatus, C!GetReconfigurationPermissions,
       Nsmd!C!GetReconfigurationPermissions, C!SetReconfigurationPermissions,
       Nsmd!C!SetReconfigurationPermissions, C!GetConfidentialComputeMode,
       Nsmd!C!GetConfidentialComputeMode, C!SetConfidentialComputeMode,
       Nsmd!C!SetConfidentialComputeMode, C!GetEGMMode, Nsmd!C!GetEGMMode, C!SetEGMMode,
       Nsmd!C!SetEGMMode
  <1>5.
        /\ Nsmd!C!GetDeviceResetStatistics = C!GetDeviceResetStatistics
        /\ Nsmd!C!EnableDisableWp = C!EnableDisableWp
        /\ Nsmd!C!GetNetworkDeviceDebugInfo = C!GetNetworkDeviceDebugInfo
        /\ Nsmd!C!EraseTrace = C!EraseTrace
        /\ Nsmd!C!GetNetworkDeviceLogInfo = C!GetNetworkDeviceLogInfo
        /\ Nsmd!C!EraseDebugInfo = C!EraseDebugInfo
    BY DEF
       C!Command, Nsmd!C!Command, C!Exactly, Nsmd!C!Exactly, C!Table, Nsmd!C!Table,
       C!MaxLength, Nsmd!C!MaxLength, C!AtLeast, Nsmd!C!AtLeast,
       C!GetDeviceResetStatistics, Nsmd!C!GetDeviceResetStatistics, C!EnableDisableWp,
       Nsmd!C!EnableDisableWp, C!GetNetworkDeviceDebugInfo,
       Nsmd!C!GetNetworkDeviceDebugInfo, C!EraseTrace, Nsmd!C!EraseTrace,
       C!GetNetworkDeviceLogInfo, Nsmd!C!GetNetworkDeviceLogInfo, C!EraseDebugInfo,
       Nsmd!C!EraseDebugInfo
  <1>6.
        /\ Nsmd!C!QueryGetErotStateParameters = C!QueryGetErotStateParameters
        /\ Nsmd!C!FirmwareIrreversibleConfigQuery = C!FirmwareIrreversibleConfigQuery
        /\ Nsmd!C!FirmwareIrreversibleConfigEnable = C!FirmwareIrreversibleConfigEnable
        /\ Nsmd!C!CodeAuthKeyPermQuery = C!CodeAuthKeyPermQuery
        /\ Nsmd!C!CodeAuthKeyPermUpdate = C!CodeAuthKeyPermUpdate
        /\ Nsmd!C!QueryFirmwareSecurityVersionNumber = C!QueryFirmwareSecurityVersionNumber
        /\ Nsmd!C!FirmwareUpdateSecVer = C!FirmwareUpdateSecVer
    BY DEF
       C!HeaderBytes, Nsmd!C!HeaderBytes, C!SlotBytes, Nsmd!C!SlotBytes, C!Command,
       Nsmd!C!Command, C!MaxLength, Nsmd!C!MaxLength, C!AtLeast, Nsmd!C!AtLeast, C!Tag,
       Nsmd!C!Tag, C!UpToATag, Nsmd!C!UpToATag, C!HeaderTags, Nsmd!C!HeaderTags,
       C!SlotTags, Nsmd!C!SlotTags, C!QueryGetErotStateParameters,
       Nsmd!C!QueryGetErotStateParameters, C!Irreversible, Nsmd!C!Irreversible,
       C!IrreversibleAnswers, Nsmd!C!IrreversibleAnswers, C!IrreversibleAccepts,
       Nsmd!C!IrreversibleAccepts, C!FirmwareIrreversibleConfigQuery,
       Nsmd!C!FirmwareIrreversibleConfigQuery, C!FirmwareIrreversibleConfigEnable,
       Nsmd!C!FirmwareIrreversibleConfigEnable, C!CodeAuthKeyPermQuery,
       Nsmd!C!CodeAuthKeyPermQuery, C!Exactly, Nsmd!C!Exactly, C!CodeAuthKeyPermUpdate,
       Nsmd!C!CodeAuthKeyPermUpdate, C!QueryFirmwareSecurityVersionNumber,
       Nsmd!C!QueryFirmwareSecurityVersionNumber, C!FirmwareUpdateSecVer,
       Nsmd!C!FirmwareUpdateSecVer
  <1>7.
        /\ Nsmd!C!GetPortTelemetryCounter = C!GetPortTelemetryCounter
        /\ Nsmd!C!QueryPortStatus = C!QueryPortStatus
        /\ Nsmd!C!QueryPortCharacteristics = C!QueryPortCharacteristics
        /\ Nsmd!C!QueryPortsAvailable = C!QueryPortsAvailable
        /\ Nsmd!C!SetPortDisableFuture = C!SetPortDisableFuture
        /\ Nsmd!C!GetPortDisableFuture = C!GetPortDisableFuture
        /\ Nsmd!C!GetPowerMode = C!GetPowerMode /\ Nsmd!C!SetPowerMode = C!SetPowerMode
        /\ Nsmd!C!GetSwitchIsolationMode = C!GetSwitchIsolationMode
        /\ Nsmd!C!SetSwitchIsolationMode = C!SetSwitchIsolationMode
        /\ Nsmd!C!GetFabricManagerState = C!GetFabricManagerState
    BY DEF
       C!Command, Nsmd!C!Command, C!MaxLength, Nsmd!C!MaxLength, C!AtLeast, Nsmd!C!AtLeast,
       C!GetPortTelemetryCounter, Nsmd!C!GetPortTelemetryCounter, C!Exactly,
       Nsmd!C!Exactly, C!QueryPortStatus, Nsmd!C!QueryPortStatus,
       C!QueryPortCharacteristics, Nsmd!C!QueryPortCharacteristics, C!QueryPortsAvailable,
       Nsmd!C!QueryPortsAvailable, C!SetPortDisableFuture, Nsmd!C!SetPortDisableFuture,
       C!GetPortDisableFuture, Nsmd!C!GetPortDisableFuture, C!GetPowerMode,
       Nsmd!C!GetPowerMode, C!SetPowerMode, Nsmd!C!SetPowerMode, C!GetSwitchIsolationMode,
       Nsmd!C!GetSwitchIsolationMode, C!SetSwitchIsolationMode,
       Nsmd!C!SetSwitchIsolationMode, C!GetFabricManagerState, Nsmd!C!GetFabricManagerState
  <1>8.
        /\ Nsmd!C!QueryScalarGroupTelemetryV1Group0 = C!QueryScalarGroupTelemetryV1Group0
        /\ Nsmd!C!QueryScalarGroupTelemetryV1Group1 = C!QueryScalarGroupTelemetryV1Group1
        /\ Nsmd!C!QueryScalarGroupTelemetryV1Group2 = C!QueryScalarGroupTelemetryV1Group2
        /\ Nsmd!C!QueryScalarGroupTelemetryV1Group3 = C!QueryScalarGroupTelemetryV1Group3
        /\ Nsmd!C!QueryScalarGroupTelemetryV1Group4 = C!QueryScalarGroupTelemetryV1Group4
        /\ Nsmd!C!QueryScalarGroupTelemetryV1Group5 = C!QueryScalarGroupTelemetryV1Group5
        /\ Nsmd!C!QueryScalarGroupTelemetryV1Group6 = C!QueryScalarGroupTelemetryV1Group6
        /\ Nsmd!C!QueryScalarGroupTelemetryV1Group8 = C!QueryScalarGroupTelemetryV1Group8
        /\ Nsmd!C!QueryScalarGroupTelemetryV1Group9 = C!QueryScalarGroupTelemetryV1Group9
        /\ Nsmd!C!QueryAvailableClearableScalarDataSources = C!QueryAvailableClearableScalarDataSources
        /\ Nsmd!C!ClearDataSource = C!ClearDataSource
    BY DEF
       C!Command, Nsmd!C!Command, C!MaxLength, Nsmd!C!MaxLength, C!AtLeast, Nsmd!C!AtLeast,
       C!QueryScalarGroupTelemetry, Nsmd!C!QueryScalarGroupTelemetry,
       C!QueryScalarGroupTelemetryV1Group0, Nsmd!C!QueryScalarGroupTelemetryV1Group0,
       C!QueryScalarGroupTelemetryV1Group1, Nsmd!C!QueryScalarGroupTelemetryV1Group1,
       C!QueryScalarGroupTelemetryV1Group2, Nsmd!C!QueryScalarGroupTelemetryV1Group2,
       C!QueryScalarGroupTelemetryV1Group3, Nsmd!C!QueryScalarGroupTelemetryV1Group3,
       C!QueryScalarGroupTelemetryV1Group4, Nsmd!C!QueryScalarGroupTelemetryV1Group4,
       C!QueryScalarGroupTelemetryV1Group5, Nsmd!C!QueryScalarGroupTelemetryV1Group5,
       C!QueryScalarGroupTelemetryV1Group6, Nsmd!C!QueryScalarGroupTelemetryV1Group6,
       C!QueryScalarGroupTelemetryV1Group8, Nsmd!C!QueryScalarGroupTelemetryV1Group8,
       C!QueryScalarGroupTelemetryV1Group9, Nsmd!C!QueryScalarGroupTelemetryV1Group9,
       C!Exactly, Nsmd!C!Exactly, C!QueryAvailableClearableScalarDataSources,
       Nsmd!C!QueryAvailableClearableScalarDataSources, C!ClearDataSource,
       Nsmd!C!ClearDataSource
  <1>9.
        /\ Nsmd!C!SendSpiCommand = C!SendSpiCommand
        /\ Nsmd!C!SendSpiTransaction = C!SendSpiTransaction
        /\ Nsmd!C!ReadSpiStatus = C!ReadSpiStatus
        /\ Nsmd!C!GetInventoryNvU8 = C!GetInventoryNvU8
        /\ Nsmd!C!GetInventoryNvU32 = C!GetInventoryNvU32
        /\ Nsmd!C!GetInventoryString = C!GetInventoryString
        /\ Nsmd!C!GetTemperatureReading = C!GetTemperatureReading
        /\ Nsmd!C!ReadThermalParameter = C!ReadThermalParameter
        /\ Nsmd!C!GetCurrentPowerDraw = C!GetCurrentPowerDraw
        /\ Nsmd!C!GetMaxObservedPower = C!GetMaxObservedPower
        /\ Nsmd!C!GetDriverInfo = C!GetDriverInfo
        /\ Nsmd!C!GetCurrentEnergyCount = C!GetCurrentEnergyCount
        /\ Nsmd!C!GetVoltage = C!GetVoltage
        /\ Nsmd!C!GetAltitudePressure = C!GetAltitudePressure
        /\ Nsmd!C!GetMIGMode = C!GetMIGMode /\ Nsmd!C!SetMIGMode = C!SetMIGMode
        /\ Nsmd!C!GetECCMode = C!GetECCMode /\ Nsmd!C!SetECCMode = C!SetECCMode
        /\ Nsmd!C!GetECCErrorCounts = C!GetECCErrorCounts
        /\ Nsmd!C!GetProgrammableEDPpScalingFactor = C!GetProgrammableEDPpScalingFactor
        /\ Nsmd!C!SetProgrammableEDPpScalingFactor = C!SetProgrammableEDPpScalingFactor
        /\ Nsmd!C!SetPowerLimit = C!SetPowerLimit /\ Nsmd!C!GetPowerLimit = C!GetPowerLimit
        /\ Nsmd!C!GetClockLimit = C!GetClockLimit
        /\ Nsmd!C!GetCurrClockFreq = C!GetCurrClockFreq
    BY DEF
       C!Command, Nsmd!C!Command, C!MaxLength, Nsmd!C!MaxLength, C!Unchecked,
       Nsmd!C!Unchecked, C!AtLeast, Nsmd!C!AtLeast, C!SendSpiCommand,
       Nsmd!C!SendSpiCommand, C!SendSpiTransaction, Nsmd!C!SendSpiTransaction,
       C!ReadSpiStatus, Nsmd!C!ReadSpiStatus, C!CommonResponse, Nsmd!C!CommonResponse,
       C!GetInventoryInformation, Nsmd!C!GetInventoryInformation, C!GetInventoryNvU8,
       Nsmd!C!GetInventoryNvU8, C!GetInventoryNvU32, Nsmd!C!GetInventoryNvU32,
       C!GetInventoryString, Nsmd!C!GetInventoryString, C!Exactly, Nsmd!C!Exactly,
       C!GetTemperatureReading, Nsmd!C!GetTemperatureReading, C!ReadThermalParameter,
       Nsmd!C!ReadThermalParameter, C!GetCurrentPowerDraw, Nsmd!C!GetCurrentPowerDraw,
       C!GetMaxObservedPower, Nsmd!C!GetMaxObservedPower, C!GetDriverInfo,
       Nsmd!C!GetDriverInfo, C!GetCurrentEnergyCount, Nsmd!C!GetCurrentEnergyCount,
       C!GetVoltage, Nsmd!C!GetVoltage, C!GetAltitudePressure, Nsmd!C!GetAltitudePressure,
       C!GetMIGMode, Nsmd!C!GetMIGMode, C!SetMIGMode, Nsmd!C!SetMIGMode, C!GetECCMode,
       Nsmd!C!GetECCMode, C!SetECCMode, Nsmd!C!SetECCMode, C!GetECCErrorCounts,
       Nsmd!C!GetECCErrorCounts, C!GetProgrammableEDPpScalingFactor,
       Nsmd!C!GetProgrammableEDPpScalingFactor, C!SetProgrammableEDPpScalingFactor,
       Nsmd!C!SetProgrammableEDPpScalingFactor, C!SetPowerLimit, Nsmd!C!SetPowerLimit,
       C!GetPowerLimit, Nsmd!C!GetPowerLimit, C!GetClockLimit, Nsmd!C!GetClockLimit,
       C!GetCurrClockFreq, Nsmd!C!GetCurrClockFreq
  <1>10.
        /\ Nsmd!C!GetCurrentClockEventReasonCode = C!GetCurrentClockEventReasonCode
        /\ Nsmd!C!GetAccumGPUUtilTime = C!GetAccumGPUUtilTime
        /\ Nsmd!C!GetCurrentUtilization = C!GetCurrentUtilization
        /\ Nsmd!C!GetRowRemapState = C!GetRowRemapState
        /\ Nsmd!C!GetRowRemappingCounts = C!GetRowRemappingCounts
        /\ Nsmd!C!GetRowRemapAvailability = C!GetRowRemapAvailability
        /\ Nsmd!C!GetMemoryCapacityUtil = C!GetMemoryCapacityUtil
        /\ Nsmd!C!GetClockOutputEnableState = C!GetClockOutputEnableState
        /\ Nsmd!C!SetClockLimit = C!SetClockLimit
        /\ Nsmd!C!GetViolationDuration = C!GetViolationDuration
        /\ Nsmd!C!GetPowersmoothingFeatinfo = C!GetPowersmoothingFeatinfo
        /\ Nsmd!C!GetHardwareLifetimeCricuitry = C!GetHardwareLifetimeCricuitry
        /\ Nsmd!C!GetCurrentProfileInfo = C!GetCurrentProfileInfo
        /\ Nsmd!C!QueryAdminOverride = C!QueryAdminOverride
        /\ Nsmd!C!SetActivePresetProfile = C!SetActivePresetProfile
        /\ Nsmd!C!ApplyAdminOverride = C!ApplyAdminOverride
        /\ Nsmd!C!GetPresetProfile = C!GetPresetProfile
        /\ Nsmd!C!EnableWorkloadPowerProfile = C!EnableWorkloadPowerProfile
        /\ Nsmd!C!DisableWorkloadPowerProfile = C!DisableWorkloadPowerProfile
        /\ Nsmd!C!GetWorkloadPowerProfileStatus = C!GetWorkloadPowerProfileStatus
        /\ Nsmd!C!GetWorkloadPowerProfileInfo = C!GetWorkloadPowerProfileInfo
    BY DEF
       C!Command, Nsmd!C!Command, C!MaxLength, Nsmd!C!MaxLength, C!AtLeast, Nsmd!C!AtLeast,
       C!Exactly, Nsmd!C!Exactly, C!GetCurrentClockEventReasonCode,
       Nsmd!C!GetCurrentClockEventReasonCode, C!GetAccumGPUUtilTime,
       Nsmd!C!GetAccumGPUUtilTime, C!GetCurrentUtilization, Nsmd!C!GetCurrentUtilization,
       C!GetRowRemapState, Nsmd!C!GetRowRemapState, C!GetRowRemappingCounts,
       Nsmd!C!GetRowRemappingCounts, C!GetRowRemapAvailability,
       Nsmd!C!GetRowRemapAvailability, C!GetMemoryCapacityUtil,
       Nsmd!C!GetMemoryCapacityUtil, C!GetClockOutputEnableState,
       Nsmd!C!GetClockOutputEnableState, C!SetClockLimit, Nsmd!C!SetClockLimit,
       C!GetViolationDuration, Nsmd!C!GetViolationDuration, C!GetPowersmoothingFeatinfo,
       Nsmd!C!GetPowersmoothingFeatinfo, C!GetHardwareLifetimeCricuitry,
       Nsmd!C!GetHardwareLifetimeCricuitry, C!GetCurrentProfileInfo,
       Nsmd!C!GetCurrentProfileInfo, C!QueryAdminOverride, Nsmd!C!QueryAdminOverride,
       C!SetActivePresetProfile, Nsmd!C!SetActivePresetProfile, C!ApplyAdminOverride,
       Nsmd!C!ApplyAdminOverride, C!GetPresetProfile, Nsmd!C!GetPresetProfile,
       C!EnableWorkloadPowerProfile, Nsmd!C!EnableWorkloadPowerProfile,
       C!DisableWorkloadPowerProfile, Nsmd!C!DisableWorkloadPowerProfile,
       C!GetWorkloadPowerProfileStatus, Nsmd!C!GetWorkloadPowerProfileStatus,
       C!GetWorkloadPowerProfileInfo, Nsmd!C!GetWorkloadPowerProfileInfo
  <1>11.
        /\ Nsmd!C!AggregateTemperature = C!AggregateTemperature
        /\ Nsmd!C!AggregateThermalParameter = C!AggregateThermalParameter
        /\ Nsmd!C!AggregatePowerDraw = C!AggregatePowerDraw
        /\ Nsmd!C!AggregatePeakPower = C!AggregatePeakPower
        /\ Nsmd!C!AggregateEnergyCount = C!AggregateEnergyCount
        /\ Nsmd!C!AggregateVoltage = C!AggregateVoltage
        /\ Nsmd!C!QueryAggregateGpmMetrics = C!QueryAggregateGpmMetrics
        /\ Nsmd!C!QueryPerInstanceGpmMetrics = C!QueryPerInstanceGpmMetrics
    BY DEF
       C!Table, Nsmd!C!Table, C!MaxLength, Nsmd!C!MaxLength, C!AtLeast, Nsmd!C!AtLeast,
       C!Aggregate, Nsmd!C!Aggregate, C!Command, Nsmd!C!Command, C!Exactly, Nsmd!C!Exactly,
       C!GetTemperatureReading, Nsmd!C!GetTemperatureReading, C!AggregateTemperature,
       Nsmd!C!AggregateTemperature, C!ReadThermalParameter, Nsmd!C!ReadThermalParameter,
       C!AggregateThermalParameter, Nsmd!C!AggregateThermalParameter, C!Timestamped,
       Nsmd!C!Timestamped, C!GetCurrentPowerDraw, Nsmd!C!GetCurrentPowerDraw,
       C!PowerDrawSample, Nsmd!C!PowerDrawSample, C!AggregatePowerDraw,
       Nsmd!C!AggregatePowerDraw, C!GetMaxObservedPower, Nsmd!C!GetMaxObservedPower,
       C!AggregatePeakPower, Nsmd!C!AggregatePeakPower, C!GetCurrentEnergyCount,
       Nsmd!C!GetCurrentEnergyCount, C!AggregateEnergyCount, Nsmd!C!AggregateEnergyCount,
       C!GetVoltage, Nsmd!C!GetVoltage, C!AggregateVoltage, Nsmd!C!AggregateVoltage, C!Gpm,
       Nsmd!C!Gpm, C!GpmPercentage, Nsmd!C!GpmPercentage, C!QueryAggregateGpmMetrics,
       Nsmd!C!QueryAggregateGpmMetrics, C!GpmBandwidth, Nsmd!C!GpmBandwidth,
       C!QueryPerInstanceGpmMetrics, Nsmd!C!QueryPerInstanceGpmMetrics
  <1> QED
    BY <1>1, <1>2, <1>3, <1>4, <1>5, <1>6, <1>7, <1>8, <1>9, <1>10, <1>11,
       SoundBase, SoundDebugToken, SoundCapabilities, SoundConfiguration, SoundDiagnostics,
       SoundFirmware, SoundPorts, SoundPci, SoundEnvironment, SoundTables
       DEF
       Nsmd!Client, Nsmd!Operation, Nsmd!Ping, Nsmd!GetSupportedNvidiaMessageType,
       Nsmd!GetSupportedCommandCodes, Nsmd!GetInventoryInformation,
       Nsmd!GetQueryDeviceIdentification, Nsmd!Sensor,
       Nsmd!NsmPCIeDeviceQueryScalarTelemetry, Nsmd!NsmPCIeDeviceGetClockOutput,
       Nsmd!NsmFabricManagerState, Nsmd!NsmRowRemapState, Nsmd!NsmRowRemappingCounts,
       Nsmd!NsmRemappingAvailabilityBankCount, Nsmd!NsmEccErrorCountsDram, Nsmd!Sized,
       Nsmd!NsmMinMemoryClockLimit, Nsmd!NsmMaxMemoryClockLimit, Nsmd!NsmMemCurrClockFreq,
       Nsmd!NsmHistogramFormat, Nsmd!NsmHistogramData, Nsmd!DisableTokensAsyncHandler,
       Nsmd!GetRequestAsyncHandler, Nsmd!GetStatusAsyncHandler,
       Nsmd!InstallTokenAsyncHandler, Nsmd!NsmDebugTokenObject, Nsmd!ClearedSensor,
       Nsmd!NsmMemoryCapacity, Nsmd!NsmMemoryCapacityUtil, Nsmd!NsmMinGraphicsClockLimit,
       Nsmd!NsmMaxGraphicsClockLimit, Nsmd!NsmAltitudePressure, Nsmd!NsmEnergy,
       Nsmd!Aggregator, Nsmd!NsmEnergyAggregator, Nsmd!NsmPeakPower,
       Nsmd!NsmPeakPowerAggregator, Nsmd!NsmPower, Nsmd!NsmPowerAggregator, Nsmd!NsmTemp,
       Nsmd!NsmTempAggregator, Nsmd!NsmThreshold, Nsmd!NsmThresholdAggregator,
       Nsmd!NsmVoltage, Nsmd!NsmVoltageAggregator, Nsmd!EventSetup,
       Nsmd!SetCurrentEventSources, Nsmd!ConfigureEventAcknowledgement,
       Nsmd!EventSubscription, Nsmd!NsmPCIeAERErrorStatus, Nsmd!ClearAERError,
       Nsmd!NsmClockOutputEnableStateBase, Nsmd!NsmBuildTypeObject,
       Nsmd!ClearReqClockLimit, Nsmd!NsmChassisClockControl, Nsmd!SetRangeClockLimits,
       Nsmd!NsmGpuPresence, Nsmd!NsmGpuPowerStatus, Nsmd!NsmPCIeFunction,
       Nsmd!NsmPCIeLTSSMState, Nsmd!NsmPCIeSlot, Nsmd!NsmPowerSupplyStatus,
       Nsmd!NsmProcessorModulePowerControl, Nsmd!UpdatePowerLimitOnModule,
       Nsmd!NsmModulePowerLimit, Nsmd!NsmDefaultModulePowerLimit,
       Nsmd!SecurityCfgAsyncHandler, Nsmd!NsmSecurityCfgObject,
       Nsmd!MinSecVersionAsyncHandler, Nsmd!NsmMinSecVersionObject,
       Nsmd!NsmWriteProtectedJumper, Nsmd!CheckSpiStatus, Nsmd!ExecuteSpiTransaction,
       Nsmd!SendSpiDataRequest, Nsmd!GetMinGraphicsClockLimit,
       Nsmd!GetMaxGraphicsClockLimit, Nsmd!NsmSetEccMode, Nsmd!SetEgmModeOnDevice,
       Nsmd!SetModeEnabled, Nsmd!SetEnabled, Nsmd!NsmSetMigMode, Nsmd!SetWriteProtected,
       Nsmd!NsmErrorInjection, Nsmd!NsmErrorInjectionSupported,
       Nsmd!NsmErrorInjectionEnabled, Nsmd!NsmInventoryPropertyBase,
       Nsmd!NsmPCIeLinkSpeedBase, Nsmd!NsmGPUSWInventoryDriverVersionAndStatus,
       Nsmd!NsmSWInventoryDriverVersionAndStatus, Nsmd!NsmWriteProtectedControl,
       Nsmd!GetDebugInfoAsyncHandler, Nsmd!EraseTraceOnDevice, Nsmd!EraseDebugInfoOnDevice,
       Nsmd!GetLogInfoAsyncHandler, Nsmd!ResetStatisticsAggregator, Nsmd!NsmPowerSmoothing,
       Nsmd!NsmHwCircuitryTelemetry, Nsmd!NsmCurrentPowerSmoothingProfile,
       Nsmd!NsmPowerSmoothingAdminOverride, Nsmd!NsmPowerProfileCollection,
       Nsmd!RequestActivatePresetProfile, Nsmd!RequestApplyAdminOverride, Nsmd!NsmMigMode,
       Nsmd!NsmEccMode, Nsmd!NsmEccErrorCounts, Nsmd!NsmPciGroup2, Nsmd!NsmPciGroup3,
       Nsmd!NsmPciGroup4, Nsmd!NsmPciGroup5, Nsmd!NsmEDPpScalingFactor, Nsmd!PatchSetPoint,
       Nsmd!NsmMaxEDPpLimit, Nsmd!NsmMinEDPpLimit, Nsmd!NsmClockLimitGraphics,
       Nsmd!NsmCurrClockFreq, Nsmd!NsmDefaultBaseClockSpeed,
       Nsmd!NsmDefaultBoostClockSpeed, Nsmd!NsmCurrentUtilization,
       Nsmd!NsmProcessorThrottleReason, Nsmd!NsmAccumGpuUtilTime, Nsmd!NsmTotalMemorySize,
       Nsmd!NsmTotalNvLinks, Nsmd!NsmProcessorRevision, Nsmd!NsmPowerCap,
       Nsmd!NsmMaxPowerCap, Nsmd!NsmMinPowerCap, Nsmd!NsmDefaultPowerCap,
       Nsmd!NsmProcessorThrottleDuration, Nsmd!NsmConfidentialCompute, Nsmd!PatchCCMode,
       Nsmd!PatchCCDevMode, Nsmd!NsmEgmMode, Nsmd!NsmReconfigPermissions,
       Nsmd!SetAllowPermission, Nsmd!RequestEnablePresetProfile,
       Nsmd!RequestDisablePresetProfile, Nsmd!NsmWorkLoadProfileStatus,
       Nsmd!NsmWorkloadPowerProfilePage, Nsmd!NsmPCIeRetimerSwitchDI,
       Nsmd!NsmPCIeRetimerSwitchGetClockState, Nsmd!NsmSwitchDIPowerMode,
       Nsmd!SetL1PowerDevice, Nsmd!NsmSwitchIsolationMode, Nsmd!SetSwitchIsolationMode,
       Nsmd!RevokeKeysAsyncHandler, Nsmd!NsmKeyMgmt, Nsmd!NsmGPMAggregated,
       Nsmd!NsmGPMPerInstance, Nsmd!NsmClearPCIeCounters, Nsmd!ClearPCIeErrorCounter,
       Nsmd!NsmPCIeErrors, Nsmd!NsmPortStatus,
       Nsmd!CheckPortCharactersticRCAndPopulateRuntimeErr, Nsmd!NsmPortCharacteristics,
       Nsmd!NsmPortMetrics, Nsmd!NsmDevicePortDisableFuture,
       Nsmd!SetDevicePortDisableFuture, Nsmd!NsmPCIeECCGroup1, Nsmd!NsmPCIeECCGroup2,
       Nsmd!NsmPCIeECCGroup3, Nsmd!NsmPCIeECCGroup4, Nsmd!NsmPCIeECCGroup8, Nsmd!All

(* How an object concludes is as its kind of object does, but for those    *)
(* that are named.                                                         *)
LEMMA NsmdConclusions == \A c \in Nsmd!All : Concludes("nsmd", c)
  <1>1.
        /\ Nsmd!C!AggregateEnergyCount.refusal = "any"
        /\ Nsmd!C!AggregatePeakPower.refusal = "any"
        /\ Nsmd!C!AggregatePowerDraw.refusal = "any"
        /\ Nsmd!C!AggregateTemperature.refusal = "any"
        /\ Nsmd!C!AggregateThermalParameter.refusal = "any"
        /\ Nsmd!C!AggregateVoltage.refusal = "any"
        /\ Nsmd!C!GetDeviceResetStatistics.refusal = "any"
        /\ Nsmd!C!QueryAggregateGpmMetrics.refusal = "any"
        /\ Nsmd!C!QueryPerInstanceGpmMetrics.refusal = "any"
    BY DEF
       Nsmd!C!Table, Nsmd!C!MaxLength, Nsmd!C!AtLeast, Nsmd!C!Aggregate, Nsmd!C!Command,
       Nsmd!C!Exactly, Nsmd!C!GetCurrentEnergyCount, Nsmd!C!AggregateEnergyCount,
       Nsmd!C!Timestamped, Nsmd!C!GetMaxObservedPower, Nsmd!C!PowerDrawSample,
       Nsmd!C!AggregatePeakPower, Nsmd!C!GetCurrentPowerDraw, Nsmd!C!AggregatePowerDraw,
       Nsmd!C!GetTemperatureReading, Nsmd!C!AggregateTemperature,
       Nsmd!C!ReadThermalParameter, Nsmd!C!AggregateThermalParameter, Nsmd!C!GetVoltage,
       Nsmd!C!AggregateVoltage, Nsmd!C!GetDeviceResetStatistics, Nsmd!C!Gpm,
       Nsmd!C!GpmPercentage, Nsmd!C!QueryAggregateGpmMetrics, Nsmd!C!GpmBandwidth,
       Nsmd!C!QueryPerInstanceGpmMetrics
  <1>2.
        /\ Nsmd!C!CodeAuthKeyPermQuery.type # "environment"
        /\ Nsmd!C!FirmwareIrreversibleConfigQuery.type # "environment"
        /\ Nsmd!C!GetGpuPowerStatus.type # "environment"
        /\ Nsmd!C!GetGpuPresence.type # "environment"
        /\ Nsmd!C!GetPowerSupplyStatus.type # "environment"
        /\ Nsmd!C!QueryDeviceIds.type # "environment"
        /\ Nsmd!C!QueryFirmwareSecurityVersionNumber.type # "environment"
        /\ Nsmd!C!QueryScalarGroupTelemetryV1Group1.type # "environment"
    BY DEF
       Nsmd!C!Command, Nsmd!C!MaxLength, Nsmd!C!AtLeast, Nsmd!C!CodeAuthKeyPermQuery,
       Nsmd!C!Irreversible, Nsmd!C!IrreversibleAnswers, Nsmd!C!IrreversibleAccepts,
       Nsmd!C!FirmwareIrreversibleConfigQuery, Nsmd!C!GetFpgaDiagnosticsSettings,
       Nsmd!C!GetGpuPowerStatus, Nsmd!C!GetGpuPresence, Nsmd!C!GetPowerSupplyStatus,
       Nsmd!C!QueryDeviceIds, Nsmd!C!QueryFirmwareSecurityVersionNumber,
       Nsmd!C!QueryScalarGroupTelemetry, Nsmd!C!QueryScalarGroupTelemetryV1Group1
  <1>3. OfInventory(Nsmd!C!GetInventoryNvU8) /\ OfInventory(Nsmd!C!GetInventoryNvU32)
    BY DEF OfInventory,
       Nsmd!C!Command, Nsmd!C!MaxLength, Nsmd!C!AtLeast, Nsmd!C!CommonResponse,
       Nsmd!C!GetInventoryInformation, Nsmd!C!GetInventoryNvU8, Nsmd!C!GetInventoryNvU32
  <1> QED
    BY <1>1, <1>2, <1>3
       DEF Concludes, ReturnsRc, IgnoresRc,
       Nsmd!Client, Nsmd!Operation, Nsmd!Ping, Nsmd!GetSupportedNvidiaMessageType,
       Nsmd!GetSupportedCommandCodes, Nsmd!GetInventoryInformation,
       Nsmd!GetQueryDeviceIdentification, Nsmd!Sensor,
       Nsmd!NsmPCIeDeviceQueryScalarTelemetry, Nsmd!NsmPCIeDeviceGetClockOutput,
       Nsmd!NsmFabricManagerState, Nsmd!NsmRowRemapState, Nsmd!NsmRowRemappingCounts,
       Nsmd!NsmRemappingAvailabilityBankCount, Nsmd!NsmEccErrorCountsDram, Nsmd!Sized,
       Nsmd!NsmMinMemoryClockLimit, Nsmd!NsmMaxMemoryClockLimit, Nsmd!NsmMemCurrClockFreq,
       Nsmd!NsmHistogramFormat, Nsmd!NsmHistogramData, Nsmd!DisableTokensAsyncHandler,
       Nsmd!GetRequestAsyncHandler, Nsmd!GetStatusAsyncHandler,
       Nsmd!InstallTokenAsyncHandler, Nsmd!NsmDebugTokenObject, Nsmd!ClearedSensor,
       Nsmd!NsmMemoryCapacity, Nsmd!NsmMemoryCapacityUtil, Nsmd!NsmMinGraphicsClockLimit,
       Nsmd!NsmMaxGraphicsClockLimit, Nsmd!NsmAltitudePressure, Nsmd!NsmEnergy,
       Nsmd!Aggregator, Nsmd!NsmEnergyAggregator, Nsmd!NsmPeakPower,
       Nsmd!NsmPeakPowerAggregator, Nsmd!NsmPower, Nsmd!NsmPowerAggregator, Nsmd!NsmTemp,
       Nsmd!NsmTempAggregator, Nsmd!NsmThreshold, Nsmd!NsmThresholdAggregator,
       Nsmd!NsmVoltage, Nsmd!NsmVoltageAggregator, Nsmd!EventSetup,
       Nsmd!SetCurrentEventSources, Nsmd!ConfigureEventAcknowledgement,
       Nsmd!EventSubscription, Nsmd!NsmPCIeAERErrorStatus, Nsmd!ClearAERError,
       Nsmd!NsmClockOutputEnableStateBase, Nsmd!NsmBuildTypeObject,
       Nsmd!ClearReqClockLimit, Nsmd!NsmChassisClockControl, Nsmd!SetRangeClockLimits,
       Nsmd!NsmGpuPresence, Nsmd!NsmGpuPowerStatus, Nsmd!NsmPCIeFunction,
       Nsmd!NsmPCIeLTSSMState, Nsmd!NsmPCIeSlot, Nsmd!NsmPowerSupplyStatus,
       Nsmd!NsmProcessorModulePowerControl, Nsmd!UpdatePowerLimitOnModule,
       Nsmd!NsmModulePowerLimit, Nsmd!NsmDefaultModulePowerLimit,
       Nsmd!SecurityCfgAsyncHandler, Nsmd!NsmSecurityCfgObject,
       Nsmd!MinSecVersionAsyncHandler, Nsmd!NsmMinSecVersionObject,
       Nsmd!NsmWriteProtectedJumper, Nsmd!CheckSpiStatus, Nsmd!ExecuteSpiTransaction,
       Nsmd!SendSpiDataRequest, Nsmd!GetMinGraphicsClockLimit,
       Nsmd!GetMaxGraphicsClockLimit, Nsmd!NsmSetEccMode, Nsmd!SetEgmModeOnDevice,
       Nsmd!SetModeEnabled, Nsmd!SetEnabled, Nsmd!NsmSetMigMode, Nsmd!SetWriteProtected,
       Nsmd!NsmErrorInjection, Nsmd!NsmErrorInjectionSupported,
       Nsmd!NsmErrorInjectionEnabled, Nsmd!NsmInventoryPropertyBase,
       Nsmd!NsmPCIeLinkSpeedBase, Nsmd!NsmGPUSWInventoryDriverVersionAndStatus,
       Nsmd!NsmSWInventoryDriverVersionAndStatus, Nsmd!NsmWriteProtectedControl,
       Nsmd!GetDebugInfoAsyncHandler, Nsmd!EraseTraceOnDevice, Nsmd!EraseDebugInfoOnDevice,
       Nsmd!GetLogInfoAsyncHandler, Nsmd!ResetStatisticsAggregator, Nsmd!NsmPowerSmoothing,
       Nsmd!NsmHwCircuitryTelemetry, Nsmd!NsmCurrentPowerSmoothingProfile,
       Nsmd!NsmPowerSmoothingAdminOverride, Nsmd!NsmPowerProfileCollection,
       Nsmd!RequestActivatePresetProfile, Nsmd!RequestApplyAdminOverride, Nsmd!NsmMigMode,
       Nsmd!NsmEccMode, Nsmd!NsmEccErrorCounts, Nsmd!NsmPciGroup2, Nsmd!NsmPciGroup3,
       Nsmd!NsmPciGroup4, Nsmd!NsmPciGroup5, Nsmd!NsmEDPpScalingFactor, Nsmd!PatchSetPoint,
       Nsmd!NsmMaxEDPpLimit, Nsmd!NsmMinEDPpLimit, Nsmd!NsmClockLimitGraphics,
       Nsmd!NsmCurrClockFreq, Nsmd!NsmDefaultBaseClockSpeed,
       Nsmd!NsmDefaultBoostClockSpeed, Nsmd!NsmCurrentUtilization,
       Nsmd!NsmProcessorThrottleReason, Nsmd!NsmAccumGpuUtilTime, Nsmd!NsmTotalMemorySize,
       Nsmd!NsmTotalNvLinks, Nsmd!NsmProcessorRevision, Nsmd!NsmPowerCap,
       Nsmd!NsmMaxPowerCap, Nsmd!NsmMinPowerCap, Nsmd!NsmDefaultPowerCap,
       Nsmd!NsmProcessorThrottleDuration, Nsmd!NsmConfidentialCompute, Nsmd!PatchCCMode,
       Nsmd!PatchCCDevMode, Nsmd!NsmEgmMode, Nsmd!NsmReconfigPermissions,
       Nsmd!SetAllowPermission, Nsmd!RequestEnablePresetProfile,
       Nsmd!RequestDisablePresetProfile, Nsmd!NsmWorkLoadProfileStatus,
       Nsmd!NsmWorkloadPowerProfilePage, Nsmd!NsmPCIeRetimerSwitchDI,
       Nsmd!NsmPCIeRetimerSwitchGetClockState, Nsmd!NsmSwitchDIPowerMode,
       Nsmd!SetL1PowerDevice, Nsmd!NsmSwitchIsolationMode, Nsmd!SetSwitchIsolationMode,
       Nsmd!RevokeKeysAsyncHandler, Nsmd!NsmKeyMgmt, Nsmd!NsmGPMAggregated,
       Nsmd!NsmGPMPerInstance, Nsmd!NsmClearPCIeCounters, Nsmd!ClearPCIeErrorCounter,
       Nsmd!NsmPCIeErrors, Nsmd!NsmPortStatus,
       Nsmd!CheckPortCharactersticRCAndPopulateRuntimeErr, Nsmd!NsmPortCharacteristics,
       Nsmd!NsmPortMetrics, Nsmd!NsmDevicePortDisableFuture,
       Nsmd!SetDevicePortDisableFuture, Nsmd!NsmPCIeECCGroup1, Nsmd!NsmPCIeECCGroup2,
       Nsmd!NsmPCIeECCGroup3, Nsmd!NsmPCIeECCGroup4, Nsmd!NsmPCIeECCGroup8, Nsmd!All

----------------------------------------------------------------------------
(* The commands of nsmtool.                                                *)

(* Every command sends one of libnsm's.                                    *)
LEMMA NsmtoolCommands == \A c \in Nsmtool!All : Sound(c.command)
  <1>1.
        /\ Nsmtool!C!Ping = C!Ping
        /\ Nsmtool!C!GetSupportedNvidiaMessageTypes = C!GetSupportedNvidiaMessageTypes
        /\ Nsmtool!C!GetSupportedCommandCodes = C!GetSupportedCommandCodes
        /\ Nsmtool!C!QueryDeviceIdentification = C!QueryDeviceIdentification
        /\ Nsmtool!C!GetHistogramFormat = C!GetHistogramFormat
        /\ Nsmtool!C!GetHistogramData = C!GetHistogramData
    BY DEF
       C!Command, Nsmtool!C!Command, C!MaxLength, Nsmtool!C!MaxLength, C!Unchecked,
       Nsmtool!C!Unchecked, C!Exactly, Nsmtool!C!Exactly, C!Ping, Nsmtool!C!Ping,
       C!AtLeast, Nsmtool!C!AtLeast, C!GetSupportedNvidiaMessageTypes,
       Nsmtool!C!GetSupportedNvidiaMessageTypes, C!GetSupportedCommandCodes,
       Nsmtool!C!GetSupportedCommandCodes, C!QueryDeviceIdentification,
       Nsmtool!C!QueryDeviceIdentification, C!GetHistogramFormat,
       Nsmtool!C!GetHistogramFormat, C!GetHistogramData, Nsmtool!C!GetHistogramData
  <1>2.
        /\ Nsmtool!C!QueryTokenParameters = C!QueryTokenParameters
        /\ Nsmtool!C!ProvideToken = C!ProvideToken
        /\ Nsmtool!C!DisableTokens = C!DisableTokens
        /\ Nsmtool!C!QueryTokenStatus = C!QueryTokenStatus
        /\ Nsmtool!C!QueryDeviceIds = C!QueryDeviceIds
    BY DEF
       C!Command, Nsmtool!C!Command, C!MaxLength, Nsmtool!C!MaxLength, C!AtLeast,
       Nsmtool!C!AtLeast, C!QueryTokenParameters, Nsmtool!C!QueryTokenParameters,
       C!ProvideToken, Nsmtool!C!ProvideToken, C!DisableTokens, Nsmtool!C!DisableTokens,
       C!QueryTokenStatus, Nsmtool!C!QueryTokenStatus, C!QueryDeviceIds,
       Nsmtool!C!QueryDeviceIds
  <1>3.
        /\ Nsmtool!C!GetSupportedErrorInjectionTypes = C!GetSupportedErrorInjectionTypes
        /\ Nsmtool!C!GetCurrentErrorInjectionTypes = C!GetCurrentErrorInjectionTypes
        /\ Nsmtool!C!SetErrorInjectionMode = C!SetErrorInjectionMode
        /\ Nsmtool!C!GetErrorInjectionMode = C!GetErrorInjectionMode
        /\ Nsmtool!C!SetCurrentErrorInjectionTypes = C!SetCurrentErrorInjectionTypes
        /\ Nsmtool!C!GetFpgaDiagnosticsSettingsWp = C!GetFpgaDiagnosticsSettingsWp
        /\ Nsmtool!C!GetFpgaDiagnosticsSettingsWpJumper = C!GetFpgaDiagnosticsSettingsWpJumper
        /\ Nsmtool!C!GetPowerSupplyStatus = C!GetPowerSupplyStatus
        /\ Nsmtool!C!GetGpuPresence = C!GetGpuPresence
        /\ Nsmtool!C!GetGpuPowerStatus = C!GetGpuPowerStatus
        /\ Nsmtool!C!GetGpuIstMode = C!GetGpuIstMode
        /\ Nsmtool!C!EnableDisableGpuIstMode = C!EnableDisableGpuIstMode
        /\ Nsmtool!C!GetReconfigurationPermissions = C!GetReconfigurationPermissions
        /\ Nsmtool!C!SetReconfigurationPermissions = C!SetReconfigurationPermissions
        /\ Nsmtool!C!GetConfidentialComputeMode = C!GetConfidentialComputeMode
        /\ Nsmtool!C!SetConfidentialComputeMode = C!SetConfidentialComputeMode
    BY DEF
       C!Command, Nsmtool!C!Command, C!MaxLength, Nsmtool!C!MaxLength, C!AtLeast,
       Nsmtool!C!AtLeast, C!Exactly, Nsmtool!C!Exactly, C!ErrorInjectionTypes,
       Nsmtool!C!ErrorInjectionTypes, C!GetSupportedErrorInjectionTypes,
       Nsmtool!C!GetSupportedErrorInjectionTypes, C!GetCurrentErrorInjectionTypes,
       Nsmtool!C!GetCurrentErrorInjectionTypes, C!SetErrorInjectionMode,
       Nsmtool!C!SetErrorInjectionMode, C!GetErrorInjectionMode,
       Nsmtool!C!GetErrorInjectionMode, C!SetCurrentErrorInjectionTypes,
       Nsmtool!C!SetCurrentErrorInjectionTypes, C!GetFpgaDiagnosticsSettings,
       Nsmtool!C!GetFpgaDiagnosticsSettings, C!GetFpgaDiagnosticsSettingsWp,
       Nsmtool!C!GetFpgaDiagnosticsSettingsWp, C!GetFpgaDiagnosticsSettingsWpJumper,
       Nsmtool!C!GetFpgaDiagnosticsSettingsWpJumper, C!GetPowerSupplyStatus,
       Nsmtool!C!GetPowerSupplyStatus, C!GetGpuPresence, Nsmtool!C!GetGpuPresence,
       C!GetGpuPowerStatus, Nsmtool!C!GetGpuPowerStatus, C!GetGpuIstMode,
       Nsmtool!C!GetGpuIstMode, C!EnableDisableGpuIstMode,
       Nsmtool!C!EnableDisableGpuIstMode, C!GetReconfigurationPermissions,
       Nsmtool!C!GetReconfigurationPermissions, C!SetReconfigurationPermissions,
       Nsmtool!C!SetReconfigurationPermissions, C!GetConfidentialComputeMode,
       Nsmtool!C!GetConfidentialComputeMode, C!SetConfidentialComputeMode,
       Nsmtool!C!SetConfidentialComputeMode
  <1>4.
        /\ Nsmtool!C!GetDeviceResetStatistics = C!GetDeviceResetStatistics
        /\ Nsmtool!C!ResetNetworkDevice = C!ResetNetworkDevice
        /\ Nsmtool!C!EnableDisableWp = C!EnableDisableWp
        /\ Nsmtool!C!GetNetworkDeviceDebugInfo = C!GetNetworkDeviceDebugInfo
        /\ Nsmtool!C!EraseTrace = C!EraseTrace
        /\ Nsmtool!C!GetNetworkDeviceLogInfo = C!GetNetworkDeviceLogInfo
        /\ Nsmtool!C!EraseDebugInfo = C!EraseDebugInfo
    BY DEF
       C!Command, Nsmtool!C!Command, C!Exactly, Nsmtool!C!Exactly, C!Table,
       Nsmtool!C!Table, C!MaxLength, Nsmtool!C!MaxLength, C!AtLeast, Nsmtool!C!AtLeast,
       C!GetDeviceResetStatistics, Nsmtool!C!GetDeviceResetStatistics,
       C!ResetNetworkDevice, Nsmtool!C!ResetNetworkDevice, C!EnableDisableWp,
       Nsmtool!C!EnableDisableWp, C!GetNetworkDeviceDebugInfo,
       Nsmtool!C!GetNetworkDeviceDebugInfo, C!EraseTrace, Nsmtool!C!EraseTrace,
       C!GetNetworkDeviceLogInfo, Nsmtool!C!GetNetworkDeviceLogInfo, C!EraseDebugInfo,
       Nsmtool!C!EraseDebugInfo
  <1>5.
        /\ Nsmtool!C!QueryGetErotStateParameters = C!QueryGetErotStateParameters
        /\ Nsmtool!C!FirmwareIrreversibleConfigQuery = C!FirmwareIrreversibleConfigQuery
        /\ Nsmtool!C!FirmwareIrreversibleConfigDisable = C!FirmwareIrreversibleConfigDisable
        /\ Nsmtool!C!FirmwareIrreversibleConfigEnable = C!FirmwareIrreversibleConfigEnable
        /\ Nsmtool!C!CodeAuthKeyPermQuery = C!CodeAuthKeyPermQuery
        /\ Nsmtool!C!CodeAuthKeyPermUpdate = C!CodeAuthKeyPermUpdate
        /\ Nsmtool!C!QueryFirmwareSecurityVersionNumber = C!QueryFirmwareSecurityVersionNumber
        /\ Nsmtool!C!FirmwareUpdateSecVer = C!FirmwareUpdateSecVer
    BY DEF
       C!HeaderBytes, Nsmtool!C!HeaderBytes, C!SlotBytes, Nsmtool!C!SlotBytes, C!Command,
       Nsmtool!C!Command, C!MaxLength, Nsmtool!C!MaxLength, C!AtLeast, Nsmtool!C!AtLeast,
       C!Tag, Nsmtool!C!Tag, C!UpToATag, Nsmtool!C!UpToATag, C!HeaderTags,
       Nsmtool!C!HeaderTags, C!SlotTags, Nsmtool!C!SlotTags, C!QueryGetErotStateParameters,
       Nsmtool!C!QueryGetErotStateParameters, C!Irreversible, Nsmtool!C!Irreversible,
       C!IrreversibleAnswers, Nsmtool!C!IrreversibleAnswers, C!IrreversibleAccepts,
       Nsmtool!C!IrreversibleAccepts, C!FirmwareIrreversibleConfigQuery,
       Nsmtool!C!FirmwareIrreversibleConfigQuery, C!FirmwareIrreversibleConfigDisable,
       Nsmtool!C!FirmwareIrreversibleConfigDisable, C!FirmwareIrreversibleConfigEnable,
       Nsmtool!C!FirmwareIrreversibleConfigEnable, C!CodeAuthKeyPermQuery,
       Nsmtool!C!CodeAuthKeyPermQuery, C!Exactly, Nsmtool!C!Exactly,
       C!CodeAuthKeyPermUpdate, Nsmtool!C!CodeAuthKeyPermUpdate,
       C!QueryFirmwareSecurityVersionNumber, Nsmtool!C!QueryFirmwareSecurityVersionNumber,
       C!FirmwareUpdateSecVer, Nsmtool!C!FirmwareUpdateSecVer
  <1>6.
        /\ Nsmtool!C!GetPortTelemetryCounter = C!GetPortTelemetryCounter
        /\ Nsmtool!C!QueryPortStatus = C!QueryPortStatus
        /\ Nsmtool!C!QueryPortCharacteristics = C!QueryPortCharacteristics
        /\ Nsmtool!C!QueryPortsAvailable = C!QueryPortsAvailable
        /\ Nsmtool!C!SetPortDisableFuture = C!SetPortDisableFuture
        /\ Nsmtool!C!GetPortDisableFuture = C!GetPortDisableFuture
        /\ Nsmtool!C!GetPowerMode = C!GetPowerMode
        /\ Nsmtool!C!SetPowerMode = C!SetPowerMode
        /\ Nsmtool!C!GetSwitchIsolationMode = C!GetSwitchIsolationMode
        /\ Nsmtool!C!SetSwitchIsolationMode = C!SetSwitchIsolationMode
        /\ Nsmtool!C!GetFabricManagerState = C!GetFabricManagerState
    BY DEF
       C!Command, Nsmtool!C!Command, C!MaxLength, Nsmtool!C!MaxLength, C!AtLeast,
       Nsmtool!C!AtLeast, C!GetPortTelemetryCounter, Nsmtool!C!GetPortTelemetryCounter,
       C!Exactly, Nsmtool!C!Exactly, C!QueryPortStatus, Nsmtool!C!QueryPortStatus,
       C!QueryPortCharacteristics, Nsmtool!C!QueryPortCharacteristics,
       C!QueryPortsAvailable, Nsmtool!C!QueryPortsAvailable, C!SetPortDisableFuture,
       Nsmtool!C!SetPortDisableFuture, C!GetPortDisableFuture,
       Nsmtool!C!GetPortDisableFuture, C!GetPowerMode, Nsmtool!C!GetPowerMode,
       C!SetPowerMode, Nsmtool!C!SetPowerMode, C!GetSwitchIsolationMode,
       Nsmtool!C!GetSwitchIsolationMode, C!SetSwitchIsolationMode,
       Nsmtool!C!SetSwitchIsolationMode, C!GetFabricManagerState,
       Nsmtool!C!GetFabricManagerState
  <1>7.
        /\ Nsmtool!C!QueryScalarGroupTelemetryV1Group0 = C!QueryScalarGroupTelemetryV1Group0
        /\ Nsmtool!C!QueryScalarGroupTelemetryV1Group1 = C!QueryScalarGroupTelemetryV1Group1
        /\ Nsmtool!C!QueryScalarGroupTelemetryV1Group2 = C!QueryScalarGroupTelemetryV1Group2
        /\ Nsmtool!C!QueryScalarGroupTelemetryV1Group3 = C!QueryScalarGroupTelemetryV1Group3
        /\ Nsmtool!C!QueryScalarGroupTelemetryV1Group4 = C!QueryScalarGroupTelemetryV1Group4
        /\ Nsmtool!C!QueryScalarGroupTelemetryV1Group5 = C!QueryScalarGroupTelemetryV1Group5
        /\ Nsmtool!C!QueryScalarGroupTelemetryV1Group6 = C!QueryScalarGroupTelemetryV1Group6
        /\ Nsmtool!C!QueryScalarGroupTelemetryV1Group8 = C!QueryScalarGroupTelemetryV1Group8
        /\ Nsmtool!C!QueryScalarGroupTelemetryV1Group9 = C!QueryScalarGroupTelemetryV1Group9
        /\ Nsmtool!C!AssertPcieFundamentalReset = C!AssertPcieFundamentalReset
        /\ Nsmtool!C!QueryAvailableClearableScalarDataSources = C!QueryAvailableClearableScalarDataSources
        /\ Nsmtool!C!ClearDataSource = C!ClearDataSource
    BY DEF
       C!Command, Nsmtool!C!Command, C!MaxLength, Nsmtool!C!MaxLength, C!AtLeast,
       Nsmtool!C!AtLeast, C!QueryScalarGroupTelemetry, Nsmtool!C!QueryScalarGroupTelemetry,
       C!QueryScalarGroupTelemetryV1Group0, Nsmtool!C!QueryScalarGroupTelemetryV1Group0,
       C!QueryScalarGroupTelemetryV1Group1, Nsmtool!C!QueryScalarGroupTelemetryV1Group1,
       C!QueryScalarGroupTelemetryV1Group2, Nsmtool!C!QueryScalarGroupTelemetryV1Group2,
       C!QueryScalarGroupTelemetryV1Group3, Nsmtool!C!QueryScalarGroupTelemetryV1Group3,
       C!QueryScalarGroupTelemetryV1Group4, Nsmtool!C!QueryScalarGroupTelemetryV1Group4,
       C!QueryScalarGroupTelemetryV1Group5, Nsmtool!C!QueryScalarGroupTelemetryV1Group5,
       C!QueryScalarGroupTelemetryV1Group6, Nsmtool!C!QueryScalarGroupTelemetryV1Group6,
       C!QueryScalarGroupTelemetryV1Group8, Nsmtool!C!QueryScalarGroupTelemetryV1Group8,
       C!QueryScalarGroupTelemetryV1Group9, Nsmtool!C!QueryScalarGroupTelemetryV1Group9,
       C!Exactly, Nsmtool!C!Exactly, C!AssertPcieFundamentalReset,
       Nsmtool!C!AssertPcieFundamentalReset, C!QueryAvailableClearableScalarDataSources,
       Nsmtool!C!QueryAvailableClearableScalarDataSources, C!ClearDataSource,
       Nsmtool!C!ClearDataSource
  <1>8.
        /\ Nsmtool!C!GetInventoryNvU8 = C!GetInventoryNvU8
        /\ Nsmtool!C!GetInventoryNvU32 = C!GetInventoryNvU32
        /\ Nsmtool!C!GetInventoryVersion = C!GetInventoryVersion
        /\ Nsmtool!C!GetInventoryString = C!GetInventoryString
        /\ Nsmtool!C!GetTemperatureReading = C!GetTemperatureReading
        /\ Nsmtool!C!ReadThermalParameter = C!ReadThermalParameter
        /\ Nsmtool!C!GetCurrentPowerDraw = C!GetCurrentPowerDraw
        /\ Nsmtool!C!GetMaxObservedPower = C!GetMaxObservedPower
        /\ Nsmtool!C!GetDriverInfo = C!GetDriverInfo
        /\ Nsmtool!C!GetCurrentEnergyCount = C!GetCurrentEnergyCount
        /\ Nsmtool!C!GetVoltage = C!GetVoltage
        /\ Nsmtool!C!GetAltitudePressure = C!GetAltitudePressure
        /\ Nsmtool!C!GetMIGMode = C!GetMIGMode /\ Nsmtool!C!SetMIGMode = C!SetMIGMode
        /\ Nsmtool!C!GetECCMode = C!GetECCMode /\ Nsmtool!C!SetECCMode = C!SetECCMode
        /\ Nsmtool!C!GetECCErrorCounts = C!GetECCErrorCounts
        /\ Nsmtool!C!GetProgrammableEDPpScalingFactor = C!GetProgrammableEDPpScalingFactor
        /\ Nsmtool!C!SetProgrammableEDPpScalingFactor = C!SetProgrammableEDPpScalingFactor
        /\ Nsmtool!C!SetPowerLimit = C!SetPowerLimit
        /\ Nsmtool!C!GetPowerLimit = C!GetPowerLimit
        /\ Nsmtool!C!GetClockLimit = C!GetClockLimit
        /\ Nsmtool!C!GetCurrClockFreq = C!GetCurrClockFreq
        /\ Nsmtool!C!GetCurrentClockEventReasonCode = C!GetCurrentClockEventReasonCode
        /\ Nsmtool!C!GetAccumGPUUtilTime = C!GetAccumGPUUtilTime
    BY DEF
       C!Command, Nsmtool!C!Command, C!MaxLength, Nsmtool!C!MaxLength, C!AtLeast,
       Nsmtool!C!AtLeast, C!CommonResponse, Nsmtool!C!CommonResponse,
       C!GetInventoryInformation, Nsmtool!C!GetInventoryInformation, C!GetInventoryNvU8,
       Nsmtool!C!GetInventoryNvU8, C!GetInventoryNvU32, Nsmtool!C!GetInventoryNvU32,
       C!GetInventoryVersion, Nsmtool!C!GetInventoryVersion, C!GetInventoryString,
       Nsmtool!C!GetInventoryString, C!Exactly, Nsmtool!C!Exactly, C!GetTemperatureReading,
       Nsmtool!C!GetTemperatureReading, C!ReadThermalParameter,
       Nsmtool!C!ReadThermalParameter, C!GetCurrentPowerDraw,
       Nsmtool!C!GetCurrentPowerDraw, C!GetMaxObservedPower, Nsmtool!C!GetMaxObservedPower,
       C!GetDriverInfo, Nsmtool!C!GetDriverInfo, C!GetCurrentEnergyCount,
       Nsmtool!C!GetCurrentEnergyCount, C!GetVoltage, Nsmtool!C!GetVoltage, C!Unchecked,
       Nsmtool!C!Unchecked, C!GetAltitudePressure, Nsmtool!C!GetAltitudePressure,
       C!GetMIGMode, Nsmtool!C!GetMIGMode, C!SetMIGMode, Nsmtool!C!SetMIGMode,
       C!GetECCMode, Nsmtool!C!GetECCMode, C!SetECCMode, Nsmtool!C!SetECCMode,
       C!GetECCErrorCounts, Nsmtool!C!GetECCErrorCounts,
       C!GetProgrammableEDPpScalingFactor, Nsmtool!C!GetProgrammableEDPpScalingFactor,
       C!SetProgrammableEDPpScalingFactor, Nsmtool!C!SetProgrammableEDPpScalingFactor,
       C!SetPowerLimit, Nsmtool!C!SetPowerLimit, C!GetPowerLimit, Nsmtool!C!GetPowerLimit,
       C!GetClockLimit, Nsmtool!C!GetClockLimit, C!GetCurrClockFreq,
       Nsmtool!C!GetCurrClockFreq, C!GetCurrentClockEventReasonCode,
       Nsmtool!C!GetCurrentClockEventReasonCode, C!GetAccumGPUUtilTime,
       Nsmtool!C!GetAccumGPUUtilTime
  <1>9.
        /\ Nsmtool!C!GetCurrentUtilization = C!GetCurrentUtilization
        /\ Nsmtool!C!GetRowRemapState = C!GetRowRemapState
        /\ Nsmtool!C!GetRowRemappingCounts = C!GetRowRemappingCounts
        /\ Nsmtool!C!GetRowRemapAvailability = C!GetRowRemapAvailability
        /\ Nsmtool!C!GetMemoryCapacityUtil = C!GetMemoryCapacityUtil
        /\ Nsmtool!C!GetClockOutputEnableState = C!GetClockOutputEnableState
        /\ Nsmtool!C!SetClockLimit = C!SetClockLimit
        /\ Nsmtool!C!GetViolationDuration = C!GetViolationDuration
    BY DEF
       C!Command, Nsmtool!C!Command, C!MaxLength, Nsmtool!C!MaxLength, C!AtLeast,
       Nsmtool!C!AtLeast, C!GetCurrentUtilization, Nsmtool!C!GetCurrentUtilization,
       C!Exactly, Nsmtool!C!Exactly, C!GetRowRemapState, Nsmtool!C!GetRowRemapState,
       C!GetRowRemappingCounts, Nsmtool!C!GetRowRemappingCounts, C!GetRowRemapAvailability,
       Nsmtool!C!GetRowRemapAvailability, C!GetMemoryCapacityUtil,
       Nsmtool!C!GetMemoryCapacityUtil, C!GetClockOutputEnableState,
       Nsmtool!C!GetClockOutputEnableState, C!SetClockLimit, Nsmtool!C!SetClockLimit,
       C!GetViolationDuration, Nsmtool!C!GetViolationDuration
  <1>10.
        /\ Nsmtool!C!AggregateTemperature = C!AggregateTemperature
        /\ Nsmtool!C!AggregateThermalParameter = C!AggregateThermalParameter
        /\ Nsmtool!C!AggregatePowerDraw = C!AggregatePowerDraw
        /\ Nsmtool!C!AggregatePeakPower = C!AggregatePeakPower
        /\ Nsmtool!C!AggregateEnergyCount = C!AggregateEnergyCount
        /\ Nsmtool!C!AggregateVoltage = C!AggregateVoltage
        /\ Nsmtool!C!QueryAggregateGpmMetrics = C!QueryAggregateGpmMetrics
        /\ Nsmtool!C!QueryPerInstanceGpmMetrics = C!QueryPerInstanceGpmMetrics
    BY DEF
       C!Table, Nsmtool!C!Table, C!MaxLength, Nsmtool!C!MaxLength, C!AtLeast,
       Nsmtool!C!AtLeast, C!Aggregate, Nsmtool!C!Aggregate, C!Command, Nsmtool!C!Command,
       C!Exactly, Nsmtool!C!Exactly, C!GetTemperatureReading,
       Nsmtool!C!GetTemperatureReading, C!AggregateTemperature,
       Nsmtool!C!AggregateTemperature, C!ReadThermalParameter,
       Nsmtool!C!ReadThermalParameter, C!AggregateThermalParameter,
       Nsmtool!C!AggregateThermalParameter, C!Timestamped, Nsmtool!C!Timestamped,
       C!GetCurrentPowerDraw, Nsmtool!C!GetCurrentPowerDraw, C!PowerDrawSample,
       Nsmtool!C!PowerDrawSample, C!AggregatePowerDraw, Nsmtool!C!AggregatePowerDraw,
       C!GetMaxObservedPower, Nsmtool!C!GetMaxObservedPower, C!AggregatePeakPower,
       Nsmtool!C!AggregatePeakPower, C!GetCurrentEnergyCount,
       Nsmtool!C!GetCurrentEnergyCount, C!AggregateEnergyCount,
       Nsmtool!C!AggregateEnergyCount, C!GetVoltage, Nsmtool!C!GetVoltage,
       C!AggregateVoltage, Nsmtool!C!AggregateVoltage, C!Gpm, Nsmtool!C!Gpm,
       C!GpmPercentage, Nsmtool!C!GpmPercentage, C!QueryAggregateGpmMetrics,
       Nsmtool!C!QueryAggregateGpmMetrics, C!GpmBandwidth, Nsmtool!C!GpmBandwidth,
       C!QueryPerInstanceGpmMetrics, Nsmtool!C!QueryPerInstanceGpmMetrics
  <1> QED
    BY <1>1, <1>2, <1>3, <1>4, <1>5, <1>6, <1>7, <1>8, <1>9, <1>10,
       SoundBase, SoundDebugToken, SoundCapabilities, SoundConfiguration, SoundDiagnostics,
       SoundFirmware, SoundPorts, SoundPci, SoundEnvironment, SoundTables
       DEF
       Nsmtool!R!Client, Nsmtool!R!Operation, Nsmtool!Run, Nsmtool!SetErrorInjectionModeV1,
       Nsmtool!GetErrorInjectionModeV1, Nsmtool!GetSupportedErrorInjectionTypesV1,
       Nsmtool!SetCurrentErrorInjectionTypesV1, Nsmtool!GetCurrentErrorInjectionTypesV1,
       Nsmtool!EnableDisableGpuIstMode, Nsmtool!GetFpgaDiagnosticsSettings,
       Nsmtool!GetReconfigurationPermissionsV1, Nsmtool!SetReconfigurationPermissionsV1,
       Nsmtool!GetConfidentialComputeModeV1, Nsmtool!SetConfidentialComputeModeV1,
       Nsmtool!QueryTokenParameters, Nsmtool!RunAggregate, Nsmtool!QueryResetStatistics,
       Nsmtool!ProvideToken, Nsmtool!DisableTokens, Nsmtool!QueryTokenStatus,
       Nsmtool!QueryDeviceIds, Nsmtool!EnableDisableWriteProtected,
       Nsmtool!ResetNetworkDevice, Nsmtool!GetNetworkDeviceDebugInfo, Nsmtool!EraseTrace,
       Nsmtool!GetNetworkDeviceLogInfo, Nsmtool!EraseDebugInfo, Nsmtool!Ping,
       Nsmtool!GetSupportedMessageTypes, Nsmtool!GetSupportedCommandCodes,
       Nsmtool!QueryDeviceIdentification, Nsmtool!GetHistogramFormat,
       Nsmtool!GetHistogramData, Nsmtool!GetRotInformation, Nsmtool!QueryCodeAuthKeyPerm,
       Nsmtool!UpdateCodeAuthKeyPerm, Nsmtool!QueryFirmwareSecurityVersion,
       Nsmtool!UpdateMinSecurityVersion, Nsmtool!IrreversibleConfig,
       Nsmtool!GetPortTelemetryCounter, Nsmtool!QueryPortCharacteristics,
       Nsmtool!QueryPortStatus, Nsmtool!QueryPortsAvailable, Nsmtool!SetPortDisableFuture,
       Nsmtool!GetFabricManagerState, Nsmtool!GetPortDisableFuture, Nsmtool!GetPowerMode,
       Nsmtool!SetPowerMode, Nsmtool!GetSwitchIsolationMode,
       Nsmtool!SetSwitchIsolationMode, Nsmtool!GetInventoryInformation,
       Nsmtool!GetDriverInfo, Nsmtool!GetTemperatureReading, Nsmtool!ReadThermalParameter,
       Nsmtool!GetCurrentPowerDraw, Nsmtool!GetMaxObservedPower,
       Nsmtool!GetCurrentEnergyCount, Nsmtool!GetVoltage, Nsmtool!GetAltitudePressure,
       Nsmtool!GetMigMode, Nsmtool!SetMigMode, Nsmtool!GetEccMode, Nsmtool!SetEccMode,
       Nsmtool!GetEccErrorCounts, Nsmtool!SetClockLimit, Nsmtool!GetEDPpScalingFactors,
       Nsmtool!SetEDPpScalingFactors, Nsmtool!QueryScalarGroupTelemetry,
       Nsmtool!QueryAvailableAndClearableScalarGroup, Nsmtool!PcieFundamentalReset,
       Nsmtool!ClearScalarDataSource, Nsmtool!GetClockLimit, Nsmtool!GetCurrClockFreq,
       Nsmtool!GetProcessorThrottleReason, Nsmtool!SetPowerLimit, Nsmtool!GetPowerLimit,
       Nsmtool!GetAccumGpuUtilTime, Nsmtool!GetRowRemapState,
       Nsmtool!GetRowRemappingCounts, Nsmtool!GetRowRemapAvailability,
       Nsmtool!GetMemoryCapacityUtil, Nsmtool!GetCurrentUtilization,
       Nsmtool!GetClockOutputEnableState, Nsmtool!QueryAggregatedGPMMetrics,
       Nsmtool!QueryPerInstanceGPMMetrics, Nsmtool!GetViolationDuration, Nsmtool!All

(* Each is an operation, and only a table of samples is taken as it comes. *)
LEMMA NsmtoolConclusions == \A c \in Nsmtool!All : Concludes("nsmtool", c)
  <1>1.
        /\ Nsmtool!C!AggregateEnergyCount.refusal = "any"
        /\ Nsmtool!C!AggregatePeakPower.refusal = "any"
        /\ Nsmtool!C!AggregatePowerDraw.refusal = "any"
        /\ Nsmtool!C!AggregateTemperature.refusal = "any"
        /\ Nsmtool!C!AggregateThermalParameter.refusal = "any"
        /\ Nsmtool!C!AggregateVoltage.refusal = "any"
        /\ Nsmtool!C!GetDeviceResetStatistics.refusal = "any"
        /\ Nsmtool!C!QueryAggregateGpmMetrics.refusal = "any"
        /\ Nsmtool!C!QueryPerInstanceGpmMetrics.refusal = "any"
    BY DEF
       Nsmtool!C!Table, Nsmtool!C!MaxLength, Nsmtool!C!AtLeast, Nsmtool!C!Aggregate,
       Nsmtool!C!Command, Nsmtool!C!Exactly, Nsmtool!C!GetCurrentEnergyCount,
       Nsmtool!C!AggregateEnergyCount, Nsmtool!C!Timestamped,
       Nsmtool!C!GetMaxObservedPower, Nsmtool!C!PowerDrawSample,
       Nsmtool!C!AggregatePeakPower, Nsmtool!C!GetCurrentPowerDraw,
       Nsmtool!C!AggregatePowerDraw, Nsmtool!C!GetTemperatureReading,
       Nsmtool!C!AggregateTemperature, Nsmtool!C!ReadThermalParameter,
       Nsmtool!C!AggregateThermalParameter, Nsmtool!C!GetVoltage,
       Nsmtool!C!AggregateVoltage, Nsmtool!C!GetDeviceResetStatistics, Nsmtool!C!Gpm,
       Nsmtool!C!GpmPercentage, Nsmtool!C!QueryAggregateGpmMetrics, Nsmtool!C!GpmBandwidth,
       Nsmtool!C!QueryPerInstanceGpmMetrics
  <1> QED
    BY <1>1
       DEF Concludes, ReturnsRc, IgnoresRc,
       Nsmtool!R!Client, Nsmtool!R!Operation, Nsmtool!Run, Nsmtool!SetErrorInjectionModeV1,
       Nsmtool!GetErrorInjectionModeV1, Nsmtool!GetSupportedErrorInjectionTypesV1,
       Nsmtool!SetCurrentErrorInjectionTypesV1, Nsmtool!GetCurrentErrorInjectionTypesV1,
       Nsmtool!EnableDisableGpuIstMode, Nsmtool!GetFpgaDiagnosticsSettings,
       Nsmtool!GetReconfigurationPermissionsV1, Nsmtool!SetReconfigurationPermissionsV1,
       Nsmtool!GetConfidentialComputeModeV1, Nsmtool!SetConfidentialComputeModeV1,
       Nsmtool!QueryTokenParameters, Nsmtool!RunAggregate, Nsmtool!QueryResetStatistics,
       Nsmtool!ProvideToken, Nsmtool!DisableTokens, Nsmtool!QueryTokenStatus,
       Nsmtool!QueryDeviceIds, Nsmtool!EnableDisableWriteProtected,
       Nsmtool!ResetNetworkDevice, Nsmtool!GetNetworkDeviceDebugInfo, Nsmtool!EraseTrace,
       Nsmtool!GetNetworkDeviceLogInfo, Nsmtool!EraseDebugInfo, Nsmtool!Ping,
       Nsmtool!GetSupportedMessageTypes, Nsmtool!GetSupportedCommandCodes,
       Nsmtool!QueryDeviceIdentification, Nsmtool!GetHistogramFormat,
       Nsmtool!GetHistogramData, Nsmtool!GetRotInformation, Nsmtool!QueryCodeAuthKeyPerm,
       Nsmtool!UpdateCodeAuthKeyPerm, Nsmtool!QueryFirmwareSecurityVersion,
       Nsmtool!UpdateMinSecurityVersion, Nsmtool!IrreversibleConfig,
       Nsmtool!GetPortTelemetryCounter, Nsmtool!QueryPortCharacteristics,
       Nsmtool!QueryPortStatus, Nsmtool!QueryPortsAvailable, Nsmtool!SetPortDisableFuture,
       Nsmtool!GetFabricManagerState, Nsmtool!GetPortDisableFuture, Nsmtool!GetPowerMode,
       Nsmtool!SetPowerMode, Nsmtool!GetSwitchIsolationMode,
       Nsmtool!SetSwitchIsolationMode, Nsmtool!GetInventoryInformation,
       Nsmtool!GetDriverInfo, Nsmtool!GetTemperatureReading, Nsmtool!ReadThermalParameter,
       Nsmtool!GetCurrentPowerDraw, Nsmtool!GetMaxObservedPower,
       Nsmtool!GetCurrentEnergyCount, Nsmtool!GetVoltage, Nsmtool!GetAltitudePressure,
       Nsmtool!GetMigMode, Nsmtool!SetMigMode, Nsmtool!GetEccMode, Nsmtool!SetEccMode,
       Nsmtool!GetEccErrorCounts, Nsmtool!SetClockLimit, Nsmtool!GetEDPpScalingFactors,
       Nsmtool!SetEDPpScalingFactors, Nsmtool!QueryScalarGroupTelemetry,
       Nsmtool!QueryAvailableAndClearableScalarGroup, Nsmtool!PcieFundamentalReset,
       Nsmtool!ClearScalarDataSource, Nsmtool!GetClockLimit, Nsmtool!GetCurrClockFreq,
       Nsmtool!GetProcessorThrottleReason, Nsmtool!SetPowerLimit, Nsmtool!GetPowerLimit,
       Nsmtool!GetAccumGpuUtilTime, Nsmtool!GetRowRemapState,
       Nsmtool!GetRowRemappingCounts, Nsmtool!GetRowRemapAvailability,
       Nsmtool!GetMemoryCapacityUtil, Nsmtool!GetCurrentUtilization,
       Nsmtool!GetClockOutputEnableState, Nsmtool!QueryAggregatedGPMMetrics,
       Nsmtool!QueryPerInstanceGPMMetrics, Nsmtool!GetViolationDuration, Nsmtool!All

----------------------------------------------------------------------------
(* The handlers of the mockup.                                             *)

(* The handlers' constructors.                                             *)
LEMMA FilledFields ==
    ASSUME NEW command, NEW sent, NEW encoded
    PROVE  LET h == Mockup!Filled(command, sent, encoded)
           IN  /\ h.command = command /\ h.takes = command.takes
               /\ h.kind = "ok" /\ h.sent = sent
               /\ (sent >= encoded => h.whole) /\ (~(sent >= encoded) => ~h.whole)
  BY DEF Mockup!Filled

LEMMA ServeFields ==
    ASSUME NEW command, NEW sent
    PROVE  LET h == Mockup!Serve(command, sent)
           IN  /\ h.command = command /\ h.takes = command.takes
               /\ h.kind = "ok" /\ h.sent = sent
               /\ (sent >= command.answers => h.whole) /\ (~(sent >= command.answers) => ~h.whole)
  BY FilledFields DEF Mockup!Serve

LEMMA ServeUncheckedFields ==
    ASSUME NEW command, NEW sent
    PROVE  LET h == Mockup!ServeUnchecked(command, sent)
           IN  /\ h.command = command /\ h.takes = Mockup!C!Unchecked
               /\ h.kind = "ok" /\ h.sent = sent /\ (sent >= command.answers => h.whole)
  <1>1. sent >= command.answers => Mockup!ServeUnchecked(command, sent).whole
    BY DEF Mockup!ServeUnchecked, Mockup!Serve, Mockup!Filled
  <1> QED
    BY <1>1 DEF Mockup!ServeUnchecked, Mockup!Serve, Mockup!Filled

LEMMA AcceptFields ==
    ASSUME NEW command
    PROVE  LET h == Mockup!Accept(command)
           IN  h.command = command /\ h.takes = command.takes /\ h.kind = "accepted"
  BY DEF Mockup!Accept, Mockup!Serve, Mockup!Filled

LEMMA RefuseFields ==
    ASSUME NEW command, NEW sent
    PROVE  LET h == Mockup!Refuse(command, sent)
               u == [h EXCEPT !.takes = Mockup!C!Unchecked]
           IN  /\ h.command = command /\ h.takes = command.takes /\ h.kind = "refused"
               /\ u.command = command /\ u.takes = Mockup!C!Unchecked /\ u.kind = "refused"
  BY DEF Mockup!Refuse, Mockup!Serve, Mockup!Filled

(* What a handler that answers with n bytes needs of its command.          *)
Fits(command, n) ==
    /\ command.sends \in command.takes
    /\ command.sends \in Mockup!C!Unchecked
    /\ n \in command.accepts
    /\ n \in Nat
    /\ n >= command.answers
    /\ OfInventory(command) => n <= command.answers

LEMMA Serving ==
    ASSUME NEW command, NEW n, Fits(command, n)
    PROVE  /\ Suits(Mockup!Serve(command, n))
           /\ Suits(Mockup!ServeUnchecked(command, n))
           /\ Suits(Mockup!Filled(command, n, n))
  <1>1. Suits(Mockup!Serve(command, n))
    BY ServeFields DEF Fits, Suits
  <1>2. Suits(Mockup!ServeUnchecked(command, n))
    BY ServeUncheckedFields DEF Fits, Suits
  <1>3. Suits(Mockup!Filled(command, n, n))
    BY FilledFields DEF Fits, Suits
  <1> QED
    BY <1>1, <1>2, <1>3

LEMMA Refusing ==
    ASSUME NEW command, NEW n, Fits(command, n), NEW sent
    PROVE  /\ Suits(Mockup!Refuse(command, sent))
           /\ Suits([Mockup!Refuse(command, sent) EXCEPT !.takes = Mockup!C!Unchecked])
  BY RefuseFields DEF Fits, Suits


LEMMA MockupHandlers == \A h \in Mockup!Handlers : Suits(h)
  <1>1. \A h \in UNION
            {Mockup!QueryTokenParametersHandler, Mockup!DisableTokensHandler,
             Mockup!QueryTokenStatusHandler, Mockup!QueryDeviceIdsHandler,
             Mockup!GetRotInformationHandler, Mockup!IrreversibleConfigHandler,
             Mockup!QueryFirmwareSecurityVersionHandler, Mockup!PingHandler,
             Mockup!GetSupportNvidiaMessageTypesHandler,
             Mockup!GetSupportCommandCodeHandler, Mockup!GetPortTelemetryCounterHandler,
             Mockup!QueryPortCharacteristicsHandler, Mockup!QueryPortStatusHandler} : Suits(h)
    <2>1.
          /\ Fits(Mockup!C!QueryTokenParameters, 151) /\ Fits(Mockup!C!DisableTokens, 11)
          /\ Fits(Mockup!C!QueryTokenStatus, 19) /\ Fits(Mockup!C!QueryDeviceIds, 19)
          /\ Fits(Mockup!C!QueryGetErotStateParameters, 255)
          /\ Fits(Mockup!C!FirmwareIrreversibleConfigQuery, 255)
          /\ Fits(Mockup!C!FirmwareIrreversibleConfigDisable, 255)
          /\ Fits(Mockup!C!FirmwareIrreversibleConfigEnable, 255)
          /\ Fits(Mockup!C!QueryFirmwareSecurityVersionNumber, 19)
          /\ Fits(Mockup!C!Ping, 11) /\ Fits(Mockup!C!GetSupportedNvidiaMessageTypes, 43)
          /\ Fits(Mockup!C!GetSupportedCommandCodes, 43)
          /\ Fits(Mockup!C!GetPortTelemetryCounter, 271)
          /\ Fits(Mockup!C!QueryPortCharacteristics, 27)
          /\ Fits(Mockup!C!QueryPortStatus, 13)
      BY DEF Fits, OfInventory,
         Mockup!C!Unchecked, Mockup!C!Command, Mockup!C!MaxLength, Mockup!C!Exactly,
         Mockup!C!Ping, Mockup!C!AtLeast, Mockup!C!GetSupportedNvidiaMessageTypes,
         Mockup!C!GetSupportedCommandCodes, Mockup!C!QueryTokenParameters,
         Mockup!C!DisableTokens, Mockup!C!QueryTokenStatus, Mockup!C!QueryDeviceIds,
         Mockup!C!HeaderBytes, Mockup!C!SlotBytes, Mockup!C!Tag, Mockup!C!UpToATag,
         Mockup!C!HeaderTags, Mockup!C!SlotTags, Mockup!C!QueryGetErotStateParameters,
         Mockup!C!Irreversible, Mockup!C!IrreversibleAnswers, Mockup!C!IrreversibleAccepts,
         Mockup!C!FirmwareIrreversibleConfigQuery,
         Mockup!C!FirmwareIrreversibleConfigDisable,
         Mockup!C!FirmwareIrreversibleConfigEnable,
         Mockup!C!QueryFirmwareSecurityVersionNumber, Mockup!C!GetPortTelemetryCounter,
         Mockup!C!QueryPortStatus, Mockup!C!QueryPortCharacteristics
    <2> QED
      BY <2>1, Serving DEF
         Mockup!QueryTokenParametersHandler, Mockup!DisableTokensHandler,
         Mockup!QueryTokenStatusHandler, Mockup!QueryDeviceIdsHandler,
         Mockup!GetRotInformationHandler, Mockup!IrreversibleConfigHandler,
         Mockup!QueryFirmwareSecurityVersionHandler, Mockup!PingHandler,
         Mockup!GetSupportNvidiaMessageTypesHandler, Mockup!GetSupportCommandCodeHandler,
         Mockup!GetPortTelemetryCounterHandler, Mockup!QueryPortCharacteristicsHandler,
         Mockup!QueryPortStatusHandler
  <1>2. \A h \in UNION
            {Mockup!GetFabricManagerStateHandler, Mockup!QueryPortsAvailableHandler,
             Mockup!SetPortDisableFutureHandler, Mockup!GetPortDisableFutureHandler,
             Mockup!GetPowerModeHandler, Mockup!SetPowerModeHandler,
             Mockup!GetSwitchIsolationModeHandler, Mockup!SetSwitchIsolationModeHandler,
             Mockup!QueryDeviceIdentificationHandler,
             Mockup!GetTemperatureReadingHandler, Mockup!ReadThermalParameterHandler,
             Mockup!GetCurrentPowerDrawHandler} : Suits(h)
    <2>1.
          /\ Fits(Mockup!C!GetFabricManagerState, 29)
          /\ Fits(Mockup!C!QueryPortsAvailable, 12)
          /\ Fits(Mockup!C!SetPortDisableFuture, 11)
          /\ Fits(Mockup!C!GetPortDisableFuture, 43) /\ Fits(Mockup!C!GetPowerMode, 24)
          /\ Fits(Mockup!C!SetPowerMode, 11) /\ Fits(Mockup!C!GetSwitchIsolationMode, 12)
          /\ Fits(Mockup!C!SetSwitchIsolationMode, 11)
          /\ Fits(Mockup!C!QueryDeviceIdentification, 13)
          /\ Fits(Mockup!C!GetTemperatureReading, 15)
          /\ Fits(Mockup!C!AggregateTemperature, Mockup!C!AggregateTemperature.answers)
          /\ Fits(Mockup!C!ReadThermalParameter, 15)
          /\ Fits(Mockup!C!AggregateThermalParameter, Mockup!C!AggregateThermalParameter.answers)
          /\ Fits(Mockup!C!GetCurrentPowerDraw, 15)
          /\ Fits(Mockup!C!AggregatePowerDraw, Mockup!C!AggregatePowerDraw.answers)
      BY DEF Fits, OfInventory,
         Mockup!C!Unchecked, Mockup!C!Command, Mockup!C!MaxLength, Mockup!C!AtLeast,
         Mockup!C!QueryDeviceIdentification, Mockup!C!Exactly,
         Mockup!C!QueryPortsAvailable, Mockup!C!SetPortDisableFuture,
         Mockup!C!GetPortDisableFuture, Mockup!C!GetPowerMode, Mockup!C!SetPowerMode,
         Mockup!C!GetSwitchIsolationMode, Mockup!C!SetSwitchIsolationMode,
         Mockup!C!GetFabricManagerState, Mockup!C!GetTemperatureReading,
         Mockup!C!ReadThermalParameter, Mockup!C!GetCurrentPowerDraw, Mockup!C!Table,
         Mockup!C!Aggregate, Mockup!C!AggregateTemperature,
         Mockup!C!AggregateThermalParameter, Mockup!C!Timestamped,
         Mockup!C!PowerDrawSample, Mockup!C!AggregatePowerDraw
    <2> QED
      BY <2>1, Serving DEF
         Mockup!GetFabricManagerStateHandler, Mockup!QueryPortsAvailableHandler,
         Mockup!SetPortDisableFutureHandler, Mockup!GetPortDisableFutureHandler,
         Mockup!GetPowerModeHandler, Mockup!SetPowerModeHandler,
         Mockup!GetSwitchIsolationModeHandler, Mockup!SetSwitchIsolationModeHandler,
         Mockup!QueryDeviceIdentificationHandler, Mockup!GetTemperatureReadingHandler,
         Mockup!ReadThermalParameterHandler, Mockup!GetCurrentPowerDrawHandler,
         Mockup!AppendUnchecked
  <1>3. \A h \in UNION
            {Mockup!GetMaxObservedPowerHandler, Mockup!GetDriverInfoHandler,
             Mockup!GetEccErrorCountsHandler, Mockup!SetEventSubscriptionHandler,
             Mockup!SetCurrentEventSourcesHandler,
             Mockup!ConfigureEventAcknowledgementHandler,
             Mockup!GetPowerSmoothingFeatureInfoHandler,
             Mockup!GetHwCircuiteryUsageHandler, Mockup!GetCurrentProfileInfoHandler,
             Mockup!GetQueryAdminOverrideHandler, Mockup!SetActivePresetProfileHandler,
             Mockup!SetupAdminOverrideHandler, Mockup!ApplyAdminOverrideHandler,
             Mockup!ToggleImmediateRampDownHandler} : Suits(h)
    <2>1.
          /\ Fits(Mockup!C!GetMaxObservedPower, 15)
          /\ Fits(Mockup!C!AggregatePeakPower, Mockup!C!AggregatePeakPower.answers)
          /\ Fits(Mockup!C!GetDriverInfo, 36) /\ Fits(Mockup!C!GetECCErrorCounts, 33)
          /\ Fits(Mockup!C!SetEventSubscription, 11)
          /\ Fits(Mockup!C!SetCurrentEventSources, 11)
          /\ Fits(Mockup!C!ConfigureEventAcknowledgement, 19)
          /\ Fits(Mockup!C!GetPowersmoothingFeatinfo, 27)
          /\ Fits(Mockup!C!GetHardwareLifetimeCricuitry, 15)
          /\ Fits(Mockup!C!GetCurrentProfileInfo, 27)
          /\ Fits(Mockup!C!QueryAdminOverride, 27)
          /\ Fits(Mockup!C!SetActivePresetProfile, 11)
          /\ Fits(Mockup!C!SetupAdminOverride, 11) /\ Fits(Mockup!C!ApplyAdminOverride, 11)
          /\ Fits(Mockup!C!ToggleImmediateRampdown, 11)
      BY DEF Fits, OfInventory,
         Mockup!C!Unchecked, Mockup!C!Command, Mockup!C!MaxLength, Mockup!C!AtLeast,
         Mockup!C!SetEventSubscription, Mockup!C!ConfigureEventAcknowledgement,
         Mockup!C!Exactly, Mockup!C!SetCurrentEventSources, Mockup!C!GetMaxObservedPower,
         Mockup!C!GetDriverInfo, Mockup!C!GetECCErrorCounts,
         Mockup!C!GetPowersmoothingFeatinfo, Mockup!C!GetHardwareLifetimeCricuitry,
         Mockup!C!GetCurrentProfileInfo, Mockup!C!QueryAdminOverride,
         Mockup!C!SetActivePresetProfile, Mockup!C!SetupAdminOverride,
         Mockup!C!ApplyAdminOverride, Mockup!C!ToggleImmediateRampdown,
         Mockup!C!Timestamped, Mockup!C!Table, Mockup!C!Aggregate,
         Mockup!C!PowerDrawSample, Mockup!C!AggregatePeakPower
    <2> QED
      BY <2>1, Serving DEF
         Mockup!GetMaxObservedPowerHandler, Mockup!GetDriverInfoHandler,
         Mockup!GetEccErrorCountsHandler, Mockup!SetEventSubscriptionHandler,
         Mockup!SetCurrentEventSourcesHandler, Mockup!ConfigureEventAcknowledgementHandler,
         Mockup!GetPowerSmoothingFeatureInfoHandler, Mockup!GetHwCircuiteryUsageHandler,
         Mockup!GetCurrentProfileInfoHandler, Mockup!GetQueryAdminOverrideHandler,
         Mockup!SetActivePresetProfileHandler, Mockup!SetupAdminOverrideHandler,
         Mockup!ApplyAdminOverrideHandler, Mockup!ToggleImmediateRampDownHandler,
         Mockup!AppendUnchecked
  <1>4. \A h \in UNION
            {Mockup!ToggleFeatureStateHandler, Mockup!GetPresetProfileInfoHandler,
             Mockup!UpdatePresetProfileParamsHandler,
             Mockup!EnableWorkloadPowerProfileHandler,
             Mockup!DisableWorkloadPowerProfileHandler,
             Mockup!GetWorkLoadProfileStatusInfoHandler,
             Mockup!GetWorkloadPowerProfileInfoHandler,
             Mockup!GetCurrentEnergyCountHandler, Mockup!GetVoltageHandler,
             Mockup!GetAltitudePressureHandler} : Suits(h)
    <2>1.
          /\ Fits(Mockup!C!ToggleFeatureState, 11) /\ Fits(Mockup!C!GetPresetProfile, 79)
          /\ Fits(Mockup!C!UpdatePresetProfileParam, 11)
          /\ Fits(Mockup!C!EnableWorkloadPowerProfile, 11)
          /\ Fits(Mockup!C!DisableWorkloadPowerProfile, 11)
          /\ Fits(Mockup!C!GetWorkloadPowerProfileStatus, 107)
          /\ Fits(Mockup!C!GetWorkloadPowerProfileInfo, 195)
          /\ Fits(Mockup!C!GetCurrentEnergyCount, 19)
          /\ Fits(Mockup!C!AggregateEnergyCount, Mockup!C!AggregateEnergyCount.answers)
          /\ Fits(Mockup!C!GetVoltage, 15)
          /\ Fits(Mockup!C!AggregateVoltage, Mockup!C!AggregateVoltage.answers)
          /\ Fits(Mockup!C!GetAltitudePressure, 15)
      BY DEF Fits, OfInventory,
         Mockup!C!Unchecked, Mockup!C!Command, Mockup!C!MaxLength, Mockup!C!AtLeast,
         Mockup!C!Exactly, Mockup!C!GetCurrentEnergyCount, Mockup!C!GetVoltage,
         Mockup!C!GetAltitudePressure, Mockup!C!ToggleFeatureState,
         Mockup!C!GetPresetProfile, Mockup!C!UpdatePresetProfileParam,
         Mockup!C!EnableWorkloadPowerProfile, Mockup!C!DisableWorkloadPowerProfile,
         Mockup!C!GetWorkloadPowerProfileStatus, Mockup!C!GetWorkloadPowerProfileInfo,
         Mockup!C!Table, Mockup!C!Aggregate, Mockup!C!AggregateEnergyCount,
         Mockup!C!AggregateVoltage
    <2> QED
      BY <2>1, Serving DEF
         Mockup!ToggleFeatureStateHandler, Mockup!GetPresetProfileInfoHandler,
         Mockup!UpdatePresetProfileParamsHandler, Mockup!EnableWorkloadPowerProfileHandler,
         Mockup!DisableWorkloadPowerProfileHandler,
         Mockup!GetWorkLoadProfileStatusInfoHandler,
         Mockup!GetWorkloadPowerProfileInfoHandler, Mockup!GetCurrentEnergyCountHandler,
         Mockup!GetVoltageHandler, Mockup!GetAltitudePressureHandler,
         Mockup!AppendUnchecked
  <1>5. \A h \in UNION
            {Mockup!QueryScalarGroupTelemetryHandler,
             Mockup!QueryAvailableAndClearableScalarGroupHandler,
             Mockup!PcieFundamentalResetHandler, Mockup!ClearScalarDataSourceHandler,
             Mockup!GetEDPpScalingFactorHandler, Mockup!SetEDPpScalingFactorHandler,
             Mockup!GetClockLimitHandler} : Suits(h)
    <2>1.
          /\ Fits(Mockup!C!QueryScalarGroupTelemetryV1Group0, 27)
          /\ Fits(Mockup!C!QueryScalarGroupTelemetryV1Group1, 31)
          /\ Fits(Mockup!C!QueryScalarGroupTelemetryV1Group2, 27)
          /\ Fits(Mockup!C!QueryScalarGroupTelemetryV1Group3, 15)
          /\ Fits(Mockup!C!QueryScalarGroupTelemetryV1Group4, 39)
          /\ Fits(Mockup!C!QueryScalarGroupTelemetryV1Group5, 19)
          /\ Fits(Mockup!C!QueryScalarGroupTelemetryV1Group6, 19)
          /\ Fits(Mockup!C!QueryScalarGroupTelemetryV1Group8, 75)
          /\ Fits(Mockup!C!QueryScalarGroupTelemetryV1Group9, 19)
          /\ Fits(Mockup!C!QueryAvailableClearableScalarDataSources, 15)
          /\ Fits(Mockup!C!AssertPcieFundamentalReset, 11)
          /\ Fits(Mockup!C!ClearDataSource, 11)
          /\ Fits(Mockup!C!GetProgrammableEDPpScalingFactor, 14)
          /\ Fits(Mockup!C!SetProgrammableEDPpScalingFactor, 11)
          /\ Fits(Mockup!C!GetClockLimit, 27)
      BY DEF Fits, OfInventory,
         Mockup!C!Unchecked, Mockup!C!Command, Mockup!C!MaxLength, Mockup!C!AtLeast,
         Mockup!C!QueryScalarGroupTelemetry, Mockup!C!QueryScalarGroupTelemetryV1Group0,
         Mockup!C!QueryScalarGroupTelemetryV1Group1,
         Mockup!C!QueryScalarGroupTelemetryV1Group2,
         Mockup!C!QueryScalarGroupTelemetryV1Group3,
         Mockup!C!QueryScalarGroupTelemetryV1Group4,
         Mockup!C!QueryScalarGroupTelemetryV1Group5,
         Mockup!C!QueryScalarGroupTelemetryV1Group6,
         Mockup!C!QueryScalarGroupTelemetryV1Group8,
         Mockup!C!QueryScalarGroupTelemetryV1Group9, Mockup!C!Exactly,
         Mockup!C!AssertPcieFundamentalReset,
         Mockup!C!QueryAvailableClearableScalarDataSources, Mockup!C!ClearDataSource,
         Mockup!C!GetProgrammableEDPpScalingFactor,
         Mockup!C!SetProgrammableEDPpScalingFactor, Mockup!C!GetClockLimit
    <2> QED
      BY <2>1, Serving DEF
         Mockup!QueryScalarGroupTelemetryHandler,
         Mockup!QueryAvailableAndClearableScalarGroupHandler,
         Mockup!PcieFundamentalResetHandler, Mockup!ClearScalarDataSourceHandler,
         Mockup!GetEDPpScalingFactorHandler, Mockup!SetEDPpScalingFactorHandler,
         Mockup!GetClockLimitHandler
  <1>6. \A h \in UNION
            {Mockup!SetClockLimitHandler, Mockup!GetCurrClockFreqHandler,
             Mockup!GetProcessorThrottleReasonHandler, Mockup!GetPowerLimitHandler,
             Mockup!SetPowerLimitHandler, Mockup!GetAccumCpuUtilTimeHandler,
             Mockup!GetRowRemapStateHandler, Mockup!GetRowRemappingCountsHandler,
             Mockup!GetRowRemapAvailabilityHandler,
             Mockup!GetClockOutputEnableStateHandler} : Suits(h)
    <2>1.
          /\ Fits(Mockup!C!SetClockLimit, 11) /\ Fits(Mockup!C!GetCurrClockFreq, 15)
          /\ Fits(Mockup!C!GetCurrentClockEventReasonCode, 15)
          /\ Fits(Mockup!C!GetPowerLimit, 23) /\ Fits(Mockup!C!SetPowerLimit, 11)
          /\ Fits(Mockup!C!GetAccumGPUUtilTime, 19) /\ Fits(Mockup!C!GetRowRemapState, 12)
          /\ Fits(Mockup!C!GetRowRemappingCounts, 19)
          /\ Fits(Mockup!C!GetRowRemapAvailability, 21)
          /\ Fits(Mockup!C!GetClockOutputEnableState, 15)
      BY DEF Fits, OfInventory,
         Mockup!C!Unchecked, Mockup!C!Command, Mockup!C!Exactly, Mockup!C!MaxLength,
         Mockup!C!AtLeast, Mockup!C!SetPowerLimit, Mockup!C!GetPowerLimit,
         Mockup!C!GetCurrClockFreq, Mockup!C!GetCurrentClockEventReasonCode,
         Mockup!C!GetAccumGPUUtilTime, Mockup!C!GetRowRemapState,
         Mockup!C!GetRowRemappingCounts, Mockup!C!GetRowRemapAvailability,
         Mockup!C!GetClockOutputEnableState, Mockup!C!SetClockLimit
    <2> QED
      BY <2>1, Serving DEF
         Mockup!SetClockLimitHandler, Mockup!GetCurrClockFreqHandler,
         Mockup!GetProcessorThrottleReasonHandler, Mockup!GetPowerLimitHandler,
         Mockup!SetPowerLimitHandler, Mockup!GetAccumCpuUtilTimeHandler,
         Mockup!GetRowRemapStateHandler, Mockup!GetRowRemappingCountsHandler,
         Mockup!GetRowRemapAvailabilityHandler, Mockup!GetClockOutputEnableStateHandler
  <1>7. \A h \in UNION
            {Mockup!GetFpgaDiagnosticsSettingsHandler,
             Mockup!EnableDisableWriteProtectedHandler,
             Mockup!GetNetworkDeviceDebugInfoHandler, Mockup!EraseTraceHandler,
             Mockup!EraseDebugInfoHandler, Mockup!QueryAggregatedResetMetricsHandler,
             Mockup!QueryAggregatedGPMMetricsHandler,
             Mockup!EnableDisableGpuIstModeHandler,
             Mockup!GetReconfigurationPermissionsV1Handler,
             Mockup!SetReconfigurationPermissionsV1Handler} : Suits(h)
    <2>1.
          /\ Fits(Mockup!C!GetFpgaDiagnosticsSettingsWp, 19)
          /\ Fits(Mockup!C!GetFpgaDiagnosticsSettingsWpJumper, 12)
          /\ Fits(Mockup!C!GetPowerSupplyStatus, 12) /\ Fits(Mockup!C!GetGpuPresence, 12)
          /\ Fits(Mockup!C!GetGpuPowerStatus, 12) /\ Fits(Mockup!C!GetGpuIstMode, 12)
          /\ Fits(Mockup!C!EnableDisableWp, 11)
          /\ Fits(Mockup!C!GetNetworkDeviceDebugInfo, 59) /\ Fits(Mockup!C!EraseTrace, 12)
          /\ Fits(Mockup!C!EraseDebugInfo, 13)
          /\ Fits(Mockup!C!GetDeviceResetStatistics, Mockup!C!GetDeviceResetStatistics.answers)
          /\ Fits(Mockup!C!QueryAggregateGpmMetrics, Mockup!C!QueryAggregateGpmMetrics.answers)
          /\ Fits(Mockup!C!EnableDisableGpuIstMode, 11)
          /\ Fits(Mockup!C!GetReconfigurationPermissions, 12)
          /\ Fits(Mockup!C!SetReconfigurationPermissions, 11)
      BY DEF Fits, OfInventory,
         Mockup!C!Unchecked, Mockup!C!Command, Mockup!C!MaxLength, Mockup!C!AtLeast,
         Mockup!C!GetFpgaDiagnosticsSettings, Mockup!C!GetFpgaDiagnosticsSettingsWp,
         Mockup!C!GetFpgaDiagnosticsSettingsWpJumper, Mockup!C!GetPowerSupplyStatus,
         Mockup!C!GetGpuPresence, Mockup!C!GetGpuPowerStatus, Mockup!C!GetGpuIstMode,
         Mockup!C!Exactly, Mockup!C!EnableDisableGpuIstMode,
         Mockup!C!GetReconfigurationPermissions, Mockup!C!SetReconfigurationPermissions,
         Mockup!C!Table, Mockup!C!GetDeviceResetStatistics, Mockup!C!EnableDisableWp,
         Mockup!C!GetNetworkDeviceDebugInfo, Mockup!C!EraseTrace, Mockup!C!EraseDebugInfo,
         Mockup!C!Aggregate, Mockup!C!Gpm, Mockup!C!GpmPercentage,
         Mockup!C!QueryAggregateGpmMetrics
    <2> QED
      BY <2>1, Serving DEF
         Mockup!GetFpgaDiagnosticsSettingsHandler,
         Mockup!EnableDisableWriteProtectedHandler,
         Mockup!GetNetworkDeviceDebugInfoHandler, Mockup!EraseTraceHandler,
         Mockup!EraseDebugInfoHandler, Mockup!QueryAggregatedResetMetricsHandler,
         Mockup!QueryAggregatedGPMMetricsHandler, Mockup!EnableDisableGpuIstModeHandler,
         Mockup!GetReconfigurationPermissionsV1Handler,
         Mockup!SetReconfigurationPermissionsV1Handler, Mockup!Append
  <1>8. \A h \in UNION
            {Mockup!GetConfidentialComputeModeHandler,
             Mockup!SetConfidentialComputeModeHandler,
             Mockup!SetErrorInjectionModeV1Handler,
             Mockup!GetErrorInjectionModeV1Handler,
             Mockup!GetSupportedErrorInjectionTypesV1Handler,
             Mockup!GetCurrentErrorInjectionTypesV1Handler,
             Mockup!ResetNetworkDeviceHandler, Mockup!GetHistogramFormatHandler} : Suits(h)
    <2>1.
          /\ Fits(Mockup!C!GetConfidentialComputeMode, 13)
          /\ Fits(Mockup!C!SetConfidentialComputeMode, 11)
          /\ Fits(Mockup!C!SetErrorInjectionMode, 11)
          /\ Fits(Mockup!C!GetErrorInjectionMode, 16)
          /\ Fits(Mockup!C!GetSupportedErrorInjectionTypes, 19)
          /\ Fits(Mockup!C!GetCurrentErrorInjectionTypes, 19)
          /\ Fits(Mockup!C!ResetNetworkDevice, 11) /\ Fits(Mockup!C!GetHistogramFormat, 51)
      BY DEF Fits, OfInventory,
         Mockup!C!Unchecked, Mockup!C!Command, Mockup!C!MaxLength, Mockup!C!AtLeast,
         Mockup!C!GetHistogramFormat, Mockup!C!Exactly, Mockup!C!ErrorInjectionTypes,
         Mockup!C!GetSupportedErrorInjectionTypes, Mockup!C!GetCurrentErrorInjectionTypes,
         Mockup!C!SetErrorInjectionMode, Mockup!C!GetErrorInjectionMode,
         Mockup!C!GetConfidentialComputeMode, Mockup!C!SetConfidentialComputeMode,
         Mockup!C!ResetNetworkDevice
    <2> QED
      BY <2>1, Serving DEF
         Mockup!GetConfidentialComputeModeHandler,
         Mockup!SetConfidentialComputeModeHandler, Mockup!SetErrorInjectionModeV1Handler,
         Mockup!GetErrorInjectionModeV1Handler,
         Mockup!GetSupportedErrorInjectionTypesV1Handler,
         Mockup!GetCurrentErrorInjectionTypesV1Handler, Mockup!ResetNetworkDeviceHandler,
         Mockup!GetHistogramFormatHandler
  <1>9. \A h \in UNION
            {Mockup!CodeAuthKeyPermUpdateHandler, Mockup!UpdateMinSecurityVersionHandler,
             Mockup!QueryPerInstanceGPMMetricsHandler,
             Mockup!SetCurrentErrorInjectionTypesV1Handler} : Suits(h)
    <2>1.
          /\ Fits(Mockup!C!CodeAuthKeyPermUpdate, 15)
          /\ Fits(Mockup!C!FirmwareUpdateSecVer, 23)
          /\ Fits(Mockup!C!QueryPerInstanceGpmMetrics, Mockup!C!QueryPerInstanceGpmMetrics.answers)
          /\ Fits(Mockup!C!SetCurrentErrorInjectionTypes, 11)
      BY DEF Fits, OfInventory,
         Mockup!C!Unchecked, Mockup!C!Command, Mockup!C!Exactly,
         Mockup!C!SetCurrentErrorInjectionTypes, Mockup!C!MaxLength, Mockup!C!AtLeast,
         Mockup!C!CodeAuthKeyPermUpdate, Mockup!C!FirmwareUpdateSecVer, Mockup!C!Table,
         Mockup!C!Aggregate, Mockup!C!Gpm, Mockup!C!GpmBandwidth,
         Mockup!C!QueryPerInstanceGpmMetrics
    <2>2. /\ Suits(Mockup!Refuse(Mockup!C!CodeAuthKeyPermUpdate, 15))
          /\ Suits(Mockup!Refuse(Mockup!C!FirmwareUpdateSecVer, 23))
          /\ Suits(Mockup!Refuse(Mockup!C!SetCurrentErrorInjectionTypes, 9))
          /\ Suits([Mockup!Refuse(Mockup!C!QueryPerInstanceGpmMetrics, 9)
                       EXCEPT !.takes = Mockup!C!Unchecked])
      BY <2>1, Refusing
    <2> QED
      BY <2>1, Serving, <2>2 DEF
         Mockup!CodeAuthKeyPermUpdateHandler, Mockup!UpdateMinSecurityVersionHandler,
         Mockup!QueryPerInstanceGPMMetricsHandler,
         Mockup!SetCurrentErrorInjectionTypesV1Handler, Mockup!AppendUnchecked
  <1>10. \A command \in {Mockup!C!GetMIGMode, Mockup!C!SetMIGMode, Mockup!C!GetECCMode,
                        Mockup!C!SetECCMode, Mockup!C!GetCurrentUtilization,
                        Mockup!C!GetMemoryCapacityUtil, Mockup!C!GetViolationDuration} :
           Suits(Mockup!Accept(command))
    <2>1. ASSUME NEW command, command.sends \in command.takes,
                 command.type = "environment", command.refusal = "reason"
          PROVE  Suits(Mockup!Accept(command))
      BY <2>1, AcceptFields DEF Suits
    <2> QED
      BY <2>1 DEF Mockup!C!GetMIGMode, Mockup!C!SetMIGMode, Mockup!C!GetECCMode,
         Mockup!C!SetECCMode, Mockup!C!GetCurrentUtilization,
         Mockup!C!GetMemoryCapacityUtil, Mockup!C!GetViolationDuration,
         Mockup!C!Command, Mockup!C!Exactly, Mockup!C!AtLeast, Mockup!C!MaxLength
  <1>11. /\ Suits(Mockup!Serve(Mockup!C!ProvideToken, 11))
        /\ Suits(Mockup!Serve(Mockup!C!GetHistogramData, 37))
        /\ Suits(Mockup!Serve(Mockup!C!GetNetworkDeviceLogInfo, 75))
    <2>1. /\ 11 >= Mockup!C!ProvideToken.answers /\ 11 \in Mockup!C!ProvideToken.accepts
          /\ ~OfInventory(Mockup!C!ProvideToken)
      BY DEF Mockup!C!ProvideToken, Mockup!C!Command, Mockup!C!AtLeast, Mockup!C!MaxLength,
         OfInventory
    <2>2. Suits(Mockup!Serve(Mockup!C!ProvideToken, 11))
      BY <2>1, ServeFields DEF Suits
    <2>3. /\ \A command \in {Mockup!C!GetHistogramData, Mockup!C!GetNetworkDeviceLogInfo} :
                 command.sends \in command.takes
          /\ ~(37 >= Mockup!C!GetHistogramData.answers)
          /\ ~(75 >= Mockup!C!GetNetworkDeviceLogInfo.answers)
      BY DEF Mockup!C!GetHistogramData, Mockup!C!GetNetworkDeviceLogInfo,
         Mockup!C!Command, Mockup!C!AtLeast, Mockup!C!Exactly, Mockup!C!MaxLength
    <2> QED
      BY <2>2, <2>3, ServeFields DEF Suits, CutOff
  <1>12. \A n \in {16 + 4 * bytes : bytes \in 1 .. 4} : Fits(Mockup!C!CodeAuthKeyPermQuery, n)
    BY DEF Fits, Mockup!C!CodeAuthKeyPermQuery, Mockup!C!Command, Mockup!C!AtLeast,
       Mockup!C!MaxLength, Mockup!C!Unchecked, OfInventory
  <1>13. \A property \in Mockup!Properties :
           /\ Suits(Mockup!Serve(property, property.answers))
           /\ Suits(Mockup!Serve(property, Mockup!C!CommonResponse))
    <2> SUFFICES ASSUME NEW property \in Mockup!Properties
                 PROVE  /\ Suits(Mockup!Serve(property, property.answers))
                        /\ Suits(Mockup!Serve(property, Mockup!C!CommonResponse))
      OBVIOUS
    <2>1. /\ Fits(property, property.answers)
          /\ property.sends \in property.takes
          /\ ~(Mockup!C!CommonResponse >= property.answers)
      BY DEF Fits, Mockup!Properties, Mockup!C!GetInventoryNvU8, Mockup!C!GetInventoryNvU32,
         Mockup!C!GetInventoryVersion, Mockup!C!GetInventoryString,
         Mockup!C!GetInventoryInformation, Mockup!C!CommonResponse, Mockup!C!Command,
         Mockup!C!AtLeast, Mockup!C!MaxLength, Mockup!C!Unchecked
    <2>2. Suits(Mockup!Serve(property, Mockup!C!CommonResponse))
      BY <2>1, ServeFields DEF Suits, CutOff
    <2> QED
      BY <2>1, <2>2, Serving
  <1>14. \A h \in UNION
            {Mockup!GetMigModeHandler, Mockup!SetMigModeHandler,
             Mockup!GetEccModeHandler, Mockup!SetEccModeHandler,
             Mockup!GetCurrentUtilizationHandler, Mockup!GetMemoryCapacityUtilHandler,
             Mockup!GetViolationDurationHandler, Mockup!ProvideTokenHandler,
             Mockup!GetHistogramDataHandler, Mockup!GetNetworkDeviceLogInfoHandler,
             Mockup!CodeAuthKeyPermQueryHandler, Mockup!GetInventoryInformationHandler} : Suits(h)
    BY <1>10, <1>11, <1>12, <1>13, Serving DEF
       Mockup!GetMigModeHandler, Mockup!SetMigModeHandler, Mockup!GetEccModeHandler,
       Mockup!SetEccModeHandler, Mockup!GetCurrentUtilizationHandler,
       Mockup!GetMemoryCapacityUtilHandler, Mockup!GetViolationDurationHandler,
       Mockup!ProvideTokenHandler, Mockup!GetHistogramDataHandler,
       Mockup!GetNetworkDeviceLogInfoHandler, Mockup!CodeAuthKeyPermQueryHandler,
       Mockup!GetInventoryInformationHandler
  <1> QED
    BY <1>1, <1>2, <1>3, <1>4, <1>5, <1>6, <1>7, <1>8, <1>9, <1>14 DEF Mockup!Handlers

----------------------------------------------------------------------------
(* Clients and answers.                                                    *)

(* Every client is sound, whatever its program.                            *)
LEMMA ClientIs ==
    ASSUME NEW p \in DOMAIN Clients, NEW c \in Clients[p]
    PROVE  Sound(c.command) /\ Concludes(p, c)
  <1>1. p = "nsmd" \/ p = "nsmtool"
    BY DEF Clients
  <1>2. Clients["nsmd"] = Nsmd!All /\ Clients["nsmtool"] = Nsmtool!All
    BY DEF Clients
  <1>3. CASE p = "nsmd"
    <2>1. c \in Nsmd!All
      BY <1>2, <1>3, Zenon
    <2> QED
      BY <1>3, <2>1, NsmdCommands, NsmdConclusions, Zenon
  <1>4. CASE p = "nsmtool"
    <2>1. c \in Nsmtool!All
      BY <1>2, <1>4, Zenon
    <2> QED
      BY <1>4, <2>1, NsmtoolCommands, NsmtoolConclusions, Zenon
  <1> QED
    BY <1>1, <1>3, <1>4

(* The forms of an answer.                                                 *)
LEMMA LostFields == Lost.from = "nobody" /\ Lost.kind = "lost"
  BY DEF Lost, Answer

LEMMA WholeFields ==
    ASSUME NEW n
    PROVE  LET a == Answer("device", "ok", n, TRUE)
           IN  a.from = "device" /\ a.kind = "ok" /\ a.whole
  BY DEF Answer

LEMMA CutFields ==
    ASSUME NEW n
    PROVE  LET a == Answer("device", "ok", n, FALSE)
           IN  a.from = "device" /\ a.kind = "ok" /\ a.length = n
  BY DEF Answer

LEMMA RefusedFields ==
    ASSUME NEW n, NEW from
    PROVE  LET a == Answer(from, "refused", n, TRUE)
           IN  a.from = from /\ a.kind = "refused"
  BY DEF Answer

LEMMA ReplyFields ==
    ASSUME NEW command, NEW h
    PROVE  LET a == Reply(command, h)
           IN  /\ a.from = "mockup"
               /\ command.sends \in h.takes =>
                     a.kind = h.kind /\ a.length = h.sent /\ (h.whole <=> a.whole)
               /\ command.sends \notin h.takes => a.kind = "lost"
  BY DEF Reply, Answer

(* What is known of an answer to a command.                                *)
Answered(command, a) ==
    \/ a.from = "nobody" /\ a.kind = "lost"
    \/ a.from \in {"device", "mockup"} /\ a.kind = "refused"
    \/ /\ a.from = "device" /\ a.kind = "ok"
       /\ a.whole \/ a.length < command.answers
    \/ a.from = "mockup" /\ a.kind = "lost" /\ MockupFallsShort(command, a)
    \/ /\ a.from = "mockup" /\ a.kind = "accepted"
       /\ command.type = "environment" /\ command.refusal = "reason"
    \/ /\ a.from = "mockup" /\ a.kind = "ok"
       /\ \/ MockupFallsShort(command, a)
          \/ /\ a.whole
             /\ a.length \in command.accepts
             /\ OfInventory(command) => a.length <= command.answers

(* The commands MockupFallsShort names are those of the handlers.          *)
LEMMA MockupNames ==
    /\ Mockup!C!ProvideToken = C!ProvideToken
    /\ Mockup!C!GetHistogramData = C!GetHistogramData
    /\ Mockup!C!GetNetworkDeviceLogInfo = C!GetNetworkDeviceLogInfo
    /\ Mockup!Properties = Inventory
  BY DEF Mockup!C!ProvideToken, Mockup!C!GetHistogramData, Mockup!C!GetNetworkDeviceLogInfo,
     Mockup!Properties, Inventory, Mockup!C!GetInventoryNvU8, Mockup!C!GetInventoryNvU32,
     Mockup!C!GetInventoryVersion, Mockup!C!GetInventoryString,
     Mockup!C!GetInventoryInformation, Mockup!C!CommonResponse, Mockup!C!Command,
     Mockup!C!AtLeast, Mockup!C!Exactly, Mockup!C!MaxLength, C!ProvideToken,
     C!GetHistogramData, C!GetNetworkDeviceLogInfo, C!GetInventoryNvU8, C!GetInventoryNvU32,
     C!GetInventoryVersion, C!GetInventoryString, C!GetInventoryInformation,
     C!CommonResponse, C!Command, C!AtLeast, C!Exactly, C!MaxLength

LEMMA DeviceAnswered ==
    ASSUME NEW command, Sound(command), NEW a \in DeviceAnswers(command)
    PROVE  Answered(command, a)
  <1>1. ASSUME NEW n, a = Answer("device", "ok", n, TRUE)
        PROVE  Answered(command, a)
    BY <1>1, WholeFields DEF Answered
  <1>2. ASSUME NEW n \in CutShort(command), a = Answer("device", "ok", n, FALSE)
        PROVE  Answered(command, a)
    <2>1. n < command.answers
      BY DEF CutShort
    <2>2. a.from = "device" /\ a.kind = "ok" /\ a.length = n
      BY <1>2, CutFields
    <2> QED
      BY <2>1, <2>2 DEF Answered
  <1>3. ASSUME NEW n, a = Answer("device", "refused", n, TRUE)
        PROVE  Answered(command, a)
    BY <1>3, RefusedFields DEF Answered
  <1> QED
    BY <1>1, <1>2, <1>3 DEF DeviceAnswers

LEMMA MockupAnswered ==
    ASSUME NEW command, NEW a \in MockupAnswers(command)
    PROVE  Answered(command, a)
  <1>1. CASE a = Answer("mockup", "refused", C!PaddedRefusal, TRUE)
    BY <1>1, RefusedFields DEF Answered
  <1>2. CASE \E handler \in Mockup!Served(command) : a = Reply(command, handler)
    <2>1. PICK h \in Mockup!Handlers : h.command = command /\ a = Reply(command, h)
      BY <1>2 DEF Mockup!Served
    <2>2. Suits(h)
      BY <2>1, MockupHandlers
    <2>3. CASE command.sends \in h.takes
      <3>1. a.from = "mockup" /\ a.kind = h.kind /\ a.length = h.sent /\ (h.whole <=> a.whole)
        BY <2>1, <2>3, ReplyFields
      <3>2. CASE h.kind = "refused"
        BY <3>1, <3>2 DEF Answered
      <3>3. CASE h.kind = "accepted"
        BY <2>1, <2>2, <3>1, <3>3 DEF Answered, Suits
      <3>4. CASE h.kind = "ok"
        <4>1. CASE command \in CutOff /\ ~h.whole
          BY <3>1, <3>4, <4>1, MockupNames DEF Answered, CutOff, MockupFallsShort
        <4>2. CASE /\ h.whole
                   /\ h.sent \in command.accepts
                   /\ OfInventory(command) => h.sent <= command.answers
          BY <3>1, <3>4, <4>2 DEF Answered
        <4> QED
          BY <2>1, <2>2, <3>4, <4>1, <4>2 DEF Suits
      <3> QED
        BY <2>2, <3>2, <3>3, <3>4 DEF Suits
    <2>4. CASE command.sends \notin h.takes
      <3>1. a.from = "mockup" /\ a.kind = "lost"
        BY <2>1, <2>4, ReplyFields
      <3>2. command = C!ProvideToken
        BY <2>1, <2>2, <2>4, MockupNames DEF Suits
      <3> QED
        BY <3>1, <3>2 DEF Answered, MockupFallsShort
    <2> QED
      BY <2>3, <2>4
  <1> QED
    BY <1>1, <1>2 DEF MockupAnswers

LEMMA AnswerIs ==
    ASSUME NEW command, Sound(command), NEW a, a = Lost \/ a \in Answers(command)
    PROVE  Answered(command, a)
  <1>1. a = Lost \/ a \in DeviceAnswers(command) \/ a \in MockupAnswers(command)
    BY DEF Answers
  <1>2. CASE a = Lost
    BY <1>2, LostFields DEF Answered
  <1> QED
    BY <1>1, <1>2, DeviceAnswered, MockupAnswered

----------------------------------------------------------------------------
(* What a client has concluded follows from the answer it has.             *)
Concluded ==
    at = "done" =>
        IF answer.kind = "lost"
        THEN outcome = "failure"
        ELSE \E end \in BOOLEAN :
             LET rc == Takes(client, answer, end)
                 refused == SeesRefusal(client.command, answer)
             IN  /\ outcome = "success" => Succeeds(client.concludes, rc, refused)
                 /\ Succeeds(client.concludes, rc, refused) => outcome = "success"
                 /\ rc /\ ~refused => value = IF answer.whole THEN "current" ELSE "partial"

IInv == TypeOK /\ Concluded

LEMMA Initially == Init => IInv
  BY DEF Init, Idle, IInv, TypeOK, Concluded, Values

LEMMA Inductive == IInv /\ [Next]_vars => IInv'
  <1> SUFFICES ASSUME IInv, [Next]_vars
               PROVE  IInv'
    OBVIOUS
  <1> DEFINE refused == SeesRefusal(client.command, answer)
  <1>1. ASSUME NEW a \in Answers(client.command), Ask(a)
        PROVE  IInv'
    BY <1>1 DEF IInv, TypeOK, Concluded, Ask, Values
  <1>2. CASE GiveUp
    BY <1>2 DEF IInv, TypeOK, Concluded, GiveUp
  <1>3. CASE HandleResponseMsg
    <2>0. PICK end \in BOOLEAN :
             LET rc == Takes(client, answer, end)
             IN  /\ answer.kind # "lost"
                 /\ at' = "done"
                 /\ outcome' = IF Succeeds(client.concludes, rc, refused)
                               THEN "success" ELSE "failure"
                 /\ value' = CASE rc /\ ~refused -> IF answer.whole THEN "current" ELSE "partial"
                               [] rc /\ refused -> Left(client.onRefusal)
                               [] ~rc -> Left(client.onError)
                 /\ UNCHANGED <<program, client, answer>>
      BY <1>3 DEF HandleResponseMsg
    <2> DEFINE rc == Takes(client, answer, end)
    <2>1. Concludes(program, client)
      BY ClientIs DEF IInv, TypeOK
    <2>2. Left(client.onError) \in Values /\ Left(client.onRefusal) \in Values
      BY <2>1 DEF Left, Values, Concludes, IInv, TypeOK
    <2>3. value' \in Values
      BY <2>0, <2>2 DEF Values
    <2>4. rc /\ ~refused => value' = IF answer.whole THEN "current" ELSE "partial"
      BY <2>0
    <2>5. outcome' = IF Succeeds(client.concludes, rc, refused) THEN "success" ELSE "failure"
      BY <2>0
    <2>6. answer.kind # "lost" /\ at' = "done" /\ UNCHANGED <<program, client, answer>>
      BY <2>0
    <2>7. TypeOK'
      BY <2>3, <2>5, <2>6 DEF IInv, TypeOK
    <2>8. Concluded'
      BY <2>4, <2>5, <2>6 DEF Concluded
    <2> QED
      BY <2>7, <2>8 DEF IInv
  <1>4. CASE UNCHANGED vars
    BY <1>4 DEF vars, IInv, TypeOK, Concluded
  <1> QED
    BY <1>1, <1>2, <1>3, <1>4 DEF Next

LEMMA Invariant == Spec => []IInv
  BY Initially, Inductive, PTL DEF Spec

(* The client, the answer and what became of it keep their types.          *)
THEOREM TypeCorrect == Spec => []TypeOK
  BY Invariant, PTL DEF IInv

(* What one side of libnsm writes the other side reads: a whole answer to  *)
(* what a client of nsmd or nsmtool encoded ends in success with its value,*)
(* be it from libnsm's encoder or from a handler of mockupResponder.cpp.   *)
THEOREM CleanExchange == Spec => []CleanExchangeSucceeds
  <1>1. ASSUME IInv PROVE CleanExchangeSucceeds
    <2> DEFINE command == client.command
    <2> SUFFICES ASSUME at = "done",
                        \/ /\ answer.from = "device" /\ answer.kind = "ok"
                           /\ answer.length = command.answers
                        \/ answer.from = "mockup" /\ answer.kind \notin {"refused", "accepted"},
                        ~MockupFallsShort(command, answer)
                 PROVE  outcome = "success" /\ value = "current"
      BY DEF CleanExchangeSucceeds
    <2>1. Sound(command) /\ Concludes(program, client) /\ Answered(command, answer)
      BY <1>1, ClientIs, AnswerIs DEF IInv, TypeOK
    <2>2. ~(command.answers < command.answers)
      BY <2>1 DEF Sound
    <2>3. answer.kind = "ok" /\ answer.whole /\ answer.length \in command.accepts
      BY <2>1, <2>2 DEF Sound, Answered
    <2>4. Decodes(command, answer) /\ ~SeesRefusal(command, answer)
      BY <2>3 DEF Decodes, SeesRefusal
    <2>5. \/ answer.length = command.answers
          \/ OfInventory(command) => answer.length <= command.answers
      BY <2>1, <2>2 DEF Answered
    <2>6. SizeFits(client, answer)
      BY <2>1, <2>5 DEF Concludes, SizeFits, Sound
    <2>7. ~LooksBehind(command, answer)
      BY <2>3 DEF LooksBehind
    <2>8. \A end \in BOOLEAN : Takes(client, answer, end)
      BY <2>4, <2>6, <2>7 DEF Takes
    <2>9. \A end \in BOOLEAN :
             Succeeds(client.concludes, Takes(client, answer, end), SeesRefusal(command, answer))
      BY <2>1, <2>4, <2>8 DEF Concludes, Succeeds
    <2> QED
      BY <1>1, <2>3, <2>4, <2>8, <2>9 DEF IInv, Concluded
  <1> QED
    BY <1>1, Invariant, PTL

(* A client that reports success has the whole value of the last answer:   *)
(* no decoder takes less than the whole answer but for those AsksForLess   *)
(* and TakesWhatIsThere name, and no client concludes otherwise than from  *)
(* its decoder's result but for those IgnoresRc and ReturnsRc name.        *)
THEOREM SuccessIsCurrent == Spec => []SuccessMeansCurrent
  <1>1. ASSUME IInv PROVE SuccessMeansCurrent
    <2> DEFINE command == client.command
               refused == SeesRefusal(command, answer)
    <2> SUFFICES ASSUME at = "done",
                        outcome = "success",
                        client.name \notin IgnoresRc[program],
                        ~TakesWhatIsThere(command),
                        answer.kind = "refused" => client.name \notin ReturnsRc[program],
                        ~answer.whole => command \notin AsksForLess,
                        ~MockupFallsShort(command, answer)
                 PROVE  value = "current"
      BY DEF SuccessMeansCurrent
    <2>1. Sound(command) /\ Concludes(program, client) /\ Answered(command, answer)
      BY <1>1, ClientIs, AnswerIs DEF IInv, TypeOK
    <2>2. answer.kind # "lost"
      BY <1>1 DEF IInv, Concluded
    <2>3. PICK end \in BOOLEAN :
              LET rc == Takes(client, answer, end)
              IN  /\ Succeeds(client.concludes, rc, refused)
                  /\ rc /\ ~refused => value = IF answer.whole THEN "current" ELSE "partial"
      BY <1>1, <2>2 DEF IInv, Concluded
    <2> DEFINE rc == Takes(client, answer, end)
    <2>4. rc => Decodes(command, answer)
      BY DEF Takes
    <2>5. command.refusal # "any"
      BY DEF TakesWhatIsThere
    <2>6. \/ client.concludes = "either"
          \/ /\ client.concludes = "rc"
             /\ client.name \in ReturnsRc[program] /\ command.type # "environment"
      BY <2>1, <2>5 DEF Concludes
    <2>7. rc /\ (client.concludes = "either" => ~refused)
      BY <2>3, <2>6 DEF Succeeds
    <2>8. answer.kind # "accepted"
      BY <2>1, <2>6, <2>7 DEF Answered, SeesRefusal
    <2>9. answer.kind # "refused"
      BY <2>1, <2>5, <2>6, <2>7, <2>4 DEF Sound, Decodes, Understands, SeesRefusal
    <2>10. answer.kind = "ok"
      BY <2>1, <2>2, <2>8, <2>9 DEF Answered
    <2>11. answer.length \in command.accepts /\ ~refused
      BY <2>7, <2>10, <2>4 DEF Decodes, SeesRefusal
    <2>12. answer.whole
      <3>1. CASE command \in AsksForLess
        BY <3>1
      <3>2. CASE \A n \in command.accepts : n \in Nat /\ n >= command.answers
        BY <2>1, <2>10, <2>11, <3>2 DEF Answered, Sound
      <3> QED
        BY <2>1, <3>1, <3>2 DEF Sound
    <2> QED
      BY <2>7, <2>11, <2>12, <2>3
  <1> QED
    BY <1>1, Invariant, PTL
=============================================================================

------------------------------- MODULE Readers -------------------------------
(***************************************************************************)
(* The objects of nsmd that talk to a device: for each the command it      *)
(* sends, how it concludes from the decoded answer that it has succeeded,  *)
(* and what becomes of the value it keeps when it has not.                 *)
(*                                                                         *)
(*   concludes   "either"  success unless the decoder failed or the device *)
(*                         refused                                         *)
(*               "rc"      success unless the decoder failed               *)
(*               "cc"      success unless a refusal was understood         *)
(*               "always"  success whenever an answer came                 *)
(*   onError     "kept"    the value of the last success stays             *)
(*               "cleared" the value is marked as not available            *)
(*               "fresh"   an operation: nothing is kept from one call to  *)
(*                         the next                                        *)
(*   onRefusal   the same for a refusal that was understood                *)
(*   compares    takes a payload only of the size of its value, by the     *)
(*               header of the answer                                      *)
(***************************************************************************)
C == INSTANCE Commands

Client(name, command, concludes, onError) ==
    [name |-> name, command |-> command, concludes |-> concludes,
     onError |-> onError, onRefusal |-> onError, compares |-> FALSE]

Sensor(name, command) == Client(name, command, "either", "kept")
ClearedSensor(name, command) == Client(name, command, "either", "cleared")
Operation(name, command) == Client(name, command, "either", "fresh")

\* With the check dataSize == sizeof(value).
Sized(client) == [client EXCEPT !.compares = TRUE]

\* Returns the completion code, which starts as success, whatever the decoder said.
EventSetup(name, command) == Client(name, command, "cc", "fresh")

(* NsmSensorAggregator::handleResponseMsg returns the decoder's result,    *)
(* which is a success for a refusal, and skips a sample it cannot decode.  *)
Aggregator(name, command) == Client(name, command, "rc", "kept")

\* deviceManager.cpp
Ping == Operation("Ping", C!Ping)
GetSupportedNvidiaMessageType ==
    Operation("GetSupportedNvidiaMessageType", C!GetSupportedNvidiaMessageTypes)
GetSupportedCommandCodes ==
    Operation("GetSupportedCommandCodes", C!GetSupportedCommandCodes)
GetInventoryInformation == Operation("GetInventoryInformation", C!GetInventoryString)
GetQueryDeviceIdentification ==
    Operation("GetQueryDeviceIdentification", C!QueryDeviceIdentification)

\* nsmPCIeRetimerPD.cpp
NsmPCIeDeviceQueryScalarTelemetry ==
    Sensor("NsmPCIeDeviceQueryScalarTelemetry", C!QueryScalarGroupTelemetryV1Group1)
NsmPCIeDeviceGetClockOutput ==
    Sensor("NsmPCIeDeviceGetClockOutput", C!GetClockOutputEnableState)

\* nsmFabricManager.cpp
NsmFabricManagerState == Sensor("NsmFabricManagerState", C!GetFabricManagerState)

\* nsmMemory.cpp
NsmRowRemapState == Sensor("NsmRowRemapState", C!GetRowRemapState)
NsmRowRemappingCounts == Sensor("NsmRowRemappingCounts", C!GetRowRemappingCounts)
NsmRemappingAvailabilityBankCount ==
    Sensor("NsmRemappingAvailabilityBankCount", C!GetRowRemapAvailability)
NsmEccErrorCountsDram == Sensor("NsmEccErrorCountsDram", C!GetECCErrorCounts)
NsmMinMemoryClockLimit == Sized(Sensor("NsmMinMemoryClockLimit", C!GetInventoryNvU32))
NsmMaxMemoryClockLimit == Sized(Sensor("NsmMaxMemoryClockLimit", C!GetInventoryNvU32))
NsmMemCurrClockFreq == Sensor("NsmMemCurrClockFreq", C!GetCurrClockFreq)

\* nsmHistogramInfo.cpp
NsmHistogramFormat == Sensor("NsmHistogramFormat", C!GetHistogramFormat)
NsmHistogramData == Sensor("NsmHistogramData", C!GetHistogramData)

\* nsmDebugToken.cpp
DisableTokensAsyncHandler == Operation("DisableTokensAsyncHandler", C!DisableTokens)
GetRequestAsyncHandler == Operation("GetRequestAsyncHandler", C!QueryTokenParameters)
GetStatusAsyncHandler == Operation("GetStatusAsyncHandler", C!QueryTokenStatus)
InstallTokenAsyncHandler == Operation("InstallTokenAsyncHandler", C!ProvideToken)
NsmDebugTokenObject == Client("NsmDebugTokenObject", C!QueryDeviceIds, "rc", "kept")

\* nsmCommon.cpp
NsmMemoryCapacity == ClearedSensor("NsmMemoryCapacity", C!GetInventoryNvU32)
NsmMemoryCapacityUtil == Sensor("NsmMemoryCapacityUtil", C!GetMemoryCapacityUtil)
NsmMinGraphicsClockLimit ==
    Sized(Sensor("NsmMinGraphicsClockLimit", C!GetInventoryNvU32))
NsmMaxGraphicsClockLimit ==
    Sized(Sensor("NsmMaxGraphicsClockLimit", C!GetInventoryNvU32))

\* nsmAltitudePressure.cpp
NsmAltitudePressure == ClearedSensor("NsmAltitudePressure", C!GetAltitudePressure)

\* nsmEnergy.cpp
NsmEnergy == ClearedSensor("NsmEnergy", C!GetCurrentEnergyCount)

\* nsmEnergyAggregator.cpp
NsmEnergyAggregator == Aggregator("NsmEnergyAggregator", C!AggregateEnergyCount)

\* nsmPeakPower.cpp
NsmPeakPower == ClearedSensor("NsmPeakPower", C!GetMaxObservedPower)

\* nsmPeakPowerAggregator.cpp
NsmPeakPowerAggregator == Aggregator("NsmPeakPowerAggregator", C!AggregatePeakPower)

\* nsmPower.cpp
NsmPower == ClearedSensor("NsmPower", C!GetCurrentPowerDraw)

\* nsmPowerAggregator.cpp
NsmPowerAggregator == Aggregator("NsmPowerAggregator", C!AggregatePowerDraw)

\* nsmTemp.cpp
NsmTemp == ClearedSensor("NsmTemp", C!GetTemperatureReading)

\* nsmTempAggregator.cpp
NsmTempAggregator == Aggregator("NsmTempAggregator", C!AggregateTemperature)

\* nsmThreshold.cpp
NsmThreshold == ClearedSensor("NsmThreshold", C!ReadThermalParameter)

\* nsmThresholdAggregator.cpp
NsmThresholdAggregator ==
    Aggregator("NsmThresholdAggregator", C!AggregateThermalParameter)

\* nsmVoltage.cpp
NsmVoltage == ClearedSensor("NsmVoltage", C!GetVoltage)

\* nsmVoltageAggregator.cpp
NsmVoltageAggregator == Aggregator("NsmVoltageAggregator", C!AggregateVoltage)

\* nsmEventConfig.cpp
SetCurrentEventSources == EventSetup("SetCurrentEventSources", C!SetCurrentEventSources)
ConfigureEventAcknowledgement ==
    EventSetup("ConfigureEventAcknowledgement", C!ConfigureEventAcknowledgement)

\* nsmEventSetting.cpp
EventSubscription == EventSetup("EventSubscription", C!SetEventSubscription)

\* nsmAERError.cpp
NsmPCIeAERErrorStatus ==
    Sensor("NsmPCIeAERErrorStatus", C!QueryScalarGroupTelemetryV1Group9)
ClearAERError == Operation("ClearAERError", C!ClearDataSource)

\* nsmClockOutputEnableState.cpp
NsmClockOutputEnableStateBase ==
    ClearedSensor("NsmClockOutputEnableStateBase", C!GetClockOutputEnableState)

\* nsmErot.cpp
NsmBuildTypeObject == Sensor("NsmBuildTypeObject", C!QueryGetErotStateParameters)

\* nsmGpuClockControl.cpp
ClearReqClockLimit == Operation("ClearReqClockLimit", C!SetClockLimit)
NsmChassisClockControl == Sensor("NsmChassisClockControl", C!GetClockLimit)
SetRangeClockLimits == Operation("SetRangeClockLimits", C!SetClockLimit)

\* nsmGpuPresenceAndPowerStatus.cpp
NsmGpuPresence ==
    [Client("NsmGpuPresence", C!GetGpuPresence, "rc", "cleared") EXCEPT !.onRefusal = "kept"]
NsmGpuPowerStatus ==
    [Client("NsmGpuPowerStatus", C!GetGpuPowerStatus, "rc", "cleared") EXCEPT !.onRefusal = "kept"]

\* nsmPCIeFunction.cpp
NsmPCIeFunction == ClearedSensor("NsmPCIeFunction", C!QueryScalarGroupTelemetryV1Group0)

\* nsmPCIeLTSSMState.cpp
NsmPCIeLTSSMState ==
    ClearedSensor("NsmPCIeLTSSMState", C!QueryScalarGroupTelemetryV1Group6)

\* nsmPCIeSlot.cpp
NsmPCIeSlot ==
    [Client("NsmPCIeSlot", C!QueryScalarGroupTelemetryV1Group1, "rc", "kept")
        EXCEPT !.onRefusal = "cleared"]

\* nsmPowerSupplyStatus.cpp
NsmPowerSupplyStatus ==
    [Client("NsmPowerSupplyStatus", C!GetPowerSupplyStatus, "rc", "kept")
        EXCEPT !.onRefusal = "cleared"]

\* nsmProcessorModulePowerControl.cpp
NsmProcessorModulePowerControl ==
    Sensor("NsmProcessorModulePowerControl", C!GetPowerLimit)
UpdatePowerLimitOnModule == Operation("UpdatePowerLimitOnModule", C!SetPowerLimit)
NsmModulePowerLimit == Sized(Sensor("NsmModulePowerLimit", C!GetInventoryNvU32))
NsmDefaultModulePowerLimit ==
    Sized(Sensor("NsmDefaultModulePowerLimit", C!GetInventoryNvU32))

\* nsmSecurityRBP.cpp
SecurityCfgAsyncHandler ==
    Operation("SecurityCfgAsyncHandler", C!FirmwareIrreversibleConfigEnable)
NsmSecurityCfgObject ==
    Client("NsmSecurityCfgObject", C!FirmwareIrreversibleConfigQuery, "rc", "kept")
MinSecVersionAsyncHandler ==
    Operation("MinSecVersionAsyncHandler", C!FirmwareUpdateSecVer)
NsmMinSecVersionObject ==
    Client("NsmMinSecVersionObject", C!QueryFirmwareSecurityVersionNumber, "rc", "kept")

\* nsmWriteProtectedJumper.cpp
NsmWriteProtectedJumper ==
    Sensor("NsmWriteProtectedJumper", C!GetFpgaDiagnosticsSettingsWpJumper)

\* nsmGraceSpi.cpp
CheckSpiStatus == Operation("CheckSpiStatus", C!ReadSpiStatus)
ExecuteSpiTransaction == Operation("ExecuteSpiTransaction", C!SendSpiTransaction)
SendSpiDataRequest == Operation("SendSpiDataRequest", C!SendSpiCommand)

\* nsmSetCpuOperatingConfig.cpp
GetMinGraphicsClockLimit ==
    Sized(Operation("GetMinGraphicsClockLimit", C!GetInventoryNvU32))
GetMaxGraphicsClockLimit ==
    Sized(Operation("GetMaxGraphicsClockLimit", C!GetInventoryNvU32))

\* nsmSetECCMode.cpp
NsmSetEccMode == Operation("NsmSetEccMode", C!SetECCMode)

\* nsmSetEgmMode.cpp
SetEgmModeOnDevice == Operation("SetEgmModeOnDevice", C!SetEGMMode)

\* nsmSetErrorInjection.cpp
SetModeEnabled == Operation("SetModeEnabled", C!SetErrorInjectionMode)
SetEnabled == Operation("SetEnabled", C!SetCurrentErrorInjectionTypes)

\* nsmSetMigMode.cpp
NsmSetMigMode == Operation("NsmSetMigMode", C!SetMIGMode)

\* nsmSetWriteProtected.cpp
SetWriteProtected == Operation("SetWriteProtected", C!EnableDisableWp)

\* nsmErrorInjection.cpp
NsmErrorInjection == Sensor("NsmErrorInjection", C!GetErrorInjectionMode)
NsmErrorInjectionSupported ==
    Sensor("NsmErrorInjectionSupported", C!GetSupportedErrorInjectionTypes)
NsmErrorInjectionEnabled ==
    Sensor("NsmErrorInjectionEnabled", C!GetCurrentErrorInjectionTypes)

\* nsmInventoryProperty.cpp
NsmInventoryPropertyBase == Sensor("NsmInventoryPropertyBase", C!GetInventoryString)

\* nsmPCIeLinkSpeed.cpp
NsmPCIeLinkSpeedBase ==
    Sensor("NsmPCIeLinkSpeedBase", C!QueryScalarGroupTelemetryV1Group1)

\* GPUSWInventory.cpp
NsmGPUSWInventoryDriverVersionAndStatus ==
    Sensor("NsmGPUSWInventoryDriverVersionAndStatus", C!GetDriverInfo)

\* NVLinkManagementNICSWInventory.cpp
NsmSWInventoryDriverVersionAndStatus ==
    Sensor("NsmSWInventoryDriverVersionAndStatus", C!GetDriverInfo)

\* nsmWriteProtectedControl.cpp
NsmWriteProtectedControl ==
    Sensor("NsmWriteProtectedControl", C!GetFpgaDiagnosticsSettingsWp)

\* nsmDebugInfo.cpp
GetDebugInfoAsyncHandler ==
    Operation("GetDebugInfoAsyncHandler", C!GetNetworkDeviceDebugInfo)

\* nsmEraseTrace.cpp
EraseTraceOnDevice == Operation("EraseTraceOnDevice", C!EraseTrace)
EraseDebugInfoOnDevice == Operation("EraseDebugInfoOnDevice", C!EraseDebugInfo)

\* nsmLogInfo.cpp
GetLogInfoAsyncHandler == Operation("GetLogInfoAsyncHandler", C!GetNetworkDeviceLogInfo)

\* nsmOemResetStatistics.cpp
ResetStatisticsAggregator ==
    Aggregator("ResetStatisticsAggregator", C!GetDeviceResetStatistics)

\* nsmPowerSmoothing.cpp
NsmPowerSmoothing == Sensor("NsmPowerSmoothing", C!GetPowersmoothingFeatinfo)
NsmHwCircuitryTelemetry ==
    Sensor("NsmHwCircuitryTelemetry", C!GetHardwareLifetimeCricuitry)
NsmCurrentPowerSmoothingProfile ==
    Sensor("NsmCurrentPowerSmoothingProfile", C!GetCurrentProfileInfo)
NsmPowerSmoothingAdminOverride ==
    Sensor("NsmPowerSmoothingAdminOverride", C!QueryAdminOverride)
NsmPowerProfileCollection == Sensor("NsmPowerProfileCollection", C!GetPresetProfile)
RequestActivatePresetProfile ==
    Operation("RequestActivatePresetProfile", C!SetActivePresetProfile)
RequestApplyAdminOverride ==
    Operation("RequestApplyAdminOverride", C!ApplyAdminOverride)

\* nsmProcessor.cpp
NsmMigMode == Sensor("NsmMigMode", C!GetMIGMode)
NsmEccMode == Sensor("NsmEccMode", C!GetECCMode)
NsmEccErrorCounts == Sensor("NsmEccErrorCounts", C!GetECCErrorCounts)
NsmPciGroup2 == Sensor("NsmPciGroup2", C!QueryScalarGroupTelemetryV1Group2)
NsmPciGroup3 == Sensor("NsmPciGroup3", C!QueryScalarGroupTelemetryV1Group3)
NsmPciGroup4 == Sensor("NsmPciGroup4", C!QueryScalarGroupTelemetryV1Group4)
NsmPciGroup5 == Sensor("NsmPciGroup5", C!QueryScalarGroupTelemetryV1Group5)
NsmEDPpScalingFactor ==
    Sensor("NsmEDPpScalingFactor", C!GetProgrammableEDPpScalingFactor)
PatchSetPoint == Operation("PatchSetPoint", C!SetProgrammableEDPpScalingFactor)
NsmMaxEDPpLimit == Sized(Sensor("NsmMaxEDPpLimit", C!GetInventoryNvU8))
NsmMinEDPpLimit == Sized(Sensor("NsmMinEDPpLimit", C!GetInventoryNvU8))
NsmClockLimitGraphics == Sensor("NsmClockLimitGraphics", C!GetClockLimit)
NsmCurrClockFreq == Sensor("NsmCurrClockFreq", C!GetCurrClockFreq)
NsmDefaultBaseClockSpeed ==
    Sized(Sensor("NsmDefaultBaseClockSpeed", C!GetInventoryNvU32))
NsmDefaultBoostClockSpeed ==
    Sized(Sensor("NsmDefaultBoostClockSpeed", C!GetInventoryNvU32))
NsmCurrentUtilization == Sensor("NsmCurrentUtilization", C!GetCurrentUtilization)
NsmProcessorThrottleReason ==
    Sensor("NsmProcessorThrottleReason", C!GetCurrentClockEventReasonCode)
NsmAccumGpuUtilTime == Sensor("NsmAccumGpuUtilTime", C!GetAccumGPUUtilTime)
NsmTotalMemorySize == Sized(Sensor("NsmTotalMemorySize", C!GetInventoryNvU32))
NsmTotalNvLinks == Sensor("NsmTotalNvLinks", C!QueryPortsAvailable)
NsmProcessorRevision == Sensor("NsmProcessorRevision", C!GetInventoryString)
NsmPowerCap == Sensor("NsmPowerCap", C!GetPowerLimit)
NsmMaxPowerCap == Sized(Sensor("NsmMaxPowerCap", C!GetInventoryNvU32))
NsmMinPowerCap == Sized(Sensor("NsmMinPowerCap", C!GetInventoryNvU32))
NsmDefaultPowerCap == Sized(Sensor("NsmDefaultPowerCap", C!GetInventoryNvU32))
NsmProcessorThrottleDuration ==
    Sensor("NsmProcessorThrottleDuration", C!GetViolationDuration)
NsmConfidentialCompute == Sensor("NsmConfidentialCompute", C!GetConfidentialComputeMode)
PatchCCMode == Operation("PatchCCMode", C!SetConfidentialComputeMode)
PatchCCDevMode == Operation("PatchCCDevMode", C!SetConfidentialComputeMode)
NsmEgmMode == Sensor("NsmEgmMode", C!GetEGMMode)

\* nsmReconfigPermissions.cpp
NsmReconfigPermissions ==
    Sensor("NsmReconfigPermissions", C!GetReconfigurationPermissions)
SetAllowPermission == Operation("SetAllowPermission", C!SetReconfigurationPermissions)

\* nsmWorkloadPowerProfile.cpp
RequestEnablePresetProfile ==
    Operation("RequestEnablePresetProfile", C!EnableWorkloadPowerProfile)
RequestDisablePresetProfile ==
    Operation("RequestDisablePresetProfile", C!DisableWorkloadPowerProfile)
NsmWorkLoadProfileStatus ==
    Sensor("NsmWorkLoadProfileStatus", C!GetWorkloadPowerProfileStatus)
NsmWorkloadPowerProfilePage ==
    Sensor("NsmWorkloadPowerProfilePage", C!GetWorkloadPowerProfileInfo)

\* nsmPCIeRetimerSwitchDI.cpp
NsmPCIeRetimerSwitchDI ==
    Sensor("NsmPCIeRetimerSwitchDI", C!QueryScalarGroupTelemetryV1Group0)
NsmPCIeRetimerSwitchGetClockState ==
    Sensor("NsmPCIeRetimerSwitchGetClockState", C!GetClockOutputEnableState)

\* nsmSwitch.cpp
NsmSwitchDIPowerMode == Sensor("NsmSwitchDIPowerMode", C!GetPowerMode)
SetL1PowerDevice == Operation("SetL1PowerDevice", C!SetPowerMode)
NsmSwitchIsolationMode == Sensor("NsmSwitchIsolationMode", C!GetSwitchIsolationMode)
SetSwitchIsolationMode == Operation("SetSwitchIsolationMode", C!SetSwitchIsolationMode)

\* nsmKeyMgmt.cpp
RevokeKeysAsyncHandler == Operation("RevokeKeysAsyncHandler", C!CodeAuthKeyPermUpdate)
NsmKeyMgmt == Client("NsmKeyMgmt", C!CodeAuthKeyPermQuery, "rc", "kept")

\* nsmGpmOem.cpp
NsmGPMAggregated == Aggregator("NsmGPMAggregated", C!QueryAggregateGpmMetrics)
NsmGPMPerInstance == Aggregator("NsmGPMPerInstance", C!QueryPerInstanceGpmMetrics)

\* nsmGpuPciePort.cpp
NsmClearPCIeCounters ==
    Sensor("NsmClearPCIeCounters", C!QueryAvailableClearableScalarDataSources)
ClearPCIeErrorCounter == Operation("ClearPCIeErrorCounter", C!ClearDataSource)

\* nsmPCIeErrors.cpp
NsmPCIeErrors == ClearedSensor("NsmPCIeErrors", C!QueryScalarGroupTelemetryV1Group2)

\* nsmPort.cpp
NsmPortStatus == Sensor("NsmPortStatus", C!QueryPortStatus)
CheckPortCharactersticRCAndPopulateRuntimeErr ==
    Client("CheckPortCharactersticRCAndPopulateRuntimeErr",
        C!QueryPortCharacteristics, "always", "kept")
NsmPortCharacteristics == Sensor("NsmPortCharacteristics", C!QueryPortCharacteristics)
NsmPortMetrics == Sensor("NsmPortMetrics", C!GetPortTelemetryCounter)

\* nsmPortDisableFuture.cpp
NsmDevicePortDisableFuture ==
    Sensor("NsmDevicePortDisableFuture", C!GetPortDisableFuture)
SetDevicePortDisableFuture ==
    Operation("SetDevicePortDisableFuture", C!SetPortDisableFuture)

\* nsmRetimerPort.cpp
NsmPCIeECCGroup1 == Sensor("NsmPCIeECCGroup1", C!QueryScalarGroupTelemetryV1Group1)
NsmPCIeECCGroup2 == Sensor("NsmPCIeECCGroup2", C!QueryScalarGroupTelemetryV1Group2)
NsmPCIeECCGroup3 == Sensor("NsmPCIeECCGroup3", C!QueryScalarGroupTelemetryV1Group3)
NsmPCIeECCGroup4 == Sensor("NsmPCIeECCGroup4", C!QueryScalarGroupTelemetryV1Group4)
NsmPCIeECCGroup8 == Sensor("NsmPCIeECCGroup8", C!QueryScalarGroupTelemetryV1Group8)

All ==
    {Ping, GetSupportedNvidiaMessageType, GetSupportedCommandCodes,
     GetInventoryInformation, GetQueryDeviceIdentification,
     NsmPCIeDeviceQueryScalarTelemetry, NsmPCIeDeviceGetClockOutput,
     NsmFabricManagerState, NsmRowRemapState, NsmRowRemappingCounts,
     NsmRemappingAvailabilityBankCount, NsmEccErrorCountsDram,
     NsmMinMemoryClockLimit, NsmMaxMemoryClockLimit, NsmMemCurrClockFreq,
     NsmHistogramFormat, NsmHistogramData, DisableTokensAsyncHandler,
     GetRequestAsyncHandler, GetStatusAsyncHandler, InstallTokenAsyncHandler,
     NsmDebugTokenObject, NsmMemoryCapacity, NsmMemoryCapacityUtil,
     NsmMinGraphicsClockLimit, NsmMaxGraphicsClockLimit, NsmAltitudePressure,
     NsmEnergy, NsmEnergyAggregator, NsmPeakPower, NsmPeakPowerAggregator, NsmPower,
     NsmPowerAggregator, NsmTemp, NsmTempAggregator, NsmThreshold,
     NsmThresholdAggregator, NsmVoltage, NsmVoltageAggregator,
     SetCurrentEventSources, ConfigureEventAcknowledgement, EventSubscription,
     NsmPCIeAERErrorStatus, ClearAERError, NsmClockOutputEnableStateBase,
     NsmBuildTypeObject, ClearReqClockLimit, NsmChassisClockControl,
     SetRangeClockLimits, NsmGpuPresence, NsmGpuPowerStatus, NsmPCIeFunction,
     NsmPCIeLTSSMState, NsmPCIeSlot, NsmPowerSupplyStatus,
     NsmProcessorModulePowerControl, UpdatePowerLimitOnModule, NsmModulePowerLimit,
     NsmDefaultModulePowerLimit, SecurityCfgAsyncHandler, NsmSecurityCfgObject,
     MinSecVersionAsyncHandler, NsmMinSecVersionObject, NsmWriteProtectedJumper,
     CheckSpiStatus, ExecuteSpiTransaction, SendSpiDataRequest,
     GetMinGraphicsClockLimit, GetMaxGraphicsClockLimit, NsmSetEccMode,
     SetEgmModeOnDevice, SetModeEnabled, SetEnabled, NsmSetMigMode,
     SetWriteProtected, NsmErrorInjection, NsmErrorInjectionSupported,
     NsmErrorInjectionEnabled, NsmInventoryPropertyBase, NsmPCIeLinkSpeedBase,
     NsmGPUSWInventoryDriverVersionAndStatus, NsmSWInventoryDriverVersionAndStatus,
     NsmWriteProtectedControl, GetDebugInfoAsyncHandler, EraseTraceOnDevice,
     EraseDebugInfoOnDevice, GetLogInfoAsyncHandler, ResetStatisticsAggregator,
     NsmPowerSmoothing, NsmHwCircuitryTelemetry, NsmCurrentPowerSmoothingProfile,
     NsmPowerSmoothingAdminOverride, NsmPowerProfileCollection,
     RequestActivatePresetProfile, RequestApplyAdminOverride, NsmMigMode, NsmEccMode,
     NsmEccErrorCounts, NsmPciGroup2, NsmPciGroup3, NsmPciGroup4, NsmPciGroup5,
     NsmEDPpScalingFactor, PatchSetPoint, NsmMaxEDPpLimit, NsmMinEDPpLimit,
     NsmClockLimitGraphics, NsmCurrClockFreq, NsmDefaultBaseClockSpeed,
     NsmDefaultBoostClockSpeed, NsmCurrentUtilization, NsmProcessorThrottleReason,
     NsmAccumGpuUtilTime, NsmTotalMemorySize, NsmTotalNvLinks, NsmProcessorRevision,
     NsmPowerCap, NsmMaxPowerCap, NsmMinPowerCap, NsmDefaultPowerCap,
     NsmProcessorThrottleDuration, NsmConfidentialCompute, PatchCCMode,
     PatchCCDevMode, NsmEgmMode, NsmReconfigPermissions, SetAllowPermission,
     RequestEnablePresetProfile, RequestDisablePresetProfile,
     NsmWorkLoadProfileStatus, NsmWorkloadPowerProfilePage, NsmPCIeRetimerSwitchDI,
     NsmPCIeRetimerSwitchGetClockState, NsmSwitchDIPowerMode, SetL1PowerDevice,
     NsmSwitchIsolationMode, SetSwitchIsolationMode, RevokeKeysAsyncHandler,
     NsmKeyMgmt, NsmGPMAggregated, NsmGPMPerInstance, NsmClearPCIeCounters,
     ClearPCIeErrorCounter, NsmPCIeErrors, NsmPortStatus,
     CheckPortCharactersticRCAndPopulateRuntimeErr, NsmPortCharacteristics,
     NsmPortMetrics, NsmDevicePortDisableFuture, SetDevicePortDisableFuture,
     NsmPCIeECCGroup1, NsmPCIeECCGroup2, NsmPCIeECCGroup3, NsmPCIeECCGroup4,
     NsmPCIeECCGroup8}
============================================================================

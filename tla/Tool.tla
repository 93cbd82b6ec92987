--------------------------------- MODULE Tool ---------------------------------
(***************************************************************************)
(* nsmtool: a command sends one request, decodes the answer and prints it. *)
(* It keeps nothing.                                                       *)
(***************************************************************************)
C == INSTANCE Commands
R == INSTANCE Readers

\* The command of nsmtool by this name, with one of the commands it can send.
Run(name, command) == R!Operation(name, command)

\* AggregateResponseParser prints the header of a refusal, and skips a sample it
\* cannot decode.
RunAggregate(name, command) == [Run(name, command) EXCEPT !.concludes = "rc"]

\* nsm_config_cmd.cpp
SetErrorInjectionModeV1 == {Run("SetErrorInjectionModeV1", C!SetErrorInjectionMode)}
GetErrorInjectionModeV1 == {Run("GetErrorInjectionModeV1", C!GetErrorInjectionMode)}
GetSupportedErrorInjectionTypesV1 ==
    {Run("GetSupportedErrorInjectionTypesV1", C!GetSupportedErrorInjectionTypes)}
SetCurrentErrorInjectionTypesV1 ==
    {Run("SetCurrentErrorInjectionTypesV1", C!SetCurrentErrorInjectionTypes)}
GetCurrentErrorInjectionTypesV1 ==
    {Run("GetCurrentErrorInjectionTypesV1", C!GetCurrentErrorInjectionTypes)}
EnableDisableGpuIstMode == {Run("EnableDisableGpuIstMode", C!EnableDisableGpuIstMode)}
GetFpgaDiagnosticsSettings ==
    {Run("GetFpgaDiagnosticsSettings.Wp", C!GetFpgaDiagnosticsSettingsWp),
     Run("GetFpgaDiagnosticsSettings.WpJumper", C!GetFpgaDiagnosticsSettingsWpJumper),
     Run("GetFpgaDiagnosticsSettings.PowerSupplyStatus", C!GetPowerSupplyStatus),
     Run("GetFpgaDiagnosticsSettings.GpuPresence", C!GetGpuPresence),
     Run("GetFpgaDiagnosticsSettings.GpuPowerStatus", C!GetGpuPowerStatus),
     Run("GetFpgaDiagnosticsSettings.GpuIstMode", C!GetGpuIstMode)}
GetReconfigurationPermissionsV1 ==
    {Run("GetReconfigurationPermissionsV1", C!GetReconfigurationPermissions)}
SetReconfigurationPermissionsV1 ==
    {Run("SetReconfigurationPermissionsV1", C!SetReconfigurationPermissions)}
GetConfidentialComputeModeV1 ==
    {Run("GetConfidentialComputeModeV1", C!GetConfidentialComputeMode)}
SetConfidentialComputeModeV1 ==
    {Run("SetConfidentialComputeModeV1", C!SetConfidentialComputeMode)}

\* nsm_diag_cmd.cpp
QueryTokenParameters == {Run("QueryTokenParameters", C!QueryTokenParameters)}
QueryResetStatistics ==
    {RunAggregate("QueryResetStatistics", C!GetDeviceResetStatistics)}
ProvideToken == {Run("ProvideToken", C!ProvideToken)}
DisableTokens == {Run("DisableTokens", C!DisableTokens)}
QueryTokenStatus == {Run("QueryTokenStatus", C!QueryTokenStatus)}
QueryDeviceIds == {Run("QueryDeviceIds", C!QueryDeviceIds)}
EnableDisableWriteProtected == {Run("EnableDisableWriteProtected", C!EnableDisableWp)}
ResetNetworkDevice == {Run("ResetNetworkDevice", C!ResetNetworkDevice)}
GetNetworkDeviceDebugInfo ==
    {Run("GetNetworkDeviceDebugInfo", C!GetNetworkDeviceDebugInfo)}
EraseTrace == {Run("EraseTrace", C!EraseTrace)}
GetNetworkDeviceLogInfo == {Run("GetNetworkDeviceLogInfo", C!GetNetworkDeviceLogInfo)}
EraseDebugInfo == {Run("EraseDebugInfo", C!EraseDebugInfo)}

\* nsm_discovery_cmd.cpp
Ping == {Run("Ping", C!Ping)}
GetSupportedMessageTypes ==
    {Run("GetSupportedMessageTypes", C!GetSupportedNvidiaMessageTypes)}
GetSupportedCommandCodes ==
    {Run("GetSupportedCommandCodes", C!GetSupportedCommandCodes)}
QueryDeviceIdentification ==
    {Run("QueryDeviceIdentification", C!QueryDeviceIdentification)}
GetHistogramFormat == {Run("GetHistogramFormat", C!GetHistogramFormat)}
GetHistogramData == {Run("GetHistogramData", C!GetHistogramData)}

\* nsm_firmware_cmd.cpp
GetRotInformation == {Run("GetRotInformation", C!QueryGetErotStateParameters)}
QueryCodeAuthKeyPerm == {Run("QueryCodeAuthKeyPerm", C!CodeAuthKeyPermQuery)}
UpdateCodeAuthKeyPerm == {Run("UpdateCodeAuthKeyPerm", C!CodeAuthKeyPermUpdate)}
QueryFirmwareSecurityVersion ==
    {Run("QueryFirmwareSecurityVersion", C!QueryFirmwareSecurityVersionNumber)}
UpdateMinSecurityVersion == {Run("UpdateMinSecurityVersion", C!FirmwareUpdateSecVer)}
IrreversibleConfig ==
    {Run("IrreversibleConfig.Query", C!FirmwareIrreversibleConfigQuery),
     Run("IrreversibleConfig.Disable", C!FirmwareIrreversibleConfigDisable),
     Run("IrreversibleConfig.Enable", C!FirmwareIrreversibleConfigEnable)}

\* nsm_telemetry_cmd.cpp
GetPortTelemetryCounter == {Run("GetPortTelemetryCounter", C!GetPortTelemetryCounter)}
QueryPortCharacteristics ==
    {Run("QueryPortCharacteristics", C!QueryPortCharacteristics)}
QueryPortStatus == {Run("QueryPortStatus", C!QueryPortStatus)}
QueryPortsAvailable == {Run("QueryPortsAvailable", C!QueryPortsAvailable)}
SetPortDisableFuture == {Run("SetPortDisableFuture", C!SetPortDisableFuture)}
GetFabricManagerState == {Run("GetFabricManagerState", C!GetFabricManagerState)}
GetPortDisableFuture == {Run("GetPortDisableFuture", C!GetPortDisableFuture)}
GetPowerMode == {Run("GetPowerMode", C!GetPowerMode)}
SetPowerMode == {Run("SetPowerMode", C!SetPowerMode)}
GetSwitchIsolationMode == {Run("GetSwitchIsolationMode", C!GetSwitchIsolationMode)}
SetSwitchIsolationMode == {Run("SetSwitchIsolationMode", C!SetSwitchIsolationMode)}
GetInventoryInformation ==
    {Run("GetInventoryInformation.NvU8", C!GetInventoryNvU8),
     Run("GetInventoryInformation.NvU32", C!GetInventoryNvU32),
     Run("GetInventoryInformation.Version", C!GetInventoryVersion),
     Run("GetInventoryInformation.String", C!GetInventoryString)}
GetDriverInfo == {Run("GetDriverInfo", C!GetDriverInfo)}
GetTemperatureReading ==
    {Run("GetTemperatureReading", C!GetTemperatureReading),
     RunAggregate("GetTemperatureReading.all", C!AggregateTemperature)}
ReadThermalParameter ==
    {Run("ReadThermalParameter", C!ReadThermalParameter),
     RunAggregate("ReadThermalParameter.all", C!AggregateThermalParameter)}
GetCurrentPowerDraw ==
    {Run("GetCurrentPowerDraw", C!GetCurrentPowerDraw),
     RunAggregate("GetCurrentPowerDraw.all", C!AggregatePowerDraw)}
GetMaxObservedPower ==
    {Run("GetMaxObservedPower", C!GetMaxObservedPower),
     RunAggregate("GetMaxObservedPower.all", C!AggregatePeakPower)}
GetCurrentEnergyCount ==
    {Run("GetCurrentEnergyCount", C!GetCurrentEnergyCount),
     RunAggregate("GetCurrentEnergyCount.all", C!AggregateEnergyCount)}
GetVoltage ==
    {Run("GetVoltage", C!GetVoltage),
     RunAggregate("GetVoltage.all", C!AggregateVoltage)}
GetAltitudePressure == {Run("GetAltitudePressure", C!GetAltitudePressure)}
GetMigMode == {Run("GetMigMode", C!GetMIGMode)}
SetMigMode == {Run("SetMigMode", C!SetMIGMode)}
GetEccMode == {Run("GetEccMode", C!GetECCMode)}
SetEccMode == {Run("SetEccMode", C!SetECCMode)}
GetEccErrorCounts == {Run("GetEccErrorCounts", C!GetECCErrorCounts)}
SetClockLimit == {Run("SetClockLimit", C!SetClockLimit)}
GetEDPpScalingFactors ==
    {Run("GetEDPpScalingFactors", C!GetProgrammableEDPpScalingFactor)}
SetEDPpScalingFactors ==
    {Run("SetEDPpScalingFactors", C!SetProgrammableEDPpScalingFactor)}
QueryScalarGroupTelemetry ==
    {Run("QueryScalarGroupTelemetry0", C!QueryScalarGroupTelemetryV1Group0),
     Run("QueryScalarGroupTelemetry1", C!QueryScalarGroupTelemetryV1Group1),
     Run("QueryScalarGroupTelemetry2", C!QueryScalarGroupTelemetryV1Group2),
     Run("QueryScalarGroupTelemetry3", C!QueryScalarGroupTelemetryV1Group3),
     Run("QueryScalarGroupTelemetry4", C!QueryScalarGroupTelemetryV1Group4),
     Run("QueryScalarGroupTelemetry5", C!QueryScalarGroupTelemetryV1Group5),
     Run("QueryScalarGroupTelemetry6", C!QueryScalarGroupTelemetryV1Group6),
     Run("QueryScalarGroupTelemetry8", C!QueryScalarGroupTelemetryV1Group8),
     Run("QueryScalarGroupTelemetry9", C!QueryScalarGroupTelemetryV1Group9)}
QueryAvailableAndClearableScalarGroup ==
    {Run("QueryAvailableAndClearableScalarGroup",
         C!QueryAvailableClearableScalarDataSources)}
PcieFundamentalReset == {Run("PcieFundamentalReset", C!AssertPcieFundamentalReset)}
ClearScalarDataSource == {Run("ClearScalarDataSource", C!ClearDataSource)}
GetClockLimit == {Run("GetClockLimit", C!GetClockLimit)}
GetCurrClockFreq == {Run("GetCurrClockFreq", C!GetCurrClockFreq)}
GetProcessorThrottleReason ==
    {Run("GetProcessorThrottleReason", C!GetCurrentClockEventReasonCode)}
SetPowerLimit == {Run("SetPowerLimit", C!SetPowerLimit)}
GetPowerLimit == {Run("GetPowerLimit", C!GetPowerLimit)}
GetAccumGpuUtilTime == {Run("GetAccumGpuUtilTime", C!GetAccumGPUUtilTime)}
GetRowRemapState == {Run("GetRowRemapState", C!GetRowRemapState)}
GetRowRemappingCounts == {Run("GetRowRemappingCounts", C!GetRowRemappingCounts)}
GetRowRemapAvailability == {Run("GetRowRemapAvailability", C!GetRowRemapAvailability)}
GetMemoryCapacityUtil == {Run("GetMemoryCapacityUtil", C!GetMemoryCapacityUtil)}
GetCurrentUtilization == {Run("GetCurrentUtilization", C!GetCurrentUtilization)}
GetClockOutputEnableState ==
    {Run("GetClockOutputEnableState", C!GetClockOutputEnableState)}
QueryAggregatedGPMMetrics ==
    {RunAggregate("QueryAggregatedGPMMetrics", C!QueryAggregateGpmMetrics)}
QueryPerInstanceGPMMetrics ==
    {RunAggregate("QueryPerInstanceGPMMetrics", C!QueryPerInstanceGpmMetrics)}
GetViolationDuration == {Run("GetViolationDuration", C!GetViolationDuration)}

All == UNION
    {SetErrorInjectionModeV1, GetErrorInjectionModeV1,
     GetSupportedErrorInjectionTypesV1, SetCurrentErrorInjectionTypesV1,
     GetCurrentErrorInjectionTypesV1, EnableDisableGpuIstMode,
     GetFpgaDiagnosticsSettings, GetReconfigurationPermissionsV1,
     SetReconfigurationPermissionsV1, GetConfidentialComputeModeV1,
     SetConfidentialComputeModeV1, QueryTokenParameters, QueryResetStatistics,
     ProvideToken, DisableTokens, QueryTokenStatus, QueryDeviceIds,
     EnableDisableWriteProtected, ResetNetworkDevice, GetNetworkDeviceDebugInfo,
     EraseTrace, GetNetworkDeviceLogInfo, EraseDebugInfo, Ping,
     GetSupportedMessageTypes, GetSupportedCommandCodes, QueryDeviceIdentification,
     GetHistogramFormat, GetHistogramData, GetRotInformation, QueryCodeAuthKeyPerm,
     UpdateCodeAuthKeyPerm, QueryFirmwareSecurityVersion, UpdateMinSecurityVersion,
     IrreversibleConfig, GetPortTelemetryCounter, QueryPortCharacteristics,
     QueryPortStatus, QueryPortsAvailable, SetPortDisableFuture,
     GetFabricManagerState, GetPortDisableFuture, GetPowerMode, SetPowerMode,
     GetSwitchIsolationMode, SetSwitchIsolationMode, GetInventoryInformation,
     GetDriverInfo, GetTemperatureReading, ReadThermalParameter, GetCurrentPowerDraw,
     GetMaxObservedPower, GetCurrentEnergyCount, GetVoltage, GetAltitudePressure,
     GetMigMode, SetMigMode, GetEccMode, SetEccMode, GetEccErrorCounts,
     SetClockLimit, GetEDPpScalingFactors, SetEDPpScalingFactors,
     QueryScalarGroupTelemetry, QueryAvailableAndClearableScalarGroup,
     PcieFundamentalReset, ClearScalarDataSource, GetClockLimit, GetCurrClockFreq,
     GetProcessorThrottleReason, SetPowerLimit, GetPowerLimit, GetAccumGpuUtilTime,
     GetRowRemapState, GetRowRemappingCounts, GetRowRemapAvailability,
     GetMemoryCapacityUtil, GetCurrentUtilization, GetClockOutputEnableState,
     QueryAggregatedGPMMetrics, QueryPerInstanceGPMMetrics, GetViolationDuration}
============================================================================

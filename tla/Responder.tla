------------------------------ MODULE Responder ------------------------------
(***************************************************************************)
(* The mockup responder: a device made of handlers, one for each command.  *)
(* A handler decodes the request, and does not answer one it cannot decode;*)
(* it answers with as many bytes as its buffer has.                        *)
(*                                                                         *)
(*   command   the command it serves                                       *)
(*   takes     lengths of a request it answers                             *)
(*   kind      "ok", "refused", or "accepted": the result follows in an    *)
(*             event                                                       *)
(*   sent      bytes it sends                                              *)
(*   whole     these hold all that its encoder wrote                       *)
(***************************************************************************)
EXTENDS Integers

C == INSTANCE Commands

Filled(command, sent, encoded) ==
    [command |-> command, takes |-> command.takes, kind |-> "ok", sent |-> sent,
     whole |-> sent >= encoded]
Serve(command, sent) == Filled(command, sent, command.answers)
\* Answers whatever the length of the request.
ServeUnchecked(command, sent) == [Serve(command, sent) EXCEPT !.takes = C!Unchecked]
\* The answer grows by each sample.
Append(command) == Serve(command, command.answers)
AppendUnchecked(command) == ServeUnchecked(command, command.answers)
\* processRxMsg has these run as long-running commands.
Accept(command) == [Serve(command, C!PaddedRefusal) EXCEPT !.kind = "accepted"]
\* A refusal of these handlers fills the buffer of the answer.
Refuse(command, sent) == [Serve(command, sent) EXCEPT !.kind = "refused", !.whole = TRUE]

\* debugToken.cpp
QueryTokenParametersHandler == {Serve(C!QueryTokenParameters, 151)}
ProvideTokenHandler == {Serve(C!ProvideToken, 11)}
DisableTokensHandler == {Serve(C!DisableTokens, 11)}
QueryTokenStatusHandler == {Serve(C!QueryTokenStatus, 19)}
QueryDeviceIdsHandler == {Serve(C!QueryDeviceIds, 19)}

\* firmwareUtils.cpp
GetRotInformationHandler == {Serve(C!QueryGetErotStateParameters, 255)}
IrreversibleConfigHandler == {Serve(C!FirmwareIrreversibleConfigQuery, 255),
     Serve(C!FirmwareIrreversibleConfigDisable, 255),
     Serve(C!FirmwareIrreversibleConfigEnable, 255)}
CodeAuthKeyPermQueryHandler == {Filled(C!CodeAuthKeyPermQuery, sent, sent) :
        sent \in {16 + 4 * bytes : bytes \in 1 .. 4}}
CodeAuthKeyPermUpdateHandler ==
    {Serve(C!CodeAuthKeyPermUpdate, 15), Refuse(C!CodeAuthKeyPermUpdate, 15)}
QueryFirmwareSecurityVersionHandler == {Serve(C!QueryFirmwareSecurityVersionNumber, 19)}
UpdateMinSecurityVersionHandler ==
    {Serve(C!FirmwareUpdateSecVer, 23), Refuse(C!FirmwareUpdateSecVer, 23)}

\* mockupResponder.cpp
PingHandler == {Serve(C!Ping, 11)}
GetSupportNvidiaMessageTypesHandler == {Serve(C!GetSupportedNvidiaMessageTypes, 43)}
GetSupportCommandCodeHandler == {Serve(C!GetSupportedCommandCodes, 43)}
GetPortTelemetryCounterHandler == {Serve(C!GetPortTelemetryCounter, 271)}
QueryPortCharacteristicsHandler == {Serve(C!QueryPortCharacteristics, 27)}
QueryPortStatusHandler == {Serve(C!QueryPortStatus, 13)}
GetFabricManagerStateHandler == {Serve(C!GetFabricManagerState, 29)}
QueryPortsAvailableHandler == {Serve(C!QueryPortsAvailable, 12)}
SetPortDisableFutureHandler == {Serve(C!SetPortDisableFuture, 11)}
GetPortDisableFutureHandler == {Serve(C!GetPortDisableFuture, 43)}
GetPowerModeHandler == {Serve(C!GetPowerMode, 24)}
SetPowerModeHandler == {Serve(C!SetPowerMode, 11)}
GetSwitchIsolationModeHandler == {Serve(C!GetSwitchIsolationMode, 12)}
SetSwitchIsolationModeHandler == {Serve(C!SetSwitchIsolationMode, 11)}
Properties ==
    {C!GetInventoryNvU8, C!GetInventoryNvU32, C!GetInventoryVersion, C!GetInventoryString}
\* A property the mockup does not know is empty.
GetInventoryInformationHandler ==
    {Serve(property, property.answers) : property \in Properties}
        \cup {Serve(property, C!CommonResponse) : property \in Properties}
QueryDeviceIdentificationHandler == {Serve(C!QueryDeviceIdentification, 13)}
GetTemperatureReadingHandler == {ServeUnchecked(C!GetTemperatureReading, 15),
     AppendUnchecked(C!AggregateTemperature)}
ReadThermalParameterHandler == {ServeUnchecked(C!ReadThermalParameter, 15),
     AppendUnchecked(C!AggregateThermalParameter)}
GetCurrentPowerDrawHandler == {ServeUnchecked(C!GetCurrentPowerDraw, 15),
     AppendUnchecked(C!AggregatePowerDraw)}
GetMaxObservedPowerHandler == {ServeUnchecked(C!GetMaxObservedPower, 15),
     AppendUnchecked(C!AggregatePeakPower)}
GetDriverInfoHandler == {Serve(C!GetDriverInfo, 36)}
GetMigModeHandler == {Accept(C!GetMIGMode)}
SetMigModeHandler == {Accept(C!SetMIGMode)}
GetEccModeHandler == {Accept(C!GetECCMode)}
SetEccModeHandler == {Accept(C!SetECCMode)}
GetEccErrorCountsHandler == {Serve(C!GetECCErrorCounts, 33)}
SetEventSubscriptionHandler == {Serve(C!SetEventSubscription, 11)}
SetCurrentEventSourcesHandler == {Serve(C!SetCurrentEventSources, 11)}
ConfigureEventAcknowledgementHandler == {Serve(C!ConfigureEventAcknowledgement, 19)}
GetPowerSmoothingFeatureInfoHandler == {Serve(C!GetPowersmoothingFeatinfo, 27)}
GetHwCircuiteryUsageHandler == {Serve(C!GetHardwareLifetimeCricuitry, 15)}
GetCurrentProfileInfoHandler == {Serve(C!GetCurrentProfileInfo, 27)}
GetQueryAdminOverrideHandler == {Serve(C!QueryAdminOverride, 27)}
SetActivePresetProfileHandler == {Serve(C!SetActivePresetProfile, 11)}
SetupAdminOverrideHandler == {Serve(C!SetupAdminOverride, 11)}
ApplyAdminOverrideHandler == {Serve(C!ApplyAdminOverride, 11)}
ToggleImmediateRampDownHandler == {Serve(C!ToggleImmediateRampdown, 11)}
ToggleFeatureStateHandler == {Serve(C!ToggleFeatureState, 11)}
GetPresetProfileInfoHandler == {Serve(C!GetPresetProfile, 79)}
UpdatePresetProfileParamsHandler == {Serve(C!UpdatePresetProfileParam, 11)}
EnableWorkloadPowerProfileHandler == {Serve(C!EnableWorkloadPowerProfile, 11)}
DisableWorkloadPowerProfileHandler == {Serve(C!DisableWorkloadPowerProfile, 11)}
GetWorkLoadProfileStatusInfoHandler == {Serve(C!GetWorkloadPowerProfileStatus, 107)}
GetWorkloadPowerProfileInfoHandler == {Serve(C!GetWorkloadPowerProfileInfo, 195)}
GetCurrentEnergyCountHandler == {ServeUnchecked(C!GetCurrentEnergyCount, 19),
     AppendUnchecked(C!AggregateEnergyCount)}
GetVoltageHandler == {ServeUnchecked(C!GetVoltage, 15),
     AppendUnchecked(C!AggregateVoltage)}
GetAltitudePressureHandler == {Serve(C!GetAltitudePressure, 15)}
QueryScalarGroupTelemetryHandler == {Serve(C!QueryScalarGroupTelemetryV1Group0, 27),
     Serve(C!QueryScalarGroupTelemetryV1Group1, 31),
     Serve(C!QueryScalarGroupTelemetryV1Group2, 27),
     Serve(C!QueryScalarGroupTelemetryV1Group3, 15),
     Serve(C!QueryScalarGroupTelemetryV1Group4, 39),
     Serve(C!QueryScalarGroupTelemetryV1Group5, 19),
     Serve(C!QueryScalarGroupTelemetryV1Group6, 19),
     Serve(C!QueryScalarGroupTelemetryV1Group8, 75),
     Serve(C!QueryScalarGroupTelemetryV1Group9, 19)}
QueryAvailableAndClearableScalarGroupHandler ==
    {Serve(C!QueryAvailableClearableScalarDataSources, 15)}
PcieFundamentalResetHandler == {Serve(C!AssertPcieFundamentalReset, 11)}
ClearScalarDataSourceHandler == {Serve(C!ClearDataSource, 11)}
GetEDPpScalingFactorHandler == {Serve(C!GetProgrammableEDPpScalingFactor, 14)}
SetEDPpScalingFactorHandler == {Serve(C!SetProgrammableEDPpScalingFactor, 11)}
GetClockLimitHandler == {Serve(C!GetClockLimit, 27)}
SetClockLimitHandler == {Serve(C!SetClockLimit, 11)}
GetCurrClockFreqHandler == {Serve(C!GetCurrClockFreq, 15)}
GetProcessorThrottleReasonHandler == {Serve(C!GetCurrentClockEventReasonCode, 15)}
GetPowerLimitHandler == {Serve(C!GetPowerLimit, 23)}
SetPowerLimitHandler == {Serve(C!SetPowerLimit, 11)}
GetAccumCpuUtilTimeHandler == {Serve(C!GetAccumGPUUtilTime, 19)}
GetCurrentUtilizationHandler == {Accept(C!GetCurrentUtilization)}
GetRowRemapStateHandler == {Serve(C!GetRowRemapState, 12)}
GetRowRemappingCountsHandler == {Serve(C!GetRowRemappingCounts, 19)}
GetRowRemapAvailabilityHandler == {Serve(C!GetRowRemapAvailability, 21)}
GetMemoryCapacityUtilHandler == {Accept(C!GetMemoryCapacityUtil)}
GetClockOutputEnableStateHandler == {Serve(C!GetClockOutputEnableState, 15)}
GetFpgaDiagnosticsSettingsHandler == {Serve(C!GetFpgaDiagnosticsSettingsWp, 19),
     Serve(C!GetFpgaDiagnosticsSettingsWpJumper, 12),
     Serve(C!GetPowerSupplyStatus, 12), Serve(C!GetGpuPresence, 12),
     Serve(C!GetGpuPowerStatus, 12), Serve(C!GetGpuIstMode, 12)}
EnableDisableWriteProtectedHandler == {Serve(C!EnableDisableWp, 11)}
GetNetworkDeviceDebugInfoHandler == {Serve(C!GetNetworkDeviceDebugInfo, 59)}
EraseTraceHandler == {Serve(C!EraseTrace, 12)}
GetNetworkDeviceLogInfoHandler == {Serve(C!GetNetworkDeviceLogInfo, 75)}
EraseDebugInfoHandler == {Serve(C!EraseDebugInfo, 13)}
QueryAggregatedResetMetricsHandler == {Append(C!GetDeviceResetStatistics)}
QueryAggregatedGPMMetricsHandler == {Append(C!QueryAggregateGpmMetrics)}
QueryPerInstanceGPMMetricsHandler == {AppendUnchecked(C!QueryPerInstanceGpmMetrics),
     [Refuse(C!QueryPerInstanceGpmMetrics, 9) EXCEPT !.takes = C!Unchecked]}
EnableDisableGpuIstModeHandler == {Serve(C!EnableDisableGpuIstMode, 11)}
GetReconfigurationPermissionsV1Handler == {Serve(C!GetReconfigurationPermissions, 12)}
SetReconfigurationPermissionsV1Handler == {Serve(C!SetReconfigurationPermissions, 11)}
GetConfidentialComputeModeHandler == {Serve(C!GetConfidentialComputeMode, 13)}
SetConfidentialComputeModeHandler == {Serve(C!SetConfidentialComputeMode, 11)}
SetErrorInjectionModeV1Handler == {Serve(C!SetErrorInjectionMode, 11)}
GetErrorInjectionModeV1Handler == {Serve(C!GetErrorInjectionMode, 16)}
GetSupportedErrorInjectionTypesV1Handler ==
    {Serve(C!GetSupportedErrorInjectionTypes, 19)}
SetCurrentErrorInjectionTypesV1Handler ==
    {Serve(C!SetCurrentErrorInjectionTypes, 11), Refuse(C!SetCurrentErrorInjectionTypes, 9)}
GetCurrentErrorInjectionTypesV1Handler == {Serve(C!GetCurrentErrorInjectionTypes, 19)}
GetViolationDurationHandler == {Accept(C!GetViolationDuration)}
ResetNetworkDeviceHandler == {Serve(C!ResetNetworkDevice, 11)}
GetHistogramFormatHandler == {Serve(C!GetHistogramFormat, 51)}
GetHistogramDataHandler == {Serve(C!GetHistogramData, 37)}

Handlers == UNION
    {QueryTokenParametersHandler, ProvideTokenHandler, DisableTokensHandler,
     QueryTokenStatusHandler, QueryDeviceIdsHandler, GetRotInformationHandler,
     IrreversibleConfigHandler, CodeAuthKeyPermQueryHandler,
     CodeAuthKeyPermUpdateHandler, QueryFirmwareSecurityVersionHandler,
     UpdateMinSecurityVersionHandler, PingHandler,
     GetSupportNvidiaMessageTypesHandler, GetSupportCommandCodeHandler,
     GetPortTelemetryCounterHandler, QueryPortCharacteristicsHandler,
     QueryPortStatusHandler, GetFabricManagerStateHandler,
     QueryPortsAvailableHandler, SetPortDisableFutureHandler,
     GetPortDisableFutureHandler, GetPowerModeHandler, SetPowerModeHandler,
     GetSwitchIsolationModeHandler, SetSwitchIsolationModeHandler,
     GetInventoryInformationHandler, QueryDeviceIdentificationHandler,
     GetTemperatureReadingHandler, ReadThermalParameterHandler,
     GetCurrentPowerDrawHandler, GetMaxObservedPowerHandler, GetDriverInfoHandler,
     GetMigModeHandler, SetMigModeHandler, GetEccModeHandler, SetEccModeHandler,
     GetEccErrorCountsHandler, SetEventSubscriptionHandler,
     SetCurrentEventSourcesHandler, ConfigureEventAcknowledgementHandler,
     GetPowerSmoothingFeatureInfoHandler, GetHwCircuiteryUsageHandler,
     GetCurrentProfileInfoHandler, GetQueryAdminOverrideHandler,
     SetActivePresetProfileHandler, SetupAdminOverrideHandler,
     ApplyAdminOverrideHandler, ToggleImmediateRampDownHandler,
     ToggleFeatureStateHandler, GetPresetProfileInfoHandler,
     UpdatePresetProfileParamsHandler, EnableWorkloadPowerProfileHandler,
     DisableWorkloadPowerProfileHandler, GetWorkLoadProfileStatusInfoHandler,
     GetWorkloadPowerProfileInfoHandler, GetCurrentEnergyCountHandler,
     GetVoltageHandler, GetAltitudePressureHandler, QueryScalarGroupTelemetryHandler,
     QueryAvailableAndClearableScalarGroupHandler, PcieFundamentalResetHandler,
     ClearScalarDataSourceHandler, GetEDPpScalingFactorHandler,
     SetEDPpScalingFactorHandler, GetClockLimitHandler, SetClockLimitHandler,
     GetCurrClockFreqHandler, GetProcessorThrottleReasonHandler,
     GetPowerLimitHandler, SetPowerLimitHandler, GetAccumCpuUtilTimeHandler,
     GetCurrentUtilizationHandler, GetRowRemapStateHandler,
     GetRowRemappingCountsHandler, GetRowRemapAvailabilityHandler,
     GetMemoryCapacityUtilHandler, GetClockOutputEnableStateHandler,
     GetFpgaDiagnosticsSettingsHandler, EnableDisableWriteProtectedHandler,
     GetNetworkDeviceDebugInfoHandler, EraseTraceHandler,
     GetNetworkDeviceLogInfoHandler, EraseDebugInfoHandler,
     QueryAggregatedResetMetricsHandler, QueryAggregatedGPMMetricsHandler,
     QueryPerInstanceGPMMetricsHandler, EnableDisableGpuIstModeHandler,
     GetReconfigurationPermissionsV1Handler, SetReconfigurationPermissionsV1Handler,
     GetConfidentialComputeModeHandler, SetConfidentialComputeModeHandler,
     SetErrorInjectionModeV1Handler, GetErrorInjectionModeV1Handler,
     GetSupportedErrorInjectionTypesV1Handler,
     SetCurrentErrorInjectionTypesV1Handler, GetCurrentErrorInjectionTypesV1Handler,
     GetViolationDurationHandler, ResetNetworkDeviceHandler,
     GetHistogramFormatHandler, GetHistogramDataHandler}

Served(command) == {h \in Handlers : h.command = command}
Unserved(command) ==
    ~ \E h \in Handlers : h.command.type = command.type /\ h.command.code = command.code
============================================================================

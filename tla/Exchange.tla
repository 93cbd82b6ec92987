------------------------------- MODULE Exchange -------------------------------
(***************************************************************************)
(* One exchange after the other between a client of the device, an object  *)
(* of nsmd or a command of nsmtool, and the device or the mockup that      *)
(* stands for it.  An answer may be complete, cut short, longer than it    *)
(* need be, one of two forms of refusal, or lost.  The modules it uses say *)
(* what each codec, client and handler does; what they make of each other  *)
(* is found here.                                                          *)
(***************************************************************************)
EXTENDS Integers, FiniteSetsExt

C == INSTANCE Commands
Nsmd == INSTANCE Readers
Nsmtool == INSTANCE Tool
Mockup == INSTANCE Responder

Clients == [nsmd |-> Nsmd!All, nsmtool |-> Nsmtool!All]

VARIABLES
    program,    \* "nsmd" or "nsmtool"
    client,     \* the one of its objects or commands that asks
    at,         \* "idle", "asked" or "done"
    answer,     \* to the last request
    outcome,    \* what the client concluded from it
    value       \* what the client holds

vars == <<program, client, at, answer, outcome, value>>

Values == {"none", "current", "stale", "partial", "cleared"}

----------------------------------------------------------------------------
(* Answers *)

Answer(from, kind, length, whole) ==
    [from |-> from, kind |-> kind, length |-> length, whole |-> whole]

\* The shortest part of an answer that a decoder lets through has at least a
\* completion code.
Shortest(command) == Max({C!CommonResponse, Min(command.accepts)})
CutShort(command) ==
    {n \in {Shortest(command), command.answers - 1} : n < command.answers}

DeviceAnswers(command) ==
    {Answer("device", "ok", command.answers, TRUE),
     Answer("device", "ok", command.answers + 1, TRUE)}
        \cup {Answer("device", "ok", n, FALSE) : n \in CutShort(command)}
        \cup {Answer("device", "refused", n, TRUE) : n \in {C!ShortRefusal, C!PaddedRefusal}}

\* The mockup does not answer a request its handler cannot decode.
Reply(command, handler) ==
    IF command.sends \in handler.takes
    THEN Answer("mockup", handler.kind, handler.sent, handler.whole)
    ELSE Answer("mockup", "lost", 0, FALSE)
MockupAnswers(command) ==
    IF Mockup!Unserved(command)
    THEN {Answer("mockup", "refused", C!PaddedRefusal, TRUE)}
    ELSE {Reply(command, handler) : handler \in Mockup!Served(command)}

Lost == Answer("nobody", "lost", 0, FALSE)

Answers(command) == {Lost} \cup DeviceAnswers(command) \cup MockupAnswers(command)

----------------------------------------------------------------------------
(* What the decoder says: rc, whether it succeeded, and cc, the completion *)
(* code it has left in a variable that starts as success.                  *)

Understands(command, length) ==
    CASE command.refusal = "reason" -> length = C!ShortRefusal
      [] command.refusal = "full" -> length \in command.accepts
      [] command.refusal = "any" -> TRUE
      [] command.refusal = "never" -> FALSE
Decodes(command, a) ==
    CASE a.kind = "ok" -> a.length \in command.accepts
      [] a.kind = "accepted" -> TRUE
      [] a.kind = "refused" -> Understands(command, a.length)

\* GetDriverInfo's decoder looks for the end of the string where the header says
\* it is: if the answer was cut short, at whatever lies behind it.
LooksBehind(command, a) == command = C!GetDriverInfo /\ a.kind = "ok" /\ ~a.whole

\* A client that compares the header's size of the payload with its value's; an
\* answer that was cut short keeps its header.
SizeFits(c, a) == c.compares /\ a.kind = "ok" => a.length <= c.command.answers

\* Whether client c can take answer a; "end": what lies behind it ends a string.
Takes(c, a, end) ==
    /\ Decodes(c.command, a)
    /\ LooksBehind(c.command, a) => end
    /\ SizeFits(c, a)

\* A length that is checked first hides the completion code.
SeesRefusal(command, a) ==
    /\ a.kind # "ok"
    /\ command.refusal = "full" => a.length \in command.accepts

\* Any completion code counts.
SucceedsIfDecoded(concludes, rc, refused) == concludes = "always" \/ rc

Succeeds(concludes, rc, refused) ==
    CASE concludes = "either" -> rc /\ ~refused
      [] concludes = "rc" -> rc
      [] concludes = "cc" -> ~refused
      [] concludes = "always" -> TRUE

\* The value when the answer is not taken.
Left(how) ==
    CASE how = "kept" -> value
      [] how = "cleared" -> "cleared"
      [] how = "fresh" -> "none"

----------------------------------------------------------------------------

Idle ==
    /\ at = "idle"
    /\ answer = Lost
    /\ outcome = "failure"
    /\ value = "none"

Init == program \in DOMAIN Clients /\ client \in Clients[program] /\ Idle

\* A request, and the answer on its way.  By now the device has moved on from
\* what the client holds.
Ask(a) ==
    /\ at # "asked"
    /\ at' = "asked"
    /\ answer' = a
    /\ value' = IF client.onError = "fresh" THEN "none"
                ELSE IF value \in {"none", "cleared"} THEN value ELSE "stale"
    /\ UNCHANGED <<program, client, outcome>>

\* Nothing came: update returns before the decoder and the value stays.
GiveUp ==
    /\ at = "asked"
    /\ answer.kind = "lost"
    /\ at' = "done"
    /\ outcome' = "failure"
    /\ UNCHANGED <<program, client, answer, value>>

HandleResponseMsg == \E end \in BOOLEAN :
    LET rc == Takes(client, answer, end)
        refused == SeesRefusal(client.command, answer)
    IN  /\ at = "asked"
        /\ answer.kind # "lost"
        /\ at' = "done"
        /\ outcome' = IF Succeeds(client.concludes, rc, refused) THEN "success" ELSE "failure"
        /\ value' = CASE rc /\ ~refused -> IF answer.whole THEN "current" ELSE "partial"
                      [] rc /\ refused -> Left(client.onRefusal)
                      [] ~rc -> Left(client.onError)
        /\ UNCHANGED <<program, client, answer>>

Next == (\E a \in Answers(client.command) : Ask(a)) \/ GiveUp \/ HandleResponseMsg

Spec == Init /\ [][Next]_vars

----------------------------------------------------------------------------

TypeOK ==
    /\ program \in DOMAIN Clients
    /\ client \in Clients[program]
    /\ at \in {"idle", "asked", "done"}
    /\ answer = Lost \/ answer \in Answers(client.command)
    /\ outcome \in {"success", "failure"}
    /\ value \in Values

Inventory ==
    {C!GetInventoryNvU8, C!GetInventoryNvU32, C!GetInventoryVersion, C!GetInventoryString}

\* Where the mockup is not what libnsm's codecs expect.  Its handler of a token
\* decodes only a request with the longest token; two of its buffers leave no
\* room for the header of the payload; it answers for an inventory property it
\* does not have with an empty one.
MockupFallsShort(command, a) ==
    /\ a.from = "mockup"
    /\ \/ command = C!ProvideToken
       \/ /\ command \in {C!GetHistogramData, C!GetNetworkDeviceLogInfo} \cup Inventory
          /\ ~a.whole

(* What one side of libnsm writes the other side reads: a request encoded  *)
(* for a device and its whole answer end in success and leave the answer's *)
(* value with the client, whichever object of nsmd or command of nsmtool   *)
(* asked, and whether libnsm's own encoder or the mockup's handler wrote   *)
(* the answer.                                                             *)
CleanExchangeSucceeds ==
    LET command == client.command
    IN  (/\ at = "done"
         /\ \/ answer.from = "device" /\ answer.kind = "ok" /\ answer.length = command.answers
            \/ answer.from = "mockup" /\ answer.kind \notin {"refused", "accepted"}
         /\ ~MockupFallsShort(command, answer))
        => outcome = "success" /\ value = "current"

\* These return the decoder's result, which is a success for a refusal.
ReturnsRc == [
    nsmd |-> {"NsmDebugTokenObject", "NsmGpuPowerStatus", "NsmGpuPresence", "NsmKeyMgmt",
              "NsmMinSecVersionObject", "NsmPCIeSlot", "NsmPowerSupplyStatus",
              "NsmSecurityCfgObject"},
    nsmtool |-> {}]

\* These return a completion code that starts as success, or no result at all.
IgnoresRc == [
    nsmd |-> {"SetCurrentEventSources", "ConfigureEventAcknowledgement", "EventSubscription",
              "CheckPortCharactersticRCAndPopulateRuntimeErr"},
    nsmtool |-> {}]

\* The decoders of libnsm that ask for fewer bytes than they read: for a first
\* element, for the part of fixed size, for the header of the answer alone, or
\* for less than that.  The rest of the value is what lies behind the answer.
\* There are no others (Sound in Exchange_proofs).
AsksForLess ==
    (Inventory \ {C!GetInventoryNvU8}) \cup {
    C!GetHistogramFormat, C!GetHistogramData, C!GetFpgaDiagnosticsSettingsWp,
    C!GetNetworkDeviceDebugInfo, C!GetNetworkDeviceLogInfo,
    C!FirmwareIrreversibleConfigQuery, C!FirmwareIrreversibleConfigDisable,
    C!FirmwareIrreversibleConfigEnable, C!FirmwareUpdateSecVer,
    C!GetPortTelemetryCounter, C!QueryAvailableClearableScalarDataSources,
    C!QueryScalarGroupTelemetryV1Group0, C!QueryScalarGroupTelemetryV1Group1,
    C!QueryScalarGroupTelemetryV1Group2, C!QueryScalarGroupTelemetryV1Group3,
    C!QueryScalarGroupTelemetryV1Group4, C!QueryScalarGroupTelemetryV1Group5,
    C!QueryScalarGroupTelemetryV1Group6, C!QueryScalarGroupTelemetryV1Group8,
    C!QueryScalarGroupTelemetryV1Group9, C!GetDriverInfo, C!GetPresetProfile,
    C!GetWorkloadPowerProfileInfo}

\* Their decoders take the samples that are there.
TakesWhatIsThere(command) ==
    command.refusal = "any" \/ command = C!QueryGetErotStateParameters

(* A client that reports success has the value of the last answer, whole:  *)
(* a refusal, a truncated or an overlong answer is never reported as       *)
(* success with an old, an empty or a partial value, unless one of these   *)
(* holds, and in each the code does report such a success: the client      *)
(* ignores the decoder's result, or returns it for a refusal; the decoder  *)
(* takes what samples there are; the answer was cut short and its decoder  *)
(* asks for less than it reads; the mockup cut it off.                     *)
SuccessMeansCurrent ==
    LET command == client.command
    IN  (/\ at = "done"
         /\ outcome = "success"
         /\ client.name \notin IgnoresRc[program]
         /\ ~TakesWhatIsThere(command)
         /\ answer.kind = "refused" => client.name \notin ReturnsRc[program]
         /\ ~answer.whole => command \notin AsksForLess
         /\ ~MockupFallsShort(command, answer))
        => value = "current"
=============================================================================

----------------------------- MODULE Workbench -----------------------------
(***************************************************************************)
(* The browser's workbench: the React hook useToolWorkbench, the page that *)
(* enables and disables its buttons, and the map of loaded WASM sessions   *)
(* kept by the runtime adapter.                                            *)
(*                                                                         *)
(* Two things are concurrent here.  The answers of the network and of      *)
(* WebAssembly.instantiate arrive between any two clicks.  And React       *)
(* renders late: a handler that runs after an await only queues its        *)
(* setState calls, and until the scheduler renders them the user clicks on *)
(* the previous page, whose handlers closed over the previous state.  The  *)
(* variables named after the hook's useState are the state with every      *)
(* queued update applied; "view" is what the page on the screen closed     *)
(* over.  The updates of a click are rendered before the next event.       *)
(***************************************************************************)
EXTENDS Naturals, Sequences, FiniteSets

CONSTANTS Tools,        \* identifiers a catalog may list
          Catalogs,     \* the answers listTools may give
          Inputs,       \* texts the user may type
          EmptyText,    \* the initial text, ''
          Null,         \* null, and '' for the output
          NumMounts,    \* runs of the effect: 2 under StrictMode in dev
          MaxAttempts   \* bound on the number of configure clicks

VARIABLES tools, selectedToolId, configuredTool, toolStatus,
          isCatalogLoading, isConfiguring, isSubmitting,
          errorMessage, inputValue, outputValue,
          view,          \* what the committed page closed over
          pendingLoads,  \* runs of the catalog effect still waiting
          flights,       \* configure handlers suspended at an await
          attempts,      \* configure handlers started so far
          sessions,      \* keys of the runtime adapter's WeakMap
          run            \* the submit handler suspended at its await

catalogVars == <<tools, isCatalogLoading, pendingLoads>>
configureVars == <<isConfiguring, flights, attempts, sessions>>
submitVars == <<isSubmitting, run>>
vars == <<tools, selectedToolId, configuredTool, toolStatus,
          isCatalogLoading, isConfiguring, isSubmitting, errorMessage,
          inputValue, outputValue, view, pendingLoads, flights, attempts,
          sessions, run>>

-----------------------------------------------------------------------------
Statuses == {"idle", "loading", "ready", "configured", "failed"}
Phases == {"preparing", "instantiating"}

\* A configuration object; its identity is the attempt that built it.
Configurations == [attempt : 1..MaxAttempts, toolId : Tools,
                   isConfigured : BOOLEAN]
Flights == [attempt : 1..MaxAttempts, toolId : Tools, phase : Phases]
\* What one click on Run works on: the request and the configuration.
Runs == [toolId : Tools, inputText : Inputs, configuration : Configurations]
Errors == [cause : {"catalog", "prepare", "execute"},
           toolId : Tools \cup {Null}]
Views == [tools : Catalogs \cup {<<>>},
          selectedToolId : Tools \cup {Null},
          configuredTool : Configurations \cup {Null},
          isCatalogLoading : BOOLEAN,
          isConfiguring : BOOLEAN,
          isSubmitting : BOOLEAN]

ASSUME WorkbenchAssumption ==
    /\ Catalogs \subseteq Seq(Tools)
    /\ EmptyText \in Inputs
    /\ NumMounts \in Nat \ {0}
    /\ MaxAttempts \in Nat
    /\ Null \notin Tools \cup Configurations \cup Runs \cup Errors
    /\ Null \notin [choice : Tools, tool : Tools, text : Inputs]

-----------------------------------------------------------------------------
Init ==
    /\ tools = <<>>
    /\ selectedToolId = Null
    /\ configuredTool = Null
    /\ toolStatus = "idle"
    /\ isCatalogLoading = TRUE
    /\ isConfiguring = FALSE
    /\ isSubmitting = FALSE
    /\ errorMessage = Null
    /\ inputValue = EmptyText
    /\ outputValue = Null
    /\ view = [tools |-> <<>>, selectedToolId |-> Null,
               configuredTool |-> Null, isCatalogLoading |-> TRUE,
               isConfiguring |-> FALSE, isSubmitting |-> FALSE]
    /\ pendingLoads = 1..NumMounts
    /\ flights = {}
    /\ attempts = 0
    /\ sessions = {}
    /\ run = Null

\* execute has no await: once a click on Run is handled, its continuation is
\* already queued as a microtask and no event or answer comes before it.
EventLoopIdle == run = Null

-----------------------------------------------------------------------------
(* The catalog effect.  Every run of the effect but the last was cleaned    *)
(* up, which clears its isActive flag.                                      *)

\* Fault: the cleanup does not clear isActive.
IsActiveWithoutCleanup(mount) == mount \in 1..NumMounts

IsActive(mount) == mount = NumMounts

\* setSelectedToolId((current) => current ?? fetchedTools[0]?.toolId ?? null)
InitialSelection(current, fetched) ==
    IF current # Null THEN current
    ELSE IF fetched # <<>> THEN fetched[1] ELSE Null

CatalogLoaded(mount) ==
    /\ EventLoopIdle
    /\ mount \in pendingLoads
    /\ IsActive(mount)
    /\ \E fetched \in Catalogs :
          /\ tools' = fetched
          /\ selectedToolId' = InitialSelection(selectedToolId, fetched)
    /\ toolStatus' = "ready"
    /\ isCatalogLoading' = FALSE
    /\ pendingLoads' = pendingLoads \ {mount}
    /\ UNCHANGED <<configuredTool, errorMessage, inputValue, outputValue,
                   view, configureVars, submitVars>>

CatalogFailed(mount) ==
    /\ EventLoopIdle
    /\ mount \in pendingLoads
    /\ IsActive(mount)
    /\ toolStatus' = "failed"
    /\ errorMessage' = [cause |-> "catalog", toolId |-> Null]
    /\ isCatalogLoading' = FALSE
    /\ pendingLoads' = pendingLoads \ {mount}
    /\ UNCHANGED <<tools, selectedToolId, configuredTool, inputValue,
                   outputValue, view, configureVars, submitVars>>

\* The answer to a run of the effect that was cleaned up changes nothing.
CatalogIgnored(mount) ==
    /\ EventLoopIdle
    /\ mount \in pendingLoads
    /\ ~IsActive(mount)
    /\ pendingLoads' = pendingLoads \ {mount}
    /\ UNCHANGED <<tools, isCatalogLoading, selectedToolId, configuredTool,
                   toolStatus, errorMessage, inputValue, outputValue, view,
                   configureVars, submitVars>>

-----------------------------------------------------------------------------
(* What the page lets the user do, decided by the page on the screen.       *)

Listed(toolId) == \E i \in DOMAIN view.tools : view.tools[i] = toolId

\* Faults: the button forgets one of its conditions.
ConfigureEnabledWhileConfiguring ==
    ~view.isCatalogLoading /\ view.selectedToolId # Null

ConfigureEnabledWithoutSelection ==
    ~view.isCatalogLoading /\ ~view.isConfiguring

ConfigureEnabled ==
    /\ ~view.isCatalogLoading
    /\ ~view.isConfiguring
    /\ view.selectedToolId # Null

IsConfigured(configuration) ==
    configuration # Null /\ configuration.isConfigured

SubmitEnabled == IsConfigured(view.configuredTool) /\ ~view.isSubmitting

-----------------------------------------------------------------------------
\* Faults: selecting forgets to clear the result, or the configuration.
ForgetConfigurationOnly ==
    configuredTool' = Null /\ UNCHANGED <<outputValue, errorMessage>>

ForgetResultOnly ==
    outputValue' = Null /\ errorMessage' = Null /\ UNCHANGED configuredTool

ForgetPreviousTool ==
    configuredTool' = Null /\ outputValue' = Null /\ errorMessage' = Null

\* No button of the list is ever disabled: a tool can be selected while the
\* configuration of another is in flight, and that flight goes on.
SelectTool(toolId) ==
    /\ EventLoopIdle
    /\ Listed(toolId)
    /\ selectedToolId' = toolId
    /\ ForgetPreviousTool
    /\ toolStatus' = "ready"
    /\ view' = [view EXCEPT !.selectedToolId = toolId,
                            !.configuredTool = Null]
    /\ UNCHANGED <<inputValue, catalogVars, configureVars, submitVars>>

\* configureSelectedTool up to its first await.
ConfigureSelectedTool ==
    /\ EventLoopIdle
    /\ ConfigureEnabled
    /\ attempts < MaxAttempts
    /\ attempts' = attempts + 1
    /\ flights' = flights \cup {[attempt |-> attempts + 1,
                                 toolId |-> view.selectedToolId,
                                 phase |-> "preparing"]}
    /\ isConfiguring' = TRUE
    /\ errorMessage' = Null
    /\ toolStatus' = "loading"
    /\ view' = [view EXCEPT !.isConfiguring = TRUE]
    /\ UNCHANGED <<selectedToolId, configuredTool, inputValue, outputValue,
                   sessions, catalogVars, submitVars>>

\* prepareTool answered with a ready package; loadToolPackage is awaited.
PackageReceived(flight) ==
    /\ EventLoopIdle
    /\ flight.phase = "preparing"
    /\ flights' = (flights \ {flight})
                     \cup {[flight EXCEPT !.phase = "instantiating"]}
    /\ UNCHANGED <<selectedToolId, configuredTool, toolStatus, isConfiguring,
                   errorMessage, inputValue, outputValue, view, attempts,
                   sessions, catalogVars, submitVars>>

\* nextConfiguration, and the copy of it that loadToolPackage returns.
NextConfiguration(flight) ==
    [attempt |-> flight.attempt, toolId |-> flight.toolId,
     isConfigured |-> FALSE]

LoadedConfiguration(flight) ==
    [NextConfiguration(flight) EXCEPT !.isConfigured = TRUE]

\* Fault: the session is kept under the object passed in, not its copy.
RegisterUnderOriginal(flight) ==
    sessions' = sessions \cup {NextConfiguration(flight)}

RegisterSession(flight) ==
    sessions' = sessions \cup {LoadedConfiguration(flight)}

\* Fault: no finally block.
EndFlightSpinning(flight) ==
    flights' = flights \ {flight} /\ UNCHANGED isConfiguring

EndFlight(flight) ==
    flights' = flights \ {flight} /\ isConfiguring' = FALSE

ToolLoaded(flight) ==
    /\ EventLoopIdle
    /\ flight.phase = "instantiating"
    /\ RegisterSession(flight)
    /\ configuredTool' = LoadedConfiguration(flight)
    /\ toolStatus' = "configured"
    /\ EndFlight(flight)
    /\ UNCHANGED <<selectedToolId, errorMessage, inputValue, outputValue,
                   view, attempts, catalogVars, submitVars>>

\* The catch and finally blocks: a failed request, an undecodable package
\* or a module that does not instantiate.
ConfigureFailed(flight) ==
    /\ EventLoopIdle
    /\ toolStatus' = "failed"
    /\ errorMessage' = [cause |-> "prepare", toolId |-> flight.toolId]
    /\ EndFlight(flight)
    /\ UNCHANGED <<selectedToolId, configuredTool, inputValue, outputValue,
                   view, attempts, sessions, catalogVars, submitVars>>

-----------------------------------------------------------------------------
SetInputValue(text) ==
    /\ EventLoopIdle
    /\ SubmitEnabled     \* the text area is disabled when Run is
    /\ inputValue' = text
    /\ UNCHANGED <<selectedToolId, configuredTool, toolStatus, errorMessage,
                   outputValue, view, catalogVars, configureVars, submitVars>>

\* submitInput up to its await; execute itself runs to its end in the call.
SubmitInput ==
    /\ EventLoopIdle
    /\ SubmitEnabled
    /\ view.selectedToolId # Null
    /\ run' = [toolId |-> view.selectedToolId, inputText |-> inputValue,
               configuration |-> view.configuredTool]
    /\ isSubmitting' = TRUE
    /\ errorMessage' = Null
    /\ outputValue' = Null
    /\ view' = [view EXCEPT !.isSubmitting = TRUE]
    /\ UNCHANGED <<selectedToolId, configuredTool, toolStatus, inputValue,
                   catalogVars, configureVars>>

ExecuteDone ==
    /\ run # Null
    /\ run.configuration \in sessions
    /\ outputValue' = run
    /\ isSubmitting' = FALSE
    /\ run' = Null
    /\ UNCHANGED <<selectedToolId, configuredTool, toolStatus, errorMessage,
                   inputValue, view, catalogVars, configureVars>>

\* No session, no memory for the input, a conversion error.
ExecuteFailed ==
    /\ run # Null
    /\ errorMessage' = [cause |-> "execute", toolId |-> run.toolId]
    /\ isSubmitting' = FALSE
    /\ run' = Null
    /\ UNCHANGED <<selectedToolId, configuredTool, toolStatus, inputValue,
                   outputValue, view, catalogVars, configureVars>>

-----------------------------------------------------------------------------
CurrentState ==
    [tools |-> tools, selectedToolId |-> selectedToolId,
     configuredTool |-> configuredTool,
     isCatalogLoading |-> isCatalogLoading,
     isConfiguring |-> isConfiguring, isSubmitting |-> isSubmitting]

\* React's scheduler renders and commits the updates queued so far.
Render ==
    /\ EventLoopIdle
    /\ view # CurrentState
    /\ view' = CurrentState
    /\ UNCHANGED <<selectedToolId, configuredTool, toolStatus, errorMessage,
                   inputValue, outputValue, catalogVars, configureVars,
                   submitVars>>

-----------------------------------------------------------------------------
CatalogSettles(mount) ==
    CatalogLoaded(mount) \/ CatalogFailed(mount) \/ CatalogIgnored(mount)

FlightAdvances(flight) ==
    PackageReceived(flight) \/ ToolLoaded(flight) \/ ConfigureFailed(flight)

RunSettles == ExecuteDone \/ ExecuteFailed

UserStep ==
    \/ \E toolId \in Tools : SelectTool(toolId)
    \/ ConfigureSelectedTool
    \/ \E text \in Inputs : SetInputValue(text)
    \/ SubmitInput

Next ==
    \/ \E mount \in 1..NumMounts : CatalogSettles(mount)
    \/ \E flight \in flights : FlightAdvances(flight)
    \/ UserStep
    \/ RunSettles
    \/ Render

\* The browser settles every promise it handed out and renders what was
\* queued.  A task that became ready stays in its queue while a click is
\* handled, and the event loop gets to it however often the user clicks:
\* strong fairness.  Nothing obliges the user to click.
Fairness ==
    /\ \A mount \in 1..NumMounts : SF_vars(CatalogSettles(mount))
    /\ SF_vars(\E flight \in flights : FlightAdvances(flight))
    /\ SF_vars(Render)
    /\ WF_vars(RunSettles)

Spec == Init /\ [][Next]_vars
FairSpec == Spec /\ Fairness
-----------------------------------------------------------------------------
(* Refinement: the workbench is a ToolStudio.                               *)

\* The tools of the configurations that the hook or the page on the screen
\* would run.
UsableTools ==
    {configuration.toolId :
        configuration \in {configuredTool, view.configuredTool} \ {Null}}

PreparingTool ==
    IF flights = {} THEN Null ELSE (CHOOSE flight \in flights : TRUE).toolId

StudioRun(r) ==
    IF r = Null THEN Null
    ELSE [choice |-> r.toolId, tool |-> r.configuration.toolId,
          text |-> r.inputText]

Studio == INSTANCE ToolStudio
    WITH chosen <- selectedToolId, usable <- UsableTools,
         preparing <- PreparingTool, running <- StudioRun(run),
         shown <- StudioRun(outputValue)

-----------------------------------------------------------------------------
(* Properties.                                                              *)

\* Every state variable of the hook, the page and the runtime's map keeps
\* its type.
TypeOK ==
    /\ tools \in Catalogs \cup {<<>>}
    /\ selectedToolId \in Tools \cup {Null}
    /\ configuredTool \in Configurations \cup {Null}
    /\ toolStatus \in Statuses
    /\ isCatalogLoading \in BOOLEAN
    /\ isConfiguring \in BOOLEAN
    /\ isSubmitting \in BOOLEAN
    /\ errorMessage \in Errors \cup {Null}
    /\ inputValue \in Inputs
    /\ outputValue \in Runs \cup {Null}
    /\ view \in Views
    /\ pendingLoads \subseteq 1..NumMounts
    /\ flights \subseteq Flights
    /\ attempts \in 0..MaxAttempts
    /\ sessions \subseteq Configurations
    /\ run \in Runs \cup {Null}

\* No two configure handlers are ever in flight together, although nothing
\* in configureSelectedTool prevents it: the disabled button alone does, and
\* it must stay disabled on the page the user actually sees.
OneConfigureAtATime ==
    /\ \A f, g \in flights : f = g
    /\ flights # {} => view.isConfiguring

\* The three spinners are on exactly while the work they stand for is
\* running; the catalog one ignores the abandoned runs of the effect.
SpinnersMatchWork ==
    /\ isConfiguring <=> flights # {}
    /\ isSubmitting <=> run # Null
    /\ isCatalogLoading <=> \E mount \in pendingLoads : IsActive(mount)

\* A tool that the hook, or the page on the screen, offers to run is a loaded
\* one: its session is in the WeakMap under that very object, so execute
\* never answers "is not configured"; and some tool is selected.
RunnableIsReady ==
    \A configuration \in {configuredTool, view.configuredTool} :
        configuration # Null =>
            /\ configuration.isConfigured
            /\ configuration \in sessions
            /\ selectedToolId # Null

\* The output, and the error of a run, on display were produced for the tool
\* that is selected now: selecting another tool between a click and its
\* answer, or on a page not yet rendered, never leaves the previous result.
ShownBelongsToSelection ==
    /\ outputValue # Null => outputValue.toolId = selectedToolId
    /\ errorMessage # Null /\ errorMessage.cause = "execute" =>
          errorMessage.toolId = selectedToolId

\* The status tells the same story as the state it summarises, whatever the
\* order in which answers and clicks came.
StatusCoherent ==
    /\ toolStatus = "idle" <=> isCatalogLoading
    /\ toolStatus = "configured" => configuredTool # Null
    /\ toolStatus = "loading" => isConfiguring
    /\ configuredTool # Null =>
          toolStatus \in {"configured", "loading", "failed"}
    /\ toolStatus = "failed" => errorMessage # Null \/ configuredTool # Null

\* While the answer for a tool that is no longer selected is awaited, nothing
\* is configured: Run stays disabled until that answer comes.
StaleFlightMeansUnconfigured ==
    \A f \in flights : f.toolId # selectedToolId => configuredTool = Null

\* A configured tool is replaced only by the outcome of a later click on
\* Configure, never by a slower answer to an earlier one.
ReplacedOnlyByNewer ==
    [][ (configuredTool # Null /\ configuredTool' # Null
            /\ configuredTool' # configuredTool)
          => configuredTool'.attempt > configuredTool.attempt ]_vars

\* Stale pages, abandoned effects and handlers cut at their awaits add up to
\* a ToolStudio: every step of the page is one of its steps or none, and a
\* run uses a tool that was prepared since the last choice.
ImplementsStudio == Studio!Spec

\* Once the browser settles its promises every spinner goes off, on the page
\* as well as in the state, whatever the user clicks meanwhile; and what a
\* ToolStudio has begun ends.
WorkSettles ==
    /\ Studio!Settles
    /\ view.isCatalogLoading ~> ~view.isCatalogLoading
    /\ view.isConfiguring ~> ~view.isConfiguring
    /\ view.isSubmitting ~> ~view.isSubmitting

\* What README.md:7 says of the application: the user chooses a tool and
\* receives the result of that tool.  An answer to Configure that comes after
\* another tool was selected installs its own tool all the same.
ResultFromChosenTool ==
    outputValue # Null => outputValue.configuration.toolId = selectedToolId
=============================================================================

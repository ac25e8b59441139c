-------------------------- MODULE WorkbenchProofs --------------------------
(* Proofs about the workbench, for every set of tools, catalogs and inputs, *)
(* any number of mounts and any number of configure clicks.                 *)
EXTENDS Workbench, TLAPS

\* Before the catalog is in, nothing was selected, configured, started or
\* shown.
NothingBeforeCatalog ==
    isCatalogLoading =>
        /\ tools = <<>>
        /\ selectedToolId = Null
        /\ configuredTool = Null
        /\ outputValue = Null /\ errorMessage = Null
        /\ flights = {} /\ run = Null

\* What the page on the screen may be behind in, and what it may not.
ViewLagsSafely ==
    /\ ~view.isCatalogLoading => ~isCatalogLoading
    /\ view.tools # <<>> => ~isCatalogLoading
    /\ view.selectedToolId # Null => view.selectedToolId = selectedToolId
    /\ view.configuredTool # Null => configuredTool # Null

\* Whatever is under way was started for a selection.
WorkHasSelection ==
    /\ flights # {} => selectedToolId # Null
    /\ run # Null => run.toolId = selectedToolId

\* Attempts are numbered in the order of the clicks.
AttemptsOrdered ==
    /\ \A f \in flights : f.attempt <= attempts
    /\ configuredTool # Null => configuredTool.attempt <= attempts
    /\ \A f \in flights :
          configuredTool # Null => configuredTool.attempt < f.attempt

\* The inductive invariant.
WorkbenchInv ==
    /\ TypeOK
    /\ OneConfigureAtATime
    /\ SpinnersMatchWork
    /\ RunnableIsReady
    /\ ShownBelongsToSelection
    /\ StatusCoherent
    /\ StaleFlightMeansUnconfigured
    /\ NothingBeforeCatalog
    /\ ViewLagsSafely
    /\ WorkHasSelection
    /\ AttemptsOrdered
-----------------------------------------------------------------------------
(* Type correctness: one step per handler of the hook.                      *)

\* The initial state has the declared types.
LEMMA InitType == Init => TypeOK
  <1> SUFFICES ASSUME Init PROVE TypeOK
    OBVIOUS
  <1>1. view \in Views
    BY DEF Init, Views
  <1>2. attempts \in 0..MaxAttempts
    BY WorkbenchAssumption DEF Init
  <1>3. inputValue \in Inputs /\ toolStatus \in Statuses
    BY WorkbenchAssumption DEF Init, Statuses
  <1>4. /\ pendingLoads \subseteq 1..NumMounts
        /\ flights \subseteq Flights
        /\ sessions \subseteq Configurations
    BY DEF Init
  <1> QED
    BY <1>1, <1>2, <1>3, <1>4 DEF Init, TypeOK

\* Every handler, answer and render keeps the declared types.
LEMMA TypeInductive == TypeOK /\ [Next]_vars => TypeOK'
  <1> SUFFICES ASSUME TypeOK, [Next]_vars PROVE TypeOK'
    OBVIOUS
  <1> USE WorkbenchAssumption
  <1>1. ASSUME NEW mount \in 1..NumMounts, CatalogLoaded(mount)
        PROVE  TypeOK'
    <2>1. PICK fetched \in Catalogs :
             /\ tools' = fetched
             /\ selectedToolId' = InitialSelection(selectedToolId, fetched)
      BY <1>1 DEF CatalogLoaded
    <2>2. fetched \in Seq(Tools)
      OBVIOUS
    <2>3. selectedToolId' \in Tools \cup {Null}
      BY <2>1, <2>2 DEF InitialSelection, TypeOK
    <2> QED
      BY <1>1, <2>1, <2>3
         DEF CatalogLoaded, TypeOK, Statuses, configureVars, submitVars
  <1>2. ASSUME NEW mount \in 1..NumMounts, CatalogFailed(mount)
        PROVE  TypeOK'
    BY <1>2 DEF CatalogFailed, TypeOK, Statuses, Errors, configureVars,
                submitVars
  <1>3. ASSUME NEW mount \in 1..NumMounts, CatalogIgnored(mount)
        PROVE  TypeOK'
    BY <1>3 DEF CatalogIgnored, TypeOK, configureVars, submitVars
  <1>4. ASSUME NEW flight \in flights, PackageReceived(flight)
        PROVE  TypeOK'
    <2>1. [flight EXCEPT !.phase = "instantiating"] \in Flights
      BY <1>4 DEF TypeOK, Flights, Phases
    <2> QED
      BY <1>4, <2>1 DEF PackageReceived, TypeOK, catalogVars, submitVars
  <1>5. ASSUME NEW flight \in flights, ToolLoaded(flight)
        PROVE  TypeOK'
    <2>1. LoadedConfiguration(flight) \in Configurations
      BY <1>5 DEF TypeOK, Flights, LoadedConfiguration, NextConfiguration,
                  Configurations
    <2> QED
      BY <1>5, <2>1 DEF ToolLoaded, RegisterSession, EndFlight, TypeOK,
                        Statuses, catalogVars, submitVars
  <1>6. ASSUME NEW flight \in flights, ConfigureFailed(flight)
        PROVE  TypeOK'
    BY <1>6 DEF ConfigureFailed, EndFlight, TypeOK, Statuses, Errors,
                Flights, catalogVars, submitVars
  <1>7. ASSUME NEW toolId \in Tools, SelectTool(toolId)
        PROVE  TypeOK'
    <2>1. view' \in Views
      BY <1>7 DEF SelectTool, TypeOK, Views
    <2> QED
      BY <1>7, <2>1 DEF SelectTool, ForgetPreviousTool, TypeOK, Statuses,
                        catalogVars, configureVars, submitVars
  <1>8. CASE ConfigureSelectedTool
    <2>1. view' \in Views
      BY <1>8 DEF ConfigureSelectedTool, TypeOK, Views
    <2>2. attempts' \in 1..MaxAttempts
      BY <1>8 DEF ConfigureSelectedTool, TypeOK
    <2>3. view.selectedToolId \in Tools
      BY <1>8 DEF ConfigureSelectedTool, ConfigureEnabled, TypeOK, Views
    <2>4. flights' \subseteq Flights
      BY <1>8, <2>2, <2>3
         DEF ConfigureSelectedTool, TypeOK, Flights, Phases
    <2> QED
      BY <1>8, <2>1, <2>2, <2>4
         DEF ConfigureSelectedTool, TypeOK, Statuses, catalogVars, submitVars
  <1>9. ASSUME NEW text \in Inputs, SetInputValue(text)
        PROVE  TypeOK'
    BY <1>9 DEF SetInputValue, TypeOK, catalogVars, configureVars, submitVars
  <1>10. CASE SubmitInput
    <2>1. view' \in Views
      BY <1>10 DEF SubmitInput, TypeOK, Views
    <2>2. run' \in Runs
      BY <1>10 DEF SubmitInput, SubmitEnabled, IsConfigured, TypeOK, Views,
                   Runs
    <2> QED
      BY <1>10, <2>1, <2>2
         DEF SubmitInput, TypeOK, catalogVars, configureVars
  <1>11. CASE ExecuteDone
    BY <1>11 DEF ExecuteDone, TypeOK, catalogVars, configureVars
  <1>12. CASE ExecuteFailed
    BY <1>12 DEF ExecuteFailed, TypeOK, Errors, Runs, catalogVars,
                 configureVars
  <1>13. CASE Render
    <2>1. view' \in Views
      BY <1>13 DEF Render, CurrentState, TypeOK, Views
    <2> QED
      BY <1>13, <2>1
         DEF Render, TypeOK, catalogVars, configureVars, submitVars
  <1>14. CASE UNCHANGED vars
    BY <1>14 DEF vars, TypeOK
  <1> QED
    BY <1>1, <1>2, <1>3, <1>4, <1>5, <1>6, <1>7, <1>8, <1>9, <1>10, <1>11,
       <1>12, <1>13, <1>14
       DEF Next, CatalogSettles, FlightAdvances, UserStep, RunSettles

\* The state of the workbench always has the declared types.
THEOREM TypeCorrect == Spec => []TypeOK
  BY InitType, TypeInductive, PTL DEF Spec
-----------------------------------------------------------------------------
(* The inductive invariant.  One step per handler, and under it one step    *)
(* per conjunct that the handler can disturb.                               *)

\* The first page satisfies the invariant.
LEMMA InitInv == Init => WorkbenchInv
  <1> SUFFICES ASSUME Init PROVE WorkbenchInv
    OBVIOUS
  <1>1. TypeOK
    BY InitType
  <1>2. SpinnersMatchWork
    BY WorkbenchAssumption DEF Init, SpinnersMatchWork, IsActive
  <1>3. RunnableIsReady /\ ViewLagsSafely
    BY DEF Init, RunnableIsReady, ViewLagsSafely
  <1>4. /\ OneConfigureAtATime /\ ShownBelongsToSelection
        /\ StaleFlightMeansUnconfigured /\ StatusCoherent
    BY DEF Init, OneConfigureAtATime, ShownBelongsToSelection,
           StaleFlightMeansUnconfigured, StatusCoherent
  <1>5. NothingBeforeCatalog /\ WorkHasSelection /\ AttemptsOrdered
    BY DEF Init, NothingBeforeCatalog, WorkHasSelection, AttemptsOrdered
  <1> QED
    BY <1>1, <1>2, <1>3, <1>4, <1>5 DEF WorkbenchInv

\* The catalog arrives while nothing is selected, configured or shown.
LEMMA CatalogLoadedInv ==
  ASSUME WorkbenchInv, TypeOK', NEW mount \in 1..NumMounts,
         CatalogLoaded(mount)
  PROVE  WorkbenchInv'
  <1> USE DEF WorkbenchInv
  <1>1. isCatalogLoading
    BY DEF CatalogLoaded, SpinnersMatchWork
  <1>2. /\ configuredTool = Null /\ flights = {} /\ run = Null
        /\ view.selectedToolId = Null /\ view.configuredTool = Null
        /\ view.tools = <<>>
        /\ outputValue = Null /\ errorMessage = Null
    BY <1>1 DEF NothingBeforeCatalog, ViewLagsSafely
  <1>3. /\ flights' = {} /\ configuredTool' = Null /\ run' = Null
        /\ outputValue' = Null /\ view' = view
        /\ errorMessage' = Null /\ attempts' = attempts
        /\ isConfiguring' = isConfiguring /\ isSubmitting' = isSubmitting
        /\ isCatalogLoading' = FALSE /\ toolStatus' = "ready"
    BY <1>2 DEF CatalogLoaded, configureVars, submitVars
  <1>4. SpinnersMatchWork'
    BY <1>2, <1>3 DEF CatalogLoaded, SpinnersMatchWork, IsActive
  <1>5. StatusCoherent' /\ ShownBelongsToSelection'
    BY <1>3 DEF StatusCoherent, ShownBelongsToSelection
  <1>6. RunnableIsReady' /\ ViewLagsSafely'
    BY <1>2, <1>3 DEF RunnableIsReady, ViewLagsSafely
  <1>7. /\ OneConfigureAtATime' /\ StaleFlightMeansUnconfigured'
        /\ NothingBeforeCatalog' /\ WorkHasSelection' /\ AttemptsOrdered'
    BY <1>3 DEF OneConfigureAtATime, StaleFlightMeansUnconfigured,
                NothingBeforeCatalog, WorkHasSelection, AttemptsOrdered
  <1> QED
    BY <1>4, <1>5, <1>6, <1>7

\* Every handler, answer and render keeps the invariant.
LEMMA InvInductive == WorkbenchInv /\ [Next]_vars => WorkbenchInv'
  <1> SUFFICES ASSUME WorkbenchInv, [Next]_vars PROVE WorkbenchInv'
    OBVIOUS
  <1>0. TypeOK'
    BY TypeInductive DEF WorkbenchInv
  <1> USE WorkbenchAssumption, <1>0 DEF WorkbenchInv, EventLoopIdle
  <1>1. ASSUME NEW mount \in 1..NumMounts, CatalogLoaded(mount)
        PROVE  WorkbenchInv'
    BY <1>1, CatalogLoadedInv
  <1>2. ASSUME NEW mount \in 1..NumMounts, CatalogFailed(mount)
        PROVE  WorkbenchInv'
    <2>1. SpinnersMatchWork'
      BY <1>2
         DEF CatalogFailed, configureVars, submitVars, SpinnersMatchWork,
             IsActive
    <2>2. ShownBelongsToSelection'
      BY <1>2
         DEF CatalogFailed, configureVars, submitVars,
             ShownBelongsToSelection
    <2>3. StatusCoherent'
      BY <1>2
         DEF CatalogFailed, configureVars, submitVars, StatusCoherent,
             SpinnersMatchWork, NothingBeforeCatalog, ViewLagsSafely, TypeOK,
             Errors, IsActive
    <2>4. NothingBeforeCatalog'
      BY <1>2
         DEF CatalogFailed, configureVars, submitVars, NothingBeforeCatalog
    <2>5. ViewLagsSafely'
      BY <1>2 DEF CatalogFailed, configureVars, submitVars, ViewLagsSafely
    <2>6. /\ OneConfigureAtATime' /\ RunnableIsReady'
          /\ StaleFlightMeansUnconfigured' /\ WorkHasSelection'
          /\ AttemptsOrdered'
      BY <1>2
         DEF CatalogFailed, configureVars, submitVars, OneConfigureAtATime,
             RunnableIsReady, StaleFlightMeansUnconfigured, WorkHasSelection,
             AttemptsOrdered
    <2> QED
      BY <2>1, <2>2, <2>3, <2>4, <2>5, <2>6
  <1>3. ASSUME NEW mount \in 1..NumMounts, CatalogIgnored(mount)
        PROVE  WorkbenchInv'
    <2>1. SpinnersMatchWork'
      BY <1>3
         DEF CatalogIgnored, configureVars, submitVars, SpinnersMatchWork,
             IsActive
    <2>2. /\ OneConfigureAtATime' /\ RunnableIsReady'
          /\ ShownBelongsToSelection' /\ StatusCoherent'
          /\ StaleFlightMeansUnconfigured' /\ NothingBeforeCatalog'
          /\ ViewLagsSafely' /\ WorkHasSelection' /\ AttemptsOrdered'
      BY <1>3
         DEF CatalogIgnored, configureVars, submitVars, OneConfigureAtATime,
             RunnableIsReady, ShownBelongsToSelection, StatusCoherent,
             StaleFlightMeansUnconfigured, NothingBeforeCatalog,
             ViewLagsSafely, WorkHasSelection, AttemptsOrdered
    <2> QED
      BY <2>1, <2>2
  <1>4. ASSUME NEW flight \in flights, PackageReceived(flight)
        PROVE  WorkbenchInv'
    <2>1. OneConfigureAtATime'
      BY <1>4
         DEF PackageReceived, catalogVars, submitVars, OneConfigureAtATime,
             TypeOK, Flights
    <2>2. SpinnersMatchWork'
      BY <1>4 DEF PackageReceived, catalogVars, submitVars, SpinnersMatchWork
    <2>3. StaleFlightMeansUnconfigured'
      BY <1>4
         DEF PackageReceived, catalogVars, submitVars,
             StaleFlightMeansUnconfigured, TypeOK, Flights
    <2>4. NothingBeforeCatalog'
      BY <1>4
         DEF PackageReceived, catalogVars, submitVars, NothingBeforeCatalog
    <2>5. WorkHasSelection'
      BY <1>4 DEF PackageReceived, catalogVars, submitVars, WorkHasSelection
    <2>6. AttemptsOrdered'
      BY <1>4
         DEF PackageReceived, catalogVars, submitVars, AttemptsOrdered,
             TypeOK, Flights
    <2>7. /\ RunnableIsReady' /\ ShownBelongsToSelection' /\ StatusCoherent'
          /\ ViewLagsSafely'
      BY <1>4
         DEF PackageReceived, catalogVars, submitVars, RunnableIsReady,
             ShownBelongsToSelection, StatusCoherent, ViewLagsSafely
    <2> QED
      BY <2>1, <2>2, <2>3, <2>4, <2>5, <2>6, <2>7
  <1>5. ASSUME NEW flight \in flights, ToolLoaded(flight)
        PROVE  WorkbenchInv'
    <2>1. OneConfigureAtATime'
      BY <1>5
         DEF ToolLoaded, RegisterSession, EndFlight, LoadedConfiguration,
             NextConfiguration, catalogVars, submitVars, OneConfigureAtATime
    <2>2. SpinnersMatchWork'
      BY <1>5
         DEF ToolLoaded, RegisterSession, EndFlight, LoadedConfiguration,
             NextConfiguration, catalogVars, submitVars, SpinnersMatchWork,
             OneConfigureAtATime
    <2>3. RunnableIsReady'
      BY <1>5
         DEF ToolLoaded, RegisterSession, EndFlight, LoadedConfiguration,
             NextConfiguration, catalogVars, submitVars, RunnableIsReady,
             WorkHasSelection
    <2>4. StatusCoherent'
      BY <1>5
         DEF ToolLoaded, RegisterSession, EndFlight, LoadedConfiguration,
             NextConfiguration, catalogVars, submitVars, StatusCoherent,
             NothingBeforeCatalog, TypeOK
    <2>5. StaleFlightMeansUnconfigured'
      BY <1>5
         DEF ToolLoaded, RegisterSession, EndFlight, LoadedConfiguration,
             NextConfiguration, catalogVars, submitVars,
             StaleFlightMeansUnconfigured, OneConfigureAtATime
    <2>6. NothingBeforeCatalog'
      BY <1>5
         DEF ToolLoaded, RegisterSession, EndFlight, LoadedConfiguration,
             NextConfiguration, catalogVars, submitVars, NothingBeforeCatalog
    <2>7. ViewLagsSafely'
      BY <1>5
         DEF ToolLoaded, RegisterSession, EndFlight, LoadedConfiguration,
             NextConfiguration, catalogVars, submitVars, ViewLagsSafely,
             TypeOK, Flights, Configurations
    <2>8. WorkHasSelection'
      BY <1>5
         DEF ToolLoaded, RegisterSession, EndFlight, LoadedConfiguration,
             NextConfiguration, catalogVars, submitVars, WorkHasSelection
    <2>9. AttemptsOrdered'
      BY <1>5
         DEF ToolLoaded, RegisterSession, EndFlight, LoadedConfiguration,
             NextConfiguration, catalogVars, submitVars, AttemptsOrdered,
             OneConfigureAtATime, TypeOK, Flights
    <2>10. /\ ShownBelongsToSelection'
      BY <1>5
         DEF ToolLoaded, RegisterSession, EndFlight, LoadedConfiguration,
             NextConfiguration, catalogVars, submitVars,
             ShownBelongsToSelection
    <2> QED
      BY <2>1, <2>2, <2>3, <2>4, <2>5, <2>6, <2>7, <2>8, <2>9, <2>10
  <1>6. ASSUME NEW flight \in flights, ConfigureFailed(flight)
        PROVE  WorkbenchInv'
    <2>1. OneConfigureAtATime'
      BY <1>6
         DEF ConfigureFailed, EndFlight, catalogVars, submitVars,
             OneConfigureAtATime
    <2>2. SpinnersMatchWork'
      BY <1>6
         DEF ConfigureFailed, EndFlight, catalogVars, submitVars,
             SpinnersMatchWork, OneConfigureAtATime
    <2>3. ShownBelongsToSelection'
      BY <1>6
         DEF ConfigureFailed, EndFlight, catalogVars, submitVars,
             ShownBelongsToSelection
    <2>4. StatusCoherent'
      BY <1>6
         DEF ConfigureFailed, EndFlight, catalogVars, submitVars,
             StatusCoherent, NothingBeforeCatalog, TypeOK, Errors, Flights
    <2>5. StaleFlightMeansUnconfigured'
      BY <1>6
         DEF ConfigureFailed, EndFlight, catalogVars, submitVars,
             StaleFlightMeansUnconfigured
    <2>6. NothingBeforeCatalog'
      BY <1>6
         DEF ConfigureFailed, EndFlight, catalogVars, submitVars,
             NothingBeforeCatalog
    <2>7. WorkHasSelection'
      BY <1>6
         DEF ConfigureFailed, EndFlight, catalogVars, submitVars,
             WorkHasSelection
    <2>8. AttemptsOrdered'
      BY <1>6
         DEF ConfigureFailed, EndFlight, catalogVars, submitVars,
             AttemptsOrdered
    <2>9. /\ RunnableIsReady' /\ ViewLagsSafely'
      BY <1>6
         DEF ConfigureFailed, EndFlight, catalogVars, submitVars,
             RunnableIsReady, ViewLagsSafely
    <2> QED
      BY <2>1, <2>2, <2>3, <2>4, <2>5, <2>6, <2>7, <2>8, <2>9
  <1>7. ASSUME NEW toolId \in Tools, SelectTool(toolId)
        PROVE  WorkbenchInv'
    <2>1. OneConfigureAtATime'
      BY <1>7
         DEF SelectTool, ForgetPreviousTool, Listed, catalogVars,
             configureVars, submitVars, OneConfigureAtATime
    <2>2. RunnableIsReady'
      BY <1>7
         DEF SelectTool, ForgetPreviousTool, Listed, catalogVars,
             configureVars, submitVars, RunnableIsReady, TypeOK, Views
    <2>3. ShownBelongsToSelection'
      BY <1>7
         DEF SelectTool, ForgetPreviousTool, Listed, catalogVars,
             configureVars, submitVars, ShownBelongsToSelection
    <2>4. StatusCoherent'
      BY <1>7
         DEF SelectTool, ForgetPreviousTool, Listed, catalogVars,
             configureVars, submitVars, StatusCoherent, ViewLagsSafely,
             TypeOK, Views
    <2>5. StaleFlightMeansUnconfigured'
      BY <1>7
         DEF SelectTool, ForgetPreviousTool, Listed, catalogVars,
             configureVars, submitVars, StaleFlightMeansUnconfigured
    <2>6. NothingBeforeCatalog'
      BY <1>7
         DEF SelectTool, ForgetPreviousTool, Listed, catalogVars,
             configureVars, submitVars, NothingBeforeCatalog, ViewLagsSafely
    <2>7. ViewLagsSafely'
      BY <1>7
         DEF SelectTool, ForgetPreviousTool, Listed, catalogVars,
             configureVars, submitVars, ViewLagsSafely, TypeOK, Views
    <2>8. WorkHasSelection'
      BY <1>7
         DEF SelectTool, ForgetPreviousTool, Listed, catalogVars,
             configureVars, submitVars, WorkHasSelection
    <2>9. AttemptsOrdered'
      BY <1>7
         DEF SelectTool, ForgetPreviousTool, Listed, catalogVars,
             configureVars, submitVars, AttemptsOrdered
    <2>10. /\ SpinnersMatchWork'
      BY <1>7
         DEF SelectTool, ForgetPreviousTool, Listed, catalogVars,
             configureVars, submitVars, SpinnersMatchWork
    <2> QED
      BY <2>1, <2>2, <2>3, <2>4, <2>5, <2>6, <2>7, <2>8, <2>9, <2>10
  <1>8. CASE ConfigureSelectedTool
    <2>1. OneConfigureAtATime'
      BY <1>8
         DEF ConfigureSelectedTool, ConfigureEnabled, catalogVars,
             submitVars, OneConfigureAtATime, TypeOK, Views
    <2>2. SpinnersMatchWork'
      BY <1>8
         DEF ConfigureSelectedTool, ConfigureEnabled, catalogVars,
             submitVars, SpinnersMatchWork
    <2>3. RunnableIsReady'
      BY <1>8
         DEF ConfigureSelectedTool, ConfigureEnabled, catalogVars,
             submitVars, RunnableIsReady, TypeOK, Views
    <2>4. ShownBelongsToSelection'
      BY <1>8
         DEF ConfigureSelectedTool, ConfigureEnabled, catalogVars,
             submitVars, ShownBelongsToSelection
    <2>5. StatusCoherent'
      BY <1>8
         DEF ConfigureSelectedTool, ConfigureEnabled, catalogVars,
             submitVars, StatusCoherent, ViewLagsSafely
    <2>6. StaleFlightMeansUnconfigured'
      BY <1>8
         DEF ConfigureSelectedTool, ConfigureEnabled, catalogVars,
             submitVars, StaleFlightMeansUnconfigured, OneConfigureAtATime,
             ViewLagsSafely
    <2>7. NothingBeforeCatalog'
      BY <1>8
         DEF ConfigureSelectedTool, ConfigureEnabled, catalogVars,
             submitVars, NothingBeforeCatalog, ViewLagsSafely
    <2>8. ViewLagsSafely'
      BY <1>8
         DEF ConfigureSelectedTool, ConfigureEnabled, catalogVars,
             submitVars, ViewLagsSafely, TypeOK, Views
    <2>9. WorkHasSelection'
      BY <1>8
         DEF ConfigureSelectedTool, ConfigureEnabled, catalogVars,
             submitVars, WorkHasSelection, ViewLagsSafely
    <2>10. AttemptsOrdered'
      BY <1>8
         DEF ConfigureSelectedTool, ConfigureEnabled, catalogVars,
             submitVars, AttemptsOrdered, OneConfigureAtATime, TypeOK,
             Flights, Configurations
    <2> QED
      BY <2>1, <2>2, <2>3, <2>4, <2>5, <2>6, <2>7, <2>8, <2>9, <2>10
  <1>9. CASE SubmitInput
    <2>1. OneConfigureAtATime'
      BY <1>9
         DEF SubmitInput, SubmitEnabled, IsConfigured, catalogVars,
             configureVars, OneConfigureAtATime, TypeOK, Views
    <2>2. SpinnersMatchWork'
      BY <1>9
         DEF SubmitInput, SubmitEnabled, IsConfigured, catalogVars,
             configureVars, SpinnersMatchWork, TypeOK, Views, Runs
    <2>3. RunnableIsReady'
      BY <1>9
         DEF SubmitInput, SubmitEnabled, IsConfigured, catalogVars,
             configureVars, RunnableIsReady, TypeOK, Views
    <2>4. ShownBelongsToSelection'
      BY <1>9
         DEF SubmitInput, SubmitEnabled, IsConfigured, catalogVars,
             configureVars, ShownBelongsToSelection
    <2>5. StatusCoherent'
      BY <1>9
         DEF SubmitInput, SubmitEnabled, IsConfigured, catalogVars,
             configureVars, StatusCoherent, ViewLagsSafely
    <2>6. NothingBeforeCatalog'
      BY <1>9
         DEF SubmitInput, SubmitEnabled, IsConfigured, catalogVars,
             configureVars, NothingBeforeCatalog, ViewLagsSafely
    <2>7. ViewLagsSafely'
      BY <1>9
         DEF SubmitInput, SubmitEnabled, IsConfigured, catalogVars,
             configureVars, ViewLagsSafely, TypeOK, Views
    <2>8. WorkHasSelection'
      BY <1>9
         DEF SubmitInput, SubmitEnabled, IsConfigured, catalogVars,
             configureVars, WorkHasSelection, ViewLagsSafely
    <2>9. /\ StaleFlightMeansUnconfigured' /\ AttemptsOrdered'
      BY <1>9
         DEF SubmitInput, SubmitEnabled, IsConfigured, catalogVars,
             configureVars, StaleFlightMeansUnconfigured, AttemptsOrdered
    <2> QED
      BY <2>1, <2>2, <2>3, <2>4, <2>5, <2>6, <2>7, <2>8, <2>9
  <1>10. CASE ExecuteDone
    <2>1. SpinnersMatchWork'
      BY <1>10 DEF ExecuteDone, catalogVars, configureVars, SpinnersMatchWork
    <2>2. ShownBelongsToSelection'
      BY <1>10
         DEF ExecuteDone, catalogVars, configureVars,
             ShownBelongsToSelection, WorkHasSelection
    <2>3. NothingBeforeCatalog'
      BY <1>10
         DEF ExecuteDone, catalogVars, configureVars, NothingBeforeCatalog
    <2>4. WorkHasSelection'
      BY <1>10 DEF ExecuteDone, catalogVars, configureVars, WorkHasSelection
    <2>5. /\ OneConfigureAtATime' /\ RunnableIsReady' /\ StatusCoherent'
          /\ StaleFlightMeansUnconfigured' /\ ViewLagsSafely'
          /\ AttemptsOrdered'
      BY <1>10
         DEF ExecuteDone, catalogVars, configureVars, OneConfigureAtATime,
             RunnableIsReady, StatusCoherent, StaleFlightMeansUnconfigured,
             ViewLagsSafely, AttemptsOrdered
    <2> QED
      BY <2>1, <2>2, <2>3, <2>4, <2>5
  <1>11. CASE ExecuteFailed
    <2>1. SpinnersMatchWork'
      BY <1>11
         DEF ExecuteFailed, catalogVars, configureVars, SpinnersMatchWork
    <2>2. ShownBelongsToSelection'
      BY <1>11
         DEF ExecuteFailed, catalogVars, configureVars,
             ShownBelongsToSelection, WorkHasSelection
    <2>3. StatusCoherent'
      BY <1>11
         DEF ExecuteFailed, catalogVars, configureVars, StatusCoherent,
             TypeOK, Errors, Runs
    <2>4. NothingBeforeCatalog'
      BY <1>11
         DEF ExecuteFailed, catalogVars, configureVars, NothingBeforeCatalog
    <2>5. WorkHasSelection'
      BY <1>11 DEF ExecuteFailed, catalogVars, configureVars, WorkHasSelection
    <2>6. /\ OneConfigureAtATime' /\ RunnableIsReady'
          /\ StaleFlightMeansUnconfigured' /\ ViewLagsSafely'
          /\ AttemptsOrdered'
      BY <1>11
         DEF ExecuteFailed, catalogVars, configureVars, OneConfigureAtATime,
             RunnableIsReady, StaleFlightMeansUnconfigured, ViewLagsSafely,
             AttemptsOrdered
    <2> QED
      BY <2>1, <2>2, <2>3, <2>4, <2>5, <2>6
  <1>12. CASE Render
    <2>1. OneConfigureAtATime'
      BY <1>12
         DEF Render, CurrentState, catalogVars, configureVars, submitVars,
             OneConfigureAtATime, SpinnersMatchWork
    <2>2. RunnableIsReady'
      BY <1>12
         DEF Render, CurrentState, catalogVars, configureVars, submitVars,
             RunnableIsReady
    <2>3. ViewLagsSafely'
      BY <1>12
         DEF Render, CurrentState, catalogVars, configureVars, submitVars,
             ViewLagsSafely, NothingBeforeCatalog, TypeOK
    <2>4. /\ SpinnersMatchWork' /\ ShownBelongsToSelection' /\ StatusCoherent'
          /\ StaleFlightMeansUnconfigured' /\ NothingBeforeCatalog'
          /\ WorkHasSelection' /\ AttemptsOrdered'
      BY <1>12
         DEF Render, CurrentState, catalogVars, configureVars, submitVars,
             SpinnersMatchWork, ShownBelongsToSelection, StatusCoherent,
             StaleFlightMeansUnconfigured, NothingBeforeCatalog,
             WorkHasSelection, AttemptsOrdered
    <2> QED
      BY <2>1, <2>2, <2>3, <2>4
  <1>13. ASSUME NEW text \in Inputs, SetInputValue(text)
        PROVE  WorkbenchInv'
    BY <1>13
       DEF SetInputValue, catalogVars, configureVars, submitVars,
           OneConfigureAtATime, SpinnersMatchWork, RunnableIsReady,
           ShownBelongsToSelection, StatusCoherent,
           StaleFlightMeansUnconfigured, NothingBeforeCatalog,
           ViewLagsSafely, WorkHasSelection, AttemptsOrdered
  <1>14. CASE UNCHANGED vars
    BY <1>14
       DEF vars, OneConfigureAtATime, SpinnersMatchWork, RunnableIsReady,
           ShownBelongsToSelection, StatusCoherent,
           StaleFlightMeansUnconfigured, NothingBeforeCatalog,
           ViewLagsSafely, WorkHasSelection, AttemptsOrdered
  <1> QED
    BY <1>1, <1>2, <1>3, <1>4, <1>5, <1>6, <1>7, <1>8, <1>9, <1>10, <1>11,
       <1>12, <1>13, <1>14
       DEF Next, CatalogSettles, FlightAdvances, UserStep, RunSettles

-----------------------------------------------------------------------------
(* The theorems.                                                            *)

\* The workbench never leaves the inductive invariant.
THEOREM InvCorrect == Spec => []WorkbenchInv
  BY InitInv, InvInductive, PTL DEF Spec

\* The disabled button is enough to keep configure handlers from overlapping.
THEOREM NoOverlap == Spec => []OneConfigureAtATime
  BY InvCorrect, PTL DEF WorkbenchInv

\* The spinners never outlive, or miss, the work they stand for.
THEOREM SpinnersCorrect == Spec => []SpinnersMatchWork
  BY InvCorrect, PTL DEF WorkbenchInv

\* What is offered to run has a session.
THEOREM RunnableCorrect == Spec => []RunnableIsReady
  BY InvCorrect, PTL DEF WorkbenchInv

\* A result on display was asked of the selected tool.
THEOREM ShownCorrect == Spec => []ShownBelongsToSelection
  BY InvCorrect, PTL DEF WorkbenchInv

\* The status never contradicts the state it summarises.
THEOREM StatusCorrect == Spec => []StatusCoherent
  BY InvCorrect, PTL DEF WorkbenchInv

\* Nothing is configured while an answer for another tool is awaited.
THEOREM StaleFlightCorrect == Spec => []StaleFlightMeansUnconfigured
  BY InvCorrect, PTL DEF WorkbenchInv

\* No slower answer replaces the configuration of a later click.
THEOREM ReplacementCorrect == Spec => ReplacedOnlyByNewer
  <1>1. WorkbenchInv /\ [Next]_vars =>
          [ (configuredTool # Null /\ configuredTool' # Null
                /\ configuredTool' # configuredTool)
              => configuredTool'.attempt > configuredTool.attempt ]_vars
    <2> SUFFICES ASSUME WorkbenchInv, Next,
                        configuredTool # Null, configuredTool' # Null,
                        configuredTool' # configuredTool
                 PROVE  configuredTool'.attempt > configuredTool.attempt
      BY DEF vars
    <2>1. PICK flight \in flights : ToolLoaded(flight)
      <3>1. ASSUME NEW mount \in 1..NumMounts, CatalogSettles(mount)
            PROVE  FALSE
        BY <3>1 DEF CatalogSettles, CatalogLoaded, CatalogFailed,
                    CatalogIgnored
      <3>2. ASSUME NEW flight \in flights,
                   PackageReceived(flight) \/ ConfigureFailed(flight)
            PROVE  FALSE
        BY <3>2 DEF PackageReceived, ConfigureFailed
      <3>3. CASE UserStep
        BY <3>3 DEF UserStep, SelectTool, ForgetPreviousTool,
                    ConfigureSelectedTool, SetInputValue, SubmitInput
      <3>4. CASE RunSettles \/ Render
        BY <3>4 DEF RunSettles, ExecuteDone, ExecuteFailed, Render
      <3> QED
        BY <3>1, <3>2, <3>3, <3>4 DEF Next, FlightAdvances
    <2>2. configuredTool'.attempt = flight.attempt
      BY <2>1 DEF ToolLoaded, LoadedConfiguration, NextConfiguration
    <2>3. configuredTool.attempt < flight.attempt
      BY <2>1 DEF WorkbenchInv, AttemptsOrdered
    <2>4. configuredTool.attempt \in Nat /\ flight.attempt \in Nat
      BY <2>1 DEF WorkbenchInv, TypeOK, Configurations, Flights
    <2> QED
      BY <2>2, <2>3, <2>4
  <1> QED
    BY <1>1, InvCorrect, PTL DEF Spec, ReplacedOnlyByNewer

-----------------------------------------------------------------------------
(* The workbench implements ToolStudio.                                     *)

\* One flight is what CHOOSE finds.
LEMMA PreparingIsTheFlight ==
    ASSUME OneConfigureAtATime, NEW flight \in flights
    PROVE  PreparingTool = flight.toolId
  BY DEF OneConfigureAtATime, PreparingTool

\* A step that leaves alone what the mapping looks at is a stutter.
LEMMA StudioStutters ==
    ASSUME UNCHANGED <<selectedToolId, configuredTool, flights, run,
                       outputValue>>,
           view'.configuredTool = view.configuredTool
    PROVE  UNCHANGED Studio!vars
  BY DEF Studio!vars, UsableTools, PreparingTool, StudioRun

LEMMA InitImplementsInit == Init => Studio!Init
  BY DEF Init, Studio!Init, UsableTools, PreparingTool, StudioRun

\* The catalog's answer offers its first tool, or changes nothing here.
LEMMA CatalogImplements ==
    ASSUME WorkbenchInv, NEW mount \in 1..NumMounts, CatalogSettles(mount)
    PROVE  Studio!Next \/ UNCHANGED Studio!vars
  <1>1. CASE CatalogLoaded(mount)
    <2>1. PICK fetched \in Catalogs :
             selectedToolId' = InitialSelection(selectedToolId, fetched)
      BY <1>1 DEF CatalogLoaded
    <2>2. fetched \in Seq(Tools)
      BY WorkbenchAssumption
    <2>3. UNCHANGED <<UsableTools, PreparingTool, StudioRun(run),
                      StudioRun(outputValue)>>
      BY <1>1 DEF CatalogLoaded, UsableTools, PreparingTool, StudioRun,
                  configureVars, submitVars
    <2>4. CASE selectedToolId # Null \/ fetched = <<>>
      <3>1. selectedToolId' = selectedToolId
        BY <2>1, <2>4 DEF InitialSelection
      <3> QED
        BY <3>1, <2>3 DEF Studio!vars
    <2>5. CASE selectedToolId = Null /\ fetched # <<>>
      <3>1. selectedToolId' = fetched[1] /\ fetched[1] \in Tools
        BY <2>1, <2>2, <2>5 DEF InitialSelection
      <3>2. Studio!Offer(fetched[1])
        BY <3>1, <2>3, <2>5 DEF Studio!Offer
      <3> QED
        BY <3>1, <3>2 DEF Studio!Next
    <2> QED
      BY <2>4, <2>5
  <1>2. CASE CatalogFailed(mount) \/ CatalogIgnored(mount)
    <2>1. UNCHANGED <<selectedToolId, configuredTool, flights, run,
                      outputValue>> /\ view' = view
      BY <1>2 DEF CatalogFailed, CatalogIgnored, configureVars, submitVars
    <2> QED
      BY <2>1, StudioStutters
  <1> QED
    BY <1>1, <1>2 DEF CatalogSettles

\* A configure handler that is resumed prepares its tool, or fails to.
LEMMA FlightImplements ==
    ASSUME WorkbenchInv, WorkbenchInv', NEW flight \in flights,
           FlightAdvances(flight)
    PROVE  Studio!Next \/ UNCHANGED Studio!vars
  <1>1. PreparingTool = flight.toolId /\ flight.toolId \in Tools
    BY PreparingIsTheFlight DEF WorkbenchInv, TypeOK, Flights
  <1>2. PreparingTool # Null
    BY <1>1, WorkbenchAssumption
  <1>3. CASE PackageReceived(flight)
    <2>1. UNCHANGED <<selectedToolId, configuredTool, run, outputValue,
                      view>>
      BY <1>3 DEF PackageReceived, submitVars
    <2>2. PreparingTool' = PreparingTool
      <3>1. [flight EXCEPT !.phase = "instantiating"] \in flights'
        BY <1>3 DEF PackageReceived
      <3>2. flights' # {}
            /\ \A f, g \in flights' : f = g
        BY <3>1 DEF WorkbenchInv, OneConfigureAtATime
      <3>3. PreparingTool' =
               [flight EXCEPT !.phase = "instantiating"].toolId
        BY <3>1, <3>2 DEF PreparingTool
      <3>4. [flight EXCEPT !.phase = "instantiating"].toolId = flight.toolId
        BY DEF WorkbenchInv, TypeOK, Flights
      <3> QED
        BY <3>3, <3>4, <1>1
    <2> QED
      BY <2>1, <2>2 DEF Studio!vars, UsableTools, StudioRun
  <1>4. ASSUME EndFlight(flight) PROVE PreparingTool' = Null
    BY <1>4 DEF EndFlight, PreparingTool, WorkbenchInv, OneConfigureAtATime
  <1>5. CASE ToolLoaded(flight)
    <2>1. PreparingTool' = Null
      BY <1>4, <1>5 DEF ToolLoaded
    <2>2. UNCHANGED <<selectedToolId, run, outputValue, view>>
      BY <1>5 DEF ToolLoaded, submitVars
    <2>3. configuredTool' = LoadedConfiguration(flight)
      BY <1>5 DEF ToolLoaded
    <2>4. configuredTool'.toolId = flight.toolId
      BY <2>3 DEF LoadedConfiguration, NextConfiguration
    <2>5. configuredTool' # Null
      <3>1. configuredTool' \in Configurations
        BY <2>3 DEF LoadedConfiguration, NextConfiguration, Configurations,
                    WorkbenchInv, TypeOK, Flights
      <3> QED
        BY <3>1, WorkbenchAssumption
    <2>6. PreparingTool \in UsableTools'
      BY <2>4, <2>5, <1>1 DEF UsableTools
    <2>7. UsableTools' \subseteq UsableTools \cup {PreparingTool}
      BY <2>2, <2>4, <1>1 DEF UsableTools
    <2>8. Studio!Prepared
      BY <2>1, <2>2, <2>6, <2>7, <1>2 DEF Studio!Prepared, StudioRun
    <2> QED
      BY <2>8 DEF Studio!Next
  <1>6. CASE ConfigureFailed(flight)
    <2>1. PreparingTool' = Null
      BY <1>4, <1>6 DEF ConfigureFailed
    <2>2. UNCHANGED <<selectedToolId, configuredTool, run, outputValue,
                      view>>
      BY <1>6 DEF ConfigureFailed, submitVars
    <2>3. Studio!PrepareFails
      BY <2>1, <2>2, <1>2 DEF Studio!PrepareFails, UsableTools, StudioRun
    <2> QED
      BY <2>3 DEF Studio!Next
  <1> QED
    BY <1>3, <1>5, <1>6 DEF FlightAdvances

\* A click chooses, prepares or runs; typing changes nothing here.
LEMMA UserImplements ==
    ASSUME WorkbenchInv, WorkbenchInv', UserStep
    PROVE  Studio!Next \/ UNCHANGED Studio!vars
  <1>1. ASSUME NEW toolId \in Tools, SelectTool(toolId)
        PROVE  Studio!Choose(toolId)
    <2>1. run = Null /\ run' = Null
      BY <1>1 DEF SelectTool, EventLoopIdle, submitVars
    <2>2. configuredTool' = Null /\ view'.configuredTool = Null
      BY <1>1 DEF SelectTool, ForgetPreviousTool, WorkbenchInv, TypeOK, Views
    <2>3. UsableTools' = {}
      BY <2>2 DEF UsableTools
    <2>4. selectedToolId' = toolId /\ outputValue' = Null
          /\ PreparingTool' = PreparingTool
      BY <1>1 DEF SelectTool, ForgetPreviousTool, configureVars,
                  PreparingTool
    <2> QED
      BY <2>1, <2>3, <2>4 DEF Studio!Choose, StudioRun
  <1>2. CASE ConfigureSelectedTool
    <2>1. flights = {} /\ view.selectedToolId # Null
      BY <1>2 DEF ConfigureSelectedTool, ConfigureEnabled, WorkbenchInv,
                  OneConfigureAtATime
    <2>2. view.selectedToolId = selectedToolId /\ selectedToolId # Null
      BY <2>1 DEF WorkbenchInv, ViewLagsSafely
    <2>3. PreparingTool = Null /\ PreparingTool' = selectedToolId
      <3> DEFINE flight == [attempt |-> attempts + 1,
                            toolId |-> view.selectedToolId,
                            phase |-> "preparing"]
      <3>1. flights' = {flight}
        BY <1>2, <2>1 DEF ConfigureSelectedTool
      <3>2. flights' # {}
        BY <3>1
      <3>3. (CHOOSE f \in flights' : TRUE) \in flights'
        BY <3>2
      <3>4. (CHOOSE f \in flights' : TRUE) = flight
        BY <3>1, <3>3
      <3>5. flight.toolId = selectedToolId
        BY <2>2
      <3> HIDE DEF flight
      <3>6. PreparingTool' = (CHOOSE f \in flights' : TRUE).toolId
        BY <3>2 DEF PreparingTool
      <3> QED
        BY <2>1, <3>4, <3>5, <3>6 DEF PreparingTool
    <2>4. view'.configuredTool = view.configuredTool
      BY <1>2 DEF ConfigureSelectedTool, WorkbenchInv, TypeOK, Views
    <2>5. UNCHANGED <<selectedToolId, configuredTool, run, outputValue>>
      BY <1>2 DEF ConfigureSelectedTool, submitVars
    <2>6. Studio!Prepare
      BY <2>2, <2>3, <2>4, <2>5 DEF Studio!Prepare, UsableTools, StudioRun
    <2> QED
      BY <2>6 DEF Studio!Next
  <1>3. ASSUME NEW text \in Inputs, SetInputValue(text)
        PROVE  UNCHANGED Studio!vars
    <2>1. UNCHANGED <<selectedToolId, configuredTool, flights, run,
                      outputValue>> /\ view' = view
      BY <1>3 DEF SetInputValue, configureVars, submitVars
    <2> QED
      BY <2>1, StudioStutters
  <1>4. CASE SubmitInput
    <2> DEFINE tool == view.configuredTool.toolId
    <2>1. view.configuredTool # Null /\ run = Null
      BY <1>4 DEF SubmitInput, SubmitEnabled, IsConfigured, EventLoopIdle
    <2>2. view.configuredTool \in Configurations
      BY <2>1 DEF WorkbenchInv, TypeOK, Views
    <2>3. tool \in UsableTools /\ tool \in Tools
      BY <2>1, <2>2 DEF UsableTools, Configurations
    <2>4. view.selectedToolId = selectedToolId
      BY <1>4 DEF SubmitInput, WorkbenchInv, ViewLagsSafely
    <2>5. run' = [toolId |-> selectedToolId, inputText |-> inputValue,
                  configuration |-> view.configuredTool]
      BY <1>4, <2>4 DEF SubmitInput
    <2>6. run' # Null
      <3>1. view.selectedToolId \in Tools
        BY <1>4 DEF SubmitInput, WorkbenchInv, TypeOK, Views
      <3>2. inputValue \in Inputs
        BY DEF WorkbenchInv, TypeOK
      <3>3. run' \in Runs
        BY <3>1, <3>2, <2>2, <2>4, <2>5 DEF Runs
      <3> QED
        BY <3>3, WorkbenchAssumption
    <2>7. StudioRun(run') = [choice |-> selectedToolId, tool |-> tool,
                             text |-> inputValue]
      BY <2>5, <2>6 DEF StudioRun
    <2>8. UNCHANGED <<selectedToolId, configuredTool, flights>>
          /\ outputValue' = Null
      BY <1>4 DEF SubmitInput, configureVars
    <2>9. view'.configuredTool = view.configuredTool
      BY <1>4 DEF SubmitInput, WorkbenchInv, TypeOK, Views
    <2>10. UNCHANGED <<UsableTools, PreparingTool>>
      BY <2>8, <2>9 DEF UsableTools, PreparingTool
    <2>11. StudioRun(run) = Null /\ StudioRun(outputValue') = Null
      BY <2>1, <2>8 DEF StudioRun
    <2>12. Studio!Run(tool, inputValue)
      BY <2>3, <2>7, <2>8, <2>10, <2>11 DEF Studio!Run, StudioRun
    <2>13. inputValue \in Inputs
      BY DEF WorkbenchInv, TypeOK
    <2> QED
      BY <2>3, <2>12, <2>13 DEF Studio!Next
  <1> QED
    BY <1>1, <1>2, <1>3, <1>4 DEF UserStep, Studio!Next

\* The end of a run shows its result, or nothing.
LEMMA RunImplements ==
    ASSUME WorkbenchInv, RunSettles
    PROVE  Studio!Next
  <1>1. run # Null /\ run' = Null
    BY DEF RunSettles, ExecuteDone, ExecuteFailed
  <1>2. UNCHANGED <<selectedToolId, UsableTools, PreparingTool>>
    <2>1. UNCHANGED <<selectedToolId, configuredTool, view, flights>>
      BY DEF RunSettles, ExecuteDone, ExecuteFailed, configureVars
    <2>2. UNCHANGED UsableTools
      BY <2>1 DEF UsableTools
    <2>3. UNCHANGED PreparingTool
      BY <2>1 DEF PreparingTool
    <2> QED
      BY <2>1, <2>2, <2>3
  <1>3. StudioRun(run) # Null
    <2>1. run \in Runs
      BY <1>1 DEF WorkbenchInv, TypeOK
    <2>2. StudioRun(run) \in [choice : Tools, tool : Tools, text : Inputs]
      BY <1>1, <2>1 DEF StudioRun, Runs, Configurations
    <2> QED
      BY <2>2, WorkbenchAssumption
  <1>4. CASE ExecuteDone
    BY <1>1, <1>2, <1>3, <1>4
       DEF ExecuteDone, Studio!Finish, Studio!Next, StudioRun
  <1>5. CASE ExecuteFailed
    BY <1>1, <1>2, <1>3, <1>5
       DEF ExecuteFailed, Studio!Fail, Studio!Next, StudioRun
  <1> QED
    BY <1>4, <1>5 DEF RunSettles

\* A render drops the configuration of the page it replaces.
LEMMA RenderImplements ==
    ASSUME WorkbenchInv, Render
    PROVE  Studio!Next \/ UNCHANGED Studio!vars
  <1>1. UNCHANGED <<selectedToolId, configuredTool, flights, run,
                    outputValue>>
    BY DEF Render, configureVars, submitVars
  <1>2. view'.configuredTool = configuredTool
    BY DEF Render, CurrentState
  <1>3. CASE configuredTool = Null
    <2>1. view.configuredTool = Null
      BY <1>3 DEF WorkbenchInv, ViewLagsSafely
    <2> QED
      BY <1>1, <1>2, <1>3, <2>1, StudioStutters
  <1>4. CASE configuredTool # Null
    <2>1. UsableTools' = {configuredTool.toolId}
      BY <1>1, <1>2, <1>4 DEF UsableTools
    <2>2. configuredTool.toolId \in UsableTools
      BY <1>4 DEF UsableTools
    <2>3. Studio!Forget
      BY <2>1, <2>2, <1>1 DEF Studio!Forget, PreparingTool, StudioRun
    <2> QED
      BY <2>3 DEF Studio!Next
  <1> QED
    BY <1>3, <1>4

\* Every behaviour of the workbench is a behaviour of a ToolStudio.
THEOREM WorkbenchImplementsStudio == Spec => ImplementsStudio
  <1>1. WorkbenchInv /\ WorkbenchInv' /\ [Next]_vars
           => [Studio!Next]_(Studio!vars)
    <2> SUFFICES ASSUME WorkbenchInv, WorkbenchInv', [Next]_vars
                 PROVE  Studio!Next \/ UNCHANGED Studio!vars
      OBVIOUS
    <2>1. CASE UNCHANGED vars
      BY <2>1, StudioStutters DEF vars
    <2>2. CASE Next
      BY <2>2, CatalogImplements, FlightImplements, UserImplements,
         RunImplements, RenderImplements DEF Next
    <2> QED
      BY <2>1, <2>2
  <1> QED
    BY <1>1, InitImplementsInit, InvCorrect, PTL
       DEF Spec, ImplementsStudio, Studio!Spec
=============================================================================

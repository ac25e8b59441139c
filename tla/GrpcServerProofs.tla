-------------------------- MODULE GrpcServerProofs --------------------------
(* The safety of the process's life, for any number of calls and any        *)
(* setting of the timeout.                                                  *)
EXTENDS GrpcServer, SequenceTheorems, TLAPS

-----------------------------------------------------------------------------
(* The inductive invariant.                                                 *)

\* Run has returned exactly when the process has ended, and calls are cut by
\* that end alone.
OnlyExitCuts ==
    /\ Alive <=> runAt # "returned"
    /\ Alive => \A rpc \in Rpcs : rpcs[rpc] # "cut"

\* GracefulStop was called by Run, which was asked to by a signal.
StopWasAsked ==
    /\ stopping => ctxDone
    /\ stopping => runAt \in {"stopping", "returned"}
    /\ runAt = "stopping" => stopping

\* Serve returns nil for one reason.
NilMeansStopping == result = "nil" => stopping

\* The goroutine is born when Run listens.
ServeBeforeListen ==
    runAt \in {"loading", "listening"} => serve = "unborn"

\* errCh holds nothing but the goroutine's one result.
ChannelHoldsResult ==
    /\ serve = "finished" => result # "none" /\ errCh \in {<<>>, <<result>>}
    /\ serve = "sending" => result # "none"
    /\ serve # "finished" => errCh = <<>>

ServerInv ==
    /\ TypeOK
    /\ SuccessIsGraceful
    /\ SendNeverBlocks
    /\ OnlyExitCuts
    /\ StopWasAsked
    /\ NilMeansStopping
    /\ ServeBeforeListen
    /\ ChannelHoldsResult

-----------------------------------------------------------------------------
LEMMA InitEstablishesInv == Init => ServerInv
  <1> SUFFICES ASSUME Init PROVE ServerInv
    OBVIOUS
  <1>1. TypeOK
    <2>1. errCh \in Seq(Results \ {"none"})
      BY EmptySeq DEF Init
    <2>2. rpcs \in [Rpcs -> RpcStates]
      BY DEF Init, RpcStates
    <2>3. waited \in 0..MaxWait /\ shutdownTimeout \in Int
      BY GrpcServerAssumption DEF Init, DefaultTimeout
    <2> QED
      BY <2>1, <2>2, <2>3
         DEF Init, TypeOK, RunPoints, ServePoints, Results, Exits
  <1> QED
    BY <1>1 DEF Init, ServerInv, SuccessIsGraceful, SendNeverBlocks,
                OnlyExitCuts, StopWasAsked, NilMeansStopping,
                ServeBeforeListen, ChannelHoldsResult, Alive

\* What remains to be said of a step that ends the process.
LEMMA ExitKeepsInv ==
    ASSUME ServerInv, Alive,
           NEW status \in {"success", "failure"}, Exit(status),
           status = "success" => stopping /\ Drained,
           UNCHANGED <<ctxDone, serve, result, stopping, waited>>,
           shutdownTimeout' \in Int,
           errCh' = errCh \/ errCh' = <<>>
    PROVE  ServerInv'
  <1> USE DEF ServerInv
  <1>1. rpcs' \in [Rpcs -> RpcStates]
    BY DEF Exit, TypeOK, RpcStates
  <1>2. errCh' \in Seq(Results \ {"none"})
    BY EmptySeq DEF TypeOK
  <1>3. TypeOK'
    BY <1>1, <1>2 DEF TypeOK, Exit, RunPoints, Exits
  <1>4. SuccessIsGraceful'
    <2>1. exit' = status
      BY DEF Exit
    <2>2. CASE status = "failure"
      BY <2>1, <2>2 DEF SuccessIsGraceful
    <2>3. CASE status = "success"
      <3>1. ctxDone'
        BY <2>3 DEF StopWasAsked
      <3>2. ASSUME NEW rpc \in Rpcs PROVE rpcs'[rpc] # "cut"
        BY <2>3 DEF Exit, Drained, OnlyExitCuts
      <3> QED
        BY <3>1, <3>2 DEF SuccessIsGraceful
    <2> QED
      BY <2>2, <2>3
  <1>5. SendNeverBlocks'
    BY DEF SendNeverBlocks, ErrChCap, ChannelHoldsResult
  <1>6. OnlyExitCuts'
    BY DEF OnlyExitCuts, Exit, Alive
  <1>7. StopWasAsked' /\ NilMeansStopping' /\ ServeBeforeListen'
    BY DEF StopWasAsked, NilMeansStopping, ServeBeforeListen, Exit
  <1>8. ChannelHoldsResult'
    BY DEF ChannelHoldsResult
  <1> QED
    BY <1>3, <1>4, <1>5, <1>6, <1>7, <1>8

\* main and Run.
LEMMA RunStepKeepsInv == ServerInv /\ RunStep => ServerInv'
  <1> SUFFICES ASSUME ServerInv, RunStep PROVE ServerInv'
    OBVIOUS
  <1> USE DEF ServerInv
  <1>1. ASSUME NEW setting \in EnvTimeouts, LoadConfig(setting)
        PROVE  ServerInv'
    <2>1. shutdownTimeout' \in Int
      BY <1>1, GrpcServerAssumption DEF LoadConfig, DefaultTimeout
    <2>2. UNCHANGED <<ctxDone, exit, serve, result, errCh, stopping, rpcs,
                      waited>>
      BY <1>1 DEF LoadConfig, serveVars
    <2> QED
      BY <1>1, <2>1, <2>2
         DEF LoadConfig, TypeOK, RunPoints, SuccessIsGraceful,
             SendNeverBlocks, OnlyExitCuts, StopWasAsked, NilMeansStopping,
             ServeBeforeListen, ChannelHoldsResult, Alive
  <1>2. ASSUME NEW setting \in EnvTimeouts, LoadFails(setting)
        PROVE  ServerInv'
    BY <1>2, ExitKeepsInv DEF LoadFails, serveVars, TypeOK
  <1>3. CASE Listen
    <2>1. serve' = "starting" /\ runAt' = "selecting"
          /\ UNCHANGED <<shutdownTimeout, ctxDone, exit, result, errCh,
                         stopping, rpcs, waited>>
      BY <1>3 DEF Listen
    <2>2. TypeOK'
      BY <2>1 DEF TypeOK, RunPoints, ServePoints
    <2>3. ChannelHoldsResult' /\ SendNeverBlocks'
      BY <1>3, <2>1 DEF Listen, ChannelHoldsResult, SendNeverBlocks,
                        ServeBeforeListen
    <2> QED
      BY <1>3, <2>1, <2>2, <2>3
         DEF Listen, SuccessIsGraceful, OnlyExitCuts, StopWasAsked,
             NilMeansStopping, ServeBeforeListen, Alive
  <1>4. CASE ListenFails
    BY <1>4, ExitKeepsInv DEF ListenFails, serveVars, TypeOK
  <1>5. CASE Shutdown
    BY <1>5 DEF Shutdown, CtxCase, TypeOK, RunPoints, SuccessIsGraceful,
                SendNeverBlocks, OnlyExitCuts, StopWasAsked, NilMeansStopping,
                ServeBeforeListen, ChannelHoldsResult, Alive, serveVars
  <1>6. CASE ServeReturned
    <2>1. errCh = <<result>> /\ result # "none"
      BY <1>6 DEF ServeReturned, ChannelHoldsResult
    <2>2. result = "error"
      BY <1>6, <2>1 DEF ServeReturned, TypeOK, Results, NilMeansStopping,
                        ServeBeforeListen, StopWasAsked
    <2>3. errCh' = <<>> /\ Head(errCh) = "error"
      BY <1>6, <2>1, <2>2 DEF ServeReturned
    <2> QED
      BY <1>6, <2>3, ExitKeepsInv DEF ServeReturned, TypeOK
  <1>7. CASE StopReturns
    BY <1>7, ExitKeepsInv
       DEF StopReturns, serveVars, TypeOK, StopWasAsked
  <1> QED
    BY <1>1, <1>2, <1>3, <1>4, <1>5, <1>6, <1>7 DEF RunStep

\* The goroutine.
LEMMA ServeStepKeepsInv == ServerInv /\ ServeStep => ServerInv'
  <1> SUFFICES ASSUME ServerInv, ServeStep PROVE ServerInv'
    OBVIOUS
  <1> USE DEF ServerInv
  <1>1. CASE ServeStarts \/ ServeFails \/ ServeStops
    BY <1>1 DEF ServeStarts, ServeFails, ServeStops, ErrServerStopped,
                ErrChCap, TypeOK, ServePoints, Results, SuccessIsGraceful,
                SendNeverBlocks, OnlyExitCuts, StopWasAsked, NilMeansStopping,
                ServeBeforeListen, ChannelHoldsResult, Alive, runVars
  <1>2. CASE SendResult
    <2>1. errCh = <<>> /\ result \in Results \ {"none"}
      BY <1>2 DEF SendResult, ChannelHoldsResult, TypeOK
    <2>2. errCh' = <<result>>
      BY <1>2, <2>1 DEF SendResult
    <2> QED
      BY <1>2, <2>1, <2>2
         DEF SendResult, TypeOK, ServePoints, SuccessIsGraceful,
             SendNeverBlocks, OnlyExitCuts, StopWasAsked, NilMeansStopping,
             ServeBeforeListen, ChannelHoldsResult, Alive, runVars
  <1> QED
    BY <1>1, <1>2 DEF ServeStep

\* The signals, the clock and the calls.
LEMMA OutsideStepKeepsInv ==
    ASSUME ServerInv,
           SignalKills \/ Signal \/ Tick
             \/ \E rpc \in Rpcs : RpcStarts(rpc) \/ RpcAnswered(rpc)
    PROVE  ServerInv'
  <1> USE DEF ServerInv
  <1>1. CASE SignalKills
    BY <1>1, ExitKeepsInv DEF SignalKills, serveVars, TypeOK
  <1>2. CASE Signal
    BY <1>2 DEF Signal, TypeOK, SuccessIsGraceful, SendNeverBlocks,
                OnlyExitCuts, StopWasAsked, NilMeansStopping,
                ServeBeforeListen, ChannelHoldsResult, Alive, serveVars
  <1>3. CASE Tick
    BY <1>3, GrpcServerAssumption
       DEF Tick, TypeOK, SuccessIsGraceful, SendNeverBlocks, OnlyExitCuts,
           StopWasAsked, NilMeansStopping, ServeBeforeListen,
           ChannelHoldsResult, Alive, runVars, serveVars
  <1>4. ASSUME NEW rpc \in Rpcs, RpcStarts(rpc) \/ RpcAnswered(rpc)
        PROVE  ServerInv'
    <2>1. rpcs' \in [Rpcs -> RpcStates]
      BY <1>4 DEF RpcStarts, RpcAnswered, TypeOK, RpcStates
    <2>2. Alive /\ \A other \in Rpcs : rpcs'[other] # "cut"
      BY <1>4 DEF RpcStarts, RpcAnswered, TypeOK, OnlyExitCuts
    <2>3. UNCHANGED <<runVars, serveVars, stopping, waited>>
      BY <1>4 DEF RpcStarts, RpcAnswered
    <2> QED
      BY <2>1, <2>2, <2>3
         DEF TypeOK, SuccessIsGraceful, SendNeverBlocks, OnlyExitCuts,
             StopWasAsked, NilMeansStopping, ServeBeforeListen,
             ChannelHoldsResult, Alive, runVars, serveVars
  <1> QED
    BY <1>1, <1>2, <1>3, <1>4

-----------------------------------------------------------------------------
\* The invariant holds in every state of the process's life.
THEOREM ServerCorrect == Spec => []ServerInv
  <1>1. ServerInv /\ [Next]_vars => ServerInv'
    <2> SUFFICES ASSUME ServerInv, [Next]_vars PROVE ServerInv'
      OBVIOUS
    <2>1. CASE UNCHANGED vars
      BY <2>1 DEF vars, runVars, serveVars, ServerInv, TypeOK,
                  SuccessIsGraceful, SendNeverBlocks, OnlyExitCuts,
                  StopWasAsked, NilMeansStopping, ServeBeforeListen,
                  ChannelHoldsResult, Alive
    <2>2. CASE Next
      BY <2>2, RunStepKeepsInv, ServeStepKeepsInv, OutsideStepKeepsInv
         DEF Next
    <2> QED
      BY <2>1, <2>2
  <1> QED
    BY <1>1, InitEstablishesInv, PTL DEF Spec

\* Every variable of the process keeps its type.
THEOREM ServerTypeCorrect == Spec => []TypeOK
  BY ServerCorrect, PTL DEF ServerInv

\* However many calls are made, a process reports success only after it was
\* asked to stop, and then no call was cut.
THEOREM SuccessCorrect == Spec => []SuccessIsGraceful
  BY ServerCorrect, PTL DEF ServerInv

\* The goroutine never waits to send Serve's result.
THEOREM SendCorrect == Spec => []SendNeverBlocks
  BY ServerCorrect, PTL DEF ServerInv
=============================================================================

----------------------------- MODULE GrpcServer -----------------------------
(***************************************************************************)
(* The life of the Go process: main, config.Load, Server.Run and the       *)
(* goroutine it starts, around grpc-go's Serve and GracefulStop.           *)
(*                                                                         *)
(* Three parties race: the signal that cancels the context, the goroutine  *)
(* that runs Serve and sends its result on errCh, and the calls in flight. *)
(* Serve and GracefulStop are grpc-go's; they are modelled by what Run     *)
(* relies on: GracefulStop closes the listener, refuses new calls and      *)
(* waits for those under way, and a Serve that starts after it returns     *)
(* ErrServerStopped.                                                       *)
(***************************************************************************)
EXTENDS Integers, Sequences

CONSTANTS Rpcs,        \* the calls clients may make
          EnvTimeouts, \* what SHUTDOWN_TIMEOUT_SECONDS may be set to
          Unset,       \* the variable is absent, or empty
          Garbage,     \* text that is not an integer
          MaxWait      \* bound on the seconds counted while stopping

ASSUME GrpcServerAssumption ==
    /\ EnvTimeouts \subseteq Int \cup {Unset, Garbage}
    /\ MaxWait \in Nat

VARIABLES runAt,     \* where main, then Run, is
          shutdownTimeout,  \* the field of Config
          ctxDone,   \* a signal came: NotifyContext cancelled the context
          serve,     \* where the goroutine is
          result,    \* what Serve returned, once it has
          errCh,     \* the values sent and not yet received
          stopping,  \* GracefulStop was called
          rpcs,      \* where each call is
          waited,    \* seconds spent in GracefulStop
          exit       \* the process's exit status

runVars == <<runAt, shutdownTimeout, ctxDone, exit>>
serveVars == <<serve, result, errCh>>
vars == <<runVars, serveVars, stopping, rpcs, waited>>

RunPoints == {"loading", "listening", "selecting", "stopping", "returned"}
ServePoints == {"unborn", "starting", "accepting", "sending", "finished"}
Results == {"none", "nil", "error"}
RpcStates == {"idle", "running", "answered", "cut"}
Exits == {"running", "success", "failure"}

Alive == exit = "running"

\* The fallback of getEnv, and what the field holds before it is set.
DefaultTimeout == 5

Init ==
    /\ runAt = "loading"
    /\ shutdownTimeout = DefaultTimeout
    /\ ctxDone = FALSE
    /\ serve = "unborn"
    /\ result = "none"
    /\ errCh = <<>>
    /\ stopping = FALSE
    /\ rpcs = [rpc \in Rpcs |-> "idle"]
    /\ waited = 0
    /\ exit = "running"

-----------------------------------------------------------------------------
(* The process ends: what was running is cut.                               *)

Exit(status) ==
    /\ runAt' = "returned"
    /\ exit' = status
    /\ rpcs' = [rpc \in Rpcs |-> IF rpcs[rpc] = "running" THEN "cut"
                                                          ELSE rpcs[rpc]]

\* SIGINT or SIGTERM before NotifyContext takes them over.
SignalKills ==
    /\ Alive
    /\ runAt = "loading"
    /\ Exit("failure")
    /\ UNCHANGED <<shutdownTimeout, ctxDone, serveVars, stopping, waited>>

\* The handler stays installed until main returns, so a second signal finds
\* the context cancelled already and does nothing.
Signal ==
    /\ Alive
    /\ runAt # "loading"
    /\ ctxDone' = TRUE
    /\ UNCHANGED <<runAt, shutdownTimeout, exit, serveVars, stopping, rpcs,
                   waited>>

-----------------------------------------------------------------------------
(* main: the configuration, then Run.  getEnv makes the checks for an empty *)
(* port or root, which follow, unreachable.                                 *)

LoadConfig(setting) ==
    /\ Alive
    /\ runAt = "loading"
    /\ setting # Garbage
    /\ shutdownTimeout' = IF setting = Unset THEN DefaultTimeout ELSE setting
    /\ runAt' = "listening"
    /\ UNCHANGED <<ctxDone, exit, serveVars, stopping, rpcs, waited>>

LoadFails(setting) ==
    /\ Alive
    /\ runAt = "loading"
    /\ setting = Garbage
    /\ Exit("failure")
    /\ UNCHANGED <<shutdownTimeout, ctxDone, serveVars, stopping, waited>>

Listen ==
    /\ Alive
    /\ runAt = "listening"
    /\ runAt' = "selecting"
    /\ serve' = "starting"
    /\ UNCHANGED <<shutdownTimeout, ctxDone, exit, result, errCh, stopping,
                   rpcs, waited>>

ListenFails ==
    /\ Alive
    /\ runAt = "listening"
    /\ Exit("failure")
    /\ UNCHANGED <<shutdownTimeout, ctxDone, serveVars, stopping, waited>>

\* Fault: the select has no case for the context.
CtxCaseMissing == FALSE

CtxCase == ctxDone

\* The case of ctx.Done(): GracefulStop is called.
Shutdown ==
    /\ Alive
    /\ runAt = "selecting"
    /\ CtxCase
    /\ runAt' = "stopping"
    /\ stopping' = TRUE
    /\ UNCHANGED <<shutdownTimeout, ctxDone, exit, serveVars, rpcs, waited>>

\* The case of errCh; both cases may be ready, and select takes either.
ServeReturned ==
    /\ Alive
    /\ runAt = "selecting"
    /\ errCh # <<>>
    /\ errCh' = Tail(errCh)
    /\ Exit(IF Head(errCh) = "error" THEN "failure" ELSE "success")
    /\ UNCHANGED <<shutdownTimeout, ctxDone, serve, result, stopping, waited>>

\* Fault: Stop where Run calls GracefulStop.
Abandoned == TRUE

\* GracefulStop waits for the calls under way and for no timer.
Drained == \A rpc \in Rpcs : rpcs[rpc] # "running"

StopReturns ==
    /\ Alive
    /\ runAt = "stopping"
    /\ Drained
    /\ Exit("success")
    /\ UNCHANGED <<shutdownTimeout, ctxDone, serveVars, stopping, waited>>

\* A second passes in GracefulStop, which is waiting for a call.
Tick ==
    /\ Alive
    /\ runAt = "stopping"
    /\ ~Drained
    /\ waited < MaxWait
    /\ waited' = waited + 1
    /\ UNCHANGED <<runVars, serveVars, stopping, rpcs>>

-----------------------------------------------------------------------------
(* The goroutine.                                                           *)

\* Fault: the goroutine sends before it has Serve's result.
ErrServerStoppedUnset == "none"

ErrServerStopped == "error"

ServeStarts ==
    /\ Alive
    /\ serve = "starting"
    /\ \/ stopping /\ serve' = "sending" /\ result' = ErrServerStopped
       \/ ~stopping /\ serve' = "accepting" /\ UNCHANGED result
    /\ UNCHANGED <<runVars, errCh, stopping, rpcs, waited>>

\* Accept fails for good.  The connections already made live on.
ServeFails ==
    /\ Alive
    /\ serve = "accepting"
    /\ ~stopping
    /\ serve' = "sending"
    /\ result' = "error"
    /\ UNCHANGED <<runVars, errCh, stopping, rpcs, waited>>

\* The listener was closed by GracefulStop: Serve waits for it, returns nil.
ServeStops ==
    /\ Alive
    /\ serve = "accepting"
    /\ stopping
    /\ Drained
    /\ serve' = "sending"
    /\ result' = "nil"
    /\ UNCHANGED <<runVars, errCh, stopping, rpcs, waited>>

\* Fault: the channel is made without a buffer.
ErrChUnbuffered == 0

ErrChCap == 1

SendResult ==
    /\ Alive
    /\ serve = "sending"
    /\ Len(errCh) < ErrChCap
    /\ errCh' = Append(errCh, result)
    /\ serve' = "finished"
    /\ UNCHANGED <<runVars, result, stopping, rpcs, waited>>

-----------------------------------------------------------------------------
(* The calls.                                                               *)

\* A new connection needs Accept; one made before does not.
RpcStarts(rpc) ==
    /\ Alive
    /\ rpcs[rpc] = "idle"
    /\ ~stopping
    /\ \/ serve = "accepting"
       \/ result = "error" /\ \E other \in Rpcs : rpcs[other] # "idle"
    /\ rpcs' = [rpcs EXCEPT ![rpc] = "running"]
    /\ UNCHANGED <<runVars, serveVars, stopping, waited>>

RpcAnswered(rpc) ==
    /\ Alive
    /\ rpcs[rpc] = "running"
    /\ rpcs' = [rpcs EXCEPT ![rpc] = "answered"]
    /\ UNCHANGED <<runVars, serveVars, stopping, waited>>

-----------------------------------------------------------------------------
RunStep ==
    \/ \E setting \in EnvTimeouts : LoadConfig(setting) \/ LoadFails(setting)
    \/ Listen \/ ListenFails \/ Shutdown \/ ServeReturned \/ StopReturns

ServeStep == ServeStarts \/ ServeFails \/ ServeStops \/ SendResult

Next ==
    \/ SignalKills \/ Signal
    \/ RunStep
    \/ Tick
    \/ ServeStep
    \/ \E rpc \in Rpcs : RpcStarts(rpc) \/ RpcAnswered(rpc)

\* The Go scheduler runs every runnable goroutine, and the handlers, which
\* read files and call nobody, return.  Accept need not ever fail.
Fairness ==
    /\ WF_vars(RunStep)
    /\ WF_vars(ServeStarts \/ ServeStops \/ SendResult)
    /\ \A rpc \in Rpcs : WF_vars(RpcAnswered(rpc))

Spec == Init /\ [][Next]_vars
FairSpec == Spec /\ Fairness

-----------------------------------------------------------------------------
(* Properties.                                                              *)

\* Every variable of the process keeps its type; what was sent on errCh
\* is a result.
TypeOK ==
    /\ runAt \in RunPoints
    /\ shutdownTimeout \in Int
    /\ ctxDone \in BOOLEAN
    /\ serve \in ServePoints
    /\ result \in Results
    /\ errCh \in Seq(Results \ {"none"})
    /\ stopping \in BOOLEAN
    /\ rpcs \in [Rpcs -> RpcStates]
    /\ waited \in 0..MaxWait
    /\ exit \in Exits

\* A process that reports success was asked to stop and cut no call, even
\* when Accept failed just before the signal came.
SuccessIsGraceful ==
    exit = "success" => ctxDone /\ \A rpc \in Rpcs : rpcs[rpc] # "cut"

\* The goroutine can always hand over its result without waiting for Run,
\* which has stopped listening to errCh once it took the other case.
SendNeverBlocks == serve = "sending" => Len(errCh) < ErrChCap

\* A signal ends the process, provided the handlers under way return: no
\* party waits for another in a circle.
SignalEndsProcess == ctxDone ~> exit # "running"

\* What README.md:125 says of SHUTDOWN_TIMEOUT_SECONDS: the graceful shutdown
\* is bounded.  config.Load parses the value, and nothing reads it after.
ShutdownIsBounded == waited <= shutdownTimeout
=============================================================================

---------------------------- MODULE ToolGateway ----------------------------
(***************************************************************************)
(* The way of a request from the browser's fetch through the Next routes   *)
(* and the gRPC client to the Go service, and back: tool-catalog.ts, the   *)
(* routes under app/api/tools, backend-tool-gateway.ts, go-grpc-client.ts. *)
(*                                                                         *)
(* Composed with CatalogService: a fetch, the route handler that serves    *)
(* it, its gRPC client and the Go service's call share an identifier.      *)
(* Each of the three can lose the next one: the browser gives up on its    *)
(* fetch while the handler goes on, and the gRPC connection breaks while   *)
(* the Go service works on.  The gRPC client sets no deadline.             *)
(***************************************************************************)
EXTENDS CatalogService, FiniteSets

VARIABLES fetches,  \* fetches[call]: what the browser asked, and its answer
          routes,   \* routes[call]: where the route handler is
          clients   \* calls whose gRPC client is open

gatewayVars == <<fetches, routes, clients>>
allVars == <<vars, gatewayVars>>

HttpStatuses == {200, 400, 404, 500, 502}
Outcomes == {"pending", "fulfilled", "rejected"}

\* What the browser asks.  The adapter sends well formed bodies, but the
\* route reads the body of whoever calls it, and of a fetch cut short.
Fetches ==
    [method : {"ListTools"}, toolId : {Unknown}, wellFormed : {TRUE}]
      \cup [method : {"GetToolPackage"}, toolId : Tools \cup {Unknown},
            wellFormed : BOOLEAN]

\* A size is known by the bytes it counts.
Sizes == [decimalOf : WrittenFiles]
PrepareResponses ==
    [toolId : Tools, wasmBytesBase64 : [base64Of : WrittenFiles],
     moduleSha256 : WrittenFiles, moduleSizeBytes : Sizes]
Bodies == [tools : Seq(Tools)] \cup PrepareResponses \cup {Null}

FetchRecords ==
    [method : Methods, toolId : Tools \cup {Unknown}, wellFormed : BOOLEAN,
     outcome : Outcomes, body : Bodies]
RouteRecords ==
    [at : {"idle", "entered", "calling"}]
      \cup [at : {"answered"}, status : HttpStatuses, body : Bodies]

ASSUME ToolGatewayAssumption == Null \notin FetchRecords

GatewayInit ==
    /\ Init
    /\ fetches = [call \in Calls |-> Null]
    /\ routes = [call \in Calls |-> [at |-> "idle"]]
    /\ clients = {}

-----------------------------------------------------------------------------
(* The answers.                                                             *)

\* The list route has no catch: Next answers for it.
ListStatus(status) == IF status = "OK" THEN 200 ELSE 500

\* Fault: every error of the back end counts as a missing tool.
PrepareStatusAnyError(status) == IF status = "OK" THEN 200 ELSE 404

\* grpc-js puts the name of the status into the message, where the route
\* looks for NOT_FOUND.
PrepareStatus(status) ==
    CASE status = "OK"       -> 200
      [] status = "NotFound" -> 404
      [] OTHER               -> 502

HttpStatus(call, status) ==
    IF fetches[call].method = "ListTools" THEN ListStatus(status)
                                          ELSE PrepareStatus(status)

\* loadSync is told to make strings of 64-bit integers, and nobody makes
\* numbers of them again, although contracts.ts:57 declares one.
LoadedUint64(bytes) == [decimalOf |-> bytes]

\* toBrowserToolPackage and toPrepareResponse.
ToPrepareResponse(call) ==
    [toolId |-> calls[call].toolId,
     wasmBytesBase64 |-> [base64Of |-> replies[call].bytes],
     moduleSha256 |-> replies[call].sha256,
     moduleSizeBytes |-> LoadedUint64(replies[call].bytes)]

DecodeBase64(text) == text.base64Of

\* An error's body is read as text, for the message only.
Body(call, status) ==
    IF status # "OK" THEN Null
    ELSE IF fetches[call].method = "ListTools"
         THEN [tools |-> replies[call].tools]
         ELSE ToPrepareResponse(call)

\* Fault: a failed call is tried again.
RespondOrRetry(call, status, body) ==
    routes' = [routes EXCEPT ![call] =
                  IF status = 502 THEN [at |-> "entered"]
                  ELSE [at |-> "answered", status |-> status, body |-> body]]

Respond(call, status, body) ==
    routes' = [routes EXCEPT ![call] =
                  [at |-> "answered", status |-> status, body |-> body]]

\* Fault: the client is closed after a successful call only.
CloseClientOnSuccess(call, status) ==
    clients' = IF status = "OK" THEN clients \ {call} ELSE clients

\* The finally block of withClient.
CloseClient(call, status) == clients' = clients \ {call}

-----------------------------------------------------------------------------
(* The browser.                                                             *)

Fetch(call, fetch) ==
    /\ fetches[call] = Null
    /\ fetches' = [fetches EXCEPT ![call] =
                      [method |-> fetch.method, toolId |-> fetch.toolId,
                       wellFormed |-> fetch.wellFormed,
                       outcome |-> "pending", body |-> Null]]
    /\ routes' = [routes EXCEPT ![call] = [at |-> "entered"]]
    /\ UNCHANGED <<vars, clients>>

Pending(call) == fetches[call] # Null /\ fetches[call].outcome = "pending"

\* Offline, Next restarted, or the page was left: the handler goes on.
FetchRejected(call) ==
    /\ Pending(call)
    /\ fetches' = [fetches EXCEPT ![call].outcome = "rejected"]
    /\ UNCHANGED <<vars, routes, clients>>

\* Fault: the response is parsed without a look at its status.
OutcomeUnchecked(status) == "fulfilled"

Outcome(status) == IF status = 200 THEN "fulfilled" ELSE "rejected"

\* parseJsonResponse.
Receive(call) ==
    /\ Pending(call)
    /\ routes[call].at = "answered"
    /\ fetches' = [fetches EXCEPT
                      ![call].outcome = Outcome(routes[call].status),
                      ![call].body = routes[call].body]
    /\ UNCHANGED <<vars, routes, clients>>

-----------------------------------------------------------------------------
(* The route handler and its gRPC client.                                   *)

RefuseBody(call) ==
    /\ routes[call].at = "entered"
    /\ ~fetches[call].wellFormed
    /\ Respond(call, 400, Null)
    /\ UNCHANGED <<vars, fetches, clients>>

OpenClient(call) ==
    /\ routes[call].at = "entered"
    /\ fetches[call].wellFormed
    /\ routes' = [routes EXCEPT ![call] = [at |-> "calling"]]
    /\ clients' = clients \cup {call}
    /\ UNCHANGED <<vars, fetches>>

\* The request reaches the Go service.
Deliver(call) ==
    /\ routes[call].at = "calling"
    /\ StartCall(call, [method |-> fetches[call].method,
                        toolId |-> fetches[call].toolId,
                        supported |-> TRUE])
    /\ UNCHANGED gatewayVars

\* Fault: the callback forgets to reject.
CallSettledBySuccess(call) ==
    replies[call] # Null /\ replies[call].status = "OK"

CallSettled(call) == replies[call] # Null

\* The callback of the unary call.
AnswerArrives(call) ==
    /\ routes[call].at = "calling"
    /\ CallSettled(call)
    /\ CloseClient(call, replies[call].status)
    /\ Respond(call, HttpStatus(call, replies[call].status),
               Body(call, replies[call].status))
    /\ UNCHANGED <<vars, fetches>>

\* The service is down, or its connection breaks: the callback gets
\* UNAVAILABLE, and a call under way sees its context cancelled.
ConnectionLost(call) ==
    /\ routes[call].at = "calling"
    /\ CloseClient(call, "Unavailable")
    /\ Respond(call, HttpStatus(call, "Unavailable"), Null)
    /\ \/ EndContext(call, "canceled")
       \/ /\ calls[call] = Null \/ At(call, "returned")
          /\ UNCHANGED vars
    /\ UNCHANGED fetches

-----------------------------------------------------------------------------
ServiceStep(call) == CallStep(call) /\ UNCHANGED gatewayVars

RouteStep(call) ==
    RefuseBody(call) \/ OpenClient(call) \/ Deliver(call) \/ AnswerArrives(call)

GatewayNext ==
    \/ ScriptStep /\ UNCHANGED gatewayVars
    \/ \E call \in Calls :
          \/ \E fetch \in Fetches : Fetch(call, fetch)
          \/ FetchRejected(call) \/ Receive(call)
          \/ RouteStep(call)
          \/ ConnectionLost(call)
          \/ ServiceStep(call)

\* Handlers and the service's calls run to their end, and a response reaches
\* a browser that waits for it.  Nothing breaks or writes by necessity.
GatewayFairness ==
    \A call \in Calls :
        /\ WF_allVars(RouteStep(call))
        /\ WF_allVars(ServiceStep(call))
        /\ WF_allVars(Receive(call))

GatewaySpec == GatewayInit /\ [][GatewayNext]_allVars
GatewayFairSpec == GatewaySpec /\ GatewayFairness
-----------------------------------------------------------------------------
(* Properties.                                                              *)

Answered(call, status) ==
    routes[call].at = "answered" /\ routes[call].status = status

\* Fetches, handlers and clients keep their types.
GatewayTypeOK ==
    /\ ServiceTypeOK
    /\ fetches \in [Calls -> FetchRecords \cup {Null}]
    /\ routes \in [Calls -> RouteRecords]
    /\ clients \subseteq Calls

\* A gRPC client is open exactly while its handler waits for the call:
\* errors, broken connections and browsers that went away leave none behind.
NoClientLeaks == clients = {call \in Calls : routes[call].at = "calling"}

\* The status of a prepare route tells what happened below it: 404 is kept
\* for a tool whose manifest the service looked for and did not find, and
\* 200 for a package of that tool.
PrepareStatusIsTruthful ==
    \A call \in Calls :
        /\ Answered(call, 404) =>
              /\ Done(call) /\ replies[call].cause = "missing"
              /\ calls[call].undisturbed /\ fetches[call].toolId \in Tools =>
                    ~Present(fetches[call].toolId, "manifest")
        /\ Answered(call, 200) =>
              Done(call) /\ replies[call].status = "OK"

\* What the browser takes for a result is what the service sent for this
\* request: the list, or the package of the tool that was asked for, with the
\* bytes that were read and their digest and size, through every layer.
FulfilledIsTheReply ==
    \A call \in Calls :
        (fetches[call] # Null /\ fetches[call].outcome = "fulfilled") =>
            LET body == fetches[call].body IN
            /\ Done(call) /\ replies[call].status = "OK"
            /\ fetches[call].method = calls[call].method
            /\ fetches[call].method = "ListTools" =>
                  body.tools = replies[call].tools
            /\ fetches[call].method = "GetToolPackage" =>
                  /\ body.toolId = fetches[call].toolId
                  /\ DecodeBase64(body.wasmBytesBase64) = replies[call].bytes
                  /\ body.moduleSha256 = DecodeBase64(body.wasmBytesBase64)
                  /\ body.moduleSizeBytes.decimalOf = replies[call].bytes

\* What a list shows can be delivered: a tool that one request found in the
\* catalog is not refused to another while no script touches the store, even
\* one that a build left half done, unless a clean-up was cut short.
ListedCanBePrepared ==
    \A list, prepare \in Calls :
        (/\ Answered(list, 200) /\ calls[list].method = "ListTools"
         /\ calls[list].undisturbed
         /\ fetches[prepare] # Null
         /\ \E i \in DOMAIN replies[list].tools :
               replies[list].tools[i] = fetches[prepare].toolId
         /\ Done(prepare) /\ calls[prepare].undisturbed
         /\ calls[prepare].ctx = "live"
         /\ cleaned) =>
            /\ replies[prepare].status = "OK"
            /\ replies[prepare].bytes.whole

\* The steps that the handler, the service and the browser have yet to take
\* for a request, at most: a list reads one manifest after the other.
RouteWork(route) ==
    CASE route.at = "idle"    -> 3
      [] route.at = "entered" -> 2
      [] route.at = "calling" -> 1
      [] OTHER                -> 0

CallWork(record) ==
    IF record = Null THEN Cardinality(Tools) + 4
    ELSE CASE record.at = "service"  -> Cardinality(Tools) + 3
           [] record.at = "catalog"  -> Cardinality(Tools) + 2
           [] record.at = "listing"  -> Cardinality(record.toRead) + 1
           [] record.at = "artifact" -> 1
           [] OTHER                  -> 0

FetchWork(fetch) ==
    IF fetch = Null THEN 2 ELSE IF fetch.outcome = "pending" THEN 1 ELSE 0

Work(call) ==
    RouteWork(routes[call]) + CallWork(calls[call]) + FetchWork(fetches[call])

\* Whatever fails and whoever gives up, every step brings a request nearer to
\* its end and none sets one back, not even a build under a list that is
\* being read: no layer retries, and no loop starts over.
RequestsAreBounded ==
    [][/\ \A call \in Calls : Work(call)' <= Work(call)
       /\ ~ScriptStep => \E call \in Calls : Work(call)' < Work(call)]_allVars

\* Every fetch is settled, provided the service answers what reaches it.
FetchSettles == \A call \in Calls : Pending(call) ~> ~Pending(call)
=============================================================================

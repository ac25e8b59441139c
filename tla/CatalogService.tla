--------------------------- MODULE CatalogService ---------------------------
(***************************************************************************)
(* The Go back end's two calls, from the gRPC handler down to the files:   *)
(* handler.go, service.go, the file-system catalog and the artifact        *)
(* reader.  A call reads the store in several steps, without a lock, while *)
(* the build scripts of ArtifactStore write it, and its context may end    *)
(* between any two of them.                                                *)
(*                                                                         *)
(* A failed read that is neither a missing file nor a half written         *)
(* manifest (permissions, a broken disk) is left out.                      *)
(***************************************************************************)
EXTENDS ArtifactStore

CONSTANTS Calls,    \* calls that clients make
          DirOrder, \* the tools by directory name, as os.ReadDir sorts them
          Unknown,  \* a tool identifier that no tool has
          Null

VARIABLES calls,   \* calls[call], Null until a client makes it
          replies  \* replies[call], Null until the handler returns

serviceVars == <<calls, replies>>
vars == <<storeVars, serviceVars>>

Codes == {"OK", "Canceled", "DeadlineExceeded", "InvalidArgument",
          "NotFound", "FailedPrecondition", "Internal"}
Contexts == {"live", "canceled", "deadline"}

\* supported: the api_version is the one the server supports.
Requests ==
    [method : {"ListTools"}, toolId : {Unknown}, supported : BOOLEAN]
      \cup [method : {"GetToolPackage"}, toolId : Tools \cup {Unknown},
            supported : BOOLEAN]

\* Where a call is: entering the service, entering the catalog, reading the
\* manifests of a list one by one, or entering the artifact reader.
CallPoints == {"service", "catalog", "listing", "artifact", "returned"}

Methods == {"ListTools", "GetToolPackage"}
Causes == {"none", "missing", "invalid", "canceled", "deadline"}

\* toRead and tools are the local variables of ListTools, entry the one of
\* GetToolPackage: the build whose manifest was read.  undisturbed is no
\* variable of the code: no script took a step since the call was made.
CallRecords ==
    [method : Methods, toolId : Tools \cup {Unknown}, supported : BOOLEAN,
     at : CallPoints, ctx : Contexts, toRead : SUBSET Tools, tools : Seq(Tools),
     entry : 0..MaxBuilds, undisturbed : BOOLEAN]

\* A status with the cause of the error, a package, or a list.
Replies ==
    [status : Codes \ {"OK"}, cause : Causes]
      \cup [status : {"OK"}, cause : {"none"}, entry : 0..MaxBuilds,
            bytes : WrittenFiles, sha256 : WrittenFiles]
      \cup [status : {"OK"}, cause : {"none"}, tools : Seq(Tools)]

ASSUME CatalogServiceAssumption ==
    /\ DirOrder \in Seq(Tools)
    /\ Tools = {DirOrder[i] : i \in DOMAIN DirOrder}
    /\ \A i, j \in DOMAIN DirOrder : DirOrder[i] = DirOrder[j] => i = j
    /\ Unknown \notin Tools
    /\ Null \notin CallRecords \cup Replies

NewCall(request) ==
    [method |-> request.method, toolId |-> request.toolId,
     supported |-> request.supported,
     at |-> "service", ctx |-> "live", toRead |-> {}, tools |-> <<>>,
     entry |-> 0, undisturbed |-> TRUE]

Init ==
    /\ StoreInit
    /\ calls = [call \in Calls |-> Null]
    /\ replies = [call \in Calls |-> Null]

At(call, point) == calls[call] # Null /\ calls[call].at = point

-----------------------------------------------------------------------------
(* Errors.  An error is the AppError code it carries, or "plain" for one    *)
(* that is no AppError, and what it wraps: the context's error, ErrNotExist *)
(* ("missing"), a manifest that does not parse ("invalid"), or nothing.     *)

AppError(code, cause) == [code |-> code, cause |-> cause]
PlainError(cause) == [code |-> "plain", cause |-> cause]

ToCode(code) ==
    CASE code = "unsupported_version"  -> "InvalidArgument"
      [] code = "tool_not_found"       -> "NotFound"
      [] code = "artifact_unavailable" -> "FailedPrecondition"
      [] OTHER                         -> "Internal"

\* Fault: the type of the error is looked at before what it wraps.
ToStatusByTypeFirst(err) ==
    IF err.code # "plain" THEN ToCode(err.code)
    ELSE IF err.cause = "canceled" THEN "Canceled"
    ELSE IF err.cause = "deadline" THEN "DeadlineExceeded"
    ELSE "Internal"

\* errors.Is unwraps: a context's error shows through any AppError around it.
ToStatus(err) ==
    CASE err.cause = "canceled" -> "Canceled"
      [] err.cause = "deadline" -> "DeadlineExceeded"
      [] OTHER -> ToCode(err.code)

WrapCatalogError(cause) ==
    AppError(IF cause = "missing" THEN "tool_not_found" ELSE "internal",
             cause)

-----------------------------------------------------------------------------
(* How a call ends.                                                         *)

Return(call, reply) ==
    /\ replies' = [replies EXCEPT ![call] = reply]
    /\ calls' = [calls EXCEPT ![call].at = "returned"]

Fail(call, err) ==
    Return(call, [status |-> ToStatus(err), cause |-> err.cause])

Live(call) == calls[call].ctx = "live"

\* What ctx.Err() returns once the context is done.
CtxErr(call) == calls[call].ctx

\* The digest is computed from the bytes that are sent.
BuildToolPackage(entry, bytes) ==
    [status |-> "OK", cause |-> "none", entry |-> entry, bytes |-> bytes,
     sha256 |-> bytes]

-----------------------------------------------------------------------------
(* The steps of a call.                                                     *)

StartCall(call, request) ==
    /\ calls[call] = Null
    /\ calls' = [calls EXCEPT ![call] = NewCall(request)]
    /\ UNCHANGED <<storeVars, replies>>

\* The client goes away or its deadline passes.
EndContext(call, how) ==
    /\ calls[call] # Null
    /\ calls[call].at # "returned"
    /\ Live(call)
    /\ calls' = [calls EXCEPT ![call].ctx = how]
    /\ UNCHANGED <<storeVars, replies>>

\* Service.ListTools and Service.GetToolPackage, up to the catalog.
EnterService(call) ==
    /\ At(call, "service")
    /\ \/ /\ ~Live(call)
          /\ Fail(call, PlainError(CtxErr(call)))
       \/ /\ Live(call) /\ ~calls[call].supported
          /\ Fail(call, AppError("unsupported_version", "none"))
       \/ /\ Live(call) /\ calls[call].supported
          /\ calls' = [calls EXCEPT ![call].at = "catalog"]
          /\ UNCHANGED replies
    /\ UNCHANGED storeVars

\* What os.ReadFile and parseManifest make of a tool's manifest.
ManifestState(toolId) ==
    IF toolId \notin Tools \/ ~Present(toolId, "manifest") THEN "missing"
    ELSE IF Whole(toolId, "manifest") THEN "whole" ELSE "invalid"

\* FindTool, and what GetToolPackage makes of its error.
FindTool(call) ==
    LET toolId == calls[call].toolId IN
    /\ At(call, "catalog")
    /\ calls[call].method = "GetToolPackage"
    /\ \/ /\ ~Live(call)
          /\ Fail(call, WrapCatalogError(CtxErr(call)))
       \/ /\ Live(call) /\ ManifestState(toolId) # "whole"
          /\ Fail(call, WrapCatalogError(ManifestState(toolId)))
       \/ /\ Live(call) /\ ManifestState(toolId) = "whole"
          /\ calls' = [calls EXCEPT ![call].at = "artifact",
                                    ![call].entry =
                                       files[toolId]["manifest"].gen]
          /\ UNCHANGED replies
    /\ UNCHANGED storeVars

\* FileSystemReader.Read; whatever bytes are there are sent.
ReadArtifact(call) ==
    LET toolId == calls[call].toolId IN
    /\ At(call, "artifact")
    /\ \/ /\ ~Live(call)
          /\ Fail(call, AppError("artifact_unavailable", CtxErr(call)))
       \/ /\ Live(call) /\ ~Present(toolId, "module")
          /\ Fail(call, AppError("artifact_unavailable", "missing"))
       \/ /\ Live(call) /\ Present(toolId, "module")
          /\ Return(call, BuildToolPackage(calls[call].entry,
                                           files[toolId]["module"]))
    /\ UNCHANGED storeVars

\* The directories that os.ReadDir finds.
Directories == {tool \in Tools : \E part \in Parts : Present(tool, part)}

\* FilesystemCatalog.ListTools, up to its loop.
ReadRoot(call) ==
    /\ At(call, "catalog")
    /\ calls[call].method = "ListTools"
    /\ \/ /\ ~Live(call)
          /\ Fail(call, AppError("internal", CtxErr(call)))
       \/ /\ Live(call) /\ ~root
          /\ Fail(call, AppError("internal", "missing"))
       \/ /\ Live(call) /\ root
          /\ calls' = [calls EXCEPT ![call].at = "listing",
                                    ![call].toRead = Directories]
          /\ UNCHANGED replies
    /\ UNCHANGED storeVars

\* Fault: the test on the error is the wrong way round.
SkippedInverted(state) == state # "missing"

\* A directory without a manifest is passed over.
Skipped(state) == state = "missing"

\* os.ReadDir sorted the directories by their names.
ComesFirst(toolId, found) ==
    \E i \in DOMAIN DirOrder :
        /\ DirOrder[i] = toolId
        /\ \A j \in DOMAIN DirOrder : DirOrder[j] \in found => i <= j

\* One turn of the loop.  Anything but a missing manifest fails the list.
ReadListed(call) ==
    /\ At(call, "listing")
    /\ \E toolId \in calls[call].toRead :
          LET state == ManifestState(toolId) IN
          /\ ComesFirst(toolId, calls[call].toRead)
          /\ \/ /\ state = "invalid"
                /\ Fail(call, AppError("internal", "invalid"))
             \/ /\ state # "invalid"
                /\ calls' = [calls EXCEPT
                      ![call].toRead = @ \ {toolId},
                      ![call].tools = IF Skipped(state) THEN @
                                      ELSE Append(@, toolId)]
                /\ UNCHANGED replies
    /\ UNCHANGED storeVars

\* The loop is over; sorting what ReadDir sorted changes nothing.
ReturnList(call) ==
    /\ At(call, "listing")
    /\ calls[call].toRead = {}
    /\ Return(call, [status |-> "OK", cause |-> "none",
                     tools |-> calls[call].tools])
    /\ UNCHANGED storeVars

CallStep(call) ==
    \/ EnterService(call) \/ FindTool(call) \/ ReadArtifact(call)
    \/ ReadRoot(call) \/ ReadListed(call) \/ ReturnList(call)

-----------------------------------------------------------------------------
\* A script's step: the store is no longer the one the calls found.
Disturb ==
    calls' = [call \in Calls |->
                IF calls[call] = Null THEN Null
                ELSE [calls[call] EXCEPT !.undisturbed = FALSE]]

ScriptStep == StoreStep /\ Disturb /\ UNCHANGED replies

Next ==
    \/ ScriptStep
    \/ \E call \in Calls :
          \/ \E request \in Requests : StartCall(call, request)
          \/ \E how \in Contexts \ {"live"} : EndContext(call, how)
          \/ CallStep(call)

Spec == Init /\ [][Next]_vars

-----------------------------------------------------------------------------
(* Properties.                                                              *)

Done(call) == replies[call] # Null
Served(call) ==
    Done(call) /\ calls[call].method = "GetToolPackage"
               /\ replies[call].status = "OK"

\* A call's record and its reply have the shape the handler gives them, and
\* a reply is there from the moment the call has returned.
ServiceTypeOK ==
    /\ StoreTypeOK
    /\ calls \in [Calls -> CallRecords \cup {Null}]
    /\ replies \in [Calls -> Replies \cup {Null}]
    /\ \A call \in Calls : Done(call) <=> At(call, "returned")

\* The digest in a package is the digest of the bytes in the package, even
\* when the module was replaced after its manifest was read.
ChecksumMatchesBytes ==
    \A call \in Calls :
        Served(call) => replies[call].sha256 = replies[call].bytes

\* A call can be handed a half written module, and the matching digest hides
\* it; but only of a build later than the manifest it goes with, never of the
\* build the manifest describes.
PartialModuleIsNewer ==
    \A call \in Calls :
        Served(call) /\ ~replies[call].bytes.whole =>
            replies[call].bytes.gen > replies[call].entry

\* A call that ended because its context did says so to the client, whatever
\* error the layers in between wrapped around it; and a call whose context
\* is live is never reported as cancelled.
CancellationNotMasked ==
    \A call \in Calls : Done(call) =>
        /\ replies[call].cause = "canceled" <=>
              replies[call].status = "Canceled"
        /\ replies[call].cause = "deadline" <=>
              replies[call].status = "DeadlineExceeded"
        /\ replies[call].status = "Canceled" => calls[call].ctx = "canceled"

\* On a store that a build published and nothing touches, a call with a
\* live context and a supported version gets exactly what was published: all
\* tools in order, a whole package of one build, or NotFound for a tool that
\* is not in the catalog.
QuietStoreServesEverything ==
    \A call \in Calls :
        (/\ Done(call)
         /\ calls[call].undisturbed
         /\ calls[call].ctx = "live"
         /\ calls[call].supported
         /\ phase = "published") =>
            LET reply == replies[call]
                listed == calls[call].method = "ListTools"
                known == calls[call].toolId \in Tools IN
            /\ listed => reply.status = "OK" /\ reply.tools = DirOrder
            /\ ~listed /\ known =>
                  /\ reply.status = "OK"
                  /\ reply.bytes = [gen |-> reply.entry, whole |-> TRUE]
            /\ ~listed /\ ~known => reply.status = "NotFound"

\* NotFound, which the browser is told is an unknown tool, is never the
\* answer for a tool whose manifest is there but half written.
NotFoundMeansAbsent ==
    \A call \in Calls :
        (/\ Done(call)
         /\ replies[call].status = "NotFound"
         /\ calls[call].undisturbed
         /\ calls[call].toolId \in Tools) =>
            ~Present(calls[call].toolId, "manifest")

\* FailedPrecondition for a module that is not there means that the store
\* moved under the call or that a clean-up was cut short, never that a build
\* died while it packaged.
MissingModuleMeansCleanUp ==
    \A call \in Calls :
        (/\ Done(call)
         /\ replies[call].status = "FailedPrecondition"
         /\ calls[call].undisturbed) => ~cleaned
=============================================================================

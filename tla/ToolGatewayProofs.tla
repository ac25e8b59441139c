------------------------- MODULE ToolGatewayProofs -------------------------
(* What the server answers while scripts write the store it reads, and what  *)
(* the browser is told of that through every layer, for any number of        *)
(* requests, tools and builds: the routes and their clients keep what the    *)
(* service's invariant promises of its replies.                              *)
EXTENDS ToolGateway, ArtifactStoreProofs, SequenceTheorems,
        FiniteSetTheorems

-----------------------------------------------------------------------------
(* The inductive invariant of the calls.                                    *)

\* Between the manifest and the module: the module is whole, or of a build
\* that came after the manifest's.
EntryHolds(call) ==
    LET toolId == calls[call].toolId
        entry == calls[call].entry IN
    At(call, "artifact") =>
        /\ calls[call].method = "GetToolPackage"
        /\ toolId \in Tools
        /\ entry <= gen
        /\ entry = gen =>
              /\ phase \notin {"cleaning", "cleaned", "compiling"}
              /\ phase = "packaging" => WrittenByThisBuild(toolId, "module")
        /\ Present(toolId, "module") /\ ~Whole(toolId, "module") =>
              files[toolId]["module"].gen > entry
        /\ calls[call].undisturbed =>
              /\ Whole(toolId, "manifest")
              /\ files[toolId]["manifest"].gen = entry

AllReadable(tools) ==
    \A i \in DOMAIN tools : Whole(tools[i], "manifest")

\* What the loop has listed can be read; and on a published store that
\* nothing touched, it has read the first n tools and has the others before
\* it.
ListHolds(call) ==
    /\ At(call, "service") \/ At(call, "catalog") => calls[call].tools = <<>>
    /\ At(call, "listing") =>
          /\ calls[call].method = "ListTools"
          /\ calls[call].undisturbed => AllReadable(calls[call].tools)
    /\ (/\ At(call, "listing")
        /\ calls[call].undisturbed
        /\ phase = "published") =>
          \E n \in 0..Len(DirOrder) :
             /\ calls[call].tools = SubSeq(DirOrder, 1, n)
             /\ calls[call].toRead =
                   {DirOrder[i] : i \in (n + 1)..Len(DirOrder)}

Quiet(call) ==
    /\ calls[call].undisturbed
    /\ calls[call].ctx = "live"
    /\ calls[call].supported
    /\ phase = "published"

\* The manifest can be read, and no clean-up was cut short: the package is
\* expected to be there.
Expected(call) ==
    /\ calls[call].method = "GetToolPackage"
    /\ calls[call].undisturbed
    /\ calls[call].ctx = "live"
    /\ calls[call].supported
    /\ calls[call].toolId \in Tools
    /\ Whole(calls[call].toolId, "manifest")
    /\ cleaned

\* What the properties say of a reply, and what its caller may rely on.
GoodReply(call, reply) ==
    /\ reply \in Replies
    /\ reply.cause = "canceled" <=> reply.status = "Canceled"
    /\ reply.cause = "deadline" <=> reply.status = "DeadlineExceeded"
    /\ reply.status = "Canceled" => calls[call].ctx = "canceled"
    /\ reply.status = "NotFound" => reply.cause = "missing"
    /\ calls[call].method = "ListTools" /\ reply.status = "OK" =>
          /\ reply.tools \in Seq(Tools)
          /\ calls[call].undisturbed => AllReadable(reply.tools)
    /\ calls[call].method = "GetToolPackage" /\ reply.status = "OK" =>
          /\ calls[call].toolId \in Tools /\ reply.bytes \in WrittenFiles
          /\ reply.sha256 = reply.bytes
          /\ ~reply.bytes.whole => reply.bytes.gen > reply.entry
          /\ calls[call].undisturbed => reply.bytes.whole
    /\ Expected(call) => reply.status = "OK"
    /\ (/\ reply.status = "NotFound"
        /\ calls[call].undisturbed
        /\ calls[call].toolId \in Tools) =>
          ~Present(calls[call].toolId, "manifest")
    /\ reply.status = "FailedPrecondition" /\ calls[call].undisturbed =>
          ~cleaned
    /\ Quiet(call) =>
          /\ calls[call].method = "ListTools" =>
                reply.status = "OK" /\ reply.tools = DirOrder
          /\ calls[call].method # "ListTools"
                /\ calls[call].toolId \in Tools =>
                   /\ reply.status = "OK"
                   /\ reply.bytes = [gen |-> reply.entry, whole |-> TRUE]
          /\ calls[call].method # "ListTools"
                /\ calls[call].toolId \notin Tools =>
                   reply.status = "NotFound"

ReplyHolds(call) == Done(call) => GoodReply(call, replies[call])

ServiceInv ==
    /\ ReadInv
    /\ ServiceTypeOK
    /\ \A call \in Calls :
          EntryHolds(call) /\ ListHolds(call) /\ ReplyHolds(call)

\* The invariant says what the properties say.
LEMMA ServiceInvImplies ==
    ServiceInv =>
        /\ ChecksumMatchesBytes /\ PartialModuleIsNewer
        /\ CancellationNotMasked /\ NotFoundMeansAbsent
        /\ MissingModuleMeansCleanUp /\ QuietStoreServesEverything
  <1> SUFFICES ASSUME ServiceInv
               PROVE  /\ ChecksumMatchesBytes /\ PartialModuleIsNewer
                      /\ CancellationNotMasked /\ NotFoundMeansAbsent
                      /\ MissingModuleMeansCleanUp
                      /\ QuietStoreServesEverything
    OBVIOUS
  <1>1. \A call \in Calls : Done(call) => GoodReply(call, replies[call])
    BY DEF ServiceInv, ReplyHolds
  <1>2. ChecksumMatchesBytes /\ PartialModuleIsNewer
    BY <1>1 DEF GoodReply, ChecksumMatchesBytes, PartialModuleIsNewer, Served
  <1>3. CancellationNotMasked
    BY <1>1 DEF GoodReply, CancellationNotMasked
  <1>4. NotFoundMeansAbsent
    BY <1>1 DEF GoodReply, NotFoundMeansAbsent
  <1>5. MissingModuleMeansCleanUp
    BY <1>1 DEF GoodReply, MissingModuleMeansCleanUp
  <1>6. QuietStoreServesEverything
    BY <1>1 DEF GoodReply, QuietStoreServesEverything, Quiet
  <1> QED
    BY <1>2, <1>3, <1>4, <1>5, <1>6

LEMMA NullIsNoRecord == Null \notin CallRecords /\ Null \notin Replies
  BY CatalogServiceAssumption

LEMMA InitEstablishesServiceInv == Init => ServiceInv
  <1> SUFFICES ASSUME Init PROVE ServiceInv
    OBVIOUS
  <1>1. ReadInv /\ StoreTypeOK
    BY InitEstablishesReadInv DEF Init, ReadInv, StoreInv
  <1>2. \A call \in Calls : calls[call] = Null /\ ~Done(call)
    BY DEF Init, Done
  <1> QED
    BY <1>1, <1>2 DEF ServiceInv, ServiceTypeOK, Init, EntryHolds, ListHolds,
                      ReplyHolds, At

-----------------------------------------------------------------------------
(* A step of one call: the others and the store stay as they are.           *)

\* What a call's part of the invariant depends on.
LEMMA OtherCallsKeepTheirPart ==
    ASSUME ServiceInv, UNCHANGED storeVars,
           NEW call \in Calls, calls'[call] = calls[call],
           replies'[call] = replies[call]
    PROVE  /\ EntryHolds(call)' /\ ListHolds(call)' /\ ReplyHolds(call)'
           /\ Done(call)' <=> At(call, "returned")'
  <1> USE DEF storeVars
  <1>1. EntryHolds(call)'
    BY DEF ServiceInv, EntryHolds, At, Whole, Present, WrittenByThisBuild
  <1>2. ListHolds(call)'
    BY DEF ServiceInv, ListHolds, At, AllReadable, Whole, Present
  <1>3. ReplyHolds(call)'
    BY DEF ServiceInv, ReplyHolds, GoodReply, Quiet, Done, Present, Expected,
           AllReadable, Whole
  <1>4. Done(call)' <=> At(call, "returned")'
    BY DEF ServiceInv, ServiceTypeOK, Done, At
  <1> QED
    BY <1>1, <1>2, <1>3, <1>4

LEMMA StoreUnchangedKeepsReadInv ==
    ASSUME ReadInv, UNCHANGED storeVars
    PROVE  ReadInv' /\ StoreTypeOK'
  BY StoreStepKeepsReadInv DEF ReadInv, StoreInv

\* The call goes on.
LEMMA MovingKeepsInv ==
    ASSUME ServiceInv, NEW call \in Calls, NEW record \in CallRecords,
           calls' = [calls EXCEPT ![call] = record],
           record.at # "returned", ~Done(call),
           UNCHANGED <<storeVars, replies>>,
           EntryHolds(call)', ListHolds(call)'
    PROVE  ServiceInv'
  <1>1. ReadInv' /\ StoreTypeOK'
    BY StoreUnchangedKeepsReadInv DEF ServiceInv
  <1>2. /\ calls' \in [Calls -> CallRecords \cup {Null}]
        /\ replies' \in [Calls -> Replies \cup {Null}]
        /\ calls'[call] = record
        /\ \A other \in Calls : other # call => calls'[other] = calls[other]
    BY DEF ServiceInv, ServiceTypeOK
  <1>3. /\ ~Done(call)' /\ ~At(call, "returned")'
        /\ ReplyHolds(call)'
    BY <1>2 DEF Done, At, ReplyHolds
  <1>4. \A other \in Calls : other # call =>
           /\ EntryHolds(other)' /\ ListHolds(other)' /\ ReplyHolds(other)'
           /\ Done(other)' <=> At(other, "returned")'
    BY <1>2, OtherCallsKeepTheirPart
  <1> QED
    BY <1>1, <1>2, <1>3, <1>4 DEF ServiceInv, ServiceTypeOK

\* The call ends.
LEMMA ReturningKeepsInv ==
    ASSUME ServiceInv, NEW call \in Calls, calls[call] # Null,
           NEW reply, GoodReply(call, reply), Return(call, reply),
           UNCHANGED storeVars
    PROVE  ServiceInv'
  <1>1. ReadInv' /\ StoreTypeOK'
    BY StoreUnchangedKeepsReadInv DEF ServiceInv
  <1>2. calls[call] \in CallRecords /\ reply \in Replies
    BY DEF ServiceInv, ServiceTypeOK, GoodReply
  <1>3. /\ calls'[call] = [calls[call] EXCEPT !.at = "returned"]
        /\ replies'[call] = reply
        /\ \A other \in Calls : other # call =>
              calls'[other] = calls[other] /\ replies'[other] = replies[other]
    BY DEF Return, ServiceInv, ServiceTypeOK
  <1>4. /\ calls'[call] \in CallRecords
        /\ calls'[call].at = "returned"
        /\ calls'[call].method = calls[call].method
        /\ calls'[call].toolId = calls[call].toolId
        /\ calls'[call].supported = calls[call].supported
        /\ calls'[call].ctx = calls[call].ctx
        /\ calls'[call].undisturbed = calls[call].undisturbed
    BY <1>2, <1>3 DEF CallRecords, CallPoints
  <1>5. /\ calls' \in [Calls -> CallRecords \cup {Null}]
        /\ replies' \in [Calls -> Replies \cup {Null}]
    BY <1>2, <1>4 DEF Return, ServiceInv, ServiceTypeOK
  <1>6. /\ EntryHolds(call)' /\ ListHolds(call)'
        /\ Done(call)' /\ At(call, "returned")'
    BY <1>2, <1>3, <1>4, NullIsNoRecord DEF EntryHolds, ListHolds, Done, At
  <1>7. ReplyHolds(call)'
    BY <1>3, <1>4 DEF ReplyHolds, GoodReply, Quiet, Expected, AllReadable,
                      Present, Whole, storeVars
  <1>8. \A other \in Calls : other # call =>
           /\ EntryHolds(other)' /\ ListHolds(other)' /\ ReplyHolds(other)'
           /\ Done(other)' <=> At(other, "returned")'
    BY <1>3, OtherCallsKeepTheirPart
  <1> QED
    BY <1>1, <1>5, <1>6, <1>7, <1>8 DEF ServiceInv, ServiceTypeOK

-----------------------------------------------------------------------------
(* The replies.                                                             *)

AppCodes == {"unsupported_version", "tool_not_found", "artifact_unavailable",
             "internal", "plain"}

\* Whatever code wraps it, the end of the context is told.
LEMMA ContextReplyIsGood ==
    ASSUME NEW call, calls[call] \in CallRecords, ~Live(call),
           NEW code \in AppCodes
    PROVE  GoodReply(call, [status |-> ToStatus([code |-> code,
                                                 cause |-> CtxErr(call)]),
                            cause |-> CtxErr(call)])
  <1>1. CtxErr(call) \in {"canceled", "deadline"}
    BY DEF CtxErr, Live, CallRecords, Contexts
  <1>2. CASE CtxErr(call) = "canceled"
    <2>1. ToStatus([code |-> code, cause |-> CtxErr(call)]) = "Canceled"
      BY <1>2 DEF ToStatus
    <2> QED
      BY <1>2, <2>1
         DEF GoodReply, Quiet, Expected, Replies, Codes, Causes, CtxErr
  <1>3. CASE CtxErr(call) = "deadline"
    <2>1. ToStatus([code |-> code, cause |-> CtxErr(call)])
             = "DeadlineExceeded"
      BY <1>3 DEF ToStatus
    <2> QED
      BY <1>3, <2>1
         DEF GoodReply, Quiet, Expected, Replies, Codes, Causes, CtxErr
  <1> QED
    BY <1>1, <1>2, <1>3

\* An error of another kind goes out under the code of its type.
LEMMA CodedReplyIsGood ==
    ASSUME NEW call, NEW code \in AppCodes,
           NEW cause \in {"none", "missing", "invalid"},
           ToCode(code) = "NotFound" => cause = "missing", ~Expected(call),
           ToCode(code) = "NotFound" /\ calls[call].undisturbed
              /\ calls[call].toolId \in Tools =>
                    ~Present(calls[call].toolId, "manifest"),
           ToCode(code) = "FailedPrecondition" /\ calls[call].undisturbed =>
              ~cleaned,
           Quiet(call) => /\ calls[call].method # "ListTools"
                          /\ calls[call].toolId \notin Tools
                          /\ ToCode(code) = "NotFound"
    PROVE  GoodReply(call, [status |-> ToStatus([code |-> code,
                                                 cause |-> cause]),
                            cause |-> cause])
  <1>1. ToStatus([code |-> code, cause |-> cause]) = ToCode(code)
    BY DEF ToStatus
  <1>2. ToCode(code) \in {"InvalidArgument", "NotFound",
                          "FailedPrecondition", "Internal"}
    BY DEF ToCode
  <1>3. [status |-> ToCode(code), cause |-> cause] \in Replies
    BY <1>2 DEF Replies, Codes, Causes
  <1> QED
    BY <1>1, <1>2, <1>3 DEF GoodReply

-----------------------------------------------------------------------------
(* The steps of a call.                                                     *)

\* A call that is under way.
LEMMA UnderWay ==
    ASSUME ServiceInv, NEW call \in Calls, NEW point, point # "returned",
           At(call, point)
    PROVE  /\ calls[call] \in CallRecords /\ calls[call] # Null
           /\ calls[call].at = point /\ ~Done(call)
  BY DEF ServiceInv, ServiceTypeOK, At

LEMMA NewCallIsRecord ==
    ASSUME NEW request \in Requests
    PROVE  NewCall(request) \in CallRecords /\ NewCall(request).at = "service"
  <1>1. /\ request.method \in Methods
        /\ request.toolId \in Tools \cup {Unknown}
        /\ request.supported \in BOOLEAN
    BY DEF Requests, Methods
  <1>2. <<>> \in Seq(Tools) /\ {} \in SUBSET Tools /\ 0 \in 0..MaxBuilds
    BY EmptySeq, ArtifactStoreAssumption
  <1> QED
    BY <1>1, <1>2 DEF NewCall, CallRecords, CallPoints, Contexts

LEMMA StartCallKeepsInv ==
    ASSUME ServiceInv, NEW call \in Calls, NEW request \in Requests,
           StartCall(call, request)
    PROVE  ServiceInv'
  <1> DEFINE record == NewCall(request)
  <1>1. record \in CallRecords /\ record.at = "service"
    BY NewCallIsRecord
  <1>2. ~Done(call)
    BY DEF StartCall, ServiceInv, ServiceTypeOK, At
  <1>3. /\ calls' = [calls EXCEPT ![call] = record]
        /\ UNCHANGED <<storeVars, replies>>
    BY DEF StartCall
  <1>4. EntryHolds(call)' /\ ListHolds(call)'
    <2>1. calls'[call].at = "service" /\ calls'[call].tools = <<>>
      BY <1>1, <1>3 DEF ServiceInv, ServiceTypeOK, NewCall
    <2> QED
      BY <2>1 DEF EntryHolds, ListHolds, At
  <1> HIDE DEF record
  <1> QED
    BY <1>1, <1>2, <1>3, <1>4, MovingKeepsInv

LEMMA EndContextKeepsInv ==
    ASSUME ServiceInv, NEW call \in Calls, NEW how \in Contexts,
           EndContext(call, how)
    PROVE  ServiceInv'
  <1> DEFINE record == [calls[call] EXCEPT !.ctx = how]
  <1>1. calls[call] \in CallRecords /\ ~Done(call)
    BY DEF EndContext, ServiceInv, ServiceTypeOK, At
  <1>2. /\ record \in CallRecords
        /\ \A field \in {"at", "method", "toolId", "entry", "undisturbed",
                          "tools", "toRead"} :
              record[field] = calls[call][field]
    BY <1>1 DEF CallRecords
  <1>3. /\ calls' = [calls EXCEPT ![call] = record]
        /\ UNCHANGED <<storeVars, replies>>
        /\ calls'[call] = record
    BY DEF EndContext, ServiceInv, ServiceTypeOK
  <1>4. record.at # "returned"
    BY <1>2 DEF EndContext
  <1> HIDE DEF record
  <1>5. EntryHolds(call)'
    BY <1>1, <1>2, <1>3, NullIsNoRecord
       DEF ServiceInv, EntryHolds, At, storeVars, Present, Whole,
           WrittenByThisBuild
  <1>6. ListHolds(call)'
    BY <1>1, <1>2, <1>3, NullIsNoRecord
       DEF ServiceInv, ListHolds, AllReadable, Present, Whole, At, storeVars
  <1> QED
    BY <1>1, <1>2, <1>3, <1>4, <1>5, <1>6, MovingKeepsInv

LEMMA EnterServiceKeepsInv ==
    ASSUME ServiceInv, NEW call \in Calls, EnterService(call)
    PROVE  ServiceInv'
  <1>1. /\ calls[call] \in CallRecords /\ calls[call] # Null
        /\ ~Done(call)
    BY UnderWay DEF EnterService
  <1>2. UNCHANGED storeVars
    BY DEF EnterService
  <1>3. CASE ~Live(call) /\ Fail(call, PlainError(CtxErr(call)))
    BY <1>1, <1>2, <1>3, ContextReplyIsGood, ReturningKeepsInv
       DEF Fail, PlainError, AppCodes
  <1>4. CASE /\ ~calls[call].supported
             /\ Fail(call, AppError("unsupported_version", "none"))
    <2>1. ToCode("unsupported_version") = "InvalidArgument"
          /\ ~Quiet(call) /\ ~Expected(call)
      BY <1>4 DEF ToCode, Quiet, Expected
    <2> QED
      BY <1>1, <1>2, <1>4, <2>1, CodedReplyIsGood, ReturningKeepsInv
         DEF Fail, AppError, AppCodes
  <1>5. CASE /\ calls' = [calls EXCEPT ![call].at = "catalog"]
             /\ UNCHANGED replies
    <2> DEFINE record == [calls[call] EXCEPT !.at = "catalog"]
    <2>1. record \in CallRecords /\ record.at = "catalog"
          /\ record.tools = <<>>
      BY <1>1 DEF CallRecords, CallPoints, ServiceInv, ListHolds,
                  EnterService
    <2>2. calls' = [calls EXCEPT ![call] = record] /\ calls'[call] = record
      BY <1>5 DEF ServiceInv, ServiceTypeOK
    <2> HIDE DEF record
    <2>3. EntryHolds(call)' /\ ListHolds(call)'
      BY <2>1, <2>2 DEF EntryHolds, ListHolds, At
    <2> QED
      BY <1>1, <1>2, <1>5, <2>1, <2>2, <2>3, MovingKeepsInv
  <1> QED
    BY <1>3, <1>4, <1>5 DEF EnterService

LEMMA FindToolKeepsInv ==
    ASSUME ServiceInv, NEW call \in Calls, FindTool(call)
    PROVE  ServiceInv'
  <1> DEFINE toolId == calls[call].toolId
  <1>1. /\ calls[call] \in CallRecords /\ calls[call] # Null
        /\ ~Done(call)
    BY UnderWay DEF FindTool
  <1>2. UNCHANGED storeVars /\ calls[call].method = "GetToolPackage"
    BY DEF FindTool
  <1>3. CASE ~Live(call) /\ Fail(call, WrapCatalogError(CtxErr(call)))
    <2>1. CtxErr(call) # "missing"
      BY <1>1 DEF CtxErr, CallRecords, Contexts
    <2> QED
      BY <1>1, <1>2, <1>3, <2>1, ContextReplyIsGood, ReturningKeepsInv
         DEF Fail, WrapCatalogError, AppError, AppCodes
  <1>4. CASE /\ ManifestState(toolId) # "whole"
             /\ Fail(call, WrapCatalogError(ManifestState(toolId)))
    <2> DEFINE state == ManifestState(toolId)
               code == IF state = "missing" THEN "tool_not_found"
                                            ELSE "internal"
    <2>1. state \in {"missing", "invalid"} /\ code \in AppCodes
      BY <1>4 DEF ManifestState, AppCodes
    <2>2. ToCode(code) = IF state = "missing" THEN "NotFound" ELSE "Internal"
      BY DEF ToCode
    <2>3. toolId \in Tools /\ state = "missing" =>
             ~Present(toolId, "manifest")
      BY DEF ManifestState
    <2>4. Quiet(call) => toolId \notin Tools /\ state = "missing"
      BY <1>4 DEF Quiet, ServiceInv, ReadInv, StoreInv, PublishedVerifies,
                  Verifies, ManifestState, Whole, Parts
    <2>5. Fail(call, [code |-> code, cause |-> state])
      BY <1>4 DEF WrapCatalogError, AppError
    <2>7. ~Expected(call)
      BY <1>4 DEF Expected, ManifestState, Whole
    <2> HIDE DEF state, code
    <2>6. GoodReply(call, [status |-> ToStatus([code |-> code,
                                                cause |-> state]),
                           cause |-> state])
      BY <1>2, <2>1, <2>2, <2>3, <2>4, <2>7, CodedReplyIsGood
    <2> QED
      BY <1>1, <1>2, <2>5, <2>6, ReturningKeepsInv DEF Fail
  <1>5. CASE /\ ManifestState(toolId) = "whole"
             /\ calls' = [calls EXCEPT ![call].at = "artifact",
                                       ![call].entry =
                                          files[toolId]["manifest"].gen]
             /\ UNCHANGED replies
    <2> DEFINE entry == files[toolId]["manifest"].gen
               record == [calls[call] EXCEPT !.at = "artifact",
                                             !.entry = entry]
    <2>1. toolId \in Tools /\ Whole(toolId, "manifest")
          /\ Present(toolId, "manifest") /\ "manifest" \in Parts
      BY <1>5 DEF ManifestState, Parts
    <2>2. entry \in 0..gen /\ entry \in 0..MaxBuilds
          /\ (phase = "cleaning" => entry < gen)
      BY <2>1 DEF ServiceInv, ServiceTypeOK, StoreTypeOK, ReadInv,
                  FilesAreOlder, Present, WrittenFiles
    <2>3. phase \notin {"cleaned", "compiling"}
      BY <2>1 DEF ServiceInv, ReadInv, StoreInv, NothingBeforePackaging,
                  Blank
    <2>4. phase = "packaging" => WrittenByThisBuild(toolId, "module")
      BY <2>1, PackagedFilesAreNew DEF ServiceInv, ReadInv, StoreInv
    <2>5. Present(toolId, "module") => Whole(toolId, "module")
      BY <2>1 DEF ServiceInv, ReadInv, ManifestBesideWholeModule
    <2>6. gen \in Nat
      BY ArtifactStoreAssumption DEF ServiceInv, ServiceTypeOK, StoreTypeOK
    <2>7. /\ record \in CallRecords
          /\ record.at = "artifact" /\ record.entry = entry
          /\ record.method = "GetToolPackage" /\ record.toolId = toolId
      BY <1>1, <1>2, <2>2 DEF CallRecords, CallPoints
    <2>8. calls' = [calls EXCEPT ![call] = record] /\ calls'[call] = record
      BY <1>5 DEF ServiceInv, ServiceTypeOK
    <2>9. entry <= gen /\ (entry = gen => phase # "cleaning")
      BY <2>2, <2>6
    <2>10. UNCHANGED <<files, gen, phase>>
      BY <1>2 DEF storeVars
    <2> PICK t \in Tools : t = toolId
      BY <2>1
    <2>11. EntryHolds(call)'
      <3> HIDE DEF record
      <3>1. calls'[call].method = "GetToolPackage" /\ calls'[call].toolId = t
            /\ calls'[call].entry = entry
        BY <2>7, <2>8
      <3> QED
        BY <2>1, <2>3, <2>4, <2>5, <2>9, <2>10, <3>1
           DEF EntryHolds, Present, Whole, WrittenByThisBuild
    <2>12. ListHolds(call)'
      BY <2>7, <2>8 DEF ListHolds, At
    <2> HIDE DEF record
    <2> QED
      BY <1>1, <1>2, <1>5, <2>7, <2>8, <2>11, <2>12, MovingKeepsInv
  <1> QED
    BY <1>3, <1>4, <1>5 DEF FindTool

LEMMA ReadArtifactKeepsInv ==
    ASSUME ServiceInv, NEW call \in Calls, ReadArtifact(call)
    PROVE  ServiceInv'
  <1> DEFINE toolId == calls[call].toolId
  <1>1. /\ calls[call] \in CallRecords /\ calls[call] # Null
        /\ ~Done(call)
    BY UnderWay DEF ReadArtifact
  <1>2. UNCHANGED storeVars /\ At(call, "artifact")
    BY DEF ReadArtifact
  <1>3. /\ calls[call].method = "GetToolPackage" /\ toolId \in Tools
        /\ Present(toolId, "module") /\ ~Whole(toolId, "module") =>
              files[toolId]["module"].gen > calls[call].entry
        /\ calls[call].undisturbed =>
              /\ Whole(toolId, "manifest")
              /\ files[toolId]["manifest"].gen = calls[call].entry
    BY <1>2 DEF ServiceInv, EntryHolds
  <1>4. Quiet(call) => Verifies(toolId)
    BY <1>3 DEF Quiet, ServiceInv, ReadInv, StoreInv, PublishedVerifies
  <1>5. CASE /\ ~Live(call)
             /\ Fail(call, AppError("artifact_unavailable", CtxErr(call)))
    BY <1>1, <1>2, <1>5, ContextReplyIsGood, ReturningKeepsInv
       DEF Fail, AppError, AppCodes
  <1>6. CASE /\ ~Present(toolId, "module")
             /\ Fail(call, AppError("artifact_unavailable", "missing"))
    <2>1. ToCode("artifact_unavailable") = "FailedPrecondition"
      BY DEF ToCode
    <2>2. calls[call].undisturbed => ~cleaned
      BY <1>3, <1>6 DEF ServiceInv, ReadInv, StoreInv,
                        ManifestVouchesForModule, Whole
    <2>3. ~Quiet(call) /\ ~Expected(call)
      BY <1>4, <1>6, <2>2 DEF Verifies, Whole, Parts, Expected
    <2>4. GoodReply(call,
             [status |-> ToStatus([code |-> "artifact_unavailable",
                                   cause |-> "missing"]),
              cause |-> "missing"])
      BY <2>1, <2>2, <2>3, CodedReplyIsGood DEF AppCodes
    <2> QED
      BY <1>1, <1>2, <1>6, <2>4, ReturningKeepsInv DEF Fail, AppError
  <1>7. CASE /\ Present(toolId, "module")
             /\ Return(call, BuildToolPackage(calls[call].entry,
                                              files[toolId]["module"]))
    <2> DEFINE reply == BuildToolPackage(calls[call].entry,
                                         files[toolId]["module"])
    <2>1. files[toolId]["module"] \in WrittenFiles
      BY <1>3, <1>7 DEF ServiceInv, ServiceTypeOK, StoreTypeOK, Present, Parts
    <2>2. /\ reply.status = "OK" /\ reply.cause = "none"
          /\ reply.entry = calls[call].entry
          /\ reply.bytes = files[toolId]["module"]
          /\ reply.sha256 = files[toolId]["module"]
      BY DEF BuildToolPackage
    <2>3. reply \in Replies
      BY <1>1, <2>1 DEF BuildToolPackage, Replies, CallRecords
    <2>4. ~files[toolId]["module"].whole =>
             files[toolId]["module"].gen > calls[call].entry
      BY <1>3, <1>7 DEF Whole
    <2>5. Quiet(call) =>
             files[toolId]["module"] = [gen |-> calls[call].entry,
                                        whole |-> TRUE]
      <3> SUFFICES ASSUME Quiet(call)
                   PROVE  files[toolId]["module"] =
                             [gen |-> calls[call].entry, whole |-> TRUE]
        OBVIOUS
      <3>1. /\ files[toolId]["module"].gen = calls[call].entry
            /\ files[toolId]["module"].whole
        BY <1>3, <1>4 DEF Quiet, Verifies, Whole, Parts
      <3> QED
        BY <2>1, <3>1 DEF WrittenFiles
    <2>7. calls[call].undisturbed => files[toolId]["module"].whole
      BY <1>3, <1>7 DEF ServiceInv, ReadInv, ManifestBesideWholeModule, Whole
    <2> HIDE DEF reply
    <2>6. GoodReply(call, reply)
      BY <1>3, <2>1, <2>2, <2>3, <2>4, <2>5, <2>7 DEF GoodReply
    <2> QED
      BY <1>1, <1>2, <1>7, <2>6, ReturningKeepsInv DEF reply
  <1> QED
    BY <1>5, <1>6, <1>7 DEF ReadArtifact

\* In a published store every tool has a directory.
LEMMA PublishedDirectories ==
    ASSUME ServiceInv, phase = "published"
    PROVE  /\ Directories = {DirOrder[i] : i \in 1..Len(DirOrder)}
           /\ \A tool \in Tools : ManifestState(tool) = "whole"
  <1>1. \A tool \in Tools, part \in Parts : Whole(tool, part)
    BY DEF ServiceInv, ReadInv, StoreInv, PublishedVerifies, Verifies
  <1>2. Directories = Tools
    BY <1>1 DEF Directories, Whole, Parts
  <1>3. DOMAIN DirOrder = 1..Len(DirOrder)
    BY CatalogServiceAssumption
  <1> QED
    BY <1>1, <1>2, <1>3, CatalogServiceAssumption
       DEF ManifestState, Whole, Parts

LEMMA ReadRootKeepsInv ==
    ASSUME ServiceInv, NEW call \in Calls, ReadRoot(call)
    PROVE  ServiceInv'
  <1>1. /\ calls[call] \in CallRecords /\ calls[call] # Null
        /\ ~Done(call)
    BY UnderWay DEF ReadRoot
  <1>2. UNCHANGED storeVars /\ calls[call].method = "ListTools"
        /\ At(call, "catalog")
    BY DEF ReadRoot
  <1>3. CASE ~Live(call) /\ Fail(call, AppError("internal", CtxErr(call)))
    BY <1>1, <1>2, <1>3, ContextReplyIsGood, ReturningKeepsInv
       DEF Fail, AppError, AppCodes
  <1>4. CASE ~root /\ Fail(call, AppError("internal", "missing"))
    <2>1. ToCode("internal") = "Internal"
          /\ ~Quiet(call) /\ ~Expected(call)
      BY <1>2, <1>4 DEF ToCode, Quiet, Expected, ServiceInv, ReadInv,
                        RootWhileWriting
    <2> QED
      BY <1>1, <1>2, <1>4, <2>1, CodedReplyIsGood, ReturningKeepsInv
         DEF Fail, AppError, AppCodes
  <1>5. CASE /\ calls' = [calls EXCEPT ![call].at = "listing",
                                       ![call].toRead = Directories]
             /\ UNCHANGED replies
    <2> DEFINE record == [calls[call] EXCEPT !.at = "listing",
                                             !.toRead = Directories]
    <2>1. /\ record \in CallRecords
          /\ record.at = "listing" /\ record.toRead = Directories
          /\ record.tools = calls[call].tools
          /\ record.method = "ListTools"
      BY <1>1, <1>2 DEF CallRecords, CallPoints, Directories
    <2>2. calls' = [calls EXCEPT ![call] = record] /\ calls'[call] = record
      BY <1>5 DEF ServiceInv, ServiceTypeOK
    <2> HIDE DEF record
    <2>3. calls[call].tools = <<>>
      BY <1>2 DEF ServiceInv, ListHolds
    <2>4. 0 \in 0..Len(DirOrder) /\ SubSeq(DirOrder, 1, 0) = <<>>
      BY CatalogServiceAssumption, SubSeqEmpty
    <2>5. phase = "published" =>
             \E n \in 0..Len(DirOrder) :
                /\ record.tools = SubSeq(DirOrder, 1, n)
                /\ record.toRead =
                      {DirOrder[i] : i \in (n + 1)..Len(DirOrder)}
      <3> SUFFICES ASSUME phase = "published"
                   PROVE  /\ record.tools = SubSeq(DirOrder, 1, 0)
                          /\ record.toRead =
                                {DirOrder[i] : i \in (0 + 1)..Len(DirOrder)}
        BY <2>4
      <3>1. 0 + 1 = 1
        OBVIOUS
      <3> QED
        BY <2>1, <2>3, <2>4, <3>1, PublishedDirectories
    <2>8. AllReadable(calls[call].tools)'
      BY <2>1, <2>2, <2>3 DEF AllReadable
    <2>7. ListHolds(call)'
      BY <1>2, <2>1, <2>2, <2>5, <2>8 DEF ListHolds, At, storeVars
    <2>6. EntryHolds(call)'
      BY <2>1, <2>2 DEF EntryHolds, At
    <2> QED
      BY <1>1, <1>2, <1>5, <2>1, <2>2, <2>6, <2>7, MovingKeepsInv
  <1> QED
    BY <1>3, <1>4, <1>5 DEF ReadRoot

\* A prefix of the order is the one before it and one more tool.
LEMMA PrefixGrows ==
    ASSUME NEW m \in 1..Len(DirOrder)
    PROVE  SubSeq(DirOrder, 1, m)
              = SubSeq(DirOrder, 1, m - 1) \o <<DirOrder[m]>>
  <1>1. DirOrder \in Seq(Tools)
    BY CatalogServiceAssumption
  <1>2. 1 \in 1..Len(DirOrder)
    BY <1>1
  <1> QED
    BY <1>1, <1>2, SubSeqRecursiveSecond, Zenon

\* The tool that comes first among those after the n-th is the next one.
LEMMA NextInOrder ==
    ASSUME NEW n \in 0..Len(DirOrder), NEW found,
           found = {DirOrder[i] : i \in (n + 1)..Len(DirOrder)},
           NEW toolId \in found, ComesFirst(toolId, found)
    PROVE  /\ n + 1 \in 1..Len(DirOrder)
           /\ Append(SubSeq(DirOrder, 1, n), toolId)
                 = SubSeq(DirOrder, 1, n + 1)
           /\ found \ {toolId}
                 = {DirOrder[i] : i \in (n + 2)..Len(DirOrder)}
  <1> USE CatalogServiceAssumption
  <1>1. DirOrder \in Seq(Tools) /\ Len(DirOrder) \in Nat
        /\ DOMAIN DirOrder = 1..Len(DirOrder)
    OBVIOUS
  <1>2. PICK k \in (n + 1)..Len(DirOrder) : toolId = DirOrder[k]
    OBVIOUS
  <1>3. n + 1 \in 1..Len(DirOrder) /\ DirOrder[n + 1] \in found
    BY <1>1, <1>2
  <1>4. toolId = DirOrder[n + 1]
    <2>1. PICK i \in DOMAIN DirOrder :
             /\ DirOrder[i] = toolId
             /\ \A j \in DOMAIN DirOrder : DirOrder[j] \in found => i <= j
      BY DEF ComesFirst
    <2>2. i = k /\ i <= n + 1
      BY <1>1, <1>2, <1>3, <2>1
    <2> QED
      BY <1>1, <1>2, <2>1, <2>2
  <1>5. Append(SubSeq(DirOrder, 1, n), toolId) = SubSeq(DirOrder, 1, n + 1)
    <2>1. PICK m \in 1..Len(DirOrder) : m = n + 1
      BY <1>3
    <2>2. SubSeq(DirOrder, 1, m) = SubSeq(DirOrder, 1, m - 1) \o <<DirOrder[m]>>
      BY <2>1, PrefixGrows, Zenon
    <2>3. m - 1 = n /\ n \in Nat /\ 1 \in Int /\ n \in Int
      BY <2>1
    <2>4. SubSeq(DirOrder, 1, n) \in Seq(Tools)
      BY <1>1, <2>3, SubSeqProperties, ElementOfSeq
    <2>5. toolId \in Tools
      BY <1>1, <1>3, <1>4
    <2> QED
      BY <1>4, <2>1, <2>2, <2>3, <2>4, <2>5, AppendIsConcat
  <1>6. found \ {toolId} = {DirOrder[i] : i \in (n + 2)..Len(DirOrder)}
    <2>1. \A i \in (n + 1)..Len(DirOrder) :
             DirOrder[i] = toolId <=> i = n + 1
      BY <1>1, <1>3, <1>4
    <2>2. (n + 1)..Len(DirOrder) = {n + 1} \cup (n + 2)..Len(DirOrder)
      BY <1>1, <1>3
    <2> QED
      BY <2>1, <2>2, <1>3
  <1> QED
    BY <1>3, <1>5, <1>6

LEMMA ReadListedKeepsInv ==
    ASSUME ServiceInv, NEW call \in Calls, ReadListed(call)
    PROVE  ServiceInv'
  <1>1. /\ calls[call] \in CallRecords /\ calls[call] # Null
        /\ ~Done(call) /\ calls[call].at = "listing"
    BY UnderWay DEF ReadListed
  <1>2. UNCHANGED storeVars /\ At(call, "listing")
        /\ calls[call].method = "ListTools"
    BY DEF ReadListed, ServiceInv, ListHolds
  <1>3. PICK toolId \in calls[call].toRead :
           /\ ComesFirst(toolId, calls[call].toRead)
           /\ \/ /\ ManifestState(toolId) = "invalid"
                 /\ Fail(call, AppError("internal", "invalid"))
              \/ /\ ManifestState(toolId) # "invalid"
                 /\ calls' = [calls EXCEPT
                       ![call].toRead = @ \ {toolId},
                       ![call].tools = IF Skipped(ManifestState(toolId)) THEN @
                                       ELSE Append(@, toolId)]
                 /\ UNCHANGED replies
    BY DEF ReadListed
  <1>4. toolId \in Tools
    BY <1>1, <1>3 DEF CallRecords
  <1>5. CASE /\ ManifestState(toolId) = "invalid"
             /\ Fail(call, AppError("internal", "invalid"))
    <2>1. ToCode("internal") = "Internal"
          /\ ~Quiet(call) /\ ~Expected(call)
      BY <1>2, <1>4, <1>5, PublishedDirectories DEF ToCode, Quiet, Expected
    <2> QED
      BY <1>1, <1>2, <1>5, <2>1, CodedReplyIsGood, ReturningKeepsInv
         DEF Fail, AppError, AppCodes
  <1>6. CASE /\ ManifestState(toolId) # "invalid"
             /\ calls' = [calls EXCEPT
                   ![call].toRead = @ \ {toolId},
                   ![call].tools = IF Skipped(ManifestState(toolId)) THEN @
                                   ELSE Append(@, toolId)]
             /\ UNCHANGED replies
    <2> DEFINE rest == calls[call].toRead \ {toolId}
               listed == IF Skipped(ManifestState(toolId))
                         THEN calls[call].tools
                         ELSE Append(calls[call].tools, toolId)
               record == [calls[call] EXCEPT !.toRead = rest, !.tools = listed]
    <2>1. rest \in SUBSET Tools /\ listed \in Seq(Tools)
      BY <1>1, <1>4, AppendProperties DEF CallRecords
    <2>2. calls' = [calls EXCEPT ![call] = record] /\ calls'[call] = record
      BY <1>6 DEF ServiceInv, ServiceTypeOK
    <2> HIDE DEF rest, listed
    <2>3. /\ record \in CallRecords
          /\ record.at = "listing"
          /\ record.toRead = rest /\ record.tools = listed
          /\ record.method = "ListTools"
          /\ record.undisturbed = calls[call].undisturbed
      BY <1>1, <1>2, <2>1 DEF CallRecords
    <2> HIDE DEF record
    <2>4. calls[call].undisturbed /\ phase = "published" =>
             \E n \in 0..Len(DirOrder) :
                /\ listed = SubSeq(DirOrder, 1, n)
                /\ rest = {DirOrder[i] : i \in (n + 1)..Len(DirOrder)}
      <3> SUFFICES ASSUME calls[call].undisturbed, phase = "published"
                   PROVE  \E n \in 0..Len(DirOrder) :
                             /\ listed = SubSeq(DirOrder, 1, n)
                             /\ rest = {DirOrder[i] :
                                          i \in (n + 1)..Len(DirOrder)}
        OBVIOUS
      <3>1. PICK n \in 0..Len(DirOrder) :
               /\ calls[call].tools = SubSeq(DirOrder, 1, n)
               /\ calls[call].toRead =
                     {DirOrder[i] : i \in (n + 1)..Len(DirOrder)}
        BY <1>2 DEF ServiceInv, ListHolds
      <3>2. listed = Append(calls[call].tools, toolId)
        BY <1>4, PublishedDirectories DEF Skipped, listed
      <3>3. /\ n + 1 \in 1..Len(DirOrder)
            /\ Append(SubSeq(DirOrder, 1, n), toolId)
                  = SubSeq(DirOrder, 1, n + 1)
            /\ calls[call].toRead \ {toolId}
                  = {DirOrder[i] : i \in (n + 2)..Len(DirOrder)}
        BY <1>3, <3>1, NextInOrder
      <3>4. n + 1 \in 0..Len(DirOrder) /\ (n + 1) + 1 = n + 2
        BY <3>3
      <3>5. /\ listed = SubSeq(DirOrder, 1, n + 1)
            /\ rest = {DirOrder[i] : i \in ((n + 1) + 1)..Len(DirOrder)}
        BY <3>1, <3>2, <3>3, <3>4 DEF rest
      <3> QED
        BY <3>4, <3>5
    <2>7. calls[call].undisturbed => AllReadable(listed)
      <3>1. calls[call].undisturbed => AllReadable(calls[call].tools)
        BY <1>2 DEF ServiceInv, ListHolds
      <3>2. CASE Skipped(ManifestState(toolId))
        BY <3>1, <3>2 DEF listed
      <3>3. CASE ~Skipped(ManifestState(toolId))
        <4>1. Whole(toolId, "manifest")
          BY <1>3, <1>4, <1>6, <3>3 DEF Skipped, ManifestState
        <4>2. calls[call].tools \in Seq(Tools)
              /\ listed = Append(calls[call].tools, toolId)
          BY <1>1, <3>3 DEF CallRecords, listed
        <4>3. \A i \in DOMAIN listed :
                 \/ listed[i] = toolId
                 \/ /\ i \in DOMAIN calls[call].tools
                    /\ listed[i] = calls[call].tools[i]
          BY <4>2, <1>4
        <4> QED
          BY <3>1, <4>1, <4>3 DEF AllReadable
      <3> QED
        BY <3>2, <3>3
    <2>8. calls'[call].undisturbed => AllReadable(calls[call].tools)'
      BY <1>2, <2>2, <2>3, <2>7
         DEF AllReadable, Whole, Present, storeVars
    <2>5. ListHolds(call)'
      BY <1>2, <2>2, <2>3, <2>4, <2>8 DEF ListHolds, At, storeVars
    <2>6. EntryHolds(call)'
      BY <2>2, <2>3 DEF EntryHolds, At
    <2> QED
      BY <1>1, <1>2, <1>6, <2>2, <2>3, <2>5, <2>6, MovingKeepsInv
  <1> QED
    BY <1>3, <1>5, <1>6

LEMMA ReturnListKeepsInv ==
    ASSUME ServiceInv, NEW call \in Calls, ReturnList(call)
    PROVE  ServiceInv'
  <1> DEFINE reply == [status |-> "OK", cause |-> "none",
                       tools |-> calls[call].tools]
  <1>1. /\ calls[call] \in CallRecords /\ calls[call] # Null
    BY UnderWay DEF ReturnList
  <1>2. /\ UNCHANGED storeVars /\ Return(call, reply)
        /\ At(call, "listing") /\ calls[call].toRead = {}
        /\ calls[call].method = "ListTools"
    BY DEF ReturnList, ServiceInv, ListHolds
  <1>3. reply \in Replies /\ reply.tools \in Seq(Tools)
    BY <1>1 DEF Replies, CallRecords
  <1>4. Quiet(call) => calls[call].tools = DirOrder
    <2> SUFFICES ASSUME Quiet(call) PROVE calls[call].tools = DirOrder
      OBVIOUS
    <2>1. PICK n \in 0..Len(DirOrder) :
             /\ calls[call].tools = SubSeq(DirOrder, 1, n)
             /\ calls[call].toRead =
                   {DirOrder[i] : i \in (n + 1)..Len(DirOrder)}
      BY <1>2 DEF ServiceInv, ListHolds, Quiet
    <2>2. DirOrder \in Seq(Tools) /\ Len(DirOrder) \in Nat
      BY CatalogServiceAssumption
    <2>3. n = Len(DirOrder)
      <3>1. ASSUME n < Len(DirOrder) PROVE FALSE
        <4>1. n + 1 \in (n + 1)..Len(DirOrder)
          BY <2>2, <3>1
        <4> QED
          BY <1>2, <2>1, <4>1
      <3> QED
        BY <2>2, <3>1
    <2> QED
      BY <2>1, <2>2, <2>3, SubSeqFull
  <1>6. calls[call].undisturbed => AllReadable(calls[call].tools)
    BY <1>2 DEF ServiceInv, ListHolds
  <1>5. GoodReply(call, reply)
    BY <1>2, <1>3, <1>4, <1>6 DEF GoodReply, Expected
  <1> QED
    BY <1>1, <1>2, <1>5, ReturningKeepsInv

-----------------------------------------------------------------------------
(* A script's step under the calls.                                         *)

\* While this build packages, a module it has written stays, and one it has
\* begun to write is of this build.
LEMMA ModuleOfThisBuildStays ==
    ASSUME ReadInv, StoreStep, NEW tool \in Tools,
           phase = "packaging", phase' = "packaging",
           WrittenByThisBuild(tool, "module")
    PROVE  WrittenByThisBuild(tool, "module")'
  <1>1. StoreTypeOK /\ "module" \in Parts
    BY DEF ReadInv, StoreInv, Parts
  <1>2. PICK t \in Tools : t = ToolOrder[next]
    BY <1>1, ToolBeingPackaged
  <1>3. ASSUME NEW part \in Parts, OpenFile(part)
        PROVE  WrittenByThisBuild(tool, "module")'
    <2>1. tool # t \/ part # "module"
      BY <1>1, <1>2, <1>3, OpenIsLocal DEF WrittenByThisBuild, Whole
    <2>2. files'[tool]["module"] = files[tool]["module"] /\ UNCHANGED gen
      BY <1>1, <1>2, <1>3, <2>1, OpenIsLocal
    <2> QED
      BY <2>2 DEF WrittenByThisBuild, Whole, Present
  <1>4. ASSUME NEW part \in Parts, FillFile(part)
        PROVE  WrittenByThisBuild(tool, "module")'
    <2>1. tool # t \/ part # "module"
      BY <1>1, <1>2, <1>4, FillIsLocal DEF WrittenByThisBuild
    <2>2. files'[tool]["module"] = files[tool]["module"] /\ UNCHANGED gen
      <3>1. /\ \A u \in Tools, p \in Parts :
                  (u # t \/ p # part) => files'[u][p] = files[u][p]
            /\ UNCHANGED gen
        BY <1>1, <1>2, <1>4, FillIsLocal
      <3> QED
        BY <1>1, <2>1, <3>1
    <2> QED
      BY <2>2 DEF WrittenByThisBuild, Whole, Present
  <1> QED
    BY <1>3, <1>4
       DEF StoreStep, StartBuild, StartClean, RemoveFile, RemoveRoot,
           MakeRoot, Compiled, Abort, ScriptIdle, Cleaning

\* A module that is half written after a step was so before, or is of the
\* build that packages, which had not written it.
LEMMA HalfModuleComesFrom ==
    ASSUME ReadInv, StoreStep, NEW tool \in Tools,
           Present(tool, "module")', ~Whole(tool, "module")'
    PROVE  \/ /\ Present(tool, "module") /\ ~Whole(tool, "module")
              /\ files'[tool]["module"] = files[tool]["module"]
           \/ /\ phase = "packaging" /\ ~WrittenByThisBuild(tool, "module")
              /\ files'[tool]["module"].gen = gen
  <1>1. StoreTypeOK /\ "module" \in Parts
    BY DEF ReadInv, StoreInv, Parts
  <1>2. CASE files'[tool]["module"] = files[tool]["module"]
    BY <1>2 DEF Present, Whole
  <1>3. ASSUME NEW part \in Parts, OpenFile(part),
               files'[tool]["module"] # files[tool]["module"]
        PROVE  /\ phase = "packaging" /\ ~WrittenByThisBuild(tool, "module")
               /\ files'[tool]["module"].gen = gen
    <2>1. PICK t \in Tools : t = ToolOrder[next]
      BY <1>1, <1>3, ToolBeingPackaged DEF OpenFile
    <2>2. tool = t /\ part = "module"
      BY <1>1, <1>3, <2>1, OpenIsLocal
    <2> QED
      BY <1>1, <1>3, <2>1, <2>2, OpenIsLocal DEF WrittenByThisBuild, Whole
  <1>4. ASSUME NEW part \in Parts, FillFile(part),
               files'[tool]["module"] # files[tool]["module"]
        PROVE  FALSE
    <2>1. PICK t \in Tools : t = ToolOrder[next]
      BY <1>1, <1>4, ToolBeingPackaged DEF FillFile
    <2>2. tool = t /\ part = "module"
      <3>1. \A u \in Tools, p \in Parts :
               (u # t \/ p # part) => files'[u][p] = files[u][p]
        BY <1>1, <1>4, <2>1, FillIsLocal
      <3> QED
        BY <1>1, <1>4, <3>1
    <2>3. files'[t][part].whole
      BY <1>1, <1>4, <2>1, FilledIsWhole
    <2> QED
      BY <2>2, <2>3 DEF Whole
  <1>5. ASSUME NEW t \in Tools, NEW part \in Parts, RemoveFile(t, part),
               files'[tool]["module"] # files[tool]["module"]
        PROVE  FALSE
    <2>1. files'[tool]["module"] = Absent
      BY <1>1, <1>5 DEF RemoveFile, StoreTypeOK
    <2> QED
      BY <2>1 DEF Present
  <1> QED
    BY <1>2, <1>3, <1>4, <1>5
       DEF StoreStep, StartBuild, StartClean, RemoveRoot, MakeRoot, Compiled,
           Abort

LEMMA ScriptStepKeepsEntry ==
    ASSUME ServiceInv, ScriptStep, NEW call \in Calls
    PROVE  EntryHolds(call)'
  <1> DEFINE entry == calls[call].entry
  <1>1. SUFFICES ASSUME At(call, "artifact")' PROVE EntryHolds(call)'
    BY DEF EntryHolds
  <1>2. /\ calls[call] # Null /\ calls[call] \in CallRecords
        /\ calls'[call] = [calls[call] EXCEPT !.undisturbed = FALSE]
    BY <1>1 DEF ScriptStep, Disturb, At, ServiceInv, ServiceTypeOK
  <1>3. /\ calls'[call].at = calls[call].at
        /\ calls'[call].method = calls[call].method
        /\ calls'[call].toolId = calls[call].toolId
        /\ calls'[call].entry = entry
        /\ ~calls'[call].undisturbed
    BY <1>2 DEF CallRecords
  <1>4. At(call, "artifact") /\ StoreStep /\ ReadInv
    BY <1>1, <1>2, <1>3 DEF At, ScriptStep, ServiceInv
  <1> PICK tool \in Tools : tool = calls[call].toolId
    BY <1>4 DEF ServiceInv, EntryHolds
  <1>5. /\ calls[call].method = "GetToolPackage"
        /\ entry <= gen
        /\ entry = gen =>
              /\ phase \notin {"cleaning", "cleaned", "compiling"}
              /\ phase = "packaging" => WrittenByThisBuild(tool, "module")
        /\ Present(tool, "module") /\ ~Whole(tool, "module") =>
              files[tool]["module"].gen > entry
    BY <1>4 DEF ServiceInv, EntryHolds
  <1>6. entry \in Nat /\ gen \in Nat
    BY <1>2, ArtifactStoreAssumption
       DEF CallRecords, ServiceInv, ServiceTypeOK, StoreTypeOK
  <1>7. gen' \in Nat /\ gen' >= gen
    BY <1>4, GenerationGrows DEF ReadInv, StoreInv
  <1> HIDE DEF entry
  <1>8. entry <= gen'
    BY <1>5, <1>6, <1>7
  <1>9. ASSUME entry = gen'
        PROVE  /\ phase' \notin {"cleaning", "cleaned", "compiling"}
               /\ phase' = "packaging" => WrittenByThisBuild(tool, "module")'
    <2>1. gen' = gen /\ entry = gen
      BY <1>5, <1>6, <1>7, <1>9
    <2>2. phase \notin {"cleaning", "cleaned", "compiling"}
      BY <1>5, <2>1
    <2>3. ~StartBuild
      BY <1>6, <2>1 DEF StartBuild
    <2>4. /\ phase' \notin {"cleaning", "cleaned", "compiling"}
          /\ phase' = "packaging" => phase = "packaging"
      <3>1. CASE \E part \in Parts : OpenFile(part) \/ FillFile(part)
        <4>1. phase = "packaging" /\ phase' \in {"packaging", "published"}
          BY <3>1 DEF OpenFile, FillFile
        <4> QED
          BY <4>1
      <3>2. CASE \E t \in Tools, part \in Parts : RemoveFile(t, part)
        BY <2>2, <3>2 DEF RemoveFile
      <3>3. CASE StartClean \/ RemoveRoot \/ MakeRoot \/ Compiled \/ Abort
        BY <2>2, <3>3 DEF StartClean, RemoveRoot, MakeRoot, Compiled, Abort,
                          Cleaning
      <3> QED
        BY <1>4, <2>3, <3>1, <3>2, <3>3 DEF StoreStep
    <2> QED
      BY <1>4, <1>5, <2>1, <2>4, ModuleOfThisBuildStays
  <1>10. ASSUME Present(tool, "module")', ~Whole(tool, "module")'
         PROVE  files'[tool]["module"].gen > entry
    <2>1. CASE /\ Present(tool, "module") /\ ~Whole(tool, "module")
               /\ files'[tool]["module"] = files[tool]["module"]
      BY <1>5, <2>1
    <2>2. CASE /\ phase = "packaging" /\ ~WrittenByThisBuild(tool, "module")
               /\ files'[tool]["module"].gen = gen
      BY <1>5, <1>6, <2>2
    <2> QED
      BY <1>4, <1>10, <2>1, <2>2, HalfModuleComesFrom
  <1> QED
    BY <1>3, <1>5, <1>8, <1>9, <1>10 DEF EntryHolds

LEMMA ScriptStepKeepsInv ==
    ASSUME ServiceInv, ScriptStep
    PROVE  ServiceInv'
  <1>1. ReadInv' /\ StoreTypeOK'
    BY StoreStepKeepsReadInv DEF ServiceInv, ScriptStep, ReadInv, StoreInv
  <1>2. ASSUME NEW call \in Calls
        PROVE  /\ calls'[call] \in CallRecords \cup {Null}
               /\ Done(call)' <=> At(call, "returned")'
               /\ ListHolds(call)' /\ ReplyHolds(call)'
    <2>1. CASE calls[call] = Null
      <3>1. calls'[call] = Null /\ replies'[call] = replies[call]
        BY <2>1 DEF ScriptStep, Disturb
      <3>2. ~Done(call)
        BY <2>1 DEF ServiceInv, ServiceTypeOK, At
      <3> QED
        BY <3>1, <3>2 DEF Done, At, ListHolds, ReplyHolds
    <2>2. CASE calls[call] # Null
      <3>1. /\ calls[call] \in CallRecords
            /\ calls'[call] = [calls[call] EXCEPT !.undisturbed = FALSE]
            /\ replies'[call] = replies[call]
        BY <2>2 DEF ScriptStep, Disturb, ServiceInv, ServiceTypeOK
      <3>2. /\ calls'[call] \in CallRecords
            /\ calls'[call].at = calls[call].at
            /\ calls'[call].method = calls[call].method
            /\ calls'[call].toolId = calls[call].toolId
            /\ calls'[call].tools = calls[call].tools
            /\ calls'[call].ctx = calls[call].ctx
            /\ ~calls'[call].undisturbed
        BY <3>1 DEF CallRecords
      <3>3. calls'[call] # Null
        BY <3>2, NullIsNoRecord
      <3>4. Done(call)' <=> At(call, "returned")'
        BY <2>2, <3>1, <3>2, <3>3 DEF ServiceInv, ServiceTypeOK, Done, At
      <3>5. ListHolds(call)'
        BY <2>2, <3>2, <3>3 DEF ServiceInv, ListHolds, At
      <3>6. ReplyHolds(call)'
        BY <3>1, <3>2 DEF ServiceInv, ReplyHolds, GoodReply, Quiet, Expected,
                          Done
      <3> QED
        BY <3>2, <3>4, <3>5, <3>6
    <2> QED
      BY <2>1, <2>2
  <1>3. /\ calls' \in [Calls -> CallRecords \cup {Null}]
        /\ replies' \in [Calls -> Replies \cup {Null}]
    BY <1>2 DEF ScriptStep, Disturb, ServiceInv, ServiceTypeOK
  <1> QED
    BY <1>1, <1>2, <1>3, ScriptStepKeepsEntry DEF ServiceInv, ServiceTypeOK

-----------------------------------------------------------------------------
\* Whoever calls the service may rely on these two steps.
LEMMA CallStepKeepsInv ==
    ASSUME ServiceInv, NEW call \in Calls, CallStep(call)
    PROVE  ServiceInv'
  BY EnterServiceKeepsInv, FindToolKeepsInv, ReadArtifactKeepsInv,
     ReadRootKeepsInv, ReadListedKeepsInv, ReturnListKeepsInv DEF CallStep

LEMMA UnchangedKeepsServiceInv ==
    ASSUME ServiceInv, UNCHANGED vars
    PROVE  ServiceInv'
  <1>1. ReadInv' /\ StoreTypeOK'
    BY StoreUnchangedKeepsReadInv DEF ServiceInv, vars
  <1>2. UNCHANGED storeVars /\ UNCHANGED calls /\ UNCHANGED replies
    BY DEF vars, serviceVars
  <1>3. \A call \in Calls :
           /\ EntryHolds(call)' /\ ListHolds(call)' /\ ReplyHolds(call)'
           /\ Done(call)' <=> At(call, "returned")'
    BY <1>2, OtherCallsKeepTheirPart
  <1> QED
    BY <1>1, <1>2, <1>3 DEF ServiceInv, ServiceTypeOK

\* The invariant holds whatever scripts do under the calls.
THEOREM ServiceCorrect == Spec => []ServiceInv
  <1>1. Init => ServiceInv
    BY InitEstablishesServiceInv
  <1>2. ServiceInv /\ [Next]_vars => ServiceInv'
    <2> SUFFICES ASSUME ServiceInv, [Next]_vars PROVE ServiceInv'
      OBVIOUS
    <2>1. CASE ScriptStep
      BY <2>1, ScriptStepKeepsInv
    <2>2. ASSUME NEW call \in Calls, NEW request \in Requests,
                 StartCall(call, request)
          PROVE  ServiceInv'
      BY <2>2, StartCallKeepsInv
    <2>3. ASSUME NEW call \in Calls, NEW how \in Contexts \ {"live"},
                 EndContext(call, how)
          PROVE  ServiceInv'
      BY <2>3, EndContextKeepsInv
    <2>4. ASSUME NEW call \in Calls, CallStep(call) PROVE ServiceInv'
      BY <2>4, CallStepKeepsInv
    <2>5. CASE UNCHANGED vars
      BY <2>5, UnchangedKeepsServiceInv
    <2> QED
      BY <2>1, <2>2, <2>3, <2>4, <2>5 DEF Next
  <1> QED
    BY <1>1, <1>2, PTL DEF Spec

\* Calls and replies keep their shapes.
THEOREM ServiceTypeCorrect == Spec => []ServiceTypeOK
  BY ServiceCorrect, PTL DEF ServiceInv

\* The digest in a package is that of its bytes.
THEOREM ChecksumCorrect == Spec => []ChecksumMatchesBytes
  BY ServiceCorrect, ServiceInvImplies, PTL

\* A half written module is never of the build the manifest describes.
THEOREM PartialModuleCorrect == Spec => []PartialModuleIsNewer
  BY ServiceCorrect, ServiceInvImplies, PTL

\* The end of a context is told as such, under whatever it is wrapped in.
THEOREM CancellationCorrect == Spec => []CancellationNotMasked
  BY ServiceCorrect, ServiceInvImplies, PTL

\* NotFound is never the answer for a manifest that is half written.
THEOREM NotFoundCorrect == Spec => []NotFoundMeansAbsent
  BY ServiceCorrect, ServiceInvImplies, PTL

\* A module is missing next to its manifest only if a clean-up was cut.
THEOREM MissingModuleCorrect == Spec => []MissingModuleMeansCleanUp
  BY ServiceCorrect, ServiceInvImplies, PTL

\* A published store that nothing touches is served completely, in order.
THEOREM QuietStoreCorrect == Spec => []QuietStoreServesEverything
  BY ServiceCorrect, ServiceInvImplies, PTL

-----------------------------------------------------------------------------
(* What a step of the service leaves to its callers.                        *)

\* A request under way stays the same, and its reply does not change.
RequestKept(call) ==
    /\ calls[call] = Null => calls'[call] = Null
    /\ calls[call] # Null =>
          /\ calls'[call].method = calls[call].method
          /\ calls'[call].toolId = calls[call].toolId
          /\ calls'[call].supported = calls[call].supported
    /\ Done(call) => replies'[call] = replies[call]

RequestsKept == \A call \in Calls : RequestKept(call)

\* The other calls stay as they are, and this one asks what it asked.
LEMMA OneCallMoves ==
    ASSUME ServiceInv, NEW call \in Calls, calls[call] # Null, ~Done(call),
           \A other \in Calls : other # call =>
              calls'[other] = calls[other] /\ replies'[other] = replies[other],
           calls'[call].method = calls[call].method,
           calls'[call].toolId = calls[call].toolId,
           calls'[call].supported = calls[call].supported
    PROVE  RequestsKept
  BY DEF RequestsKept, RequestKept

LEMMA CallStepKeepsRequests ==
    ASSUME ServiceInv, NEW call \in Calls, CallStep(call)
    PROVE  RequestsKept
  <1>1. /\ calls[call] \in CallRecords /\ calls[call] # Null
        /\ ~Done(call)
    <2>1. \E point : point # "returned" /\ At(call, point)
      BY DEF CallStep, EnterService, FindTool, ReadArtifact, ReadRoot,
             ReadListed, ReturnList
    <2> QED
      BY <2>1, UnderWay
  <1> DEFINE Returned ==
                /\ \E reply : replies' = [replies EXCEPT ![call] = reply]
                /\ calls' = [calls EXCEPT ![call].at = "returned"]
  <1>2. CASE Returned
    BY <1>1, <1>2, OneCallMoves DEF ServiceInv, ServiceTypeOK, CallRecords
  <1>3. CASE EnterService(call) /\ ~Returned
    <2>1. calls' = [calls EXCEPT ![call].at = "catalog"] /\ UNCHANGED replies
      BY <1>3 DEF EnterService, Fail, Return
    <2> QED
      BY <1>1, <2>1, OneCallMoves DEF ServiceInv, ServiceTypeOK, CallRecords
  <1>4. CASE FindTool(call) /\ ~Returned
    <2>1. /\ calls' = [calls EXCEPT
                          ![call].at = "artifact",
                          ![call].entry =
                             files[calls[call].toolId]["manifest"].gen]
          /\ UNCHANGED replies
      BY <1>4 DEF FindTool, Fail, Return
    <2> QED
      BY <1>1, <2>1, OneCallMoves DEF ServiceInv, ServiceTypeOK, CallRecords
  <1>5. CASE ReadRoot(call) /\ ~Returned
    <2>1. /\ calls' = [calls EXCEPT ![call].at = "listing",
                                    ![call].toRead = Directories]
          /\ UNCHANGED replies
      BY <1>5 DEF ReadRoot, Fail, Return
    <2> QED
      BY <1>1, <2>1, OneCallMoves DEF ServiceInv, ServiceTypeOK, CallRecords
  <1>6. CASE ReadListed(call) /\ ~Returned
    <2>1. /\ UNCHANGED replies
          /\ \E toolId, tools :
                calls' = [calls EXCEPT ![call].toRead = @ \ {toolId},
                                       ![call].tools = tools]
      <3>1. PICK toolId \in calls[call].toRead :
               /\ calls' = [calls EXCEPT
                     ![call].toRead = @ \ {toolId},
                     ![call].tools = IF Skipped(ManifestState(toolId)) THEN @
                                     ELSE Append(@, toolId)]
               /\ UNCHANGED replies
        BY <1>6 DEF ReadListed, Fail, Return
      <3> QED
        BY <3>1
    <2>2. PICK toolId, tools :
             calls' = [calls EXCEPT ![call].toRead = @ \ {toolId},
                                    ![call].tools = tools]
      BY <2>1
    <2> QED
      BY <1>1, <2>1, <2>2, OneCallMoves
         DEF ServiceInv, ServiceTypeOK, CallRecords
  <1>7. ReadArtifact(call) \/ ReturnList(call) => Returned
    BY DEF ReadArtifact, ReturnList, Fail, Return
  <1> QED
    BY <1>2, <1>3, <1>4, <1>5, <1>6, <1>7 DEF CallStep

LEMMA EndContextKeepsRequests ==
    ASSUME ServiceInv, NEW call \in Calls, NEW how, EndContext(call, how)
    PROVE  RequestsKept
  <1>1. calls[call] \in CallRecords /\ calls[call] # Null /\ ~Done(call)
    BY DEF EndContext, ServiceInv, ServiceTypeOK, At
  <1> QED
    BY <1>1, OneCallMoves
       DEF EndContext, ServiceInv, ServiceTypeOK, CallRecords

LEMMA ScriptStepKeepsRequests ==
    ASSUME ServiceInv, ScriptStep
    PROVE  RequestsKept
  <1> SUFFICES ASSUME NEW call \in Calls, calls[call] # Null
               PROVE  /\ calls'[call].method = calls[call].method
                      /\ calls'[call].toolId = calls[call].toolId
                      /\ calls'[call].supported = calls[call].supported
    BY DEF RequestsKept, RequestKept, ScriptStep, Disturb
  <1>1. /\ calls[call] \in CallRecords
        /\ calls'[call] = [calls[call] EXCEPT !.undisturbed = FALSE]
    BY DEF ScriptStep, Disturb, ServiceInv, ServiceTypeOK
  <1> QED
    BY <1>1 DEF CallRecords

-----------------------------------------------------------------------------
(* What relates the three layers.                                           *)

\* The service works on what the browser asked, and only through a handler.
RequestHolds(call) ==
    /\ fetches[call] = Null <=> routes[call].at = "idle"
    /\ fetches[call] # Null /\ fetches[call].method = "ListTools" =>
          fetches[call].toolId = Unknown
    /\ calls[call] # Null =>
          /\ routes[call].at \in {"calling", "answered"}
          /\ calls[call].method = fetches[call].method
          /\ calls[call].toolId = fetches[call].toolId
          /\ calls[call].supported

\* An answer of 404 or 200 is the service's.
AnswerHolds(call) ==
    /\ Answered(call, 404) => Done(call) /\ replies[call].status = "NotFound"
    /\ Answered(call, 200) =>
          /\ Done(call) /\ replies[call].status = "OK"
          /\ routes[call].body = Body(call, "OK")

\* A fetch that was fulfilled has the body of its answer.
FetchHolds(call) ==
    fetches[call] # Null /\ fetches[call].outcome = "fulfilled" =>
        Answered(call, 200) /\ fetches[call].body = routes[call].body

GatewayInv ==
    /\ ServiceInv
    /\ GatewayTypeOK
    /\ NoClientLeaks
    /\ \A call \in Calls :
          RequestHolds(call) /\ AnswerHolds(call) /\ FetchHolds(call)

LEMMA GatewayInvImplies ==
    GatewayInv =>
        PrepareStatusIsTruthful /\ FulfilledIsTheReply /\ ListedCanBePrepared
  <1> SUFFICES ASSUME GatewayInv
               PROVE  /\ PrepareStatusIsTruthful /\ FulfilledIsTheReply
                      /\ ListedCanBePrepared
    OBVIOUS
  <1>1. \A call \in Calls : Done(call) =>
           /\ GoodReply(call, replies[call])
           /\ calls[call] # Null
           /\ calls[call].method = fetches[call].method
           /\ calls[call].toolId = fetches[call].toolId
           /\ calls[call].supported
           /\ calls[call].method \in Methods
    BY DEF GatewayInv, ServiceInv, ServiceTypeOK, ReplyHolds, At,
           RequestHolds, CallRecords
  <1>2. PrepareStatusIsTruthful
    <2>1. ASSUME NEW call \in Calls, Answered(call, 404)
          PROVE  /\ Done(call) /\ replies[call].cause = "missing"
                 /\ calls[call].undisturbed /\ fetches[call].toolId \in Tools =>
                       ~Present(fetches[call].toolId, "manifest")
      <3>1. Done(call) /\ replies[call].status = "NotFound"
        BY <2>1 DEF GatewayInv, AnswerHolds
      <3>2. /\ GoodReply(call, replies[call])
            /\ calls[call].toolId = fetches[call].toolId
        BY <1>1, <3>1
      <3> QED
        BY <3>1, <3>2 DEF GoodReply
    <2>2. \A call \in Calls : Answered(call, 200) =>
             Done(call) /\ replies[call].status = "OK"
      BY DEF GatewayInv, AnswerHolds
    <2> QED
      BY <2>1, <2>2 DEF PrepareStatusIsTruthful
  <1>3. FulfilledIsTheReply
    <2> SUFFICES ASSUME NEW call \in Calls, fetches[call] # Null,
                        fetches[call].outcome = "fulfilled"
                 PROVE  LET body == fetches[call].body IN
                        /\ Done(call) /\ replies[call].status = "OK"
                        /\ fetches[call].method = calls[call].method
                        /\ fetches[call].method = "ListTools" =>
                              body.tools = replies[call].tools
                        /\ fetches[call].method = "GetToolPackage" =>
                              /\ body.toolId = fetches[call].toolId
                              /\ DecodeBase64(body.wasmBytesBase64)
                                    = replies[call].bytes
                              /\ body.moduleSha256
                                    = DecodeBase64(body.wasmBytesBase64)
                              /\ body.moduleSizeBytes.decimalOf
                                    = replies[call].bytes
      BY DEF FulfilledIsTheReply
    <2>1. /\ Done(call) /\ replies[call].status = "OK"
          /\ fetches[call].body = Body(call, "OK")
      BY DEF GatewayInv, FetchHolds, AnswerHolds
    <2>2. /\ GoodReply(call, replies[call])
          /\ calls[call].method = fetches[call].method
          /\ calls[call].toolId = fetches[call].toolId
      BY <1>1, <2>1
    <2>3. fetches[call].method = "ListTools" =>
             fetches[call].body.tools = replies[call].tools
      BY <2>1 DEF Body
    <2>4. fetches[call].method = "GetToolPackage" =>
             fetches[call].body = ToPrepareResponse(call)
             /\ replies[call].sha256 = replies[call].bytes
      BY <2>1, <2>2 DEF Body, GoodReply
    <2> QED
      BY <2>1, <2>2, <2>3, <2>4
         DEF ToPrepareResponse, DecodeBase64, LoadedUint64
  <1>4. ListedCanBePrepared
    <2> SUFFICES ASSUME NEW list \in Calls, NEW prepare \in Calls,
                        Answered(list, 200),
                        calls[list].method = "ListTools",
                        calls[list].undisturbed,
                        NEW i \in DOMAIN replies[list].tools,
                        replies[list].tools[i] = fetches[prepare].toolId,
                        Done(prepare), calls[prepare].undisturbed,
                        calls[prepare].ctx = "live", cleaned
                 PROVE  /\ replies[prepare].status = "OK"
                        /\ replies[prepare].bytes.whole
      BY DEF ListedCanBePrepared
    <2>1. Done(list) /\ replies[list].status = "OK"
      BY DEF GatewayInv, AnswerHolds
    <2>2. /\ replies[list].tools \in Seq(Tools)
          /\ AllReadable(replies[list].tools)
      BY <1>1, <2>1 DEF GoodReply
    <2>3. /\ fetches[prepare].toolId \in Tools
          /\ Whole(fetches[prepare].toolId, "manifest")
      BY <2>2 DEF AllReadable
    <2>4. /\ GoodReply(prepare, replies[prepare])
          /\ calls[prepare].toolId = fetches[prepare].toolId
          /\ calls[prepare].supported
      BY <1>1
    <2>5. calls[prepare].method = "GetToolPackage"
      <3>1. fetches[prepare] # Null
        BY <1>1 DEF GatewayInv, RequestHolds
      <3>2. fetches[prepare].method # "ListTools"
        BY <2>3, <3>1, CatalogServiceAssumption DEF GatewayInv, RequestHolds
      <3> QED
        BY <1>1, <3>2 DEF Methods
    <2>6. Expected(prepare)
      BY <2>3, <2>4, <2>5 DEF Expected
    <2> QED
      BY <2>4, <2>5, <2>6 DEF GoodReply
  <1> QED
    BY <1>2, <1>3, <1>4

-----------------------------------------------------------------------------
(* A step disturbs the parts of one request at most.                        *)

LEMMA OtherRequestsKeepTheirPart ==
    ASSUME GatewayInv, NEW call \in Calls, RequestKept(call),
           fetches'[call] = fetches[call], routes'[call] = routes[call]
    PROVE  RequestHolds(call)' /\ AnswerHolds(call)' /\ FetchHolds(call)'
  <1>1. RequestHolds(call) /\ AnswerHolds(call) /\ FetchHolds(call)
    BY DEF GatewayInv
  <1>2. RequestHolds(call)'
    BY <1>1 DEF RequestHolds, RequestKept
  <1>3. AnswerHolds(call)'
    <2>1. Done(call) => /\ replies'[call] = replies[call] /\ Done(call)'
                        /\ calls'[call].toolId = calls[call].toolId
      <3>1. Done(call) => calls[call] # Null
        BY DEF GatewayInv, ServiceInv, ServiceTypeOK, At
      <3> QED
        BY <3>1 DEF RequestKept, Done
    <2>2. Done(call) => Body(call, "OK")' = Body(call, "OK")
      BY <2>1 DEF Body, ToPrepareResponse, LoadedUint64
    <2> QED
      BY <1>1, <2>1, <2>2 DEF AnswerHolds, Answered
  <1>4. FetchHolds(call)'
    BY <1>1 DEF FetchHolds, Answered
  <1> QED
    BY <1>2, <1>3, <1>4

LEMMA ServiceMovesKeepInv ==
    ASSUME GatewayInv, ServiceInv', RequestsKept, UNCHANGED gatewayVars
    PROVE  GatewayInv'
  <1>1. \A call \in Calls :
           RequestHolds(call)' /\ AnswerHolds(call)' /\ FetchHolds(call)'
    BY OtherRequestsKeepTheirPart DEF gatewayVars, RequestsKept
  <1>2. GatewayTypeOK' /\ NoClientLeaks'
    BY DEF gatewayVars, GatewayInv, GatewayTypeOK, NoClientLeaks, ServiceInv
  <1> QED
    BY <1>1, <1>2 DEF GatewayInv

\* One request's fetch or handler moves.
LEMMA RequestMovesKeepInv ==
    ASSUME GatewayInv, ServiceInv', RequestsKept, NEW call \in Calls,
           NEW fetch \in FetchRecords \cup {Null}, NEW route \in RouteRecords,
           fetches' = [fetches EXCEPT ![call] = fetch],
           routes' = [routes EXCEPT ![call] = route],
           clients' = IF route.at = "calling" THEN clients \cup {call}
                                              ELSE clients \ {call},
           RequestHolds(call)', AnswerHolds(call)', FetchHolds(call)'
    PROVE  GatewayInv'
  <1>1. /\ fetches \in [Calls -> FetchRecords \cup {Null}]
        /\ routes \in [Calls -> RouteRecords]
        /\ clients = {other \in Calls : routes[other].at = "calling"}
    BY DEF GatewayInv, GatewayTypeOK, NoClientLeaks
  <1>2. \A other \in Calls : other # call =>
           RequestHolds(other)' /\ AnswerHolds(other)' /\ FetchHolds(other)'
    BY <1>1, OtherRequestsKeepTheirPart DEF RequestsKept
  <1>3. routes'[call] = route
        /\ \A other \in Calls : other # call => routes'[other] = routes[other]
    BY <1>1
  <1>4. NoClientLeaks'
    BY <1>1, <1>3 DEF NoClientLeaks
  <1>5. GatewayTypeOK'
    <2>1. /\ fetches' \in [Calls -> FetchRecords \cup {Null}]
          /\ routes' \in [Calls -> RouteRecords]
      BY <1>1
    <2>2. clients' \subseteq Calls
      BY <1>4 DEF NoClientLeaks
    <2> QED
      BY <2>1, <2>2 DEF GatewayTypeOK, ServiceInv
  <1> QED
    BY <1>2, <1>4, <1>5 DEF GatewayInv

-----------------------------------------------------------------------------
(* The steps.                                                               *)

LEMMA UnchangedKeepsRequests ==
    ASSUME UNCHANGED vars
    PROVE  RequestsKept
  BY DEF RequestsKept, RequestKept, vars, serviceVars

LEMMA GatewayTypes ==
    ASSUME GatewayInv, NEW call \in Calls
    PROVE  /\ fetches[call] \in FetchRecords \cup {Null}
           /\ routes[call] \in RouteRecords
           /\ fetches[call] # Null => fetches[call] \in FetchRecords
           /\ call \in clients <=> routes[call].at = "calling"
           /\ RequestHolds(call) /\ AnswerHolds(call) /\ FetchHolds(call)
  BY DEF GatewayInv, GatewayTypeOK, NoClientLeaks

LEMMA InitEstablishesGatewayInv == GatewayInit => GatewayInv
  <1> SUFFICES ASSUME GatewayInit PROVE GatewayInv
    OBVIOUS
  <1>1. ServiceInv
    BY InitEstablishesServiceInv DEF GatewayInit
  <1>2. \A call \in Calls : calls[call] = Null /\ fetches[call] = Null
                            /\ routes[call] = [at |-> "idle"]
    BY DEF GatewayInit, Init
  <1>3. GatewayTypeOK /\ NoClientLeaks
    BY <1>1, <1>2 DEF ServiceInv, GatewayInit, GatewayTypeOK, NoClientLeaks,
                      RouteRecords
  <1>4. \A call \in Calls :
           RequestHolds(call) /\ AnswerHolds(call) /\ FetchHolds(call)
    BY <1>2 DEF RequestHolds, AnswerHolds, FetchHolds, Answered
  <1> QED
    BY <1>1, <1>3, <1>4 DEF GatewayInv

LEMMA FetchKeepsInv ==
    ASSUME GatewayInv, NEW call \in Calls, NEW asked \in Fetches,
           Fetch(call, asked)
    PROVE  GatewayInv'
  <1> DEFINE fetch == [method |-> asked.method, toolId |-> asked.toolId,
                       wellFormed |-> asked.wellFormed,
                       outcome |-> "pending", body |-> Null]
             route == [at |-> "entered"]
  <1>1. ServiceInv' /\ RequestsKept
    BY UnchangedKeepsServiceInv, UnchangedKeepsRequests
       DEF Fetch, GatewayInv
  <1>2. /\ fetch \in FetchRecords /\ fetch # Null
        /\ fetch.outcome = "pending"
        /\ fetch.method = "ListTools" => fetch.toolId = Unknown
    <2>1. /\ asked.method \in Methods
          /\ asked.toolId \in Tools \cup {Unknown}
          /\ asked.wellFormed \in BOOLEAN
          /\ asked.method = "ListTools" => asked.toolId = Unknown
      BY DEF Fetches, Methods
    <2>2. Null \in Bodies
      BY DEF Bodies
    <2>3. fetch \in FetchRecords
      BY <2>1, <2>2 DEF FetchRecords, Outcomes
    <2> QED
      BY <2>1, <2>3, ToolGatewayAssumption
  <1>3. route \in RouteRecords /\ route.at = "entered"
    BY DEF RouteRecords
  <1>4. routes[call].at = "idle" /\ call \notin clients /\ calls[call] = Null
    BY GatewayTypes DEF Fetch, RequestHolds
  <1>5. /\ fetches' = [fetches EXCEPT ![call] = fetch]
        /\ routes' = [routes EXCEPT ![call] = route]
        /\ clients' = clients /\ calls' = calls
    BY DEF Fetch, vars, serviceVars
  <1> HIDE DEF fetch, route
  <1>6. fetches'[call] = fetch /\ routes'[call] = route
    BY <1>5 DEF GatewayInv, GatewayTypeOK
  <1>7. RequestHolds(call)' /\ AnswerHolds(call)' /\ FetchHolds(call)'
    BY <1>2, <1>3, <1>4, <1>5, <1>6
       DEF RequestHolds, AnswerHolds, FetchHolds, Answered
  <1>8. clients' = clients \ {call}
    BY <1>4, <1>5
  <1> QED
    BY <1>1, <1>2, <1>3, <1>5, <1>7, <1>8, RequestMovesKeepInv

\* What the browser makes of its fetch: the handler does not notice.
LEMMA SettledFetchKeepsInv ==
    ASSUME GatewayInv, NEW call \in Calls, fetches[call] # Null,
           NEW fetch \in FetchRecords,
           fetch.method = fetches[call].method,
           fetch.toolId = fetches[call].toolId,
           fetch.outcome = "fulfilled" =>
              Answered(call, 200) /\ fetch.body = routes[call].body,
           fetches' = [fetches EXCEPT ![call] = fetch],
           UNCHANGED <<vars, routes, clients>>
    PROVE  GatewayInv'
  <1>1. ServiceInv' /\ RequestsKept
    BY UnchangedKeepsServiceInv, UnchangedKeepsRequests DEF GatewayInv
  <1>2. /\ fetches'[call] = fetch /\ fetch # Null
        /\ routes'[call] = routes[call] /\ UNCHANGED <<calls, replies>>
    BY ToolGatewayAssumption
       DEF GatewayInv, GatewayTypeOK, vars, serviceVars
  <1>3. RequestHolds(call)'
    BY <1>2, GatewayTypes DEF RequestHolds
  <1>4. AnswerHolds(call)'
    <2>1. Body(call, "OK")' = Body(call, "OK")
      BY <1>2 DEF Body, ToPrepareResponse, LoadedUint64
    <2> QED
      BY <1>2, <2>1, GatewayTypes DEF AnswerHolds, Answered, Done
  <1>5. FetchHolds(call)'
    BY <1>2 DEF FetchHolds, Answered
  <1>6. /\ routes' = [routes EXCEPT ![call] = routes[call]]
        /\ routes[call] \in RouteRecords
        /\ clients' = IF routes[call].at = "calling" THEN clients \cup {call}
                                                     ELSE clients \ {call}
    BY GatewayTypes DEF GatewayInv, GatewayTypeOK
  <1> QED
    BY <1>1, <1>3, <1>4, <1>5, <1>6, RequestMovesKeepInv

LEMMA FetchRejectedKeepsInv ==
    ASSUME GatewayInv, NEW call \in Calls, FetchRejected(call)
    PROVE  GatewayInv'
  <1> DEFINE fetch == [fetches[call] EXCEPT !.outcome = "rejected"]
  <1>1. fetches[call] # Null /\ fetches[call] \in FetchRecords
    BY GatewayTypes DEF FetchRejected, Pending
  <1>2. /\ fetch \in FetchRecords /\ fetch.outcome = "rejected"
        /\ fetch.method = fetches[call].method
        /\ fetch.toolId = fetches[call].toolId
    BY <1>1 DEF FetchRecords, Outcomes
  <1>3. /\ fetches' = [fetches EXCEPT ![call] = fetch]
        /\ UNCHANGED <<vars, routes, clients>>
    BY DEF FetchRejected
  <1> HIDE DEF fetch
  <1> QED
    BY <1>1, <1>2, <1>3, SettledFetchKeepsInv

LEMMA ReceiveKeepsInv ==
    ASSUME GatewayInv, NEW call \in Calls, Receive(call)
    PROVE  GatewayInv'
  <1> DEFINE outcome == Outcome(routes[call].status)
             fetch == [fetches[call] EXCEPT !.outcome = outcome,
                                            !.body = routes[call].body]
  <1>1. /\ fetches[call] # Null /\ fetches[call] \in FetchRecords
        /\ routes[call].at = "answered"
    BY GatewayTypes DEF Receive, Pending
  <1>2. outcome \in Outcomes /\ routes[call].body \in Bodies
        /\ (outcome = "fulfilled" => Answered(call, 200))
    BY <1>1, GatewayTypes DEF Outcome, Outcomes, RouteRecords, Answered
  <1>3. fetches' = [fetches EXCEPT ![call] = fetch]
        /\ UNCHANGED <<vars, routes, clients>>
    BY DEF Receive
  <1> HIDE DEF outcome
  <1>4. /\ fetch \in FetchRecords
        /\ fetch.outcome = outcome /\ fetch.body = routes[call].body
        /\ fetch.method = fetches[call].method
        /\ fetch.toolId = fetches[call].toolId
    BY <1>1, <1>2 DEF FetchRecords
  <1> HIDE DEF fetch
  <1> QED
    BY <1>1, <1>2, <1>3, <1>4, SettledFetchKeepsInv

\* The handler of a request moves while its fetch waits or is given up.
LEMMA RouteMovesKeepInv ==
    ASSUME GatewayInv, ServiceInv', RequestsKept, NEW call \in Calls,
           NEW route \in RouteRecords,
           routes[call].at \in {"entered", "calling"},
           route.at \in {"calling", "answered"},
           routes' = [routes EXCEPT ![call] = route],
           clients' = IF route.at = "calling" THEN clients \cup {call}
                                              ELSE clients \ {call},
           UNCHANGED fetches, AnswerHolds(call)'
    PROVE  GatewayInv'
  <1>1. /\ fetches' = [fetches EXCEPT ![call] = fetches[call]]
        /\ fetches[call] \in FetchRecords \cup {Null}
        /\ routes'[call] = route
    BY DEF GatewayInv, GatewayTypeOK
  <1>2. RequestHolds(call)'
    BY <1>1, GatewayTypes DEF RequestHolds, RequestsKept, RequestKept
  <1>3. FetchHolds(call)'
    BY <1>1, GatewayTypes DEF FetchHolds, Answered
  <1> QED
    BY <1>1, <1>2, <1>3, RequestMovesKeepInv

LEMMA RefuseBodyKeepsInv ==
    ASSUME GatewayInv, NEW call \in Calls, RefuseBody(call)
    PROVE  GatewayInv'
  <1> DEFINE route == [at |-> "answered", status |-> 400, body |-> Null]
  <1>1. ServiceInv' /\ RequestsKept
    BY UnchangedKeepsServiceInv, UnchangedKeepsRequests
       DEF RefuseBody, GatewayInv
  <1>2. /\ route \in RouteRecords
        /\ route.at = "answered" /\ route.status = 400
    BY DEF RouteRecords, HttpStatuses, Bodies
  <1>3. /\ routes' = [routes EXCEPT ![call] = route]
        /\ routes[call].at = "entered"
        /\ UNCHANGED fetches
    BY DEF RefuseBody, Respond
  <1>4. clients' = clients \ {call}
    BY <1>3, GatewayTypes DEF RefuseBody
  <1> HIDE DEF route
  <1>5. AnswerHolds(call)'
    BY <1>2, <1>3 DEF AnswerHolds, Answered, GatewayInv, GatewayTypeOK
  <1> QED
    BY <1>1, <1>2, <1>3, <1>4, <1>5, RouteMovesKeepInv

LEMMA OpenClientKeepsInv ==
    ASSUME GatewayInv, NEW call \in Calls, OpenClient(call)
    PROVE  GatewayInv'
  <1> DEFINE route == [at |-> "calling"]
  <1>1. ServiceInv' /\ RequestsKept
    BY UnchangedKeepsServiceInv, UnchangedKeepsRequests
       DEF OpenClient, GatewayInv
  <1>2. route \in RouteRecords /\ route.at = "calling"
    BY DEF RouteRecords
  <1>3. /\ routes' = [routes EXCEPT ![call] = route]
        /\ routes[call].at = "entered"
        /\ clients' = clients \cup {call} /\ UNCHANGED fetches
    BY DEF OpenClient
  <1> HIDE DEF route
  <1>5. AnswerHolds(call)'
    BY <1>2, <1>3 DEF AnswerHolds, Answered, GatewayInv, GatewayTypeOK
  <1> QED
    BY <1>1, <1>2, <1>3, <1>5, RouteMovesKeepInv

\* What a route sends is what it was asked, which is one of the service's
\* requests.
LEMMA DeliveredRequest ==
    ASSUME GatewayInv, NEW call \in Calls, routes[call].at = "calling"
    PROVE  [method |-> fetches[call].method,
            toolId |-> fetches[call].toolId,
            supported |-> TRUE] \in Requests
  <1>1. fetches[call] \in FetchRecords
    BY GatewayTypes DEF RequestHolds
  <1>2. fetches[call].method = "ListTools" => fetches[call].toolId = Unknown
    BY GatewayTypes DEF RequestHolds
  <1> QED
    BY <1>1, <1>2 DEF FetchRecords, Methods, Requests

LEMMA DeliverKeepsInv ==
    ASSUME GatewayInv, NEW call \in Calls, Deliver(call)
    PROVE  GatewayInv'
  <1> DEFINE request == [method |-> fetches[call].method,
                         toolId |-> fetches[call].toolId,
                         supported |-> TRUE]
  <1>1. /\ routes[call].at = "calling" /\ StartCall(call, request)
        /\ UNCHANGED gatewayVars
    BY DEF Deliver
  <1>2. request \in Requests
    BY <1>1, DeliveredRequest
  <1>3. /\ request.method = fetches[call].method
        /\ request.toolId = fetches[call].toolId
        /\ request.supported
    OBVIOUS
  <1> HIDE DEF request
  <1>4. ServiceInv'
    BY <1>1, <1>2, StartCallKeepsInv DEF GatewayInv
  <1>5. /\ calls'[call].method = fetches[call].method
        /\ calls'[call].toolId = fetches[call].toolId
        /\ calls'[call].supported
        /\ \A other \in Calls : other # call => RequestKept(other)
    BY <1>1, <1>3 DEF StartCall, NewCall, GatewayInv, ServiceInv,
                      ServiceTypeOK, RequestKept
  <1>6. \A other \in Calls : other # call =>
           RequestHolds(other)' /\ AnswerHolds(other)' /\ FetchHolds(other)'
    BY <1>1, <1>5, OtherRequestsKeepTheirPart DEF gatewayVars
  <1>7. RequestHolds(call)' /\ AnswerHolds(call)' /\ FetchHolds(call)'
    BY <1>1, <1>5, GatewayTypes
       DEF gatewayVars, RequestHolds, AnswerHolds, FetchHolds, Answered
  <1>8. GatewayTypeOK' /\ NoClientLeaks'
    BY <1>1, <1>4 DEF gatewayVars, GatewayInv, GatewayTypeOK, NoClientLeaks,
                      ServiceInv
  <1> QED
    BY <1>4, <1>6, <1>7, <1>8 DEF GatewayInv

\* What the route says tells what the service said.
LEMMA StatusIsTranslated ==
    ASSUME NEW call, NEW status
    PROVE  /\ HttpStatus(call, status) \in HttpStatuses
           /\ HttpStatus(call, status) = 404 => status = "NotFound"
           /\ HttpStatus(call, status) = 200 => status = "OK"
  BY DEF HttpStatus, ListStatus, PrepareStatus, HttpStatuses

LEMMA AnswerArrivesKeepsInv ==
    ASSUME GatewayInv, NEW call \in Calls, AnswerArrives(call)
    PROVE  GatewayInv'
  <1> DEFINE said == replies[call].status
             status == HttpStatus(call, said)
             body == Body(call, said)
             route == [at |-> "answered", status |-> status, body |-> body]
  <1>1. ServiceInv' /\ RequestsKept
    BY UnchangedKeepsServiceInv, UnchangedKeepsRequests
       DEF AnswerArrives, GatewayInv
  <1>2. /\ routes[call].at = "calling" /\ Done(call)
        /\ UNCHANGED <<calls, replies, fetches>>
        /\ routes' = [routes EXCEPT ![call] = route]
        /\ clients' = clients \ {call}
    BY DEF AnswerArrives, CallSettled, Done, Respond, CloseClient, vars,
           serviceVars
  <1>3. /\ status \in HttpStatuses
        /\ status = 404 => said = "NotFound"
        /\ status = 200 => said = "OK"
    BY StatusIsTranslated
  <1>4. body \in Bodies
    <2>1. CASE said # "OK"
      BY <2>1 DEF Body, Bodies
    <2>2. CASE said = "OK"
      <3>1. /\ GoodReply(call, replies[call])
            /\ calls[call].method = fetches[call].method
            /\ calls[call].method \in Methods
        BY <1>2, GatewayTypes
           DEF GatewayInv, ServiceInv, ServiceTypeOK, ReplyHolds, At,
               RequestHolds, CallRecords
      <3>2. CASE fetches[call].method = "ListTools"
        <4>1. body = [tools |-> replies[call].tools]
          BY <2>2, <3>2 DEF Body
        <4>2. replies[call].tools \in Seq(Tools)
          BY <2>2, <3>1, <3>2 DEF GoodReply
        <4> QED
          BY <4>1, <4>2 DEF Bodies
      <3>3. CASE fetches[call].method = "GetToolPackage"
        <4>1. body = ToPrepareResponse(call)
          BY <2>2, <3>3 DEF Body
        <4>2. /\ calls[call].toolId \in Tools
              /\ replies[call].bytes \in WrittenFiles
              /\ replies[call].sha256 = replies[call].bytes
          BY <2>2, <3>1, <3>3 DEF GoodReply
        <4>3. ToPrepareResponse(call) \in PrepareResponses
          BY <4>2 DEF ToPrepareResponse, PrepareResponses, LoadedUint64, Sizes
        <4> QED
          BY <4>1, <4>3 DEF Bodies
      <3> QED
        BY <3>1, <3>2, <3>3 DEF Methods
    <2> QED
      BY <2>1, <2>2
  <1>5. Body(call, "OK")' = Body(call, "OK")
    BY <1>2 DEF Body, ToPrepareResponse, LoadedUint64
  <1>6. body = Body(call, "OK") \/ said # "OK"
    OBVIOUS
  <1> HIDE DEF status, body
  <1>8. /\ route \in RouteRecords /\ route.at = "answered"
        /\ route.status = status /\ route.body = body
    BY <1>3, <1>4 DEF RouteRecords
  <1> HIDE DEF route
  <1>9. routes'[call] = route
    BY <1>2 DEF GatewayInv, GatewayTypeOK
  <1>10. AnswerHolds(call)'
    BY <1>2, <1>3, <1>5, <1>6, <1>8, <1>9 DEF AnswerHolds, Answered, Done
  <1> QED
    BY <1>1, <1>2, <1>8, <1>10, RouteMovesKeepInv

LEMMA ConnectionLostKeepsInv ==
    ASSUME GatewayInv, NEW call \in Calls, ConnectionLost(call)
    PROVE  GatewayInv'
  <1> DEFINE status == HttpStatus(call, "Unavailable")
             route == [at |-> "answered", status |-> status, body |-> Null]
  <1>1. ServiceInv' /\ RequestsKept
    <2>1. CASE EndContext(call, "canceled")
      BY <2>1, EndContextKeepsInv, EndContextKeepsRequests
         DEF GatewayInv, Contexts
    <2>2. CASE UNCHANGED vars
      BY <2>2, UnchangedKeepsServiceInv, UnchangedKeepsRequests
         DEF GatewayInv
    <2> QED
      BY <2>1, <2>2 DEF ConnectionLost
  <1>2. /\ routes[call].at = "calling" /\ UNCHANGED fetches
        /\ routes' = [routes EXCEPT ![call] = route]
        /\ clients' = clients \ {call}
    BY DEF ConnectionLost, Respond, CloseClient
  <1>3. status \in HttpStatuses /\ status # 404 /\ status # 200
    BY StatusIsTranslated
  <1> HIDE DEF status
  <1>4. /\ route \in RouteRecords
        /\ route.at = "answered" /\ route.status = status
    BY <1>3 DEF RouteRecords, Bodies
  <1> HIDE DEF route
  <1>5. AnswerHolds(call)'
    BY <1>2, <1>3, <1>4 DEF AnswerHolds, Answered, GatewayInv, GatewayTypeOK
  <1> QED
    BY <1>1, <1>2, <1>4, <1>5, RouteMovesKeepInv

-----------------------------------------------------------------------------
\* The invariant holds whatever breaks between the browser and the store.
THEOREM GatewayCorrect == GatewaySpec => []GatewayInv
  <1>1. GatewayInv /\ [GatewayNext]_allVars => GatewayInv'
    <2> SUFFICES ASSUME GatewayInv, [GatewayNext]_allVars PROVE GatewayInv'
      OBVIOUS
    <2>1. CASE ScriptStep /\ UNCHANGED gatewayVars
      BY <2>1, ScriptStepKeepsInv, ScriptStepKeepsRequests,
         ServiceMovesKeepInv DEF GatewayInv
    <2>2. ASSUME NEW call \in Calls, NEW asked \in Fetches,
                 Fetch(call, asked)
          PROVE  GatewayInv'
      BY <2>2, FetchKeepsInv
    <2>3. ASSUME NEW call \in Calls, FetchRejected(call) \/ Receive(call)
          PROVE  GatewayInv'
      BY <2>3, FetchRejectedKeepsInv, ReceiveKeepsInv
    <2>4. ASSUME NEW call \in Calls, RouteStep(call)
          PROVE  GatewayInv'
      BY <2>4, RefuseBodyKeepsInv, OpenClientKeepsInv, DeliverKeepsInv,
         AnswerArrivesKeepsInv DEF RouteStep
    <2>5. ASSUME NEW call \in Calls, ConnectionLost(call)
          PROVE  GatewayInv'
      BY <2>5, ConnectionLostKeepsInv
    <2>6. ASSUME NEW call \in Calls, ServiceStep(call)
          PROVE  GatewayInv'
      BY <2>6, CallStepKeepsInv, CallStepKeepsRequests, ServiceMovesKeepInv
         DEF ServiceStep, GatewayInv
    <2>7. CASE UNCHANGED allVars
      <3>1. UNCHANGED vars /\ UNCHANGED gatewayVars
        BY <2>7 DEF allVars
      <3> QED
        BY <3>1, UnchangedKeepsServiceInv, UnchangedKeepsRequests,
           ServiceMovesKeepInv DEF GatewayInv
    <2> QED
      BY <2>1, <2>2, <2>3, <2>4, <2>5, <2>6, <2>7 DEF GatewayNext
  <1> QED
    BY <1>1, InitEstablishesGatewayInv, PTL DEF GatewaySpec

\* Fetches, handlers and clients keep their types.
THEOREM GatewayTypeCorrect == GatewaySpec => []GatewayTypeOK
  BY GatewayCorrect, PTL DEF GatewayInv

\* No path through a route leaves a gRPC client open.
THEOREM ClientsCorrect == GatewaySpec => []NoClientLeaks
  BY GatewayCorrect, PTL DEF GatewayInv

\* 404 and 200 of a prepare route say what the service found.
THEOREM PrepareStatusCorrect == GatewaySpec => []PrepareStatusIsTruthful
  BY GatewayCorrect, GatewayInvImplies, PTL

\* What the browser takes for a result is the service's answer to it.
THEOREM FulfilledCorrect == GatewaySpec => []FulfilledIsTheReply
  BY GatewayCorrect, GatewayInvImplies, PTL

\* On a store at rest, whatever a list shows is delivered.
THEOREM ListedCorrect == GatewaySpec => []ListedCanBePrepared
  BY GatewayCorrect, GatewayInvImplies, PTL

-----------------------------------------------------------------------------
(* The layers as refinements: what is proved of the store alone holds under  *)
(* the service, and what is proved of the service holds under the gateway.   *)

\* The server's calls read the store and never write it: what the scripts
\* promise of the store holds whoever reads it meanwhile.
THEOREM ServiceKeepsStore == Spec => StoreSpec
  <1>1. [Next]_vars => [StoreStep]_storeVars
    <2> SUFFICES ASSUME [Next]_vars PROVE [StoreStep]_storeVars
      OBVIOUS
    <2>1. CASE ScriptStep
      BY <2>1 DEF ScriptStep
    <2>2. ASSUME NEW call \in Calls, NEW request \in Requests,
                 StartCall(call, request)
          PROVE  UNCHANGED storeVars
      BY <2>2 DEF StartCall
    <2>3. ASSUME NEW call \in Calls, NEW how \in Contexts \ {"live"},
                 EndContext(call, how)
          PROVE  UNCHANGED storeVars
      BY <2>3 DEF EndContext
    <2>4. ASSUME NEW call \in Calls, CallStep(call)
          PROVE  UNCHANGED storeVars
      BY <2>4
         DEF CallStep, EnterService, FindTool, ReadArtifact, ReadRoot,
             ReadListed, ReturnList
    <2>5. CASE UNCHANGED vars
      BY <2>5 DEF vars
    <2> QED
      BY <2>1, <2>2, <2>3, <2>4, <2>5 DEF Next
  <1>2. Init => StoreInit
    BY DEF Init
  <1> QED
    BY <1>1, <1>2, PTL DEF Spec, StoreSpec

\* The Next routes are clients of the service like any other: whatever they
\* send is one of its requests, and a broken connection ends a context.
THEOREM GatewayImplementsService == GatewaySpec => Spec
  <1>1. GatewayInv /\ [GatewayNext]_allVars => [Next]_vars
    <2> SUFFICES ASSUME GatewayInv, [GatewayNext]_allVars PROVE [Next]_vars
      OBVIOUS
    <2>1. CASE ScriptStep /\ UNCHANGED gatewayVars
      BY <2>1 DEF Next
    <2>2. ASSUME NEW call \in Calls, NEW asked \in Fetches,
                 Fetch(call, asked)
          PROVE  UNCHANGED vars
      BY <2>2 DEF Fetch
    <2>3. ASSUME NEW call \in Calls,
                 \/ FetchRejected(call) \/ Receive(call)
                 \/ RefuseBody(call) \/ OpenClient(call)
                 \/ AnswerArrives(call)
          PROVE  UNCHANGED vars
      BY <2>3
         DEF FetchRejected, Receive, RefuseBody, OpenClient, AnswerArrives
    <2>4. ASSUME NEW call \in Calls, Deliver(call)
          PROVE  Next
      <3> DEFINE request == [method |-> fetches[call].method,
                             toolId |-> fetches[call].toolId,
                             supported |-> TRUE]
      <3>1. routes[call].at = "calling" /\ StartCall(call, request)
        BY <2>4 DEF Deliver
      <3>2. request \in Requests
        BY <3>1, DeliveredRequest
      <3> HIDE DEF request
      <3> QED
        BY <3>1, <3>2 DEF Next
    <2>5. ASSUME NEW call \in Calls, ConnectionLost(call)
          PROVE  [Next]_vars
      <3>1. CASE EndContext(call, "canceled")
        BY <3>1 DEF Next, Contexts
      <3> QED
        BY <2>5, <3>1 DEF ConnectionLost
    <2>6. ASSUME NEW call \in Calls, ServiceStep(call)
          PROVE  Next
      BY <2>6 DEF ServiceStep, Next
    <2>7. CASE UNCHANGED allVars
      BY <2>7 DEF allVars
    <2> QED
      BY <2>1, <2>2, <2>3, <2>4, <2>5, <2>6, <2>7 DEF GatewayNext, RouteStep
  <1>2. GatewayInit => Init
    BY DEF GatewayInit
  <1> QED
    BY <1>1, <1>2, GatewayCorrect, PTL DEF GatewaySpec, Spec

-----------------------------------------------------------------------------
(* Every step of a request brings it nearer to its end.                     *)

\* The catalog is finite: it is the list in definitions.mjs.
LEMMA ToolsAreFinite == IsFiniteSet(Tools) /\ Cardinality(Tools) \in Nat
  <1>1. ToolOrder \in Seq(Tools)
    BY ArtifactStoreAssumption
  <1>2. Len(ToolOrder) \in Nat /\ ToolOrder \in [1..Len(ToolOrder) -> Tools]
    BY <1>1, LenProperties
  <1>3. ToolOrder \in Surjection(1..Len(ToolOrder), Tools)
    BY <1>2, ArtifactStoreAssumption DEF Surjection
  <1> QED
    BY <1>2, <1>3, FS_NatSurjection, FS_CardinalityType DEF ExistsSurjection

\* What is left of a call, by where it is.
LEMMA CallWorkByPoint ==
    ASSUME NEW record \in CallRecords
    PROVE  /\ IsFiniteSet(record.toRead)
           /\ Cardinality(record.toRead) \in 0..Cardinality(Tools)
           /\ CallWork(record) \in Nat
           /\ CallWork(record) < CallWork(Null)
           /\ record.at = "service" =>
                 CallWork(record) = Cardinality(Tools) + 3
           /\ record.at = "catalog" =>
                 CallWork(record) = Cardinality(Tools) + 2
           /\ record.at = "listing" =>
                 CallWork(record) = Cardinality(record.toRead) + 1
           /\ record.at = "artifact" => CallWork(record) = 1
           /\ record.at = "returned" => CallWork(record) = 0
  <1>1. /\ record # Null
        /\ record.at \in CallPoints
        /\ record.toRead \subseteq Tools
    BY NullIsNoRecord DEF CallRecords
  <1>2. /\ IsFiniteSet(record.toRead)
        /\ Cardinality(record.toRead) <= Cardinality(Tools)
        /\ Cardinality(record.toRead) \in Nat
        /\ Cardinality(Tools) \in Nat
    BY <1>1, ToolsAreFinite, FS_Subset, FS_CardinalityType
  <1>3. CallWork(Null) = Cardinality(Tools) + 4
    BY DEF CallWork
  <1> QED
    BY <1>1, <1>2, <1>3 DEF CallWork, CallPoints

LEMMA CallWorkIsNat ==
    ASSUME NEW record \in CallRecords \cup {Null}
    PROVE  CallWork(record) \in Nat
  <1>1. CASE record = Null
    BY <1>1, ToolsAreFinite DEF CallWork
  <1> QED
    BY <1>1, CallWorkByPoint

\* What is left depends on where a call is and on what it has to read.
LEMMA SamePointSameWork ==
    ASSUME NEW r \in CallRecords, NEW s \in CallRecords,
           r.at = s.at, r.toRead = s.toRead
    PROVE  CallWork(r) = CallWork(s)
  BY CallWorkByPoint DEF CallRecords, CallPoints

LEMMA RouteWorkByPoint ==
    ASSUME NEW route \in RouteRecords
    PROVE  /\ RouteWork(route) \in 0..3
           /\ route.at = "idle"     => RouteWork(route) = 3
           /\ route.at = "entered"  => RouteWork(route) = 2
           /\ route.at = "calling"  => RouteWork(route) = 1
           /\ route.at = "answered" => RouteWork(route) = 0
  BY DEF RouteWork, RouteRecords

LEMMA FetchWorkByOutcome ==
    /\ FetchWork(Null) = 2
    /\ \A fetch \in FetchRecords :
          /\ fetch.outcome = "pending" => FetchWork(fetch) = 1
          /\ fetch.outcome # "pending" => FetchWork(fetch) = 0
  BY ToolGatewayAssumption DEF FetchWork

LEMMA WorkIsNat ==
    ASSUME GatewayInv, NEW call \in Calls
    PROVE  /\ RouteWork(routes[call]) \in Nat
           /\ CallWork(calls[call]) \in Nat
           /\ FetchWork(fetches[call]) \in Nat
           /\ Work(call) \in Nat
  <1>1. calls[call] \in CallRecords \cup {Null}
    BY DEF GatewayInv, ServiceInv, ServiceTypeOK
  <1>2. FetchWork(fetches[call]) \in Nat
    BY GatewayTypes, FetchWorkByOutcome
  <1> QED
    BY <1>1, <1>2, GatewayTypes, RouteWorkByPoint, CallWorkIsNat DEF Work

LEMMA CallStaysRecord ==
    ASSUME ServiceInv, NEW call \in Calls, CallStep(call)
    PROVE  calls'[call] \in CallRecords
  <1>1. /\ calls[call] \in CallRecords
        /\ calls \in [Calls -> CallRecords \cup {Null}]
    <2>1. \E point : point # "returned" /\ At(call, point)
      BY DEF CallStep, EnterService, FindTool, ReadArtifact, ReadRoot,
             ReadListed, ReturnList
    <2> QED
      BY <2>1, UnderWay DEF ServiceInv, ServiceTypeOK
  <1>2. CASE \E point \in CallPoints :
                calls' = [calls EXCEPT ![call].at = point]
    BY <1>1, <1>2 DEF CallRecords
  <1>3. CASE FindTool(call)
             /\ calls' = [calls EXCEPT
                            ![call].at = "artifact",
                            ![call].entry =
                               files[calls[call].toolId]["manifest"].gen]
             /\ ManifestState(calls[call].toolId) = "whole"
    <2>1. files[calls[call].toolId]["manifest"] \in WrittenFiles
      BY <1>3 DEF ManifestState, Present, ServiceInv, ServiceTypeOK,
                  StoreTypeOK, Parts
    <2>2. files[calls[call].toolId]["manifest"].gen \in 0..MaxBuilds
      BY <2>1 DEF WrittenFiles
    <2> QED
      BY <1>1, <1>3, <2>2 DEF CallRecords, CallPoints
  <1>4. CASE calls' = [calls EXCEPT ![call].at = "listing",
                                    ![call].toRead = Directories]
    BY <1>1, <1>4 DEF CallRecords, CallPoints, Directories
  <1>5. ASSUME NEW toolId \in calls[call].toRead,
               NEW tools \in Seq(Tools),
               calls' = [calls EXCEPT ![call].toRead = @ \ {toolId},
                                      ![call].tools = tools]
        PROVE  calls'[call] \in CallRecords
    BY <1>1, <1>5 DEF CallRecords
  <1>6. CASE EnterService(call) \/ ReadArtifact(call) \/ ReturnList(call)
             \/ FindTool(call) \/ ReadRoot(call)
    BY <1>2, <1>3, <1>4, <1>6
       DEF EnterService, ReadArtifact, ReturnList, FindTool, ReadRoot, Fail,
           Return, CallPoints
  <1>7. CASE ReadListed(call)
    <2>1. CASE calls' = [calls EXCEPT ![call].at = "returned"]
      BY <1>2, <2>1 DEF CallPoints
    <2>2. CASE ~(calls' = [calls EXCEPT ![call].at = "returned"])
      <3>1. PICK toolId \in calls[call].toRead :
               calls' = [calls EXCEPT
                     ![call].toRead = @ \ {toolId},
                     ![call].tools = IF Skipped(ManifestState(toolId)) THEN @
                                     ELSE Append(@, toolId)]
        BY <1>7, <2>2 DEF ReadListed, Fail, Return
      <3> DEFINE tools == IF Skipped(ManifestState(toolId))
                          THEN calls[call].tools
                          ELSE Append(calls[call].tools, toolId)
      <3>2. calls[call].tools \in Seq(Tools) /\ toolId \in Tools
        BY <1>1 DEF CallRecords
      <3>3. tools \in Seq(Tools)
        BY <3>2, AppendProperties
      <3>4. calls' = [calls EXCEPT ![call].toRead = @ \ {toolId},
                                   ![call].tools = tools]
        BY <3>1
      <3> HIDE DEF tools
      <3> QED
        BY <1>5, <3>3, <3>4
    <2> QED
      BY <2>1, <2>2
  <1> QED
    BY <1>6, <1>7 DEF CallStep

\* A step of a call is a step towards its end.
LEMMA CallStepWorks ==
    ASSUME ServiceInv, NEW call \in Calls, CallStep(call)
    PROVE  /\ CallWork(calls'[call]) < CallWork(calls[call])
           /\ \A other \in Calls : other # call =>
                 calls'[other] = calls[other]
  <1>1. /\ calls[call] \in CallRecords /\ calls[call] # Null
        /\ calls[call].at # "returned"
    <2>1. \E point : point # "returned" /\ At(call, point)
      BY DEF CallStep, EnterService, FindTool, ReadArtifact, ReadRoot,
             ReadListed, ReturnList
    <2> QED
      BY <2>1, UnderWay
  <1> DEFINE old == calls[call]
             new == calls'[call]
  <1>a. new \in CallRecords
    BY CallStaysRecord
  <1>2. CASE calls' = [calls EXCEPT ![call].at = "returned"]
    <2>1. new.at = "returned" /\ \A other \in Calls : other # call =>
             calls'[other] = calls[other]
      BY <1>1, <1>2 DEF ServiceInv, ServiceTypeOK, CallRecords
    <2>2. CallWork(new) = 0
      BY <1>a, <2>1, CallWorkByPoint
    <2>3. CallWork(old) > 0
      <3>1. Cardinality(Tools) \in Nat /\ Cardinality(old.toRead) \in Nat
        BY <1>1, ToolsAreFinite, CallWorkByPoint
      <3> HIDE DEF old
      <3>2. old \in CallRecords /\ old.at \in CallPoints \ {"returned"}
        BY <1>1 DEF CallRecords, old
      <3> QED
        BY <3>1, <3>2, CallWorkByPoint DEF CallPoints
    <2> QED
      BY <2>1, <2>2, <2>3
  <1>3. CASE EnterService(call)
             /\ calls' = [calls EXCEPT ![call].at = "catalog"]
    <2>1. /\ old.at = "service" /\ new.at = "catalog"
          /\ \A other \in Calls : other # call => calls'[other] = calls[other]
      BY <1>1, <1>3 DEF EnterService, At, ServiceInv, ServiceTypeOK, CallRecords
    <2> QED
      BY <1>1, <1>a, <2>1, CallWorkByPoint, ToolsAreFinite
  <1>4. CASE FindTool(call)
             /\ calls' = [calls EXCEPT
                            ![call].at = "artifact",
                            ![call].entry =
                               files[calls[call].toolId]["manifest"].gen]
    <2>1. /\ old.at = "catalog" /\ new.at = "artifact"
          /\ \A other \in Calls : other # call => calls'[other] = calls[other]
      BY <1>1, <1>4 DEF FindTool, At, ServiceInv, ServiceTypeOK, CallRecords
    <2> QED
      BY <1>1, <1>a, <2>1, CallWorkByPoint, ToolsAreFinite
  <1>5. CASE ReadRoot(call)
             /\ calls' = [calls EXCEPT ![call].at = "listing",
                                       ![call].toRead = Directories]
    <2>1. /\ old.at = "catalog" /\ new.at = "listing"
          /\ \A other \in Calls : other # call => calls'[other] = calls[other]
      BY <1>1, <1>5 DEF ReadRoot, At, ServiceInv, ServiceTypeOK, CallRecords
    <2> QED
      BY <1>1, <1>a, <2>1, CallWorkByPoint, ToolsAreFinite
  <1>6. ASSUME NEW toolId \in calls[call].toRead, NEW tools,
               ReadListed(call),
               calls' = [calls EXCEPT ![call].toRead = @ \ {toolId},
                                      ![call].tools = tools]
        PROVE  /\ CallWork(new) < CallWork(old)
               /\ \A other \in Calls : other # call =>
                     calls'[other] = calls[other]
    <2>1. /\ old.at = "listing" /\ new.at = "listing"
          /\ new.toRead = old.toRead \ {toolId}
          /\ \A other \in Calls : other # call => calls'[other] = calls[other]
      BY <1>1, <1>6 DEF ReadListed, At, ServiceInv, ServiceTypeOK, CallRecords
    <2>2. Cardinality(new.toRead) = Cardinality(old.toRead) - 1
      BY <1>1, <1>a, <1>6, <2>1, CallWorkByPoint, FS_RemoveElement
    <2>3. Cardinality(old.toRead) \in Nat
      BY <1>1, CallWorkByPoint
    <2>4. /\ CallWork(old) = Cardinality(old.toRead) + 1
          /\ CallWork(new) = Cardinality(new.toRead) + 1
      BY <1>1, <1>a, <2>1, CallWorkByPoint
    <2> HIDE DEF old, new
    <2> QED
      BY <2>1, <2>2, <2>3, <2>4
  <1>7. CASE EnterService(call) \/ FindTool(call) \/ ReadRoot(call)
             \/ ReadArtifact(call) \/ ReturnList(call)
    BY <1>2, <1>3, <1>4, <1>5, <1>7
       DEF EnterService, FindTool, ReadRoot, ReadArtifact, ReturnList, Fail,
           Return
  <1>8. CASE ReadListed(call)
    <2>1. CASE calls' = [calls EXCEPT ![call].at = "returned"]
      BY <1>2, <2>1
    <2>2. CASE ~(calls' = [calls EXCEPT ![call].at = "returned"])
      <3>1. PICK toolId \in calls[call].toRead :
               calls' = [calls EXCEPT
                     ![call].toRead = @ \ {toolId},
                     ![call].tools = IF Skipped(ManifestState(toolId)) THEN @
                                     ELSE Append(@, toolId)]
        BY <1>8, <2>2 DEF ReadListed, Fail, Return
      <3>2. \E tools : calls' = [calls EXCEPT ![call].toRead = @ \ {toolId},
                                              ![call].tools = tools]
        BY <3>1
      <3> QED
        BY <1>6, <1>8, <3>2
    <2> QED
      BY <2>1, <2>2
  <1> QED
    BY <1>7, <1>8 DEF CallStep

\* A script's step is none of theirs.
LEMMA ScriptLeavesWork ==
    ASSUME GatewayInv, GatewayInv', ScriptStep, UNCHANGED gatewayVars,
           NEW call \in Calls
    PROVE  Work(call)' = Work(call)
  <1>1. CallWork(calls'[call]) = CallWork(calls[call])
    <2>1. CASE calls[call] = Null
      BY <2>1 DEF ScriptStep, Disturb
    <2>2. CASE calls[call] # Null
      <3>1. /\ calls[call] \in CallRecords
            /\ calls'[call] = [calls[call] EXCEPT !.undisturbed = FALSE]
        BY <2>2 DEF ScriptStep, Disturb, GatewayInv, ServiceInv, ServiceTypeOK
      <3>2. /\ calls'[call] \in CallRecords
            /\ calls'[call].at = calls[call].at
            /\ calls'[call].toRead = calls[call].toRead
        BY <3>1 DEF CallRecords
      <3> QED
        BY <3>1, <3>2, SamePointSameWork
    <2> QED
      BY <2>1, <2>2
  <1> QED
    BY <1>1 DEF Work, gatewayVars

\* It is enough that a request's own step lessens one of the three parts of
\* its work, and that nothing happens to the other requests.
LEMMA OneRequestWorks ==
    ASSUME GatewayInv, GatewayInv', NEW call \in Calls,
           \A other \in Calls : other # call =>
              /\ routes'[other] = routes[other]
              /\ calls'[other] = calls[other]
              /\ fetches'[other] = fetches[other],
           NEW r \in Nat, r = RouteWork(routes'[call]),
           NEW c \in Nat, c = CallWork(calls'[call]),
           NEW f \in Nat, f = FetchWork(fetches'[call]),
           r <= RouteWork(routes[call]),
           c <= CallWork(calls[call]),
           f <= FetchWork(fetches[call]),
           \/ r < RouteWork(routes[call])
           \/ c < CallWork(calls[call])
           \/ f < FetchWork(fetches[call])
    PROVE  /\ \A other \in Calls : Work(other)' <= Work(other)
           /\ \E other \in Calls : Work(other)' < Work(other)
  <1>1. \A other \in Calls : Work(other) \in Nat
    BY WorkIsNat
  <1>2. \A other \in Calls : other # call => Work(other)' = Work(other)
    BY DEF Work
  <1>3. Work(call)' = r + c + f
    BY DEF Work
  <1>4. Work(call)' < Work(call) /\ Work(call)' <= Work(call)
    <2>1. /\ RouteWork(routes[call]) \in Nat
          /\ CallWork(calls[call]) \in Nat
          /\ FetchWork(fetches[call]) \in Nat
      BY WorkIsNat
    <2> QED
      BY <1>3, <2>1 DEF Work
  <1>5. ASSUME NEW other \in Calls PROVE Work(other)' <= Work(other)
    <2>1. CASE other = call
      BY <1>4, <2>1
    <2>2. CASE other # call
      BY <1>1, <1>2, <2>2
    <2> QED
      BY <2>1, <2>2
  <1> QED
    BY <1>4, <1>5

\* What a request's step brings: less work for it, none for the others.
Progress ==
    /\ \A call \in Calls : Work(call)' <= Work(call)
    /\ \E call \in Calls : Work(call)' < Work(call)

LEMMA FetchWorks ==
    ASSUME GatewayInv, GatewayInv', NEW call \in Calls,
           NEW asked \in Fetches, Fetch(call, asked)
    PROVE  Progress
  <1>1. /\ fetches[call] = Null /\ routes[call].at = "idle"
        /\ routes[call] \in RouteRecords
    BY GatewayTypes DEF Fetch, RequestHolds
  <1>2. /\ fetches'[call] # Null /\ fetches'[call] \in FetchRecords
        /\ fetches'[call].outcome = "pending"
        /\ routes'[call] \in RouteRecords /\ routes'[call].at = "entered"
        /\ calls' = calls
        /\ \A other \in Calls : other # call =>
              fetches'[other] = fetches[other] /\ routes'[other] = routes[other]
    <2>1. fetches' \in [Calls -> FetchRecords \cup {Null}]
      BY DEF GatewayInv, GatewayTypeOK
    <2>2. [method |-> asked.method, toolId |-> asked.toolId,
           wellFormed |-> asked.wellFormed, outcome |-> "pending",
           body |-> Null] \in FetchRecords
      BY DEF Fetches, FetchRecords, Methods, Outcomes, Bodies
    <2> QED
      BY <2>1, <2>2, ToolGatewayAssumption
         DEF Fetch, GatewayInv, GatewayTypeOK, RouteRecords, vars, serviceVars
  <1>3. /\ RouteWork(routes[call]) = 3 /\ RouteWork(routes'[call]) = 2
        /\ FetchWork(fetches[call]) = 2 /\ FetchWork(fetches'[call]) = 1
        /\ CallWork(calls'[call]) = CallWork(calls[call])
        /\ CallWork(calls[call]) \in Nat
    BY <1>1, <1>2, RouteWorkByPoint, FetchWorkByOutcome, WorkIsNat
  <1> QED
    BY <1>2, <1>3, OneRequestWorks DEF Progress

\* A fetch that waits is settled.
LEMMA SettlingWorks ==
    ASSUME GatewayInv, GatewayInv', NEW call \in Calls, Pending(call),
           NEW fetch, fetch.outcome # "pending", fetch \in FetchRecords,
           fetches' = [fetches EXCEPT ![call] = fetch],
           UNCHANGED <<vars, routes>>
    PROVE  Progress
  <1>1. /\ fetches[call] \in FetchRecords /\ fetches[call].outcome = "pending"
        /\ fetches'[call] = fetch
        /\ calls' = calls /\ routes' = routes
        /\ \A other \in Calls : other # call =>
              fetches'[other] = fetches[other]
    BY GatewayTypes
       DEF Pending, GatewayInv, GatewayTypeOK, vars, serviceVars
  <1>2. /\ FetchWork(fetches[call]) = 1 /\ FetchWork(fetches'[call]) = 0
        /\ RouteWork(routes'[call]) = RouteWork(routes[call])
        /\ RouteWork(routes[call]) \in Nat
        /\ CallWork(calls'[call]) = CallWork(calls[call])
        /\ CallWork(calls[call]) \in Nat
    BY <1>1, FetchWorkByOutcome, WorkIsNat
  <1> QED
    BY <1>1, <1>2, OneRequestWorks DEF Progress

LEMMA BrowserWorks ==
    ASSUME GatewayInv, GatewayInv', NEW call \in Calls,
           FetchRejected(call) \/ Receive(call)
    PROVE  Progress
  <1>1. fetches[call] \in FetchRecords /\ Pending(call)
    BY GatewayTypes DEF FetchRejected, Receive, Pending
  <1>2. CASE FetchRejected(call)
    <2> DEFINE fetch == [fetches[call] EXCEPT !.outcome = "rejected"]
    <2>1. fetch \in FetchRecords /\ fetch.outcome # "pending"
      BY <1>1 DEF FetchRecords, Outcomes
    <2>2. fetches' = [fetches EXCEPT ![call] = fetch]
      BY <1>2 DEF FetchRejected
    <2> HIDE DEF fetch
    <2> QED
      BY <1>1, <1>2, <2>1, <2>2, SettlingWorks DEF FetchRejected
  <1>3. CASE Receive(call)
    <2> DEFINE fetch == [fetches[call] EXCEPT
                            !.outcome = Outcome(routes[call].status),
                            !.body = routes[call].body]
    <2>1. routes[call].body \in Bodies
      BY <1>3, GatewayTypes DEF Receive, RouteRecords
    <2>2. Outcome(routes[call].status) \in Outcomes \ {"pending"}
      BY DEF Outcome, Outcomes
    <2>3. fetch \in FetchRecords /\ fetch.outcome # "pending"
      BY <1>1, <2>1, <2>2 DEF FetchRecords
    <2>4. fetches' = [fetches EXCEPT ![call] = fetch]
      BY <1>3 DEF Receive
    <2> HIDE DEF fetch
    <2> QED
      BY <1>1, <1>3, <2>3, <2>4, SettlingWorks DEF Receive
  <1> QED
    BY <1>2, <1>3

\* The handler goes on, and its call, if it has one, does not go back.
LEMMA HandlerWorks ==
    ASSUME GatewayInv, GatewayInv', NEW call \in Calls,
           NEW route \in RouteRecords,
           \/ routes[call].at = "entered" /\ route.at # "idle"
                 /\ route.at # "entered"
           \/ routes[call].at = "calling" /\ route.at = "answered",
           routes' = [routes EXCEPT ![call] = route],
           \/ UNCHANGED calls
           \/ \E how \in Contexts : EndContext(call, how),
           UNCHANGED fetches
    PROVE  Progress
  <1>1. /\ routes'[call] = route /\ routes[call] \in RouteRecords
        /\ \A other \in Calls : other # call =>
              routes'[other] = routes[other]
    BY GatewayTypes DEF GatewayInv, GatewayTypeOK
  <1>2. /\ RouteWork(routes'[call]) \in Nat
        /\ RouteWork(routes[call]) \in Nat
        /\ RouteWork(routes'[call]) < RouteWork(routes[call])
    BY <1>1, RouteWorkByPoint DEF RouteRecords
  <1>3. /\ CallWork(calls'[call]) = CallWork(calls[call])
        /\ \A other \in Calls : other # call => calls'[other] = calls[other]
    <2>1. ASSUME NEW how \in Contexts, EndContext(call, how)
          PROVE  /\ CallWork(calls'[call]) = CallWork(calls[call])
                 /\ \A other \in Calls : other # call =>
                       calls'[other] = calls[other]
      <3>1. /\ calls[call] \in CallRecords
            /\ calls'[call] = [calls[call] EXCEPT !.ctx = how]
            /\ \A other \in Calls : other # call =>
                  calls'[other] = calls[other]
        BY <2>1 DEF EndContext, GatewayInv, ServiceInv, ServiceTypeOK
      <3>2. /\ calls'[call] \in CallRecords
            /\ calls'[call].at = calls[call].at
            /\ calls'[call].toRead = calls[call].toRead
        BY <3>1 DEF CallRecords
      <3> QED
        BY <3>1, <3>2, SamePointSameWork
    <2> QED
      BY <2>1
  <1>4. /\ FetchWork(fetches'[call]) = FetchWork(fetches[call])
        /\ FetchWork(fetches[call]) \in Nat /\ CallWork(calls[call]) \in Nat
        /\ \A other \in Calls : fetches'[other] = fetches[other]
    BY WorkIsNat
  <1> QED
    BY <1>1, <1>2, <1>3, <1>4, OneRequestWorks DEF Progress

\* The service's part of a request goes on.
LEMMA ServiceWorks ==
    ASSUME GatewayInv, GatewayInv', NEW call \in Calls,
           CallWork(calls'[call]) < CallWork(calls[call]),
           \A other \in Calls : other # call => calls'[other] = calls[other],
           UNCHANGED gatewayVars
    PROVE  Progress
  <1>1. CallWork(calls'[call]) \in Nat
    BY CallWorkIsNat DEF GatewayInv, ServiceInv, ServiceTypeOK
  <1>2. /\ routes' = routes /\ fetches' = fetches
        /\ RouteWork(routes[call]) \in Nat /\ FetchWork(fetches[call]) \in Nat
        /\ CallWork(calls[call]) \in Nat
    BY WorkIsNat DEF gatewayVars
  <1> QED
    BY <1>1, <1>2, OneRequestWorks DEF Progress

LEMMA RouteWorks ==
    ASSUME GatewayInv, GatewayInv', NEW call \in Calls,
           RefuseBody(call) \/ OpenClient(call) \/ AnswerArrives(call)
              \/ ConnectionLost(call)
    PROVE  Progress
  <1>1. routes'[call] \in RouteRecords
    BY DEF GatewayInv, GatewayTypeOK
  <1>2. /\ routes' = [routes EXCEPT ![call] = routes'[call]]
        /\ \/ routes[call].at = "entered"
              /\ routes'[call].at \in {"calling", "answered"}
           \/ routes[call].at = "calling" /\ routes'[call].at = "answered"
        /\ UNCHANGED fetches
    BY DEF GatewayInv, GatewayTypeOK, RefuseBody, OpenClient, AnswerArrives,
           ConnectionLost, Respond
  <1>3. UNCHANGED calls \/ \E how \in Contexts : EndContext(call, how)
    BY DEF RefuseBody, OpenClient, AnswerArrives, ConnectionLost, vars,
           serviceVars, Contexts
  <1> QED
    BY <1>1, <1>2, <1>3, HandlerWorks

LEMMA DeliverWorks ==
    ASSUME GatewayInv, GatewayInv', NEW call \in Calls, Deliver(call)
    PROVE  Progress
  <1>1. /\ calls[call] = Null /\ calls'[call] # Null
        /\ calls'[call] \in CallRecords
        /\ \A other \in Calls : other # call => calls'[other] = calls[other]
        /\ UNCHANGED gatewayVars
    <2>1. calls'[call] = NewCall([method |-> fetches[call].method,
                                  toolId |-> fetches[call].toolId,
                                  supported |-> TRUE])
      BY DEF Deliver, StartCall, GatewayInv, ServiceInv, ServiceTypeOK
    <2>2. calls'[call] \in CallRecords
      BY <2>1, DeliveredRequest, NewCallIsRecord DEF Deliver
    <2> QED
      BY <2>2, NullIsNoRecord
         DEF Deliver, StartCall, GatewayInv, ServiceInv, ServiceTypeOK
  <1>2. CallWork(calls'[call]) < CallWork(calls[call])
    BY <1>1, CallWorkByPoint
  <1> QED
    BY <1>1, <1>2, ServiceWorks

\* Before its fetch, a request has all its work before it.
LEMMA WorkAtFirst ==
    GatewayInit => \A call \in Calls : Work(call) = Cardinality(Tools) + 9
  <1> SUFFICES ASSUME GatewayInit, NEW call \in Calls
               PROVE  Work(call) = Cardinality(Tools) + 9
    OBVIOUS
  <1>1. RouteWork(routes[call]) = 3 /\ FetchWork(fetches[call]) = 2
    BY DEF GatewayInit, RouteWork, FetchWork
  <1>2. CallWork(calls[call]) = Cardinality(Tools) + 4
    BY DEF GatewayInit, Init, CallWork
  <1> QED
    BY <1>1, <1>2, ToolsAreFinite DEF Work

\* Every step but a script's uses up some of the work of the requests, which
\* was at most Cardinality(Tools) + 9 steps for each, and none adds to it.
THEOREM RequestsBounded == GatewaySpec => RequestsAreBounded
  <1>1. ASSUME GatewayInv, GatewayInv', [GatewayNext]_allVars
        PROVE  [ /\ \A call \in Calls : Work(call)' <= Work(call)
                 /\ ~ScriptStep =>
                       \E call \in Calls : Work(call)' < Work(call)]_allVars
    <2> SUFFICES ASSUME GatewayNext
                 PROVE  /\ \A call \in Calls : Work(call)' <= Work(call)
                        /\ ~ScriptStep =>
                              \E call \in Calls : Work(call)' < Work(call)
      BY <1>1
    <2>1. CASE ScriptStep /\ UNCHANGED gatewayVars
      <3>1. ASSUME NEW call \in Calls PROVE Work(call)' <= Work(call)
        BY <1>1, <2>1, ScriptLeavesWork, WorkIsNat
      <3> QED
        BY <2>1, <3>1
    <2>2. ASSUME NEW call \in Calls,
                 \/ \E asked \in Fetches : Fetch(call, asked)
                 \/ FetchRejected(call) \/ Receive(call)
                 \/ RouteStep(call) \/ ConnectionLost(call)
                 \/ ServiceStep(call)
          PROVE  Progress
      <3>1. ASSUME ServiceStep(call) PROVE Progress
        <4>1. CallStep(call) /\ UNCHANGED gatewayVars
          BY <3>1 DEF ServiceStep
        <4>2. ServiceInv
          BY <1>1 DEF GatewayInv
        <4> QED
          BY <1>1, <4>1, <4>2, CallStepWorks, ServiceWorks
      <3> QED
        BY <1>1, <2>2, <3>1, FetchWorks, BrowserWorks, RouteWorks,
           DeliverWorks DEF RouteStep
    <2> QED
      BY <2>1, <2>2 DEF GatewayNext, Progress
  <1> QED
    BY <1>1, GatewayCorrect, PTL DEF GatewaySpec, RequestsAreBounded
=============================================================================

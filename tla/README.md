# A TLA+ verification of the WASM Tool Store

The WASM Tool Store is a catalog of small converters. A Go service keeps the
compiled converters in a directory and hands them out over gRPC; a Next.js
application turns its calls into HTTP routes; the browser downloads a converter,
instantiates it and runs it on the user's text. Rust crates are the converters,
and Node scripts build them into the directory the Go service reads.

This directory holds TLA+ modules for the parts of that system that have state and
order to get wrong, TLC configurations that check them on small instances, and
TLAPS proofs of the most important ones. `PROJECT.json` maps every definition to
the lines of code it stands for.

## 1. The system

| Component | State it keeps | Operations | What is hard about it |
| --- | --- | --- | --- |
| Workbench (`use-tool-workbench.ts`, `page.tsx`, `tool-list.tsx`, `tool-workbench-panel.tsx`) | ten `useState` variables, the closures of the page on the screen, the handlers suspended at an `await` | load the catalog, select, configure, type, run | answers arrive between clicks; renders are late; the effect runs twice in development; a tool may be selected while another is being configured |
| WASM runtime adapter (`tool-runtime.ts`) | a `WeakMap` from configuration objects to sessions; each session's linear memory | `loadToolPackage`, `execute` | identity of the key; memory the module allocates; traps; addresses that are unsigned on one side and signed on the other |
| Tool catalog over HTTP (`tool-catalog.ts`, the two routes, `backend-tool-gateway.ts`, `go-grpc-client.ts`) | one gRPC client per request | list, prepare | no deadline; error translation; a client to close on every path; a package that is converted three times on its way |
| Go process (`main.go`, `config.go`, `server.go`) | the configuration, the context, a channel, a goroutine | load, run, shut down | signal against `Serve`'s result against calls in flight |
| Catalog service (`handler.go`, `service.go`, `filesystem.go`, `reader.go`, `errors.go`) | none of its own between calls | `ListTools`, `GetToolPackage` | several reads without a lock of a directory that scripts rewrite; contexts that end between two reads; errors wrapped in errors; two checks of one path |
| Artifact directory and scripts (`build.mjs`, `clean.mjs`, `verify.mjs`) | the files of each tool | build, clean, verify | nothing is written atomically; a script may die anywhere; the server keeps reading |
| Shared volume (`docker-compose.yml`) | the copies of the artifacts | seed on `up`, stop on `down` | the copy merges with what is there, may be cut, and runs beside the builder |
| Rust tools (`tools/*/src/lib.rs`) | the allocator's heap, `LAST_ERROR` behind a mutex | `wasm_alloc`, `wasm_free`, `convert`, `last_error_*` | ownership across the ABI; traps leave what they held |

How they interact: the workbench calls the catalog adapter and the runtime adapter
(promises); the adapter fetches the Next routes (HTTP); a route opens a client and
makes one call to the Go process (gRPC); the Go process reads the directory
(file system) that the scripts write. Nothing is pushed the other way: every
answer is the answer to a request, and the only state two parties share is the
directory. Under docker compose that directory is a volume: a container copies the
build's directory into it, and the Go process starts once the copy has succeeded.

What makes each part correct:

* **Workbench** - spinners are on exactly while their work runs; two configure
  handlers never overlap; what may be run has been loaded; what is displayed was
  asked of the selected tool; the status summarises the state it stands for; work
  that was begun is seen to end.
* **Go process** - success is reported only after a requested, graceful stop; the
  goroutine can always deliver its result; a signal ends the process.
* **Catalog service** - the digest sent is that of the bytes sent; a cancelled call
  says so; on a store at rest every published tool is served whole; `NotFound` and
  `FailedPrecondition` mean what they say.
  The two checks of an artifact's path agree, and keep it in its tool's directory.
* **Artifact directory** - builds never mix; a manifest vouches for its module; a
  build that succeeds passes verification.
* **Shared volume** - a copy that succeeds while no script runs leaves what the
  directory holds; no copy, cut or overtaken, takes a file of the volume back.
* **Runtime and Rust tools** - input is freed once with the size it was allocated
  with; an error text is that of the call; of a run that answers, exactly its output
  stays behind; what is read is what was written, to the byte, or an error.
* **Tool catalog over HTTP** - a client is open exactly while its call is; each
  request settles once, after a bounded number of steps; 404 only for a tool that is not
  there; a package that arrives is the one the service sent for the tool that was asked
  for.

`PROJECT.json` lists the hazards one by one, at the line where each bites, with the
properties that would catch it.

## 2. The modules

| Module | Models | Depends on |
| --- | --- | --- |
| `ToolStudio` | what the workbench is to its user: an abstract specification | |
| `Workbench` | the hook, the page's buttons, the runtime's session map | `ToolStudio`, which it implements |
| `GrpcServer` | `main`, `config.Load`, `Server.Run`, the goroutine of `Serve`, calls in flight | |
| `ArtifactStore` | the directory, `build.mjs`, `clean.mjs`, what `verify.mjs` accepts | |
| `VolumeSeeding` | compose's copy of the directory into the volume, while the builder runs | `ArtifactStore` |
| `CatalogService` | handler, service, catalog and reader, reading the store of `ArtifactStore` while its scripts run | `ArtifactStore` |
| `ArtifactPaths` | the way of an `artifact_path` through the catalog's check and the reader's | |
| `ToolGateway` | `fetch`, the Next routes and their gRPC clients, above the calls of `CatalogService` | `CatalogService` |
| `ToolRuntime` | `execute` and the Rust tool's exports over one session's memory: who owns what | |
| `LinearMemory` | the same border by address: what is read and written, and the sign of a pointer | |
| `WorkbenchProofs`, `GrpcServerProofs`, `ArtifactStoreProofs`, `VolumeSeedingProofs`, `ArtifactPathsProofs`, `ToolGatewayProofs`, `ToolRuntimeProofs`, `LinearMemoryProofs` | theorems about the module of that name; `ToolGatewayProofs` holds those of `CatalogService` too, and it and `VolumeSeedingProofs` use those of `ArtifactStore` | TLAPS |
| `MC*` | the values TLC gives the constants | the module of that name |

### Workbench

A variable of the hook is a variable of the module under the same name, holding the
value with every queued `setState` applied. `view` is what the page on the screen
closed over: React renders later than a handler that resumes after an `await`, so a
click may be decided by older values than the ones already queued. `Render` brings
`view` up to date. The updates made inside a click are rendered before the next
event (React flushes discrete events synchronously), so a click changes the part of
`view` it sets itself.

An `async` handler is cut at its awaits. `configureSelectedTool` is
`ConfigureSelectedTool`, `PackageReceived`, then `ToolLoaded` or `ConfigureFailed`
(the `catch` and the `finally`); between them it is a record in `flights`.
`submitInput` is `SubmitInput`, then `ExecuteDone` or `ExecuteFailed`; since
`execute` never awaits, nothing comes between, which `EventLoopIdle` says. The
catalog effect is `CatalogLoaded`, `CatalogFailed` and, for a run that was cleaned
up, `CatalogIgnored`; `NumMounts = 2` is StrictMode.

A configuration object is identified by the configure click that built it, because
the session map is keyed by object identity.

Left out: the wording of status messages (`toolStatus` is kept), `inputError`
(always null), the early return of `selectTool` for the tool that is missing from the
list (no button leads there), and the two early returns of the handlers that the
disabled buttons make unreachable (`RunnableIsReady` shows the state behind them).
The answer to a configure request names the tool that was asked for, as the service
guarantees by refusing a manifest whose `tool_id` differs from its directory.

### ToolStudio, and how Workbench implements it

`ToolStudio` has no renders, effects, buttons or handlers: a tool is chosen, prepared
and run, and the result of a run is shown until another run or another choice. The
mapping takes `chosen` from `selectedToolId`, `preparing` from the flight, `running` and
`shown` from the run and the output; `usable` is the set of tools that the state or the
page on the screen would run. Its safety is that a run uses a tool prepared since the
last choice, that at most one tool is being prepared and one run is under way, and that
what is shown was run for the current choice.

Two liberties of the abstract specification are the code's. Preparing goes on for the
tool it was begun for when another is chosen, which is what `MCWorkbenchLateAnswer`
shows the consequence of. And when a tool is prepared in the place of another, the one
it replaces stays usable until the page is rendered.

### GrpcServer

The process begins with `config.Load`: `SHUTDOWN_TIMEOUT_SECONDS` may be absent, a
number of any sign, or text that ends the process; a signal before `NotifyContext`
kills it. After that `runAt` is the line of `Run`, `serve` that of its goroutine; `errCh` has the capacity
of the source. grpc-go itself is external and modelled by what `Run` relies on:
`GracefulStop` refuses new calls and waits for those under way; `Serve` returns nil
after it, an error if `Accept` fails for good, and `ErrServerStopped` if it begins too
late. `Exit` is the end of `main`: whatever still ran is cut.

### ArtifactStore and CatalogService

A file is a record: the build that wrote it, and whether it is whole. The scripts'
writes are cut into creating (or truncating) and filling, `rmSync` into one removal
per file, and `Abort` may end a script anywhere. `StoreInit` is a checkout whose
artifacts were committed, or an empty volume.

`CatalogService` extends the store with calls. A call's record is what its goroutine
holds in local variables; each of its actions is one file-system access, with the
context checked where the code checks it. An error is the code of the `AppError` it
carries and the cause it wraps, which is all that `toStatus` and `errors.Is` look at.
`undisturbed` is a history variable: no script took a step since the call was made.
The model leaves out read errors that are neither a missing file nor a half-written
manifest (permissions, broken disks) and blank roots. Paths are apart, in
`ArtifactPaths`.

### ArtifactPaths

A pure computation in two steps, as the code makes it: `readTool` cleans the manifest's
`artifact_path`, refuses what is absolute or begins with two dots, and joins the rest to
the tool's directory; `resolvePath` cleans the root, joins and cleans again, and
compares texts. A path is the sequence of its elements, and its text that sequence with
separators, because both checks compare texts (`..old` begins with two dots, `.` is no
prefix of `a`). `Clean` and `Join` are `path/filepath`'s; `CleanedUpTo` is the loop of
`Clean` as a recursive function of the number of elements read. `NeverAbove` defines by another
way what it is to stay in a directory, and `RefusedForCause` compares the two.

### VolumeSeeding

`ComposeUp` starts the container that runs `cp -R /seed-artifacts/. /artifacts/`;
`ComposeDown` may cut it. The copy lists the tools' directories, enters one after the
other, and opens and fills each file, over whatever the volume holds: `mkdir -p`, which
is `VolumeToCopyInto`, leaves what is there. What vanished
between the listing and the copy makes `cp` complain, go on and exit with 1, and then
the server is not started (`service_completed_successfully`). The builder is started by
the same `up` and ordered with nothing: its steps, those of `ArtifactStore`, interleave
with the copy. It removes the directory itself, and a bind mount stays on the removed
one: `orphaned` sources are empty. A server that already runs is left alone by a
second `up`.

### ToolGateway

A fetch of the browser, the route handler that serves it, the gRPC client of that
handler and the Go service's call share an identifier; each of the three layers keeps
a record of its own (`fetches`, `routes` with `clients`, and the `calls` and `replies`
of `CatalogService`), because each can lose the next one. `FetchRejected` is a browser
that gives up while the handler goes on. `ConnectionLost` is a service that is down or a
connection that breaks, before, during or after the service's work; a call under way
then sees its context cancelled. The client sets no deadline, so nothing else ends a
call that is not answered.

The two routes differ in their error paths and the model keeps the difference. The list
route has no `catch`: whatever the back end says, Next answers 500. The prepare route
looks for `NOT_FOUND` in the error's message, where grpc-js puts the name of the status,
and answers 404, or 502 for anything else. `withClient` closes the client in its
`finally` block, before the handler responds.

A package is followed through its conversions: the bytes to base64 and back, the digest
as a string, and the size, which `proto-loader` is told (`longs: String`) to make a
string. `FulfilledIsTheReply` compares what the browser decodes with what the service
sent.

Left out: the reading of `response.error`, which the Go service never sets; an API
version other than the one the client sends; the fields of a package that are passed on
as they are; and a crash of the Next process in the middle of a handler, which to the
browser is a `FetchRejected`.

### ToolRuntime

One session: a module's memory and the calls of `execute` on it, one after another.
`call` is the call under way, `answers` how the earlier ones ended, `blocks` what is
allocated. A block has a role: the `input` that JavaScript allocates and frees, Rust's
`copy` of it, the `result` of the conversion, and the `output` whose pointer Rust gives
away. `LAST_ERROR` is kept apart, as its text, its capacity and whether its mutex is
`locked`.

`Execute` to `ReturnText` or `ReturnError` is the way of a call that is not
disturbed. An allocation that fits may still fail, one beyond `MemoryLimit` must. A
failure panics, and a panic in a module compiled to wasm is a trap: JavaScript gets an
exception, the `finally` block frees the input, and the Rust side neither drops its
locals nor unlocks. A trap inside `set_last_error` therefore leaves the mutex held
(`SetLastErrorTraps`), and without threads locking it again can only panic. Hence
`LockedNeverAnswers`.

The eight crates share the ABI line for line; `json2yaml` stands for them, its
conversion reduced to which texts it accepts and how long the results are. Addresses are
left out here and are the subject of `LinearMemory`. `wasm_alloc` never
returns 0, so the check for 0 in `execute` has no action. The stack pointer that a trap
leaves where it was is left out too. `tool-runtime.ts`'s map from configurations
to sessions is in `Workbench`.

### LinearMemory

The memory is a function from addresses to bytes, and the allocator may put a block
anywhere that is free, so that every layout is covered. A pointer that a wasm export
returns is an `i32`: `ToInt32` makes it negative from `Half` on. The module follows it
through `writeBytes` (a typed array over `memory.buffer` at that offset, a `RangeError`
if it is negative), the conversion, the scan for the terminator one byte per step
(`bytes[end]` is `undefined` below 0, and that is not 0), `slice`, which counts negative
indices from the back, and `wasm_free`, which takes the number back as an address.
`size` is the length of the buffer, which grows by pages as blocks need it; a view made
before growth is never used after it. An error's text lies in a buffer of its own
that grows in place or moves.

### Faults

Each module holds a few operators whose comment begins with "Fault:". No action uses
them. Each is a plausible bug of the operator that follows it, and putting it in that
operator's place makes TLC refute one of the properties: that is how we know that
each property says something about the code. `PROJECT.json` lists the pairs.

## 3. What TLC checks

| Run | Question | Bounds | States |
| --- | --- | --- | --- |
| `MCWorkbench` | is the page consistent under every interleaving of clicks, answers and renders; is it a `ToolStudio`; does every spinner go off? | two tools, two catalogs (both tools, or none), two texts, two mounts, three configure clicks | 9,468 |
| `MCWorkbenchLateAnswer` | is the result that of the tool the user chose? **No** | as `MCWorkbench` | |
| `MCGrpcServer` | is success graceful, can the goroutine always send, does a signal end the process? | three calls; the timeout absent, garbage or a number | 1,231 |
| `MCGrpcServerTimeout` | does `SHUTDOWN_TIMEOUT_SECONDS` bound the shutdown? **No** | a timeout of one second, two of waiting | |
| `MCVolumeSeeding` | what does the copy leave in the volume, and does the volume ever go back? | two tools, one build, two `up` | 2,915,050 |
| `MCVolumeSeedingRace` | does a server that was started after the copy have modules? **No** | as `MCVolumeSeeding` | |
| `MCCatalogService` | what do dying scripts leave behind, and what can a call see while they run? | two tools and an unknown one, two builds, one call | 292,746 |
| `MCArtifactPaths` | do the two checks agree, and is a file of the tool opened? | two tools, roots of up to two elements, paths of up to three | 202,980 |
| `MCToolGateway` | what do the routes tell the browser, is every client closed, and does every step bring a request forward? | one tool and an unknown one, one build, two calls (symmetric) | 1,543,737 |
| `MCToolGatewayProgress` | does every fetch settle? | one tool and an unknown one, one build, one call | 16,260 |
| `MCToolRuntime` | who owns the memory, and whose error text is shown? | four texts, four calls, 64 bytes | 131,003 |
| `MCLinearMemory` | is what is read what was written, and is the input freed? | twelve addresses, two calls | 67,953 |

`MCCatalogService` checks the properties of `ArtifactStore` with its own, since the scripts
take every step there that they take alone. A few properties are theorems and not listed
in a run: `ErrorBufferBounded`, `ChecksumMatchesBytes`, `NotFoundMeansAbsent` and the
types `StoreTypeOK`, `SeedTypeOK`, `ServiceTypeOK`, `GatewayTypeOK` and `MemoryTypeOK`.
`MCToolGatewayProgress` is apart from `MCToolGateway` because liveness forbids the
symmetry that keeps two calls small. What can be said of progress without fairness is
`RequestsAreBounded`: a measure of at most `Cardinality(Tools) + 9` falls with every step
of a request and never rises, so no layer retries and no loop starts over, even when a
build rewrites the store under a list that is being read. That the next step
comes at all is `FetchSettles`.

Why the bounds are enough. Two tools are what it takes to select another one while the
first is in flight. Three configure clicks allow a tool that was configured, one that
replaces it and one that fails or comes late. Two builds put an old manifest beside a
new module. One call suffices in `CatalogService` because calls share no state but the
directory, which they only read. `MCToolGateway` needs two, because a list and a prepare
request are compared; one build, and the committed artifacts `StoreInit` starts from,
are what it takes to change the store between them. In `MCToolRuntime` the texts are the
empty one, one that converts, and two that do not, the second with a message
longer than the first left room for; four calls fail, grow the buffer, trap in it and
meet the locked mutex, and the memory runs out within them. The second `up` of
`MCVolumeSeeding` copies over what the first, whole or cut, left; one build is enough to
empty the directory under it. Three elements reach above a tool's directory and come
back (`../../a`), two make a root that cleans to nothing (`a/..`). In `MCLinearMemory`
ten bytes of heap hold blocks below, across and above the middle and at the very end, and
the second call finds what the first one left; `LinearMemoryProofs` has the real size.
Runs do not check deadlock where the system really comes to rest: nobody need click, and
a process may exit.

Fairness. In `Workbench` the browser settles every promise and runs the renders that
were queued: strong fairness, because a task that is ready stays in its queue
while a click is handled and the event loop comes to it however often the user clicks.
Nothing is assumed of the user. In `GrpcServer` every runnable goroutine runs
(weak fairness) and handlers, which read files and call nobody, return; no fairness
makes a signal come or `Accept` fail. In `ToolGateway` handlers and the service's calls
run on, and a response reaches a browser that waits (weak fairness); nothing
breaks, gives up or writes by necessity. That the service answers what reaches it is an
assumption and not a guarantee of the gateway: there is no deadline behind it, and
without that fairness `FetchSettles` is false. The liveness of `ToolStudio`, `Settles`, is
stated as leads-to formulas and checked as part of `WorkSettles` through the mapping:
the mapped variables are expressions, of which TLC cannot evaluate ENABLED, so the
abstract specification states no fairness of its own.

### What the failing runs show

* `MCWorkbenchLateAnswer`: select A, Configure, select B before A's answer comes. The
  answer installs A (`use-tool-workbench.ts:162`) without comparing it with the
  selection. B is highlighted, A is configured, and Run converts with A, while
  README.md:7 promises the result of the tool the user chose. What still holds
  is `ShownBelongsToSelection` (selecting clears what is shown) and
  `StaleFlightMeansUnconfigured` (Run is disabled until the late answer comes).
* `MCGrpcServerTimeout`: README.md:125 documents `SHUTDOWN_TIMEOUT_SECONDS` as the
  graceful shutdown timeout. `config.Load` parses it and nothing reads it:
  `GracefulStop` waits for the calls under way without a limit.
* `MCVolumeSeedingRace`: `docker compose up` starts the builder beside the copy. The
  builder empties the directory first, `cp` finds nothing to copy and succeeds, and the
  server starts on a volume without modules, where docker-compose.yml:25 promises the
  ones Go will serve. `QuietSeedingCopiesAll` is what holds when no script runs.

Three more disagreements need no failing run, because a property that holds says exactly
how far the code goes:

* `AcceptedIsOpened` excepts the roots that clean to `.` or `/`, and must: with
  `ARTIFACT_ROOT=.` (or `./`, `a/..`, `/`) every tool is listed and none is delivered.
  `resolvePath` wants the path to begin with the cleaned root and a separator, and the
  path it compares has lost its `./`. README.md:124 excepts no directory.
* `TextIsExactOrLost` allows the empty text beyond half of the address space, 2 GiB, and
  must: an output there is received as the empty text, as a success. The scan runs up to
  address 0, finds a zero there and slices nothing. No other bytes are ever
  shown.
* `LoadedUint64`: `contracts.ts:57` declares `moduleSizeBytes: number`; the client
  loads 64-bit integers as strings and nobody converts them.

## 4. What TLAPS proves

`WorkbenchProofs` proves, for every set of tools, catalogs and texts and any number of
mounts and clicks, under `WorkbenchAssumption` alone (a catalog is a sequence of
tools, null is none of the other values), that `Spec` satisfies `TypeOK` and every
safety property and action property of `MCWorkbench`.

The properties are not inductive by themselves. `Inv` adds what ties the page to the
state behind it:

* `NothingBeforeCatalog` - until the catalog came, no tool is listed or selected, so
  no handler that needs one has run and the initial status cannot be overwritten;
* `ViewLagsSafely` - what the page on the screen may be behind in, and what it may not:
  a page that shows the catalog loaded, or lists tools, shows what is true; the tool it
  shows selected is the current selection; and it shows a configured tool only while
  there is one;
* `WorkHasSelection` - work in flight implies that a tool is selected, and a run
  belongs to it;
* `AttemptsOrdered` - every flight and configuration carries an attempt number already
  given out, and the flight's is newer than what is configured.

The invariant is `WorkbenchInv`: it holds initially, every step preserves it (one
proof step per action), and the theorems follow from it, `ReplacementCorrect`
with one more argument about the step.

It then proves `Spec => ImplementsStudio` from `WorkbenchInv`: the initial
state maps to the initial state, and each step of the page is a step of `ToolStudio` or a
stutter. The interesting cases are `ToolLoaded`, which is `Prepared` with the replaced
tool still usable through `view`, and `Render`, which is then `Forget`; that a
click acts for the current choice needs `ViewLagsSafely`.

`ToolRuntimeProofs` proves every property of `MCToolRuntime`, and `ErrorBufferBounded`, for any texts and lengths,
any limit on the memory and any number of calls, under `ToolRuntimeAssumption` alone
(lengths are naturals, and an error message is never empty). `RuntimeInv` adds two
parts to the properties:

* `CallNumbered` - the call under way is the one after those that ended, so that a block
  names its call for good;
* `BlocksOwned` - every block is of a call that ended or a local one of the call under
  way, and the input of that call has the size `wasm_free` will be told. Without it
  `InputFreed` would not survive a step that ends a call.

`FinishKeepsInv` is shared by the five actions that end a call and `LocalBlockKeepsInv` by
the steps that allocate; the rest is one step per action. `OnlyOutputsStay` is exact for a
call that answered: a text leaves its output block and nothing else, an error leaves
nothing, and both lemmas show that `LeftBy` of an earlier call does not change while later
calls allocate around the blocks that stay.

`GrpcServerProofs` proves `SuccessIsGraceful` and `SendNeverBlocks` for any number of
calls and any setting of the timeout. `ServerInv` adds that only the end of the process
cuts calls, that `GracefulStop` was asked for by a signal, that `Serve` returns nil for
that one reason, and that the channel holds nothing but the goroutine's one result.

`ArtifactStoreProofs` proves the four properties of the store for any number of
tools, in any order, and of builds. `StoreInv` adds what a script has done so far:
nothing is there between the removal and the first package, and while packaging the
tools before `next` are packaged, those after it untouched, and the one at `next` has
its files in the order of the writes (`PackagedInOrder`).

It goes on with `ReadInv`, what a reader of the store may rely on while scripts run: a
file is of a build already begun, and a module beside its manifest is whole.

`VolumeSeedingProofs` proves `QuietSeedingCopiesAll`, `VolumeOnlyForward` and the types for
any number of tools, builds and `up`s. `SeedInv` says what a copy has done so far:

* `IdleHoldsNothing` and `CopyIsBegun` - `cp` holds directories and files only while it
  copies, and the file it writes is in the volume, begun;
* `QuietSource` - while no script runs, the source is still the directory, and the file
  in `cp`'s hands is the one there;
* `CopiedOrPending` - while no script runs, each file of the directory is in the volume as
  it is there, or in `dirs`, `toCopy` or `copying`. At the end those are empty.

`VolumeOnlyForward` needs `VolumeInv`, which adds `ReadInv` and `VolumeIsBehind`: a file of
the volume is never of a later build than the one the directory holds in its place.
`NewFilesAreNewest` is why a builder's step keeps it, whatever `cp` is doing meanwhile.

`ArtifactPathsProofs` proves the three properties of `MCArtifactPaths` for roots and paths of any
length, where TLC has at most two and three elements. The invariant, `PathInv`, is small: each
point of the way holds what the operators say of the request. The work is in the
operators. `CleanIsClean` shows that `Clean` leaves a path without `.` and with `..`
only at its head (`Normal`), `CleanStays` that such a path is its own clean form, `JoinCleansFirst` that
`Join` cleans what it joins, `NeverAboveIsClean` that cleaning a path and counting its depth
agree on whether it stays below, and `TextBelow` when one path's text begins with
another's. They are inductions over the elements of a path, and the induction theorems of
the library, which take the induction hypothesis as an operator, cannot be used here;
`SetInduction` states the principle for a set of numbers and is proved from the
well-foundedness of the naturals.

`ToolGatewayProofs` proves the properties of `CatalogService` and of `ToolGateway`, for any
number of tools, builds and requests. `ServiceInv` stands on `ReadInv`; since the scripts'
steps come between those of a call, each is shown to keep what the calls hold. It says
of each position of a call what is known there: `EntryHolds` of the manifest that was
read (a half-written module found beside it is of a later build, and there will be none
of this build), `ListHolds` of the part of the list that was read (on a quiet store the
first `n` tools, and the rest is ahead). `GoodReply` collects what a reply is good for.
The gateway uses `ServiceInv` as it stands: a step of the service or of a script keeps
the requests (`RequestsKept`), so what `RequestHolds`, `AnswerHolds` and `FetchHolds` say of
a request's way down and an answer's way up is kept by everything but the request's
own steps. `RequestsBounded` shows of each of these steps by how much it lowers `Work`.
Two refinements tie the layers together: `ServiceKeepsStore` (`Spec => StoreSpec`) and
`GatewayImplementsService` (`GatewaySpec => Spec`): a layer's steps are steps of
the layer below it or stutters, so that what is proved of the store holds whoever reads
it, and what is proved of the service holds under the gateway.

`LinearMemoryProofs` proves the properties of `MCLinearMemory` and `MemoryTypeOK` for every `Half`, that
of wasm32 (2^31) included, any texts and any number of calls. `MemoryInv` adds that
nobody writes below the heap, so that address 0 holds a 0, which is where a scan from
below ends; that the text and its terminator are in memory where the pointer says, seen
as an address; and that the scan has not passed the terminator. `PointersRoundTrip`,
`StoredHolds` and `SliceOfHeld` are its lemmas about the border.

Model-checked only: liveness (`WorkSettles`, `SignalEndsProcess`, `FetchSettles`), since
fairness and ENABLED are beyond the prover. Every invariant and every action property
that a passing run checks is a theorem.

## 5. Not modelled

* The conversions themselves (`serde_json`, `serde_yaml`, `toml`): third-party parsers,
  pure functions of a text. The models know which texts convert and how long the
  result is.
* Generated protobuf code, and the fields of messages that every layer copies.
* Logging, presentation, containers' images and CI: no state, no order that matters.
* `assertToolWorkspaceAlignment`: it compares two constant lists before a script does
  anything; where it throws, the script is one that never started.
* `verify.mjs` as a process: it reads and never writes. What it accepts is `Verifies`.
* Read errors other than a missing file; tool identifiers that are no directory name.

`PROJECT.json` gives the reason for each component.

## 6. Plan

Done, in the order of importance: `Workbench` with its proofs and its abstract
specification; `GrpcServer`; `ArtifactStore`, and `VolumeSeeding` over it;
`CatalogService` and `ArtifactPaths`; `ToolGateway` composed with `CatalogService`;
`ToolRuntime` and `LinearMemory`; proofs of the safety of all of them.

Left:

1. `GrpcServer` composed with the gateway: requests that meet a server shutting down.
   To the gateway that is a `ConnectionLost`, which it has; what the composition would
   add is that a call accepted before the signal is never lost to it, across the two.
2. The server over the volume: `CatalogService` reading what `VolumeSeeding` writes, in
   place of what the scripts write.

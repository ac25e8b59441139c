--------------------------- MODULE ArtifactStore ---------------------------
(***************************************************************************)
(* The artifact directory and the scripts that fill and empty it:          *)
(* build.mjs, clean.mjs and the checks of verify.mjs.  The Go server reads  *)
(* the directory while they run (see CatalogService).                      *)
(*                                                                         *)
(* A file is known by the build that wrote it and by whether it is whole:  *)
(* writeFileSync and copyFileSync are not atomic, and a script that dies   *)
(* leaves what it wrote so far.                                            *)
(***************************************************************************)
EXTENDS Naturals, Sequences

CONSTANTS Tools,       \* identifiers of the packaged tools
          ToolOrder,   \* the order of toolDefinitions
          MaxBuilds,   \* bound on the number of builds
          Absent       \* a file that does not exist

Parts == {"module", "manifest", "checksum"}
WrittenFiles == [gen : 0..MaxBuilds, whole : BOOLEAN]

ASSUME ArtifactStoreAssumption ==
    /\ ToolOrder \in Seq(Tools) \ {<<>>}
    /\ Tools = {ToolOrder[i] : i \in DOMAIN ToolOrder}
    /\ \A i, j \in DOMAIN ToolOrder : ToolOrder[i] = ToolOrder[j] => i = j
    /\ MaxBuilds \in Nat
    /\ Absent \notin WrittenFiles

VARIABLES root,     \* the directory itself exists
          files,    \* files[tool][part], the contents of a tool's directory
          phase,    \* what the running script is doing
          gen,      \* number of the latest build
          next,     \* index in ToolOrder of the tool being packaged
          cleaned   \* the latest cleanOutput ran to its end

storeVars == <<root, files, phase, gen, next, cleaned>>

Phases == {"idle", "cleaning", "emptying", "cleaned", "compiling",
           "packaging", "published"}

Present(tool, part) == files[tool][part] # Absent
Whole(tool, part) == Present(tool, part) /\ files[tool][part].whole

\* A checkout, whose artifacts were built elsewhere, or an empty volume.
StoreInit ==
    /\ root \in BOOLEAN
    /\ files = [tool \in Tools |-> [part \in Parts |->
                   IF root THEN [gen |-> 0, whole |-> TRUE] ELSE Absent]]
    /\ phase = IF root THEN "published" ELSE "idle"
    /\ gen = 0
    /\ next = 1
    /\ cleaned = TRUE

-----------------------------------------------------------------------------
(* build.mjs: clean, compile, then package one tool after the other.        *)
(* clean.mjs is the first part alone.                                       *)

ScriptIdle == phase \in {"idle", "published"}

\* Fault: main skips cleanOutput.
PhaseAfterStartUncleaned == "compiling"

PhaseAfterStart == "cleaning"

StartBuild ==
    /\ ScriptIdle
    /\ gen < MaxBuilds
    /\ gen' = gen + 1
    /\ phase' = PhaseAfterStart
    /\ cleaned' = FALSE
    /\ UNCHANGED <<root, files, next>>

StartClean ==
    /\ ScriptIdle
    /\ root
    /\ phase' = "emptying"
    /\ cleaned' = FALSE
    /\ UNCHANGED <<root, files, gen, next>>

Cleaning == phase \in {"cleaning", "emptying"}

\* rmSync goes through the tree file by file.
RemoveFile(tool, part) ==
    /\ Cleaning
    /\ Present(tool, part)
    /\ files' = [files EXCEPT ![tool][part] = Absent]
    /\ UNCHANGED <<root, phase, gen, next, cleaned>>

RemoveRoot ==
    /\ Cleaning
    /\ \A tool \in Tools, part \in Parts : ~Present(tool, part)
    /\ root' = FALSE
    /\ cleaned' = TRUE
    /\ phase' = IF phase = "emptying" THEN "idle" ELSE "cleaned"
    /\ UNCHANGED <<files, gen, next>>

MakeRoot ==
    /\ phase = "cleaned"
    /\ root' = TRUE
    /\ phase' = "compiling"
    /\ UNCHANGED <<files, gen, next, cleaned>>

Compiled ==
    /\ phase = "compiling"
    /\ phase' = "packaging"
    /\ next' = 1
    /\ UNCHANGED <<root, files, gen, cleaned>>

\* Fault: the manifest is written before the module it describes.
PartsBeforeManifestFirst ==
    [manifest |-> {}, module |-> {"manifest"},
     checksum |-> {"module", "manifest"}]

\* Fault: the checksum file is written first and ends the tool.
PartsBeforeChecksumFirst ==
    [module |-> {}, manifest |-> {"module"}, checksum |-> {}]

\* The order of the writes in packageTool.
PartsBefore ==
    [module |-> {}, manifest |-> {"module"},
     checksum |-> {"module", "manifest"}]

WrittenByThisBuild(tool, part) ==
    Whole(tool, part) /\ files[tool][part].gen = gen

\* A file is created (or, were it there, truncated) before it is filled.
OpenFile(part) ==
    /\ phase = "packaging"
    /\ LET tool == ToolOrder[next] IN
          /\ Present(tool, part) => files[tool][part].gen # gen
          /\ \A before \in PartsBefore[part] : WrittenByThisBuild(tool, before)
          /\ files' = [files EXCEPT ![tool][part] =
                          [gen |-> gen, whole |-> FALSE]]
    /\ UNCHANGED <<root, phase, gen, next, cleaned>>

LastTool == next = Len(ToolOrder)

\* The checksum ends a tool, and the last tool ends the build.
FillFile(part) ==
    /\ phase = "packaging"
    /\ LET tool == ToolOrder[next] IN
          /\ Present(tool, part) /\ ~Whole(tool, part)
          /\ files' = [files EXCEPT ![tool][part].whole = TRUE]
    /\ next' = IF part = "checksum" /\ ~LastTool THEN next + 1 ELSE next
    /\ phase' = IF part = "checksum" /\ LastTool THEN "published" ELSE phase
    /\ UNCHANGED <<root, gen, cleaned>>

\* A failed compilation, a full disk or Ctrl-C ends the script where it is.
Abort ==
    /\ ~ScriptIdle
    /\ phase' = "idle"
    /\ UNCHANGED <<root, files, gen, next, cleaned>>

StoreStep ==
    \/ StartBuild \/ StartClean
    \/ \E tool \in Tools, part \in Parts : RemoveFile(tool, part)
    \/ RemoveRoot \/ MakeRoot \/ Compiled
    \/ \E part \in Parts : OpenFile(part) \/ FillFile(part)
    \/ Abort

StoreSpec == StoreInit /\ [][StoreStep]_storeVars

-----------------------------------------------------------------------------
\* What verify.mjs requires of a tool: a valid module, and a manifest and a
\* checksum file that both name the digest of those very bytes.
Verifies(tool) ==
    /\ \A part \in Parts : Whole(tool, part)
    /\ files[tool]["manifest"].gen = files[tool]["module"].gen
    /\ files[tool]["checksum"].gen = files[tool]["module"].gen

-----------------------------------------------------------------------------
(* Properties.                                                              *)

\* The store and the script's position keep their types, and the script that
\* packages has a tool to package.
StoreTypeOK ==
    /\ root \in BOOLEAN
    /\ files \in [Tools -> [Parts -> WrittenFiles \cup {Absent}]]
    /\ phase \in Phases
    /\ gen \in 0..MaxBuilds
    /\ next \in Nat \ {0}
    /\ phase = "packaging" => next \in DOMAIN ToolOrder
    /\ cleaned \in BOOLEAN

\* Wherever a build was cut, two builds' files never lie side by side: the
\* next one removes everything before it writes anything.
OneGeneration ==
    \A t, u \in Tools : \A p, q \in Parts :
        Present(t, p) /\ Present(u, q) => files[t][p].gen = files[u][q].gen

\* Once the directory was emptied, a manifest, even half written, means the
\* whole module it describes is there: a build that dies between two tools,
\* or two files, leaves no tool the server lists and cannot deliver.
ManifestVouchesForModule ==
    cleaned => \A tool \in Tools :
        Present(tool, "manifest") =>
            /\ Whole(tool, "module")
            /\ files[tool]["manifest"].gen = files[tool]["module"].gen

\* A build that reports success left a store that verify.mjs accepts.
PublishedVerifies == phase = "published" => \A tool \in Tools : Verifies(tool)
=============================================================================

--------------------------- MODULE ArtifactPaths ---------------------------
(***************************************************************************)
(* From the artifact_path of a manifest to the file the server opens.  The *)
(* file-system catalog checks the path within the tool's directory, then   *)
(* the artifact reader checks what it was given within the root; each      *)
(* cleans the path its own way and neither knows of the other's check.     *)
(*                                                                         *)
(* A path is what its text is between separators, and whether it begins    *)
(* with one.  Nothing is read here: CatalogService has the files.          *)
(***************************************************************************)
EXTENDS Integers, FiniteSets, Sequences, SequencesExt

CONSTANTS Names,       \* names of files and directories
          DottedNames, \* those of them that begin with two dots, as "..old"
          Tools,       \* names of the tools' directories
          MaxRoot,     \* bound on the elements of ARTIFACT_ROOT
          MaxPath,     \* bound on the elements of an artifact_path
          Blank,       \* an artifact_path that is missing or only spaces
          Null

Elements == {".", ".."} \cup Names

ASSUME ArtifactPathsAssumption ==
    /\ DottedNames \subseteq Names
    /\ Tools \subseteq Names
    /\ "module.wasm" \in Names \ DottedNames
    /\ Names \cap {".", "..", "/"} = {}
    /\ {MaxRoot, MaxPath} \subseteq Nat

Path(abs, parts) == [abs |-> abs, parts |-> parts]
Paths == [abs : BOOLEAN, parts : Seq(Elements)]
PathsUpTo(n) == [abs : BOOLEAN, parts : BoundedSeq(Elements, n)]

\* The text is not empty: config.Load puts ./artifacts in place of that.
Roots == PathsUpTo(MaxRoot) \ {Path(FALSE, <<>>)}
ArtifactPaths == (PathsUpTo(MaxPath) \ {Path(FALSE, <<>>)}) \cup {Blank}

VARIABLES root,         \* ARTIFACT_ROOT
          toolId,
          artifactPath, \* artifact_path in the tool's manifest
          entry,        \* ArtifactPath of the catalog entry
          opened,       \* the path given to os.ReadFile
          at            \* the check that is next, or the one that failed

request == <<root, toolId, artifactPath>>
vars == <<request, entry, opened, at>>

-----------------------------------------------------------------------------
(* path/filepath.                                                           *)

CleanElement(abs, parts, part) ==
    CASE part = "." -> parts
      [] part = ".." /\ parts # <<>> /\ Last(parts) # ".." -> Front(parts)
      [] part = ".." /\ parts = <<>> /\ abs -> parts
      [] OTHER -> Append(parts, part)

\* What is left of the first n elements, for every n.
CleanedUpTo(abs, parts) ==
    LET cleaned[n \in 0..Len(parts)] ==
            IF n = 0 THEN <<>>
            ELSE CleanElement(abs, cleaned[n - 1], parts[n]) IN
    cleaned

Clean(path) ==
    Path(path.abs, CleanedUpTo(path.abs, path.parts)[Len(path.parts)])

\* A separator at the start of what is joined to a path is one of many.
Join(base, path) == Clean(Path(base.abs, base.parts \o path.parts))

\* The text of a clean path, with every name as one symbol.
Separated(parts) ==
    IF parts = <<>> THEN <<>>
    ELSE [i \in 1..(2 * Len(parts) - 1) |->
             IF i % 2 = 1 THEN parts[(i + 1) \div 2] ELSE "/"]

Text(path) ==
    CASE path.abs -> <<"/">> \o Separated(path.parts)
      [] ~path.abs /\ path.parts = <<>> -> <<".">>
      [] OTHER -> Separated(path.parts)

-----------------------------------------------------------------------------
(* The catalog's check, in readTool.                                        *)

ArtifactPathOrDefault(path) ==
    IF path = Blank THEN Path(FALSE, <<"module.wasm">>) ELSE path

\* strings.HasPrefix(path, ".."), which is also true of a dotted name.
BeginsWithTwoDots(path) == Text(path)[1] \in {".."} \cup DottedNames

\* Fault: a relative path is good enough.
InvalidOnlyAbsolute(path) == path.abs

\* Fault: two dots are looked for anywhere in the path.
InvalidAnyDots(path) ==
    path.abs \/ Contains(path.parts, "..")
             \/ \E name \in DottedNames : Contains(path.parts, name)

Invalid(path) == path.abs \/ BeginsWithTwoDots(path)

EntryPath(tool, path) == Join(Path(FALSE, <<tool>>), path)

ReadTool ==
    LET clean == Clean(ArtifactPathOrDefault(artifactPath)) IN
    /\ at = "catalog"
    /\ \/ /\ Invalid(clean)
          /\ at' = "invalid"
          /\ UNCHANGED entry
       \/ /\ ~Invalid(clean)
          /\ at' = "reader"
          /\ entry' = EntryPath(toolId, clean)
    /\ UNCHANGED <<request, opened>>

-----------------------------------------------------------------------------
(* The reader's check, in resolvePath.                                      *)

\* Fault: the root is compared as it was configured.
CleanRootVerbatim == root

CleanRoot == Clean(root)

Escapes(path) ==
    /\ path # CleanRoot
    /\ ~IsPrefix(Text(CleanRoot) \o <<"/">>, Text(path))

ResolvePath ==
    LET clean == Clean(Join(CleanRoot, entry)) IN
    /\ at = "reader"
    /\ \/ /\ Escapes(clean)
          /\ at' = "escapes"
          /\ UNCHANGED opened
       \/ /\ ~Escapes(clean)
          /\ at' = "opened"
          /\ opened' = clean
    /\ UNCHANGED <<request, entry>>

Init ==
    /\ root \in Roots
    /\ toolId \in Tools
    /\ artifactPath \in ArtifactPaths
    /\ entry = Null
    /\ opened = Null
    /\ at = "catalog"

Next == ReadTool \/ ResolvePath

Spec == Init /\ [][Next]_vars

-----------------------------------------------------------------------------
(* Properties.                                                              *)

\* How many directories up or down the elements of a path lead: a definition
\* apart from Clean.
Ups(parts) == {i \in DOMAIN parts : parts[i] = ".."}
Downs(parts) == {i \in DOMAIN parts : parts[i] \notin {".", ".."}}
Depth(parts) == Cardinality(Downs(parts)) - Cardinality(Ups(parts))

NeverAbove(parts) ==
    \A n \in 0..Len(parts) : Depth(SubSeq(parts, 1, n)) >= 0

\* The module that is opened for a tool lies in that tool's directory, never
\* beside it: the reader's check, which knows only the root, would let one
\* tool's manifest name another tool's module.
OpenedInToolDirectory ==
    opened # Null =>
        LET directory == Join(root, Path(FALSE, <<toolId>>)) IN
        /\ opened.abs = directory.abs
        /\ IsPrefix(directory.parts, opened.parts)

\* A path that never leaves the tool's directory on its way is refused only
\* for a dotted name at its head; the default is never refused.
RefusedForCause ==
    at = "invalid" =>
        /\ artifactPath # Blank
        /\ \/ artifactPath.abs
           \/ ~NeverAbove(artifactPath.parts)
           \/ Clean(artifactPath).parts[1] \in DottedNames

\* The reader opens what the catalog accepted, however ARTIFACT_ROOT is
\* written, unless it is the working directory or the file system's root: a
\* path below "." does not begin with "./" once it is clean.
AcceptedIsOpened == at = "escapes" => Clean(root).parts = <<>>
=============================================================================

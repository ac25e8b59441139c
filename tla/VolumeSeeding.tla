--------------------------- MODULE VolumeSeeding ---------------------------
(***************************************************************************)
(* docker compose: the container that copies the artifacts into the volume *)
(* the Go server reads, and the server that waits for it.  The copy merges *)
(* with what the volume holds; the builder of ArtifactStore, which compose *)
(* starts too and which may also run by hand, does not wait for it.        *)
(*                                                                         *)
(* The artifacts are mounted.  When the builder removes the directory and  *)
(* makes another one, the mount stays on the removed one.                  *)
(***************************************************************************)
EXTENDS ArtifactStore

CONSTANTS MaxUps,  \* bound on the number of docker compose up
          Null

CopiedFiles == [tool : Tools, part : Parts, file : WrittenFiles]

ASSUME VolumeSeedingAssumption == MaxUps \in Nat /\ Null \notin CopiedFiles

VARIABLES volume,   \* the shared volume: files, as in the directory
          seed,     \* what the seeding container is doing
          orphaned, \* the directory it mounted was removed
          dirs,     \* tools whose directories cp has yet to enter
          toCopy,   \* parts of the directory it is in, yet to be copied
          copying,  \* the file being copied, as it was when cp opened it
          failed,   \* cp has complained, and will exit with 1
          backUp,   \* the server is running
          ups,      \* number of docker compose up so far
          quiet     \* history: no script stepped since the last of them

copyVars == <<dirs, toCopy, copying, failed>>
seedVars == <<volume, seed, orphaned, copyVars, backUp, ups, quiet>>
vars == <<storeVars, seedVars>>

Seeds == {"none", "listing", "copying", "done", "failed"}
Seeding == seed \in {"listing", "copying"}

\* A checkout, and a volume that compose has just made.
Init ==
    /\ StoreInit
    /\ root
    /\ volume = [tool \in Tools |-> [part \in Parts |-> Absent]]
    /\ seed = "none"
    /\ orphaned = FALSE
    /\ dirs = {}
    /\ toCopy = {}
    /\ copying = Null
    /\ failed = FALSE
    /\ backUp = FALSE
    /\ ups = 0
    /\ quiet = TRUE

-----------------------------------------------------------------------------
\* The exited containers start again, whether or not the server still runs;
\* a directory to be mounted is made if it does not exist.
ComposeUp ==
    /\ ~Seeding
    /\ ups < MaxUps
    /\ ups' = ups + 1
    /\ seed' = "listing"
    /\ orphaned' = FALSE
    /\ failed' = FALSE
    /\ quiet' = TRUE
    /\ root' = TRUE
    /\ UNCHANGED <<files, phase, gen, next, cleaned, volume, dirs, toCopy,
                   copying, backUp>>

ComposeDown ==
    /\ Seeding \/ backUp
    /\ backUp' = FALSE
    /\ seed' = IF Seeding THEN "failed" ELSE seed
    /\ dirs' = {}
    /\ toCopy' = {}
    /\ copying' = Null
    /\ UNCHANGED <<storeVars, volume, orphaned, failed, ups, quiet>>

-----------------------------------------------------------------------------
(* cp -R                                                                    *)

Source(tool, part) == IF orphaned THEN Absent ELSE files[tool][part]
PartsThere(tool) == {part \in Parts : Source(tool, part) # Absent}

\* Fault: the volume is emptied first, for a fresh copy.
VolumeToCopyIntoEmptied ==
    [tool \in Tools |-> [part \in Parts |-> Absent]]

\* mkdir -p leaves what is there.
VolumeToCopyInto == volume

SeedLists ==
    /\ seed = "listing"
    /\ seed' = "copying"
    /\ volume' = VolumeToCopyInto
    /\ dirs' = {tool \in Tools : PartsThere(tool) # {}}
    /\ UNCHANGED <<storeVars, orphaned, toCopy, copying, failed, backUp, ups,
                   quiet>>

DirectoryDone == toCopy = {} /\ copying = Null

\* A directory without files may be there, or may be gone by now.
SeedEnters(tool) ==
    /\ seed = "copying"
    /\ DirectoryDone
    /\ tool \in dirs
    /\ dirs' = dirs \ {tool}
    /\ toCopy' = {[tool |-> tool, part |-> part] : part \in PartsThere(tool)}
    /\ \/ UNCHANGED failed
       \/ PartsThere(tool) = {} /\ failed' = TRUE
    /\ UNCHANGED <<storeVars, volume, seed, orphaned, copying, backUp, ups,
                   quiet>>

\* Fault: as cp -n, a file that is already there stays.
CreatedUnlessThere(old, file) ==
    IF old # Absent THEN old ELSE [gen |-> file.gen, whole |-> FALSE]

\* The file in the volume is created, or truncated.
Created(old, file) == [gen |-> file.gen, whole |-> FALSE]

SeedOpens(entry) ==
    LET file == Source(entry.tool, entry.part) IN
    /\ seed = "copying"
    /\ copying = Null
    /\ entry \in toCopy
    /\ toCopy' = toCopy \ {entry}
    /\ \/ /\ file = Absent
          /\ failed' = TRUE
          /\ UNCHANGED <<volume, copying>>
       \/ /\ file # Absent
          /\ copying' = [tool |-> entry.tool, part |-> entry.part,
                         file |-> file]
          /\ volume' = [volume EXCEPT ![entry.tool][entry.part] =
                           Created(@, file)]
          /\ UNCHANGED failed
    /\ UNCHANGED <<storeVars, seed, orphaned, dirs, backUp, ups, quiet>>

\* What cp may read: a file that was whole stays so, even if it is removed
\* meanwhile; one that was being written may be whole by now.
ReadWhole(copied) ==
    {copied.file.whole}
      \cup IF Source(copied.tool, copied.part)
                = [copied.file EXCEPT !.whole = TRUE]
           THEN {TRUE} ELSE {}

SeedFills ==
    /\ seed = "copying"
    /\ copying # Null
    /\ \E whole \in ReadWhole(copying) :
          volume' = [volume EXCEPT ![copying.tool][copying.part].whole = whole]
    /\ copying' = Null
    /\ UNCHANGED <<storeVars, seed, orphaned, dirs, toCopy, failed, backUp,
                   ups, quiet>>

SeedEnds ==
    /\ seed = "copying"
    /\ dirs = {} /\ DirectoryDone
    /\ seed' = IF failed THEN "failed" ELSE "done"
    /\ UNCHANGED <<storeVars, volume, orphaned, copyVars, backUp, ups, quiet>>

\* service_completed_successfully
BackStarts ==
    /\ seed = "done"
    /\ ~backUp
    /\ backUp' = TRUE
    /\ UNCHANGED <<storeVars, volume, seed, orphaned, copyVars, ups, quiet>>

-----------------------------------------------------------------------------
\* The builder's steps; clean.mjs is not among compose's services.
BuilderStep ==
    /\ StoreStep
    /\ phase' # "emptying"
    /\ orphaned' = (orphaned \/ (root /\ ~root'))
    /\ quiet' = FALSE
    /\ UNCHANGED <<volume, seed, copyVars, backUp, ups>>

Next ==
    \/ BuilderStep
    \/ ComposeUp \/ ComposeDown
    \/ SeedLists
    \/ \E tool \in Tools : SeedEnters(tool)
    \/ \E entry \in toCopy : SeedOpens(entry)
    \/ SeedFills \/ SeedEnds
    \/ BackStarts

Spec == Init /\ [][Next]_vars

-----------------------------------------------------------------------------
(* Properties.                                                              *)

\* The volume, the container and cp's position keep their types, and cp
\* works on one directory, and one file, at a time.
SeedTypeOK ==
    /\ StoreTypeOK
    /\ volume \in [Tools -> [Parts -> WrittenFiles \cup {Absent}]]
    /\ seed \in Seeds
    /\ dirs \subseteq Tools
    /\ toCopy \subseteq [tool : Tools, part : Parts]
    /\ \A entry \in toCopy : entry.tool \notin dirs
    /\ \A d, e \in toCopy : d.tool = e.tool
    /\ copying \in CopiedFiles \cup {Null}
    /\ copying # Null => \A entry \in toCopy : entry.tool = copying.tool
    /\ {orphaned, failed, backUp, quiet} \subseteq BOOLEAN
    /\ ups \in 0..MaxUps

\* A seeding that succeeds while no script runs leaves each file of the
\* directory in the volume as it is in the directory, over whatever an older
\* or an interrupted seeding had left; of a published build, the whole.
QuietSeedingCopiesAll ==
    seed = "done" /\ quiet =>
        \A tool \in Tools, part \in Parts :
            /\ Present(tool, part) => volume[tool][part] = files[tool][part]
            /\ phase = "published" => Present(tool, part)

\* However copies and builds overtake or cut each other, the volume only goes
\* forward: no file is lost from it or replaced by one of an earlier build.
VolumeOnlyForward ==
    [][\A tool \in Tools, part \in Parts :
          volume[tool][part] # Absent =>
             /\ volume'[tool][part] # Absent
             /\ volume'[tool][part].gen >= volume[tool][part].gen]_vars

\* What docker-compose.yml:25 says of the seeding: the volume gets the
\* modules that Go will serve.  The builder that compose starts beside it
\* empties the directory first, and cp succeeds on an empty directory.
BackHasModules ==
    backUp /\ seed = "done" => \A tool \in Tools :
        volume[tool]["module"] # Absent
=============================================================================

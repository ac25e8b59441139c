------------------------ MODULE VolumeSeedingProofs ------------------------
(* What the seeding leaves in the volume, for any number of tools, of       *)
(* builds and of docker compose up, each cut anywhere.                      *)
EXTENDS VolumeSeeding, ArtifactStoreProofs

-----------------------------------------------------------------------------
(* The inductive invariant.                                                 *)

\* cp has yet to write this file, or is writing it.
Pending(tool, part) ==
    \/ tool \in dirs
    \/ [tool |-> tool, part |-> part] \in toCopy
    \/ copying # Null /\ copying.tool = tool /\ copying.part = part

\* cp holds something only while it copies.
IdleHoldsNothing ==
    seed # "copying" => dirs = {} /\ toCopy = {} /\ copying = Null

\* The file being written is begun: nobody else writes the volume.
CopyIsBegun ==
    copying # Null =>
        volume[copying.tool][copying.part]
            = [gen |-> copying.file.gen, whole |-> FALSE]

\* While no script runs, cp reads the directory as it is now.
QuietSource ==
    quiet =>
        /\ ~orphaned
        /\ copying # Null =>
              copying.file = files[copying.tool][copying.part]

\* While no script runs, every file is either copied or still to be.
CopiedOrPending ==
    quiet /\ seed \in {"copying", "done"} =>
        \A tool \in Tools, part \in Parts :
            Present(tool, part) =>
                \/ volume[tool][part] = files[tool][part]
                \/ Pending(tool, part)

SeedInv ==
    /\ StoreInv
    /\ SeedTypeOK
    /\ IdleHoldsNothing
    /\ CopyIsBegun
    /\ QuietSource
    /\ CopiedOrPending

-----------------------------------------------------------------------------
(* What the steps have in common.                                           *)

\* A step that leaves the scripts' files alone leaves their invariant.
LEMMA StoreUnchangedKeepsInv ==
    ASSUME StoreInv, UNCHANGED storeVars
    PROVE  StoreInv'
  BY StoreStepKeepsInv

\* A file that is there has the type of one that was written.
LEMMA PresentIsWritten ==
    ASSUME StoreTypeOK, NEW tool \in Tools, NEW part \in Parts,
           Present(tool, part)
    PROVE  files[tool][part] \in WrittenFiles
  BY DEF StoreTypeOK, Present

\* What cp holds, by its parts.
LEMMA CopiedFileParts ==
    ASSUME NEW copied \in CopiedFiles
    PROVE  /\ copied.tool \in Tools
           /\ copied.part \in Parts
           /\ copied.file \in WrittenFiles
           /\ copied.file.gen \in 0..MaxBuilds
           /\ copied.file.whole \in BOOLEAN
           /\ copied # Null
  BY VolumeSeedingAssumption DEF CopiedFiles, WrittenFiles

\* Writing one file of the volume leaves the others.
LEMMA VolumeWritten ==
    ASSUME volume \in [Tools -> [Parts -> WrittenFiles \cup {Absent}]],
           NEW t \in Tools, NEW p \in Parts, NEW file \in WrittenFiles,
           volume' = [volume EXCEPT ![t][p] = file]
    PROVE  /\ volume' \in [Tools -> [Parts -> WrittenFiles \cup {Absent}]]
           /\ volume'[t][p] = file
           /\ \A u \in Tools, q \in Parts :
                 u # t \/ q # p => volume'[u][q] = volume[u][q]
  OBVIOUS

LEMMA InitEstablishesSeedInv == Init => SeedInv
  <1> SUFFICES ASSUME Init PROVE SeedInv
    OBVIOUS
  <1>1. StoreInv
    BY InitEstablishesStoreInv DEF Init
  <1>2. /\ volume \in [Tools -> [Parts -> WrittenFiles \cup {Absent}]]
        /\ ups \in 0..MaxUps
    BY VolumeSeedingAssumption DEF Init
  <1>3. SeedTypeOK
    BY <1>1, <1>2 DEF StoreInv, Init, SeedTypeOK, Seeds
  <1> QED
    BY <1>1, <1>3
       DEF Init, SeedInv, IdleHoldsNothing, CopyIsBegun, QuietSource,
           CopiedOrPending

-----------------------------------------------------------------------------
(* docker compose and the builder.                                          *)

LEMMA ComposeUpKeepsInv ==
    ASSUME SeedInv, ComposeUp
    PROVE  SeedInv'
  <1> USE DEF SeedInv
  <1>1. /\ root' = TRUE
        /\ UNCHANGED <<files, phase, gen, next, cleaned>>
    BY DEF ComposeUp
  <1>2. StoreInv'
    BY <1>1
       DEF StoreInv, StoreTypeOK, OneGeneration, ManifestVouchesForModule,
           PublishedVerifies, NothingBeforePackaging, CleaningIsNotClean,
           PackagedInOrder, PartlyPackaged, Blank, Cleaning, Verifies, Whole,
           Present, WrittenByThisBuild
  <1>3. dirs = {} /\ toCopy = {} /\ copying = Null
    BY DEF ComposeUp, Seeding, IdleHoldsNothing
  <1>4. SeedTypeOK'
    <2>1. ups' \in 0..MaxUps
      BY VolumeSeedingAssumption DEF ComposeUp, SeedTypeOK
    <2> QED
      BY <1>2, <1>3, <2>1 DEF StoreInv, SeedTypeOK, ComposeUp, Seeds
  <1> QED
    BY <1>2, <1>3, <1>4
       DEF ComposeUp, IdleHoldsNothing, CopyIsBegun, QuietSource,
           CopiedOrPending

LEMMA ComposeDownKeepsInv ==
    ASSUME SeedInv, ComposeDown
    PROVE  SeedInv'
  <1> USE DEF SeedInv
  <1>1. StoreInv'
    BY StoreUnchangedKeepsInv DEF ComposeDown
  <1>2. SeedTypeOK'
    BY <1>1 DEF StoreInv, SeedTypeOK, ComposeDown, Seeds
  <1>3. IdleHoldsNothing' /\ CopyIsBegun' /\ QuietSource'
    BY DEF ComposeDown, IdleHoldsNothing, CopyIsBegun, QuietSource
  <1>4. CopiedOrPending'
    <2>1. seed' \in {"copying", "done"} => seed = "done"
      BY DEF ComposeDown, Seeding
    <2>2. ASSUME seed = "done" PROVE UNCHANGED <<dirs, toCopy, copying>>
      BY <2>2 DEF ComposeDown, IdleHoldsNothing
    <2> QED
      BY <2>1, <2>2
         DEF ComposeDown, CopiedOrPending, Pending, Present, storeVars
  <1> QED
    BY <1>1, <1>2, <1>3, <1>4

\* A script's step ends what is known of a quiet directory, and no more.
LEMMA BuilderStepKeepsInv ==
    ASSUME SeedInv, BuilderStep
    PROVE  SeedInv'
  <1> USE DEF SeedInv
  <1>1. StoreInv'
    BY StoreStepKeepsInv DEF BuilderStep
  <1>2. SeedTypeOK'
    BY <1>1 DEF StoreInv, StoreTypeOK, SeedTypeOK, BuilderStep, copyVars
  <1> QED
    BY <1>1, <1>2
       DEF BuilderStep, copyVars, IdleHoldsNothing, CopyIsBegun, QuietSource,
           CopiedOrPending

-----------------------------------------------------------------------------
(* cp -R                                                                    *)

LEMMA SeedListsKeepsInv ==
    ASSUME SeedInv, SeedLists
    PROVE  SeedInv'
  <1> USE DEF SeedInv
  <1>1. StoreInv'
    BY StoreUnchangedKeepsInv DEF SeedLists
  <1>2. toCopy = {} /\ copying = Null
    BY DEF SeedLists, IdleHoldsNothing
  <1>3. SeedTypeOK'
    BY <1>1, <1>2
       DEF StoreInv, SeedTypeOK, SeedLists, VolumeToCopyInto, Seeds
  <1>4. CopiedOrPending'
    <2> SUFFICES ASSUME quiet, NEW tool \in Tools, NEW part \in Parts,
                        Present(tool, part)
                 PROVE  tool \in dirs'
      BY DEF CopiedOrPending, Pending, SeedLists, Present, storeVars
    <2>1. part \in PartsThere(tool)
      BY DEF PartsThere, Source, Present, QuietSource
    <2> QED
      BY <2>1 DEF SeedLists
  <1> QED
    BY <1>1, <1>2, <1>3, <1>4
       DEF SeedLists, IdleHoldsNothing, CopyIsBegun, QuietSource, storeVars

LEMMA SeedEntersKeepsInv ==
    ASSUME SeedInv, NEW tool \in Tools, SeedEnters(tool)
    PROVE  SeedInv'
  <1> USE DEF SeedInv
  <1>1. StoreInv'
    BY StoreUnchangedKeepsInv DEF SeedEnters
  <1>2. /\ seed = "copying" /\ toCopy = {} /\ copying = Null
        /\ dirs' = dirs \ {tool}
        /\ toCopy' = {[tool |-> tool, part |-> part] :
                         part \in PartsThere(tool)}
        /\ UNCHANGED <<storeVars, volume, seed, orphaned, copying, backUp,
                       ups, quiet>>
        /\ failed' \in BOOLEAN
    BY DEF SeedEnters, DirectoryDone, SeedTypeOK
  <1>3. SeedTypeOK'
    <2>1. toCopy' \subseteq [tool : Tools, part : Parts]
      BY <1>2 DEF PartsThere
    <2>2. \A d \in toCopy' : d.tool = tool
      BY <1>2
    <2> QED
      BY <1>1, <1>2, <2>1, <2>2 DEF StoreInv, SeedTypeOK
  <1>4. CopiedOrPending'
    <2> SUFFICES ASSUME quiet, NEW t \in Tools, NEW part \in Parts,
                        Present(t, part),
                        volume[t][part] # files[t][part]
                 PROVE  Pending(t, part)'
      BY <1>2 DEF CopiedOrPending, Present, storeVars
    <2>1. t \in dirs
      BY <1>2 DEF CopiedOrPending, Pending
    <2>2. CASE t # tool
      BY <1>2, <2>1, <2>2 DEF Pending
    <2>3. CASE t = tool
      <3>1. part \in PartsThere(tool)
        BY <2>3 DEF PartsThere, Source, Present, QuietSource
      <3> QED
        BY <1>2, <2>3, <3>1 DEF Pending
    <2> QED
      BY <2>2, <2>3
  <1> QED
    BY <1>1, <1>2, <1>3, <1>4
       DEF IdleHoldsNothing, CopyIsBegun, QuietSource, storeVars

\* The file that was to be opened is gone: nothing is left to copy there.
LEMMA SeedMissesKeepsInv ==
    ASSUME SeedInv, NEW entry \in toCopy, SeedOpens(entry),
           Source(entry.tool, entry.part) = Absent
    PROVE  SeedInv'
  <1> USE DEF SeedInv
  <1>1. /\ seed = "copying" /\ copying = Null
        /\ toCopy' = toCopy \ {entry} /\ failed' = TRUE
        /\ UNCHANGED <<storeVars, volume, copying, seed, orphaned, dirs,
                       backUp, ups, quiet>>
    BY DEF SeedOpens
  <1>2. StoreInv'
    BY <1>1, StoreUnchangedKeepsInv
  <1>3. SeedTypeOK'
    BY <1>1, <1>2 DEF StoreInv, SeedTypeOK
  <1>4. CopiedOrPending'
    <2> SUFFICES ASSUME quiet, NEW tool \in Tools, NEW part \in Parts,
                        Present(tool, part), Pending(tool, part)
                 PROVE  Pending(tool, part)'
      BY <1>1 DEF CopiedOrPending, Present, storeVars
    <2>1. [tool |-> tool, part |-> part] # entry
      BY DEF QuietSource, Source, Present
    <2> QED
      BY <1>1, <2>1 DEF Pending
  <1> QED
    BY <1>1, <1>2, <1>3, <1>4
       DEF IdleHoldsNothing, CopyIsBegun, QuietSource, storeVars

LEMMA SeedCreatesKeepsInv ==
    ASSUME SeedInv, NEW entry \in toCopy, SeedOpens(entry),
           Source(entry.tool, entry.part) # Absent
    PROVE  SeedInv'
  <1> USE DEF SeedInv
  <1> DEFINE t == entry.tool
             p == entry.part
             file == Source(t, p)
             begun == [gen |-> file.gen, whole |-> FALSE]
  <1>1. /\ seed = "copying" /\ copying = Null
        /\ toCopy' = toCopy \ {entry}
        /\ copying' = [tool |-> t, part |-> p, file |-> file]
        /\ volume' = [volume EXCEPT ![t][p] = begun]
        /\ UNCHANGED <<storeVars, seed, orphaned, dirs, failed, backUp, ups,
                       quiet>>
    BY DEF SeedOpens, Created
  <1>2. t \in Tools /\ p \in Parts /\ entry = [tool |-> t, part |-> p]
    BY DEF SeedTypeOK
  <1>3. file = files[t][p] /\ file \in WrittenFiles
    BY <1>2, PresentIsWritten DEF Source, Present, StoreInv
  <1>4. begun \in WrittenFiles
    BY <1>3 DEF WrittenFiles
  <1>5. /\ volume' \in [Tools -> [Parts -> WrittenFiles \cup {Absent}]]
        /\ volume'[t][p] = begun
        /\ \A u \in Tools, q \in Parts :
              u # t \/ q # p => volume'[u][q] = volume[u][q]
    BY <1>1, <1>2, <1>4, VolumeWritten DEF SeedTypeOK
  <1>6. copying' \in CopiedFiles /\ copying' # Null
    BY <1>1, <1>2, <1>3, VolumeSeedingAssumption DEF CopiedFiles
  <1> HIDE DEF begun, file, t, p
  <1>7. StoreInv'
    BY <1>1, StoreUnchangedKeepsInv
  <1>8. SeedTypeOK'
    BY <1>1, <1>2, <1>5, <1>6, <1>7 DEF StoreInv, SeedTypeOK
  <1>9. CopyIsBegun'
    BY <1>1, <1>5 DEF CopyIsBegun, begun
  <1>10. CopiedOrPending'
    <2> SUFFICES ASSUME quiet, NEW u \in Tools, NEW q \in Parts,
                        Present(u, q)
                 PROVE  volume'[u][q] = files[u][q] \/ Pending(u, q)'
      BY <1>1 DEF CopiedOrPending, Present, storeVars
    <2>1. CASE u = t /\ q = p
      BY <1>1, <1>6, <2>1 DEF Pending
    <2>2. CASE ~(u = t /\ q = p)
      <3>1. volume'[u][q] = volume[u][q]
            /\ [tool |-> u, part |-> q] # entry
        BY <1>2, <1>5, <2>2
      <3> QED
        BY <1>1, <3>1 DEF CopiedOrPending, Pending
    <2> QED
      BY <2>1, <2>2
  <1> QED
    BY <1>1, <1>3, <1>7, <1>8, <1>9, <1>10
       DEF IdleHoldsNothing, QuietSource, storeVars

\* A file that nobody touches is copied as it is.
LEMMA SeedFillsKeepsInv ==
    ASSUME SeedInv, SeedFills
    PROVE  SeedInv'
  <1> USE DEF SeedInv
  <1> DEFINE t == copying.tool
             p == copying.part
             file == copying.file
  <1>1. /\ seed = "copying" /\ copying # Null /\ copying' = Null
        /\ UNCHANGED <<storeVars, seed, orphaned, dirs, toCopy, failed,
                       backUp, ups, quiet>>
    BY DEF SeedFills
  <1>2. PICK whole \in ReadWhole(copying) :
           volume' = [volume EXCEPT ![t][p].whole = whole]
    BY DEF SeedFills
  <1>3. /\ copying \in CopiedFiles
        /\ t \in Tools /\ p \in Parts /\ file \in WrittenFiles
        /\ file.gen \in 0..MaxBuilds /\ file.whole \in BOOLEAN
    BY <1>1, CopiedFileParts DEF SeedTypeOK
  <1>4. whole \in BOOLEAN
    BY <1>3 DEF ReadWhole
  <1> DEFINE filled == [gen |-> file.gen, whole |-> whole]
  <1>5. volume' = [volume EXCEPT ![t][p] = filled]
    <2>1. volume[t][p] = [gen |-> file.gen, whole |-> FALSE]
      BY <1>1 DEF CopyIsBegun
    <2>2. [volume[t][p] EXCEPT !.whole = whole] = filled
      BY <2>1
    <2> HIDE DEF filled
    <2> QED
      BY <1>2, <1>3, <2>2 DEF SeedTypeOK
  <1>6. filled \in WrittenFiles
    BY <1>3, <1>4 DEF WrittenFiles
  <1>7. /\ volume' \in [Tools -> [Parts -> WrittenFiles \cup {Absent}]]
        /\ volume'[t][p] = filled
        /\ \A u \in Tools, q \in Parts :
              u # t \/ q # p => volume'[u][q] = volume[u][q]
    BY <1>3, <1>5, <1>6, VolumeWritten DEF SeedTypeOK
  <1>8. quiet => filled = files[t][p]
    <2> SUFFICES ASSUME quiet PROVE filled = file
      BY <1>1 DEF QuietSource
    <2>1. Source(t, p) = file
      BY <1>1 DEF QuietSource, Source
    <2>2. whole = file.whole
      BY <1>3, <2>1 DEF ReadWhole, WrittenFiles
    <2> QED
      BY <1>3, <2>2 DEF WrittenFiles
  <1> HIDE DEF filled, file
  <1>9. StoreInv'
    BY <1>1, StoreUnchangedKeepsInv
  <1>10. SeedTypeOK'
    BY <1>1, <1>7, <1>9 DEF StoreInv, SeedTypeOK
  <1>11. CopiedOrPending'
    <2> SUFFICES ASSUME quiet, NEW u \in Tools, NEW q \in Parts,
                        Present(u, q)
                 PROVE  volume'[u][q] = files[u][q] \/ Pending(u, q)'
      BY <1>1 DEF CopiedOrPending, Present, storeVars
    <2>1. CASE u = t /\ q = p
      BY <1>7, <1>8, <2>1
    <2>2. CASE ~(u = t /\ q = p)
      BY <1>1, <1>7, <2>2 DEF CopiedOrPending, Pending
    <2> QED
      BY <2>1, <2>2
  <1> QED
    BY <1>1, <1>9, <1>10, <1>11
       DEF IdleHoldsNothing, CopyIsBegun, QuietSource, storeVars

LEMMA SeedEndsKeepsInv ==
    ASSUME SeedInv, SeedEnds \/ BackStarts
    PROVE  SeedInv'
  <1> USE DEF SeedInv
  <1>1. /\ UNCHANGED <<storeVars, volume, orphaned, copyVars, ups, quiet>>
        /\ \/ seed' = seed
           \/ seed = "copying" /\ seed' \in {"done", "failed"}
        /\ backUp' \in BOOLEAN
    BY DEF SeedEnds, BackStarts, SeedTypeOK
  <1>2. StoreInv'
    BY <1>1, StoreUnchangedKeepsInv
  <1>3. SeedTypeOK'
    BY <1>1, <1>2 DEF StoreInv, SeedTypeOK, copyVars, Seeds
  <1>4. IdleHoldsNothing'
    BY DEF SeedEnds, BackStarts, DirectoryDone, copyVars, IdleHoldsNothing
  <1>5. CopyIsBegun' /\ QuietSource' /\ CopiedOrPending'
    BY <1>1
       DEF copyVars, storeVars, CopyIsBegun, QuietSource, CopiedOrPending,
           Pending, Present
  <1> QED
    BY <1>2, <1>3, <1>4, <1>5

-----------------------------------------------------------------------------
LEMMA StepKeepsSeedInv ==
    ASSUME SeedInv, [Next]_vars
    PROVE  SeedInv'
  <1>1. CASE BuilderStep
    BY <1>1, BuilderStepKeepsInv
  <1>2. CASE ComposeUp
    BY <1>2, ComposeUpKeepsInv
  <1>3. CASE ComposeDown
    BY <1>3, ComposeDownKeepsInv
  <1>4. CASE SeedLists
    BY <1>4, SeedListsKeepsInv
  <1>5. ASSUME NEW tool \in Tools, SeedEnters(tool) PROVE SeedInv'
    BY <1>5, SeedEntersKeepsInv
  <1>6. ASSUME NEW entry \in toCopy, SeedOpens(entry) PROVE SeedInv'
    BY <1>6, SeedMissesKeepsInv, SeedCreatesKeepsInv
  <1>7. CASE SeedFills
    BY <1>7, SeedFillsKeepsInv
  <1>8. CASE SeedEnds \/ BackStarts
    BY <1>8, SeedEndsKeepsInv
  <1>9. CASE UNCHANGED vars
    <2>1. StoreInv'
      BY <1>9, StoreUnchangedKeepsInv DEF vars, SeedInv
    <2> QED
      BY <1>9, <2>1
         DEF vars, seedVars, copyVars, storeVars, SeedInv, SeedTypeOK,
             StoreInv, IdleHoldsNothing, CopyIsBegun, QuietSource,
             CopiedOrPending, Pending, Present
  <1> QED
    BY <1>1, <1>2, <1>3, <1>4, <1>5, <1>6, <1>7, <1>8, <1>9 DEF Next

\* The invariant holds however compose, the builder and cp alternate.
THEOREM SeedingCorrect == Spec => []SeedInv
  <1>1. SeedInv /\ [Next]_vars => SeedInv'
    BY StepKeepsSeedInv
  <1> QED
    BY <1>1, InitEstablishesSeedInv, PTL DEF Spec

\* The volume, the container and cp's position keep their types.
THEOREM SeedTypeCorrect == Spec => []SeedTypeOK
  BY SeedingCorrect, PTL DEF SeedInv

\* A seeding that succeeds beside no script copies what is there, and all of
\* a published build.
THEOREM QuietSeedingCorrect == Spec => []QuietSeedingCopiesAll
  <1>1. SeedInv => QuietSeedingCopiesAll
    <2> SUFFICES ASSUME SeedInv, seed = "done", quiet,
                        NEW tool \in Tools, NEW part \in Parts
                 PROVE  /\ Present(tool, part) =>
                              volume[tool][part] = files[tool][part]
                        /\ phase = "published" => Present(tool, part)
      BY DEF QuietSeedingCopiesAll
    <2>1. ~Pending(tool, part)
      BY DEF SeedInv, IdleHoldsNothing, Pending
    <2>2. Present(tool, part) => volume[tool][part] = files[tool][part]
      BY <2>1 DEF SeedInv, CopiedOrPending
    <2>3. phase = "published" => Present(tool, part)
      BY DEF SeedInv, StoreInv, PublishedVerifies, Verifies, Whole
    <2> QED
      BY <2>2, <2>3
  <1> QED
    BY <1>1, SeedingCorrect, PTL

-----------------------------------------------------------------------------
(* The volume only goes forward.                                            *)

\* A file of the volume is of a build that was begun, and of none later than
\* the file of the directory it would be replaced by.
VolumeIsBehind ==
    \A tool \in Tools, part \in Parts :
        volume[tool][part] # Absent =>
            /\ volume[tool][part].gen \in 0..gen
            /\ Present(tool, part) =>
                  volume[tool][part].gen <= files[tool][part].gen

VolumeInv == SeedInv /\ ReadInv /\ VolumeIsBehind

\* What VolumeOnlyForward says of a step.
Forward ==
    \A tool \in Tools, part \in Parts :
        volume[tool][part] # Absent =>
            /\ volume'[tool][part] # Absent
            /\ volume'[tool][part].gen >= volume[tool][part].gen

LEMMA InitEstablishesVolumeInv == Init => VolumeInv
  BY InitEstablishesSeedInv, InitEstablishesReadInv
     DEF Init, VolumeInv, VolumeIsBehind

\* The builder writes under the number of its build, the latest.
LEMMA NewFilesAreNewest ==
    ASSUME ReadInv, StoreStep,
           NEW tool \in Tools, NEW part \in Parts, Present(tool, part)'
    PROVE  files'[tool][part].gen = gen
           \/ /\ Present(tool, part)
              /\ files'[tool][part].gen = files[tool][part].gen
  <1> USE DEF ReadInv, StoreInv
  <1>1. ASSUME NEW p \in Parts, OpenFile(p)
        PROVE  files'[tool][part].gen = gen
               \/ /\ Present(tool, part)
                  /\ files'[tool][part] = files[tool][part]
    <2>1. PICK t \in Tools : t = ToolOrder[next]
      BY <1>1, ToolBeingPackaged DEF OpenFile
    <2>2. /\ files'[t][p] = [gen |-> gen, whole |-> FALSE]
          /\ \A u \in Tools, q \in Parts :
                (u # t \/ q # p) => files'[u][q] = files[u][q]
      BY <1>1, <2>1, OpenIsLocal
    <2>3. CASE tool = t /\ part = p
      BY <2>2, <2>3
    <2>4. CASE ~(tool = t /\ part = p)
      <3>1. files'[tool][part] = files[tool][part]
        BY <2>2, <2>4
      <3> QED
        BY <3>1 DEF Present
    <2> QED
      BY <2>3, <2>4
  <1>2. ASSUME NEW p \in Parts, FillFile(p)
        PROVE  Present(tool, part)
               /\ files'[tool][part].gen = files[tool][part].gen
    <2>1. PICK t \in Tools : t = ToolOrder[next]
      BY <1>2, ToolBeingPackaged DEF FillFile
    <2>2. /\ Present(t, p)
          /\ files'[t][p].gen = files[t][p].gen
          /\ \A u \in Tools, q \in Parts :
                (u # t \/ q # p) => files'[u][q] = files[u][q]
      BY <1>2, <2>1, FillIsLocal, FilledIsWhole
    <2>3. CASE tool = t /\ part = p
      BY <2>2, <2>3
    <2>4. CASE ~(tool = t /\ part = p)
      <3>1. files'[tool][part] = files[tool][part]
        BY <2>2, <2>4
      <3> QED
        BY <3>1 DEF Present
    <2> QED
      BY <2>3, <2>4
  <1>3. ASSUME NEW u \in Tools, NEW p \in Parts, RemoveFile(u, p)
        PROVE  Present(tool, part) /\ files'[tool][part] = files[tool][part]
    BY <1>3 DEF RemoveFile, Present, StoreTypeOK
  <1>4. CASE StartBuild \/ StartClean \/ RemoveRoot \/ MakeRoot \/ Compiled
             \/ Abort
    BY <1>4
       DEF StartBuild, StartClean, RemoveRoot, MakeRoot, Compiled, Abort,
           Present
  <1> QED
    BY <1>1, <1>2, <1>3, <1>4 DEF StoreStep

LEMMA BuilderStepKeepsBehind ==
    ASSUME VolumeInv, BuilderStep
    PROVE  VolumeIsBehind' /\ Forward
  <1>1. StoreStep /\ UNCHANGED volume /\ ReadInv
    BY DEF BuilderStep, VolumeInv
  <1>2. gen \in Nat /\ gen' \in Nat /\ gen' >= gen
    BY <1>1, GenerationGrows, ArtifactStoreAssumption
       DEF ReadInv, StoreInv, StoreTypeOK
  <1>3. ASSUME NEW tool \in Tools, NEW part \in Parts,
               volume[tool][part] # Absent
        PROVE  /\ volume[tool][part].gen \in 0..gen'
               /\ Present(tool, part)' =>
                     volume[tool][part].gen <= files'[tool][part].gen
               /\ volume[tool][part].gen \in Nat
    <2>1. /\ volume[tool][part].gen \in 0..gen
          /\ Present(tool, part) =>
                volume[tool][part].gen <= files[tool][part].gen
      BY <1>3 DEF VolumeInv, VolumeIsBehind
    <2> QED
      BY <1>1, <1>2, <2>1, NewFilesAreNewest
  <1> QED
    BY <1>1, <1>3 DEF VolumeIsBehind, Forward

\* cp puts what the directory holds over what the volume holds.
LEMMA SeedOpensKeepsBehind ==
    ASSUME VolumeInv, NEW entry \in toCopy, SeedOpens(entry)
    PROVE  VolumeIsBehind' /\ Forward
  <1> USE DEF VolumeInv, SeedInv
  <1> DEFINE t == entry.tool
             p == entry.part
             begun == [gen |-> files[t][p].gen, whole |-> FALSE]
  <1>1. UNCHANGED <<files, gen>>
    BY DEF SeedOpens, storeVars
  <1>2. gen \in Nat
    BY ArtifactStoreAssumption DEF StoreInv, StoreTypeOK
  <1>3. \A u \in Tools, q \in Parts : volume[u][q] # Absent =>
           /\ volume[u][q].gen \in 0..gen
           /\ Present(u, q) => volume[u][q].gen <= files[u][q].gen
    BY DEF VolumeIsBehind
  <1>4. CASE Source(t, p) = Absent
    <2>1. UNCHANGED volume
      BY <1>4 DEF SeedOpens
    <2> QED
      BY <1>1, <1>2, <1>3, <2>1 DEF VolumeIsBehind, Forward, Present
  <1>5. CASE Source(t, p) # Absent
    <2>1. Source(t, p) = files[t][p] /\ Present(t, p)
      BY <1>5 DEF Source, Present
    <2>2. t \in Tools /\ p \in Parts
      BY DEF SeedTypeOK
    <2>3. files[t][p] \in WrittenFiles /\ files[t][p].gen \in 0..gen
      BY <2>1, <2>2, PresentIsWritten DEF StoreInv, ReadInv, FilesAreOlder
    <2>4. begun \in WrittenFiles
      BY <2>3 DEF WrittenFiles
    <2>5. volume' = [volume EXCEPT ![t][p] = begun]
      BY <1>5, <2>1 DEF SeedOpens, Created
    <2>6. /\ volume'[t][p] = begun
          /\ \A u \in Tools, q \in Parts :
                u # t \/ q # p => volume'[u][q] = volume[u][q]
      <3> HIDE DEF begun
      <3> QED
        BY <2>2, <2>4, <2>5, VolumeWritten DEF SeedTypeOK
    <2>7. /\ volume'[t][p] # Absent
          /\ volume'[t][p].gen = files[t][p].gen
      <3>1. begun.gen = files[t][p].gen
        OBVIOUS
      <3> HIDE DEF begun
      <3> QED
        BY <2>4, <2>6, <3>1, ArtifactStoreAssumption
    <2> HIDE DEF begun, t, p
    <2>8. ASSUME NEW u \in Tools, NEW q \in Parts
          PROVE  /\ volume'[u][q] # Absent =>
                       /\ volume'[u][q].gen \in 0..gen
                       /\ Present(u, q) =>
                             volume'[u][q].gen <= files[u][q].gen
                 /\ volume[u][q] # Absent =>
                       /\ volume'[u][q] # Absent
                       /\ volume'[u][q].gen >= volume[u][q].gen
      <3>1. CASE u = t /\ q = p
        BY <1>2, <1>3, <2>1, <2>2, <2>3, <2>7, <3>1
      <3>2. CASE ~(u = t /\ q = p)
        <4>1. volume'[u][q] = volume[u][q]
          BY <2>6, <3>2
        <4> QED
          BY <1>2, <1>3, <4>1
      <3> QED
        BY <3>1, <3>2
    <2> QED
      BY <1>1, <2>8 DEF VolumeIsBehind, Forward, Present
  <1> QED
    BY <1>4, <1>5

\* Filling a file leaves the number it was opened under.
LEMMA SeedFillsKeepsBehind ==
    ASSUME VolumeInv, SeedFills
    PROVE  VolumeIsBehind' /\ Forward
  <1> USE DEF VolumeInv, SeedInv
  <1> DEFINE t == copying.tool
             p == copying.part
  <1>1. copying # Null /\ UNCHANGED <<files, gen>>
    BY DEF SeedFills, storeVars
  <1>2. gen \in Nat
    BY ArtifactStoreAssumption DEF StoreInv, StoreTypeOK
  <1>3. /\ t \in Tools /\ p \in Parts
        /\ copying.file.gen \in 0..MaxBuilds
        /\ copying.file.whole \in BOOLEAN
    BY <1>1, CopiedFileParts DEF SeedTypeOK
  <1>4. PICK whole \in ReadWhole(copying) :
           volume' = [volume EXCEPT ![t][p].whole = whole]
    BY DEF SeedFills
  <1>5. whole \in BOOLEAN
    BY <1>3 DEF ReadWhole
  <1>6. volume[t][p] = [gen |-> copying.file.gen, whole |-> FALSE]
    BY <1>1 DEF CopyIsBegun
  <1> DEFINE filled == [gen |-> copying.file.gen, whole |-> whole]
  <1>7. /\ volume[t][p] # Absent
        /\ volume[t][p].gen = copying.file.gen
    <2>1. volume[t][p] \in WrittenFiles
      BY <1>3, <1>6 DEF WrittenFiles
    <2>2. volume[t][p] # Absent
      BY <2>1, ArtifactStoreAssumption
    <2> QED
      BY <1>6, <2>2
  <1>8. filled \in WrittenFiles
    BY <1>3, <1>5 DEF WrittenFiles
  <1>9. volume' = [volume EXCEPT ![t][p] = filled]
    <2>1. [volume[t][p] EXCEPT !.whole = whole] = filled
      BY <1>6
    <2> HIDE DEF filled
    <2> QED
      BY <1>3, <1>4, <2>1 DEF SeedTypeOK
  <1>10. /\ volume'[t][p] # Absent
         /\ volume'[t][p].gen = volume[t][p].gen
         /\ \A u \in Tools, q \in Parts :
               u # t \/ q # p => volume'[u][q] = volume[u][q]
    <2> HIDE DEF filled
    <2>1. /\ volume'[t][p] = filled
          /\ \A u \in Tools, q \in Parts :
                u # t \/ q # p => volume'[u][q] = volume[u][q]
      BY <1>3, <1>8, <1>9, VolumeWritten DEF SeedTypeOK
    <2> QED
      BY <1>7, <1>8, <2>1, ArtifactStoreAssumption DEF filled
  <1> HIDE DEF t, p, filled
  <1>11. ASSUME NEW u \in Tools, NEW q \in Parts
         PROVE  /\ volume'[u][q] # Absent <=> volume[u][q] # Absent
                /\ volume[u][q] # Absent =>
                      volume'[u][q].gen = volume[u][q].gen
    BY <1>7, <1>10
  <1> QED
    BY <1>1, <1>2, <1>11 DEF VolumeIsBehind, Forward, Present

\* The other steps leave the volume and the files as they are.
LEMMA StillKeepsBehind ==
    ASSUME VolumeInv, UNCHANGED <<files, gen, volume>>
    PROVE  VolumeIsBehind' /\ Forward
  <1>1. gen \in Nat
    BY ArtifactStoreAssumption DEF VolumeInv, SeedInv, StoreInv, StoreTypeOK
  <1> QED
    BY <1>1 DEF VolumeInv, VolumeIsBehind, Forward, Present

\* The readers' invariant of the directory holds beside compose, too: it
\* makes the directory it mounts, and touches nothing else of it.
LEMMA ReadInvBesideCompose ==
    ASSUME SeedInv, SeedInv', ReadInv, [Next]_vars
    PROVE  ReadInv'
  <1>1. CASE ComposeUp
    BY <1>1
       DEF ComposeUp, SeedInv, ReadInv, FilesAreOlder, RootWhileWriting,
           ManifestBesideWholeModule, Present, Whole
  <1>2. CASE ~ComposeUp
    <2>1. [StoreStep]_storeVars
      BY <1>2
         DEF Next, vars, BuilderStep, ComposeDown, SeedLists, SeedEnters,
             SeedOpens, SeedFills, SeedEnds, BackStarts
    <2> QED
      BY <2>1, StoreStepKeepsReadInv
  <1> QED
    BY <1>1, <1>2

LEMMA StepKeepsVolumeInv ==
    ASSUME VolumeInv, [Next]_vars
    PROVE  VolumeInv' /\ Forward
  <1>1. SeedInv'
    BY StepKeepsSeedInv DEF VolumeInv
  <1>2. ReadInv'
    BY <1>1, ReadInvBesideCompose DEF VolumeInv
  <1>3. VolumeIsBehind' /\ Forward
    <2>1. CASE BuilderStep
      BY <2>1, BuilderStepKeepsBehind
    <2>2. ASSUME NEW entry \in toCopy, SeedOpens(entry)
          PROVE  VolumeIsBehind' /\ Forward
      BY <2>2, SeedOpensKeepsBehind
    <2>3. CASE SeedFills
      BY <2>3, SeedFillsKeepsBehind
    <2>4. CASE ComposeUp \/ ComposeDown \/ SeedLists \/ SeedEnds
               \/ BackStarts \/ (\E tool \in Tools : SeedEnters(tool))
               \/ UNCHANGED vars
      <3>1. UNCHANGED <<files, gen, volume>>
        BY <2>4
           DEF ComposeUp, ComposeDown, SeedLists, VolumeToCopyInto,
               SeedEnds, BackStarts, SeedEnters, vars, seedVars, storeVars
      <3> QED
        BY <3>1, StillKeepsBehind
    <2> QED
      BY <2>1, <2>2, <2>3, <2>4 DEF Next
  <1> QED
    BY <1>1, <1>2, <1>3 DEF VolumeInv

\* However copies and builds overtake or cut each other, the volume loses no
\* file and gets none of an earlier build than it has.
THEOREM VolumeForwardCorrect == Spec => VolumeOnlyForward
  <1>1. VolumeInv /\ [Next]_vars => VolumeInv'
    BY StepKeepsVolumeInv
  <1>2. Spec => []VolumeInv
    BY <1>1, InitEstablishesVolumeInv, PTL DEF Spec
  <1>3. VolumeInv /\ [Next]_vars => [Forward]_vars
    BY StepKeepsVolumeInv
  <1> QED
    BY <1>2, <1>3, PTL DEF Spec, VolumeOnlyForward, Forward
=============================================================================

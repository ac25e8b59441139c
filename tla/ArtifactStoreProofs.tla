------------------------- MODULE ArtifactStoreProofs -------------------------
(* What builds that die anywhere leave in the artifact directory, for any    *)
(* number of tools and of builds.                                            *)
EXTENDS ArtifactStore, TLAPS

-----------------------------------------------------------------------------
(* The inductive invariant.                                                 *)

Blank(tool) == \A part \in Parts : ~Present(tool, part)

\* Between the removal of the directory and the first package, nothing is
\* there.
NothingBeforePackaging ==
    phase \in {"cleaned", "compiling"} => \A tool \in Tools : Blank(tool)

CleaningIsNotClean == Cleaning => ~cleaned

\* The tool being packaged has its files in the order of the writes, and the
\* checksum, which ends it, is not whole yet.
PartlyPackaged(tool) ==
    /\ \A part \in Parts : Present(tool, part) =>
          /\ files[tool][part].gen = gen
          /\ \A before \in PartsBefore[part] : WrittenByThisBuild(tool, before)
    /\ ~Whole(tool, "checksum")

\* The tools before it are packaged, those after it untouched.
PackagedInOrder ==
    phase = "packaging" =>
        /\ \A i \in DOMAIN ToolOrder :
              /\ i < next => \A part \in Parts :
                                WrittenByThisBuild(ToolOrder[i], part)
              /\ i > next => Blank(ToolOrder[i])
        /\ PartlyPackaged(ToolOrder[next])

StoreInv ==
    /\ StoreTypeOK
    /\ OneGeneration
    /\ ManifestVouchesForModule
    /\ PublishedVerifies
    /\ NothingBeforePackaging
    /\ CleaningIsNotClean
    /\ PackagedInOrder

-----------------------------------------------------------------------------
LEMMA InitEstablishesStoreInv == StoreInit => StoreInv
  <1> SUFFICES ASSUME StoreInit PROVE StoreInv
    OBVIOUS
  <1>1. \A tool \in Tools, part \in Parts :
           files[tool][part] = IF root THEN [gen |-> 0, whole |-> TRUE]
                               ELSE Absent
    BY DEF StoreInit
  <1>2. [gen |-> 0, whole |-> TRUE] \in WrittenFiles
    BY ArtifactStoreAssumption DEF WrittenFiles
  <1>3. files \in [Tools -> [Parts -> WrittenFiles \cup {Absent}]]
    BY <1>2 DEF StoreInit
  <1>4. StoreTypeOK
    BY <1>3, ArtifactStoreAssumption DEF StoreInit, StoreTypeOK, Phases
  <1>5. [gen |-> 0, whole |-> TRUE] # Absent
    BY <1>2, ArtifactStoreAssumption
  <1>6. OneGeneration /\ ManifestVouchesForModule
    BY <1>1, <1>5 DEF OneGeneration, ManifestVouchesForModule, Present,
                      Whole, Parts
  <1>7. PublishedVerifies
    BY <1>1, <1>5 DEF StoreInit, PublishedVerifies, Verifies, Whole, Present,
                      Parts
  <1> QED
    BY <1>4, <1>6, <1>7
       DEF StoreInit, StoreInv, NothingBeforePackaging, CleaningIsNotClean,
           PackagedInOrder, Cleaning

\* Every tool has its place in the order.
LEMMA ToolHasIndex ==
    ASSUME NEW tool \in Tools
    PROVE  \E i \in DOMAIN ToolOrder : tool = ToolOrder[i]
  BY ArtifactStoreAssumption

LEMMA IndexIsTool ==
    ASSUME NEW i \in DOMAIN ToolOrder
    PROVE  ToolOrder[i] \in Tools /\ i \in Nat \ {0} /\ i <= Len(ToolOrder)
  BY ArtifactStoreAssumption

\* While tools are packaged in order, every file is the build's own, and a
\* manifest has its module.
LEMMA PackagedFilesAreNew ==
    ASSUME StoreTypeOK, PackagedInOrder, phase = "packaging",
           NEW tool \in Tools, NEW part \in Parts, Present(tool, part)
    PROVE  /\ files[tool][part].gen = gen
           /\ part = "manifest" => WrittenByThisBuild(tool, "module")
  <1>1. PICK i \in DOMAIN ToolOrder : tool = ToolOrder[i]
    BY ToolHasIndex
  <1>2. i \in Nat /\ next \in Nat
    BY IndexIsTool DEF StoreTypeOK
  <1>3. CASE i < next
    BY <1>1, <1>3 DEF PackagedInOrder, WrittenByThisBuild, Parts
  <1>4. CASE i = next
    BY <1>1, <1>4 DEF PackagedInOrder, PartlyPackaged, PartsBefore
  <1>5. CASE i > next
    BY <1>1, <1>5 DEF PackagedInOrder, Blank
  <1> QED
    BY <1>2, <1>3, <1>4, <1>5

LEMMA PackagingIsConsistent ==
    StoreTypeOK /\ PackagedInOrder /\ phase = "packaging"
        => OneGeneration /\ ManifestVouchesForModule
  <1> SUFFICES ASSUME StoreTypeOK, PackagedInOrder, phase = "packaging"
               PROVE  OneGeneration /\ ManifestVouchesForModule
    OBVIOUS
  <1>1. ASSUME NEW tool \in Tools, NEW part \in Parts, Present(tool, part)
        PROVE  /\ files[tool][part].gen = gen
               /\ part = "manifest" => WrittenByThisBuild(tool, "module")
    BY <1>1, PackagedFilesAreNew
  <1>2. OneGeneration
    BY <1>1 DEF OneGeneration
  <1>3. ManifestVouchesForModule
    <2> SUFFICES ASSUME NEW tool \in Tools, Present(tool, "manifest")
                 PROVE  /\ Whole(tool, "module")
                        /\ files[tool]["manifest"].gen
                              = files[tool]["module"].gen
      BY DEF ManifestVouchesForModule
    <2> QED
      BY <1>1 DEF WrittenByThisBuild, Parts
  <1> QED
    BY <1>2, <1>3

-----------------------------------------------------------------------------
\* A step that writes no file.
LEMMA QuietStepKeepsInv ==
    ASSUME StoreInv, UNCHANGED files,
           StartBuild \/ StartClean \/ MakeRoot \/ Compiled \/ Abort
    PROVE  StoreInv'
  <1> USE DEF StoreInv
  <1>1. StoreTypeOK'
    <2>1. 1 \in DOMAIN ToolOrder
      BY ArtifactStoreAssumption
    <2>2. gen' \in 0..MaxBuilds
      BY ArtifactStoreAssumption
         DEF StartBuild, StartClean, MakeRoot, Compiled, Abort, StoreTypeOK
    <2>3. root' \in BOOLEAN /\ cleaned' \in BOOLEAN /\ phase' \in Phases
      BY DEF StartBuild, StartClean, MakeRoot, Compiled, Abort, StoreTypeOK,
             Phases, PhaseAfterStart
    <2>4. next' \in Nat \ {0}
          /\ (phase' = "packaging" => next' \in DOMAIN ToolOrder)
      BY <2>1 DEF StartBuild, StartClean, MakeRoot, Compiled, Abort,
                  StoreTypeOK, PhaseAfterStart
    <2> QED
      BY <2>2, <2>3, <2>4 DEF StoreTypeOK
  <1>2. \A tool \in Tools, part \in Parts :
           /\ Present(tool, part)' = Present(tool, part)
           /\ Whole(tool, part)' = Whole(tool, part)
    BY DEF Present, Whole
  <1>3. OneGeneration'
    BY <1>2 DEF OneGeneration
  <1>4. cleaned' => cleaned
    BY DEF StartBuild, StartClean, MakeRoot, Compiled, Abort
  <1>5. ManifestVouchesForModule'
    BY <1>2, <1>4 DEF ManifestVouchesForModule, Parts
  <1>6. phase' # "published"
    BY DEF StartBuild, StartClean, MakeRoot, Compiled, Abort,
           PhaseAfterStart
  <1>7. NothingBeforePackaging'
    BY <1>2 DEF StartBuild, StartClean, MakeRoot, Compiled, Abort,
                PhaseAfterStart, NothingBeforePackaging, Blank
  <1>8. CleaningIsNotClean'
    BY DEF StartBuild, StartClean, MakeRoot, Compiled, Abort, Cleaning,
           PhaseAfterStart, CleaningIsNotClean
  <1>9. PackagedInOrder'
    <2> SUFFICES ASSUME phase' = "packaging" PROVE PackagedInOrder'
      BY DEF PackagedInOrder
    <2>1. Compiled
      BY DEF StartBuild, StartClean, MakeRoot, Compiled, Abort,
             PhaseAfterStart
    <2>2. \A tool \in Tools : Blank(tool)'
      BY <1>2, <2>1 DEF Compiled, NothingBeforePackaging, Blank
    <2>3. next' = 1 /\ \A i \in DOMAIN ToolOrder : ~(i < next')
      BY <2>1, IndexIsTool DEF Compiled
    <2>4. ToolOrder[1] \in Tools
      BY IndexIsTool, ArtifactStoreAssumption
    <2>5. PartlyPackaged(ToolOrder[next])'
      BY <2>2, <2>3, <2>4 DEF PartlyPackaged, Blank, Whole, Parts
    <2> QED
      BY <2>2, <2>3, <2>5, IndexIsTool DEF PackagedInOrder
  <1> QED
    BY <1>1, <1>3, <1>5, <1>6, <1>7, <1>8, <1>9 DEF PublishedVerifies

\* cleanOutput and clean.mjs.
LEMMA RemovalKeepsInv ==
    ASSUME StoreInv,
           RemoveRoot \/ \E tool \in Tools, part \in Parts :
                            RemoveFile(tool, part)
    PROVE  StoreInv'
  <1> USE DEF StoreInv
  <1>1. CASE RemoveRoot
    <2>1. \A tool \in Tools : Blank(tool)'
      BY <1>1 DEF RemoveRoot, Blank, Present
    <2>2. phase' \in {"idle", "cleaned"}
      BY <1>1 DEF RemoveRoot
    <2>3. StoreTypeOK'
      BY <1>1 DEF RemoveRoot, StoreTypeOK, Phases
    <2>4. OneGeneration' /\ ManifestVouchesForModule'
      BY <2>1 DEF OneGeneration, ManifestVouchesForModule, Blank, Parts
    <2> QED
      BY <2>1, <2>2, <2>3, <2>4
         DEF PublishedVerifies, NothingBeforePackaging, CleaningIsNotClean,
             PackagedInOrder, Cleaning
  <1>2. ASSUME NEW tool \in Tools, NEW part \in Parts, RemoveFile(tool, part)
        PROVE  StoreInv'
    <2>1. files' \in [Tools -> [Parts -> WrittenFiles \cup {Absent}]]
      BY <1>2 DEF RemoveFile, StoreTypeOK
    <2>2. StoreTypeOK'
      BY <1>2, <2>1 DEF RemoveFile, StoreTypeOK
    <2>3. \A t \in Tools, p \in Parts :
             Present(t, p)' => Present(t, p) /\ files'[t][p] = files[t][p]
      BY <1>2 DEF RemoveFile, Present, StoreTypeOK
    <2>4. OneGeneration'
      BY <2>3 DEF OneGeneration
    <2>5. ~cleaned' /\ phase' = phase /\ phase \in {"cleaning", "emptying"}
      BY <1>2 DEF RemoveFile, Cleaning, CleaningIsNotClean
    <2> QED
      BY <2>2, <2>4, <2>5
         DEF ManifestVouchesForModule, PublishedVerifies, Cleaning,
             NothingBeforePackaging, CleaningIsNotClean, PackagedInOrder
  <1> QED
    BY <1>1, <1>2

-----------------------------------------------------------------------------
\* What a write leaves to prove: the rest follows from the order of the tools.
LEMMA WriteKeepsInv ==
    ASSUME StoreInv, StoreTypeOK', PackagedInOrder', PublishedVerifies',
           phase = "packaging", UNCHANGED cleaned,
           \/ phase' = "packaging"
           \/ phase' = "published" /\ OneGeneration'
                                  /\ ManifestVouchesForModule'
    PROVE  StoreInv'
  <1>1. (StoreTypeOK /\ PackagedInOrder /\ phase = "packaging"
            => OneGeneration /\ ManifestVouchesForModule)'
    BY PackagingIsConsistent, PTL
  <1>2. OneGeneration' /\ ManifestVouchesForModule'
    BY <1>1
  <1> QED
    BY <1>2 DEF StoreInv, NothingBeforePackaging, CleaningIsNotClean,
                Cleaning

\* A file is created or truncated.
LEMMA OpenKeepsInv ==
    ASSUME StoreInv, NEW part \in Parts, OpenFile(part)
    PROVE  StoreInv'
  <1> DEFINE tool == ToolOrder[next]
             opened == [gen |-> gen, whole |-> FALSE]
  <1> USE DEF StoreInv
  <1>1. phase = "packaging" /\ next \in DOMAIN ToolOrder /\ tool \in Tools
    BY IndexIsTool DEF OpenFile, StoreTypeOK
  <1>2. UNCHANGED <<root, phase, gen, next, cleaned>>
        /\ files' = [files EXCEPT ![tool][part] = opened]
    BY DEF OpenFile
  <1>3. opened \in WrittenFiles /\ opened # Absent
    <2>1. gen \in 0..MaxBuilds
      BY DEF StoreTypeOK
    <2>2. opened \in WrittenFiles
      BY <2>1 DEF WrittenFiles
    <2> QED
      BY <2>2, ArtifactStoreAssumption
  <1>4. files' \in [Tools -> [Parts -> WrittenFiles \cup {Absent}]]
    BY <1>1, <1>2, <1>3 DEF StoreTypeOK
  <1>5. StoreTypeOK'
    BY <1>2, <1>4 DEF StoreTypeOK
  <1>6. \A t \in Tools, p \in Parts :
           files'[t][p] = IF t = tool /\ p = part THEN opened
                          ELSE files[t][p]
    BY <1>1, <1>2 DEF StoreTypeOK
  <1>7. ~WrittenByThisBuild(tool, part)
    BY DEF OpenFile, WrittenByThisBuild, Whole
  <1>8. \A t \in Tools, p \in Parts :
           WrittenByThisBuild(t, p) => WrittenByThisBuild(t, p)'
    <2> SUFFICES ASSUME NEW t \in Tools, NEW p \in Parts,
                        WrittenByThisBuild(t, p)
                 PROVE  WrittenByThisBuild(t, p)'
      OBVIOUS
    <2>1. files'[t][p] = files[t][p]
      BY <1>6, <1>7
    <2> QED
      BY <2>1, <1>2 DEF WrittenByThisBuild, Whole, Present
  <1>9. PartlyPackaged(tool)'
    <2>1. ASSUME NEW p \in Parts, Present(tool, p)'
          PROVE  /\ files'[tool][p].gen = gen
                 /\ \A before \in PartsBefore[p] :
                       WrittenByThisBuild(tool, before)
      <3>1. CASE p = part
        BY <3>1, <1>1, <1>6 DEF OpenFile
      <3>2. CASE p # part
        <4>1. files'[tool][p] = files[tool][p]
          BY <3>2, <1>1, <1>6
        <4>2. Present(tool, p)
          BY <4>1, <2>1, <1>2 DEF Present
        <4>3. PartlyPackaged(tool)
          BY <1>1 DEF PackagedInOrder
        <4> QED
          BY <4>1, <4>2, <4>3 DEF PartlyPackaged
      <3> QED
        BY <3>1, <3>2
    <2>2. \A p \in Parts : PartsBefore[p] \subseteq Parts
      BY DEF PartsBefore, Parts
    <2>3. ASSUME NEW p \in Parts, Present(tool, p)'
          PROVE  \A before \in PartsBefore[p] :
                    WrittenByThisBuild(tool, before)'
      <3> SUFFICES ASSUME NEW before \in PartsBefore[p]
                   PROVE  WrittenByThisBuild(tool, before)'
        OBVIOUS
      <3>1. before \in Parts
        BY <2>2
      <3>2. WrittenByThisBuild(tool, before)
        BY <2>1, <2>3
      <3> QED
        BY <3>1, <3>2, <1>1, <1>2, <1>8
    <2>4. ~Whole(tool, "checksum")'
      <3>1. ~Whole(tool, "checksum") /\ "checksum" \in Parts
        BY <1>1 DEF PackagedInOrder, PartlyPackaged, Parts
      <3>2. CASE part = "checksum"
        <4>1. ~files'[tool]["checksum"].whole
          BY <3>1, <3>2, <1>1, <1>6
        <4> QED
          BY <4>1, <1>2 DEF Whole
      <3>3. CASE part # "checksum"
        <4>1. files'[tool]["checksum"] = files[tool]["checksum"]
          BY <3>1, <3>3, <1>1, <1>6
        <4> QED
          BY <3>1, <4>1, <1>2 DEF Whole, Present
      <3> QED
        BY <3>2, <3>3
    <2> QED
      BY <2>1, <2>3, <2>4, <1>2 DEF PartlyPackaged
  <1>10. PackagedInOrder'
    <2>1. ASSUME NEW i \in DOMAIN ToolOrder
          PROVE  /\ i < next => \A p \in Parts :
                                  WrittenByThisBuild(ToolOrder[i], p)'
                 /\ i > next => Blank(ToolOrder[i])'
      <3>1. ToolOrder[i] \in Tools /\ i \in Nat /\ next \in Nat
        BY IndexIsTool DEF StoreTypeOK
      <3>2. ASSUME i < next, NEW p \in Parts
            PROVE  WrittenByThisBuild(ToolOrder[i], p)'
        BY <1>1, <1>8, <3>1, <3>2 DEF PackagedInOrder
      <3>3. ASSUME i > next PROVE Blank(ToolOrder[i])'
        <4>1. ToolOrder[i] # tool
          BY <1>1, <3>1, <3>3, ArtifactStoreAssumption
        <4> QED
          BY <1>1, <1>6, <3>1, <3>3, <4>1
             DEF PackagedInOrder, Blank, Present
      <3> QED
        BY <3>2, <3>3
    <2> QED
      BY <2>1, <1>2, <1>9 DEF PackagedInOrder
  <1> QED
    BY <1>1, <1>2, <1>5, <1>10, WriteKeepsInv DEF PublishedVerifies

\* A file is filled; the checksum moves on to the next tool, or ends.
LEMMA FillKeepsInv ==
    ASSUME StoreInv, NEW part \in Parts, FillFile(part)
    PROVE  StoreInv'
  <1> DEFINE tool == ToolOrder[next]
             filled == [files[tool][part] EXCEPT !.whole = TRUE]
  <1> USE DEF StoreInv
  <1>1. phase = "packaging" /\ next \in DOMAIN ToolOrder /\ tool \in Tools
    BY IndexIsTool DEF FillFile, StoreTypeOK
  <1>2. UNCHANGED <<root, gen, cleaned>>
        /\ files' = [files EXCEPT ![tool][part] = filled]
    BY DEF FillFile
  <1>3. files[tool][part] \in WrittenFiles
    BY <1>1 DEF FillFile, StoreTypeOK, Present
  <1>4. /\ filled \in WrittenFiles /\ filled # Absent
        /\ filled.gen = files[tool][part].gen /\ filled.whole
    BY <1>3, ArtifactStoreAssumption DEF WrittenFiles
  <1> HIDE DEF filled
  <1>5. files' \in [Tools -> [Parts -> WrittenFiles \cup {Absent}]]
    BY <1>1, <1>2, <1>4 DEF StoreTypeOK
  <1>6. \A t \in Tools, p \in Parts :
           files'[t][p] = IF t = tool /\ p = part THEN filled
                          ELSE files[t][p]
    BY <1>1, <1>2 DEF StoreTypeOK
  <1>7. PartlyPackaged(tool)
    BY <1>1 DEF PackagedInOrder
  <1>8. filled.gen = gen
    BY <1>4, <1>7 DEF PartlyPackaged, FillFile
  <1>9. \A t \in Tools, p \in Parts :
           WrittenByThisBuild(t, p) \/ (t = tool /\ p = part)
              => WrittenByThisBuild(t, p)'
    <2> SUFFICES ASSUME NEW t \in Tools, NEW p \in Parts,
                        WrittenByThisBuild(t, p) \/ (t = tool /\ p = part)
                 PROVE  WrittenByThisBuild(t, p)'
      OBVIOUS
    <2>1. CASE t = tool /\ p = part
      <3>1. files'[t][p] = filled
        BY <1>6, <2>1
      <3> QED
        BY <3>1, <1>2, <1>4, <1>8 DEF WrittenByThisBuild, Whole, Present
    <2>2. CASE ~(t = tool /\ p = part)
      <3>1. files'[t][p] = files[t][p]
        BY <1>6, <2>2
      <3> QED
        BY <3>1, <2>2, <1>2 DEF WrittenByThisBuild, Whole, Present
    <2> QED
      BY <2>1, <2>2
  <1>10. \A i \in DOMAIN ToolOrder : i < next =>
            \A p \in Parts : WrittenByThisBuild(ToolOrder[i], p)'
    BY <1>1, <1>9, IndexIsTool DEF PackagedInOrder
  <1>11. \A i \in DOMAIN ToolOrder : i > next => Blank(ToolOrder[i])'
    <2> SUFFICES ASSUME NEW i \in DOMAIN ToolOrder, i > next
                 PROVE  Blank(ToolOrder[i])'
      OBVIOUS
    <2>1. ToolOrder[i] \in Tools /\ i \in Nat /\ next \in Nat
      BY IndexIsTool DEF StoreTypeOK
    <2>2. ToolOrder[i] # tool
      BY <1>1, <2>1, ArtifactStoreAssumption
    <2> QED
      BY <1>1, <1>6, <2>1, <2>2 DEF PackagedInOrder, Blank, Present
  <1>12. CASE part # "checksum"
    <2>1. next' = next /\ phase' = "packaging"
      BY <1>1, <1>12 DEF FillFile
    <2>2. StoreTypeOK'
      BY <1>1, <1>2, <1>5, <2>1 DEF StoreTypeOK
    <2>3. ASSUME NEW p \in Parts, Present(tool, p)'
          PROVE  /\ files'[tool][p].gen = gen
                 /\ \A before \in PartsBefore[p] :
                       WrittenByThisBuild(tool, before)'
      <3>1. Present(tool, p)
        BY <1>1, <1>6, <2>1, <2>3 DEF Present, FillFile
      <3>2. files'[tool][p].gen = gen
        BY <1>1, <1>6, <1>7, <1>8, <3>1 DEF PartlyPackaged
      <3>3. ASSUME NEW before \in PartsBefore[p]
            PROVE  WrittenByThisBuild(tool, before)'
        <4>1. before \in Parts
          BY DEF PartsBefore, Parts
        <4>2. WrittenByThisBuild(tool, before)
          BY <1>7, <3>1 DEF PartlyPackaged
        <4> QED
          BY <4>1, <4>2, <1>1, <1>9, <2>1
      <3> QED
        BY <3>2, <3>3
    <2>4. ~Whole(tool, "checksum")'
      <3>1. files'[tool]["checksum"] = files[tool]["checksum"]
        BY <1>1, <1>6, <1>12 DEF Parts
      <3> QED
        BY <3>1, <1>7, <2>1 DEF PartlyPackaged, Whole, Present
    <2>5. PartlyPackaged(tool)'
      BY <2>1, <2>3, <2>4, <1>2 DEF PartlyPackaged
    <2>6. PackagedInOrder'
      BY <2>1, <2>5, <1>10, <1>11 DEF PackagedInOrder
    <2> QED
      BY <2>1, <2>2, <2>6, <1>1, <1>2, WriteKeepsInv DEF PublishedVerifies
  <1>13. CASE part = "checksum"
    <2>1. PICK t \in Tools : t = tool
      BY <1>1
    <2>2. \A p \in Parts : WrittenByThisBuild(t, p)'
      <3>1. Present(tool, "checksum") /\ "checksum" \in Parts
        BY <1>13 DEF FillFile, Parts
      <3>2. WrittenByThisBuild(t, "module")
            /\ WrittenByThisBuild(t, "manifest")
        BY <2>1, <3>1, <1>7 DEF PartlyPackaged, PartsBefore
      <3>3. WrittenByThisBuild(t, "checksum")'
        BY <2>1, <3>1, <1>9, <1>13
      <3>4. WrittenByThisBuild(t, "module")'
            /\ WrittenByThisBuild(t, "manifest")'
        BY <3>2, <1>9 DEF Parts
      <3> QED
        BY <3>3, <3>4 DEF Parts
    <2>3. \A i \in DOMAIN ToolOrder : i <= next =>
             \A p \in Parts : WrittenByThisBuild(ToolOrder[i], p)'
      <3> SUFFICES ASSUME NEW i \in DOMAIN ToolOrder, i <= next
                   PROVE  \A p \in Parts :
                             WrittenByThisBuild(ToolOrder[i], p)'
        OBVIOUS
      <3>1. i < next \/ i = next
        BY IndexIsTool DEF StoreTypeOK
      <3>2. i = next => ToolOrder[i] = t
        BY <2>1
      <3> QED
        BY <3>1, <3>2, <2>2, <1>10
    <2>4. CASE ~LastTool
      <3>1. next' = next + 1 /\ phase' = "packaging"
        BY <1>1, <1>13, <2>4 DEF FillFile
      <3>2. next \in Nat /\ next + 1 \in DOMAIN ToolOrder
        BY <1>1, <2>4, ArtifactStoreAssumption DEF LastTool, StoreTypeOK
      <3>3. StoreTypeOK'
        BY <1>2, <1>5, <3>1, <3>2 DEF StoreTypeOK, Phases
      <3> PICK j \in DOMAIN ToolOrder : j = next + 1
        BY <3>2
      <3>4. Blank(ToolOrder[j])'
        BY <3>2, <1>11
      <3>5. PartlyPackaged(ToolOrder[j])' /\ next' = j
        BY <3>1, <3>4 DEF PartlyPackaged, Blank, Whole, Parts
      <3>6. \A i \in DOMAIN ToolOrder :
               (i < next + 1 <=> i <= next) /\ (i > next + 1 => i > next)
        BY <3>2, IndexIsTool
      <3>7. PackagedInOrder'
        BY <3>1, <3>5, <3>6, <2>3, <1>11 DEF PackagedInOrder
      <3> QED
        BY <3>1, <3>3, <3>7, <1>1, <1>2, WriteKeepsInv
           DEF PublishedVerifies
    <2>5. CASE LastTool
      <3>1. next' = next /\ phase' = "published"
        BY <1>1, <1>13, <2>5 DEF FillFile
      <3>2. StoreTypeOK' /\ PackagedInOrder'
        BY <1>2, <1>5, <3>1 DEF StoreTypeOK, PackagedInOrder, Phases
      <3>3. \A i \in DOMAIN ToolOrder : i <= next
        BY <2>5, IndexIsTool DEF LastTool
      <3>4. \A u \in Tools, p \in Parts : WrittenByThisBuild(u, p)'
        BY <3>3, <2>3, ToolHasIndex
      <3>5. OneGeneration'
        BY <3>4 DEF OneGeneration, WrittenByThisBuild
      <3>6. ManifestVouchesForModule' /\ PublishedVerifies'
        BY <3>4 DEF ManifestVouchesForModule, PublishedVerifies, Verifies,
                    WrittenByThisBuild, Parts
      <3> QED
        BY <3>1, <3>2, <3>5, <3>6, <1>1, <1>2, WriteKeepsInv
    <2> QED
      BY <2>4, <2>5
  <1> QED
    BY <1>12, <1>13

-----------------------------------------------------------------------------
\* Whoever uses the store may rely on this step.
LEMMA StoreStepKeepsInv == StoreInv /\ [StoreStep]_storeVars => StoreInv'
  <1> SUFFICES ASSUME StoreInv, [StoreStep]_storeVars PROVE StoreInv'
    OBVIOUS
  <1>1. CASE StartBuild \/ StartClean \/ MakeRoot \/ Compiled \/ Abort
    <2>1. UNCHANGED files
      BY <1>1 DEF StartBuild, StartClean, MakeRoot, Compiled, Abort
    <2> QED
      BY <1>1, <2>1, QuietStepKeepsInv
  <1>2. CASE RemoveRoot \/ \E tool \in Tools, part \in Parts :
                               RemoveFile(tool, part)
    BY <1>2, RemovalKeepsInv
  <1>3. CASE \E part \in Parts : OpenFile(part) \/ FillFile(part)
    BY <1>3, OpenKeepsInv, FillKeepsInv
  <1>4. CASE UNCHANGED storeVars
    BY <1>4 DEF storeVars, StoreInv, StoreTypeOK, OneGeneration,
                ManifestVouchesForModule, PublishedVerifies, Verifies,
                NothingBeforePackaging, CleaningIsNotClean, PackagedInOrder,
                PartlyPackaged, Blank, Present, Whole, WrittenByThisBuild,
                Cleaning
  <1> QED
    BY <1>1, <1>2, <1>3, <1>4 DEF StoreStep

\* The invariant holds wherever builds and clean-ups are cut.
THEOREM StoreCorrect == StoreSpec => []StoreInv
  BY InitEstablishesStoreInv, StoreStepKeepsInv, PTL DEF StoreSpec

\* The store and the script's position keep their types.
THEOREM StoreTypeCorrect == StoreSpec => []StoreTypeOK
  BY StoreCorrect, PTL DEF StoreInv

\* Files of two builds never lie side by side.
THEOREM GenerationsCorrect == StoreSpec => []OneGeneration
  BY StoreCorrect, PTL DEF StoreInv

\* A manifest in a directory that was emptied before has its module whole.
THEOREM ManifestsCorrect == StoreSpec => []ManifestVouchesForModule
  BY StoreCorrect, PTL DEF StoreInv

\* What a successful build leaves passes verify.mjs.
THEOREM PublishedCorrect == StoreSpec => []PublishedVerifies
  BY StoreCorrect, PTL DEF StoreInv

-----------------------------------------------------------------------------
(* What a reader of the store relies on while the scripts write it.         *)

\* No file is of a build to come, and what a build removes is older than it.
FilesAreOlder ==
    \A tool \in Tools, part \in Parts : Present(tool, part) =>
        /\ files[tool][part].gen \in 0..gen
        /\ phase = "cleaning" => files[tool][part].gen < gen

\* A module next to its manifest is whole.
ManifestBesideWholeModule ==
    \A tool \in Tools :
        Present(tool, "manifest") /\ Present(tool, "module") =>
            Whole(tool, "module")

RootWhileWriting ==
    phase \in {"compiling", "packaging", "published"} => root

ReadInv ==
    StoreInv /\ FilesAreOlder /\ ManifestBesideWholeModule /\ RootWhileWriting

LEMMA InitEstablishesReadInv == StoreInit => ReadInv
  <1> SUFFICES ASSUME StoreInit PROVE ReadInv
    OBVIOUS
  <1>1. StoreInv
    BY InitEstablishesStoreInv
  <1>2. \A tool \in Tools, part \in Parts : Present(tool, part) =>
           files[tool][part] = [gen |-> 0, whole |-> TRUE]
    BY DEF StoreInit, Present
  <1>3. FilesAreOlder /\ ManifestBesideWholeModule
    BY <1>2 DEF StoreInit, FilesAreOlder, ManifestBesideWholeModule, Whole,
                Parts
  <1>4. RootWhileWriting
    BY DEF StoreInit, RootWhileWriting
  <1> QED
    BY <1>1, <1>3, <1>4 DEF ReadInv

\* A script's step only ever starts a newer build.
LEMMA GenerationGrows ==
    ASSUME StoreTypeOK, [StoreStep]_storeVars
    PROVE  gen' \in Nat /\ gen' >= gen
  <1>1. gen \in Nat
    BY ArtifactStoreAssumption DEF StoreTypeOK
  <1>2. gen' = gen + 1 \/ gen' = gen
    <2>1. ASSUME NEW part \in Parts, OpenFile(part) \/ FillFile(part)
          PROVE  gen' = gen
      BY <2>1 DEF OpenFile, FillFile
    <2> QED
      BY <2>1
         DEF StoreStep, storeVars, StartBuild, StartClean, RemoveFile,
             RemoveRoot, MakeRoot, Compiled, Abort
  <1> QED
    BY <1>1, <1>2

\* Writing one file: the others are as they were.
LEMMA OpenIsLocal ==
    ASSUME StoreTypeOK, NEW part \in Parts, OpenFile(part),
           NEW t \in Tools, t = ToolOrder[next]
    PROVE  /\ files'[t][part] = [gen |-> gen, whole |-> FALSE]
           /\ \A u \in Tools, p \in Parts :
                 (u # t \/ p # part) => files'[u][p] = files[u][p]
           /\ Present(t, part) => files[t][part].gen # gen
           /\ \A before \in PartsBefore[part] : WrittenByThisBuild(t, before)
           /\ phase = "packaging"
           /\ UNCHANGED <<root, phase, gen, next, cleaned>>
  BY DEF OpenFile, StoreTypeOK

LEMMA FillIsLocal ==
    ASSUME StoreTypeOK, NEW part \in Parts, FillFile(part),
           NEW t \in Tools, t = ToolOrder[next]
    PROVE  /\ files'[t][part] = [files[t][part] EXCEPT !.whole = TRUE]
           /\ \A u \in Tools, p \in Parts :
                 (u # t \/ p # part) => files'[u][p] = files[u][p]
           /\ Present(t, part) /\ ~Whole(t, part)
           /\ phase = "packaging"
           /\ phase' \in {"packaging", "published"}
           /\ UNCHANGED <<root, gen, cleaned>>
  BY DEF FillFile, StoreTypeOK

\* What a filled file is.
LEMMA FilledIsWhole ==
    ASSUME StoreTypeOK, NEW part \in Parts, FillFile(part),
           NEW t \in Tools, t = ToolOrder[next]
    PROVE  /\ files'[t][part] # Absent
           /\ files'[t][part].whole
           /\ files'[t][part].gen = files[t][part].gen
  <1>1. files[t][part] \in WrittenFiles
    <2>1. Present(t, part)
      BY FillIsLocal
    <2> QED
      BY <2>1 DEF StoreTypeOK, Present
  <1>2. files'[t][part] = [files[t][part] EXCEPT !.whole = TRUE]
    BY FillIsLocal
  <1>3. files'[t][part] \in WrittenFiles
    BY <1>1, <1>2 DEF WrittenFiles
  <1> QED
    BY <1>1, <1>2, <1>3, ArtifactStoreAssumption DEF WrittenFiles

\* The tool that is packaged.
LEMMA ToolBeingPackaged ==
    ASSUME StoreTypeOK, phase = "packaging"
    PROVE  \E t \in Tools : t = ToolOrder[next]
  BY IndexIsTool DEF StoreTypeOK

LEMMA StoreStepKeepsReadInv ==
    ReadInv /\ [StoreStep]_storeVars => ReadInv'
  <1> SUFFICES ASSUME ReadInv, [StoreStep]_storeVars PROVE ReadInv'
    OBVIOUS
  <1> USE DEF ReadInv
  <1>1. StoreInv' /\ StoreTypeOK /\ StoreTypeOK'
    BY StoreStepKeepsInv DEF StoreInv
  <1>2. gen \in Nat /\ gen' \in Nat /\ gen <= gen'
    BY <1>1, GenerationGrows, ArtifactStoreAssumption DEF StoreTypeOK
  <1>3. RootWhileWriting'
    <2> USE DEF RootWhileWriting
    <2>1. CASE \E part \in Parts : OpenFile(part) \/ FillFile(part)
      <3>1. UNCHANGED root /\ phase = "packaging"
        BY <2>1 DEF OpenFile, FillFile
      <3> QED
        BY <3>1
    <2>2. CASE \E tool \in Tools, part \in Parts : RemoveFile(tool, part)
      BY <2>2 DEF RemoveFile
    <2>3. CASE StartBuild \/ StartClean \/ RemoveRoot \/ MakeRoot
               \/ Compiled \/ Abort \/ UNCHANGED storeVars
      BY <2>3 DEF StartBuild, PhaseAfterStart, StartClean, RemoveRoot,
                  MakeRoot, Compiled, Abort, storeVars
    <2> QED
      BY <2>1, <2>2, <2>3 DEF StoreStep
  <1>4. CASE UNCHANGED files /\ ~(phase' = "cleaning" /\ phase # "cleaning")
    <2>1. \A tool \in Tools, part \in Parts :
             /\ Present(tool, part)' <=> Present(tool, part)
             /\ Whole(tool, part)' <=> Whole(tool, part)
      BY <1>4 DEF Present, Whole
    <2>2. FilesAreOlder'
      <3> SUFFICES ASSUME NEW tool \in Tools, NEW part \in Parts,
                          Present(tool, part)'
                   PROVE  /\ files'[tool][part].gen \in 0..gen'
                          /\ phase' = "cleaning" =>
                                files'[tool][part].gen < gen'
        BY DEF FilesAreOlder
      <3>1. /\ files[tool][part].gen \in 0..gen
            /\ phase = "cleaning" => files[tool][part].gen < gen
        BY <2>1 DEF FilesAreOlder
      <3> QED
        BY <3>1, <1>2, <1>4
    <2> QED
      BY <1>1, <1>3, <2>1, <2>2 DEF ManifestBesideWholeModule, Parts
  <1>5. CASE StartBuild
    <2>1. gen' = gen + 1 /\ UNCHANGED files
      BY <1>5 DEF StartBuild
    <2>2. \A tool \in Tools, part \in Parts :
             /\ Present(tool, part)' <=> Present(tool, part)
             /\ Whole(tool, part)' <=> Whole(tool, part)
      BY <2>1 DEF Present, Whole
    <2>3. FilesAreOlder'
      <3> SUFFICES ASSUME NEW tool \in Tools, NEW part \in Parts,
                          Present(tool, part)'
                   PROVE  files'[tool][part].gen \in 0..(gen' - 1)
        BY <1>2 DEF FilesAreOlder
      <3>1. files[tool][part].gen \in 0..gen
        BY <2>2 DEF FilesAreOlder
      <3> QED
        BY <3>1, <1>2, <2>1
    <2> QED
      BY <1>1, <1>3, <2>2, <2>3 DEF ManifestBesideWholeModule, Parts
  <1>6. ASSUME NEW tool \in Tools, NEW part \in Parts, RemoveFile(tool, part)
        PROVE  FilesAreOlder' /\ ManifestBesideWholeModule'
    <2>1. /\ UNCHANGED <<gen, phase>>
          /\ \A u \in Tools, p \in Parts : Present(u, p)' =>
                Present(u, p) /\ files'[u][p] = files[u][p]
      BY <1>1, <1>6 DEF RemoveFile, Present, StoreTypeOK
    <2> QED
      BY <2>1 DEF FilesAreOlder, ManifestBesideWholeModule, Whole, Parts
  <1>7. ASSUME NEW part \in Parts, OpenFile(part)
        PROVE  FilesAreOlder' /\ ManifestBesideWholeModule'
    <2>1. PICK t \in Tools : t = ToolOrder[next]
      BY <1>1, <1>7, ToolBeingPackaged DEF OpenFile
    <2>2. /\ files'[t][part] = [gen |-> gen, whole |-> FALSE]
          /\ \A u \in Tools, p \in Parts :
                (u # t \/ p # part) => files'[u][p] = files[u][p]
          /\ Present(t, part) => files[t][part].gen # gen
          /\ \A before \in PartsBefore[part] : WrittenByThisBuild(t, before)
          /\ phase = "packaging"
          /\ UNCHANGED <<phase, gen>>
      BY <1>1, <1>7, <2>1, OpenIsLocal
    <2>3. FilesAreOlder'
      BY <1>2, <2>2 DEF FilesAreOlder, Present
    <2>4. part = "module" => ~Present(t, "manifest")
      BY <1>7, <2>1, <2>2
         DEF StoreInv, PackagedInOrder, PartlyPackaged, PartsBefore, Parts,
             WrittenByThisBuild, Whole
    <2>5. ManifestBesideWholeModule'
      <3> SUFFICES ASSUME NEW u \in Tools, Present(u, "manifest")',
                          Present(u, "module")'
                   PROVE  Whole(u, "module")'
        BY DEF ManifestBesideWholeModule
      <3>1. CASE u # t
        BY <2>2, <3>1 DEF ManifestBesideWholeModule, Present, Whole, Parts
      <3>2. CASE u = t /\ part = "module"
        BY <2>2, <2>4, <3>2 DEF Present, Parts
      <3>3. CASE u = t /\ part = "manifest"
        BY <2>2, <3>3 DEF PartsBefore, WrittenByThisBuild, Present, Whole,
                          Parts
      <3>4. CASE u = t /\ part = "checksum"
        BY <2>2, <3>4 DEF PartsBefore, WrittenByThisBuild, Present, Whole,
                          Parts
      <3> QED
        BY <3>1, <3>2, <3>3, <3>4 DEF Parts
    <2> QED
      BY <2>3, <2>5
  <1>8. ASSUME NEW part \in Parts, FillFile(part)
        PROVE  FilesAreOlder' /\ ManifestBesideWholeModule'
    <2>1. PICK t \in Tools : t = ToolOrder[next]
      BY <1>1, <1>8, ToolBeingPackaged DEF FillFile
    <2>2. /\ \A u \in Tools, p \in Parts :
                (u # t \/ p # part) => files'[u][p] = files[u][p]
          /\ Present(t, part)
          /\ phase' # "cleaning" /\ UNCHANGED gen
      BY <1>1, <1>8, <2>1, FillIsLocal
    <2>3. /\ files'[t][part] # Absent
          /\ files'[t][part].whole
          /\ files'[t][part].gen = files[t][part].gen
      BY <1>1, <1>8, <2>1, FilledIsWhole
    <2>4. FilesAreOlder'
      BY <2>2, <2>3 DEF FilesAreOlder, Present
    <2>5. ManifestBesideWholeModule'
      BY <2>2, <2>3 DEF ManifestBesideWholeModule, Present, Whole, Parts
    <2> QED
      BY <2>4, <2>5
  <1>9. CASE StartClean \/ RemoveRoot \/ MakeRoot \/ Compiled \/ Abort
    <2>1. UNCHANGED files /\ phase' # "cleaning"
      BY <1>9 DEF StartClean, RemoveRoot, MakeRoot, Compiled, Abort
    <2> QED
      BY <1>4, <2>1
  <1> QED
    BY <1>1, <1>3, <1>4, <1>5, <1>6, <1>7, <1>8, <1>9
       DEF StoreStep, storeVars
=============================================================================

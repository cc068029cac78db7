--------------------------- MODULE WikiExportProofs ---------------------------
(* Theorems about WikiExport, for every set of pages and links.             *)
EXTENDS WikiExport, TLAPS

Files == Renderings \cup {NoFile}

LEMMA LoadedType ==
    ASSUME TypeOK PROVE Loaded \in [Pages -> Files]
  BY DEF TypeOK, Loaded, Nothing, Files

LEMMA AppendedType ==
    ASSUME TypeOK, NEW lines \in [Pages -> Seq(Actions)]
    PROVE  Appended(lines) \in [Pages -> Seq(Actions)]
  <1>1. ASSUME NEW p \in Pages, entries[p] # "none"
        PROVE  Append(lines[p], entries[p]) \in Seq(Actions)
    <2>1. entries[p] \in Actions /\ lines[p] \in Seq(Actions)
      BY <1>1 DEF TypeOK
    <2> QED BY <2>1
  <1> QED BY <1>1 DEF Appended

LEMMA TypesInit == Init => TypeOK
  <1> SUFFICES ASSUME Init PROVE TypeOK
    OBVIOUS
  <1> USE ExportAssumption
  <1>1. log \in [Pages -> Seq(Actions)]
    BY DEF Init
  <1> QED BY <1>1 DEF Init, TypeOK, Nothing, NoEntry, Phases

(* Every value of every variable is of its type. *)
LEMMA TypesNext == TypeOK /\ [Next]_vars => TypeOK'
  <1> SUFFICES ASSUME TypeOK, [Next]_vars PROVE TypeOK'
    OBVIOUS
  <1> USE ExportAssumption DEF Files
  <1>1. CASE UNCHANGED vars
    BY <1>1 DEF TypeOK, vars, database, bundle, memory
  <1>2. CASE Run /\ UNCHANGED local
    <2> USE <1>2 DEF bundle, database, memory, Phases
    <2>1. CASE LoadManifest
      BY <2>1, LoadedType DEF LoadManifest, TypeOK
    <2>2. CASE LoadFails
      <3>1. runs' \in 0..MaxRuns /\ faults' \in 0..MaxFaults
        BY <2>2 DEF LoadFails, TypeOK, Fault
      <3>2. old' \in [Pages -> Renderings \cup {NoFile}]
        BY <2>2 DEF LoadFails, Nothing
      <3> QED BY <2>2, <3>1, <3>2, Zenon DEF LoadFails, TypeOK
    <2>3. CASE ReadNames
      BY <2>3 DEF ReadNames, TypeOK
    <2>4. CASE ReadPages
      <3>1. \A p \in Pages : Rendered(p) \in Renderings
        BY DEF Rendered, Renderings, TypeOK
      <3> QED BY <2>4, <3>1 DEF ReadPages, TypeOK
    <2>5. ASSUME NEW p \in Pages, WritePage(p) PROVE TypeOK'
      BY <2>5 DEF WritePage, TypeOK, Action, Actions
    <2>6. ASSUME NEW p \in Pages, TearPage(p) PROVE TypeOK'
      BY <2>6 DEF TearPage, Abandon, TypeOK, Fault, NoEntry, Written
    <2>7. CASE FindOrphans
      BY <2>7 DEF FindOrphans, TypeOK, Removed, Actions
    <2>8. ASSUME NEW p \in Pages, DeleteOrphan(p) PROVE TypeOK'
      BY <2>8 DEF DeleteOrphan, TypeOK
    <2>9. ASSUME NEW p \in Pages, DeleteFails(p) PROVE TypeOK'
      BY <2>9 DEF DeleteFails, TypeOK, Fault
    <2>10. CASE WriteIndexes
      BY <2>10 DEF WriteIndexes, TypeOK
    <2>11. CASE SaveManifest
      BY <2>11 DEF SaveManifest, TypeOK
    <2>12. CASE TearManifest
      <3>1. faults' \in 0..MaxFaults
        BY <2>12 DEF TearManifest, Abandon, TypeOK, Fault
      <3>2. entries' \in [Pages -> Actions \cup {"none"}]
        BY <2>12 DEF TearManifest, Abandon, NoEntry
      <3>3. dirty' \subseteq Pages
        BY <2>12 DEF TearManifest, TypeOK, Written
      <3> QED BY <2>12, <3>1, <3>2, <3>3, Zenon DEF TearManifest, Abandon, TypeOK
    <2>13. CASE FlushLog
      <3>1. log' \in [Pages -> Seq(Actions)]
        BY <2>13, AppendedType DEF FlushLog, TypeOK
      <3> QED BY <2>13, <3>1 DEF FlushLog, TypeOK, NoEntry
    <2>14. CASE LogReadFails
      <3>1. [p \in Pages |-> <<>>] \in [Pages -> Seq(Actions)]
        OBVIOUS
      <3>2. log' \in [Pages -> Seq(Actions)]
        BY <2>14, <3>1, AppendedType DEF LogReadFails
      <3>3. faults' \in 0..MaxFaults
        BY <2>14 DEF LogReadFails, TypeOK, Fault
      <3>4. entries' \in [Pages -> Actions \cup {"none"}]
        BY <2>14 DEF LogReadFails, NoEntry
      <3> QED BY <2>14, <3>2, <3>3, <3>4, Zenon DEF LogReadFails, TypeOK
    <2>15. CASE LoseEntries
      <3>1. [p \in Pages |-> <<>>] \in [Pages -> Seq(Actions)]
        OBVIOUS
      <3>2. log' \in [Pages -> Seq(Actions)]
        BY <2>15, <3>1 DEF LoseEntries, TypeOK
      <3>3. faults' \in 0..MaxFaults
        BY <2>15 DEF LoseEntries, Abandon, TypeOK, Fault
      <3>4. entries' \in [Pages -> Actions \cup {"none"}]
        BY <2>15 DEF LoseEntries, Abandon, NoEntry
      <3> QED BY <2>15, <3>2, <3>3, <3>4, Zenon DEF LoseEntries, Abandon, TypeOK
    <2>16. CASE BreakOff
      BY <2>16 DEF BreakOff, Abandon, TypeOK, NoEntry, Fault, Written
    <2> QED
      BY <1>2, <2>1, <2>2, <2>3, <2>4, <2>5, <2>6, <2>7, <2>8, <2>9, <2>10, <2>11,
         <2>12, <2>13, <2>14, <2>15, <2>16 DEF Run
  <1>3. ASSUME NEW p \in Pages, Synthesize(p) /\ UNCHANGED local PROVE TypeOK'
    BY <1>3 DEF Synthesize, TypeOK, bundle, memory
  <1>4. ASSUME NEW p \in Pages, RemovePage(p) /\ UNCHANGED local PROVE TypeOK'
    BY <1>4 DEF RemovePage, TypeOK, bundle, memory
  <1> QED BY <1>1, <1>2, <1>3, <1>4 DEF Next

-----------------------------------------------------------------------------

(* The invariant behind PagesRepaired.  Between runs the manifest, as far as *)
(* it can be read, describes every file that no broken run has changed, and  *)
(* no pending entry stands for; during a run `old` repeats the manifest or   *)
(* is empty, so that a page that is not written again needs none.            *)
BeforeSave == {"mapping", "selecting", "writing", "deleting", "saving"}

ManifestDescribes ==
    \A p \in Pages :
        manifest # Torn /\ manifest[p] # NoFile /\ p \notin dirty /\ entries[p] = "none"
            => file[p] = manifest[p]

LoadedFromManifest ==
    phase \in BeforeSave =>
        \A p \in Pages : old[p] # NoFile => manifest # Torn /\ manifest[p] = old[p]

NothingQueued ==
    phase \in {"idle", "mapping", "selecting"} => \A p \in Pages : entries[p] = "none"

IsCurrent(p) == snap[p] # NoFile /\ file[p] # snap[p] => p \in dirty /\ old[p] = snap[p]

WritesTheRest == phase = "writing" => \A p \in Pages \ todo : IsCurrent(p)

DeletesOrphans ==
    phase = "deleting" => \A p \in todo : snap[p] = NoFile /\ entries[p] # "none"

SavedSnapshot == phase = "logging" => manifest = snap

RepairInv ==
    /\ ManifestDescribes
    /\ LoadedFromManifest
    /\ NothingQueued
    /\ WritesTheRest
    /\ DeletesOrphans
    /\ SavedSnapshot
    /\ PagesRepaired

LEMMA RepairInit == Init => RepairInv
  BY DEF Init, RepairInv, ManifestDescribes, LoadedFromManifest, NothingQueued,
         WritesTheRest, DeletesOrphans, SavedSnapshot, PagesRepaired, PagesWritten,
         Nothing, NoEntry, BeforeSave

LEMMA RepairNext == TypeOK /\ RepairInv /\ [Next]_vars => RepairInv'
  <1> SUFFICES ASSUME TypeOK, RepairInv, [Next]_vars PROVE RepairInv'
    OBVIOUS
  <1> USE ExportAssumption DEF RepairInv, ManifestDescribes, LoadedFromManifest,
        NothingQueued, WritesTheRest, DeletesOrphans, SavedSnapshot, PagesRepaired,
        PagesWritten, IsCurrent, BeforeSave
  <1>1. CASE UNCHANGED vars
    BY <1>1 DEF vars, database, bundle, memory
  <1>2. CASE Run
    <2> USE DEF bundle, database, memory, TypeOK
    <2>1. CASE LoadManifest
      BY <2>1 DEF LoadManifest, Loaded, Nothing
    <2>2. CASE LoadFails
      BY <2>2 DEF LoadFails, Nothing
    <2>3. CASE ReadNames
      BY <2>3 DEF ReadNames
    <2>4. CASE ReadPages
      BY <2>4 DEF ReadPages, Unchanged
    <2>5. ASSUME NEW p \in Pages, WritePage(p) PROVE RepairInv'
      BY <2>5 DEF WritePage, Action
    <2>6. ASSUME NEW p \in Pages, TearPage(p) PROVE RepairInv'
      BY <2>6 DEF TearPage, Abandon, NoEntry, Written
    <2>7. CASE FindOrphans
      BY <2>7 DEF FindOrphans, Removed
    <2>8. ASSUME NEW p \in Pages, DeleteOrphan(p) PROVE RepairInv'
      BY <2>8 DEF DeleteOrphan
    <2>9. ASSUME NEW p \in Pages, DeleteFails(p) PROVE RepairInv'
      BY <2>9 DEF DeleteFails
    <2>10. CASE WriteIndexes
      BY <2>10 DEF WriteIndexes
    <2>11. CASE SaveManifest
      BY <2>11 DEF SaveManifest
    <2>12. CASE TearManifest
      BY <2>12 DEF TearManifest, Abandon, NoEntry, Written
    <2>13. CASE FlushLog
      BY <2>13 DEF FlushLog, NoEntry
    <2>14. CASE LogReadFails
      BY <2>14 DEF LogReadFails, NoEntry
    <2>15. CASE LoseEntries
      BY <2>15 DEF LoseEntries, Abandon, NoEntry
    <2>16. CASE BreakOff
      BY <2>16 DEF BreakOff, Abandon, NoEntry, Written
    <2> QED
      BY <1>2, <2>1, <2>2, <2>3, <2>4, <2>5, <2>6, <2>7, <2>8, <2>9, <2>10, <2>11,
         <2>12, <2>13, <2>14, <2>15, <2>16 DEF Run
  <1>3. ASSUME NEW p \in Pages, Synthesize(p) \/ RemovePage(p) PROVE RepairInv'
    BY <1>3 DEF Synthesize, RemovePage, bundle, memory
  <1> QED BY <1>1, <1>2, <1>3 DEF Next

(* Whatever breaks off, tears or cannot be read: a run that has written its  *)
(* pages leaves every published page as it rendered it, but for a file that  *)
(* a broken run changed and whose page has returned to what the manifest     *)
(* says.                                                                     *)
THEOREM ExportRepairs == Spec => [](TypeOK /\ PagesRepaired)
  <1>1. Init => TypeOK /\ RepairInv
    BY TypesInit, RepairInit
  <1>2. TypeOK /\ RepairInv /\ [Next]_vars => (TypeOK /\ RepairInv)'
    BY TypesNext, RepairNext
  <1>3. TypeOK /\ RepairInv => TypeOK /\ PagesRepaired
    BY DEF RepairInv
  <1> QED BY <1>1, <1>2, <1>3, PTL DEF Spec

(* Pages, files, manifest and log keep their types through every failure.    *)
THEOREM ExportTypes == Spec => []TypeOK
BY ExportRepairs, PTL

-----------------------------------------------------------------------------
(* Without failures the manifest stays with the files between runs, and a    *)
(* run brings each page from the one to the snapshot.                        *)

IndexOf(pages) == {p \in Pages : pages[p] # NoFile}

ManifestLoaded == manifest # Torn /\ (phase \in BeforeSave => old = manifest)

Mirrored ==
    /\ phase \in {"idle", "mapping", "selecting"} => file = manifest
    /\ phase = "writing" => \A p \in Pages :
            IF p \in todo THEN snap[p] # NoFile
            ELSE file[p] = IF snap[p] = NoFile THEN old[p] ELSE snap[p]
    /\ phase = "deleting" => \A p \in Pages :
            IF p \in todo THEN snap[p] = NoFile ELSE file[p] = snap[p]
    /\ phase \in {"saving", "logging"} => file = snap /\ index = IndexOf(snap)
    /\ phase = "logging" => manifest = snap

MirrorInv == faults = 0 => ManifestLoaded /\ Mirrored

LEMMA MirrorNext == TypeOK /\ MirrorInv /\ [Next]_vars => MirrorInv'
  <1> SUFFICES ASSUME TypeOK, MirrorInv, [Next]_vars, faults' = 0
               PROVE  ManifestLoaded' /\ Mirrored'
    BY DEF MirrorInv
  <1> USE ExportAssumption DEF MirrorInv, ManifestLoaded, Mirrored, BeforeSave, IndexOf
  <1>0. ASSUME Fault PROVE FALSE
    BY <1>0 DEF Fault, TypeOK
  <1>1. CASE UNCHANGED vars
    BY <1>1 DEF vars, database, bundle, memory
  <1>2. CASE Run
    <2> USE DEF bundle, database, memory, TypeOK
    <2>1. CASE LoadManifest
      BY <2>1 DEF LoadManifest, Loaded
    <2>2. CASE ReadNames
      BY <2>2 DEF ReadNames
    <2>3. CASE ReadPages
      <3>1. \A p \in Pages : Rendered(p) \in Renderings
        BY DEF Rendered, Renderings
      <3> QED BY <2>3, <3>1 DEF ReadPages, Unchanged
    <2>4. ASSUME NEW p \in Pages, WritePage(p) PROVE ManifestLoaded' /\ Mirrored'
      BY <2>4 DEF WritePage
    <2>5. CASE FindOrphans
      BY <2>5 DEF FindOrphans, Removed
    <2>6. ASSUME NEW p \in Pages, DeleteOrphan(p) PROVE ManifestLoaded' /\ Mirrored'
      BY <2>6 DEF DeleteOrphan
    <2>7. CASE WriteIndexes
      BY <2>7 DEF WriteIndexes
    <2>8. CASE SaveManifest
      BY <2>8 DEF SaveManifest
    <2>9. CASE FlushLog
      BY <2>9 DEF FlushLog
    <2> QED
      BY <1>0, <1>2, <2>1, <2>2, <2>3, <2>4, <2>5, <2>6, <2>7, <2>8, <2>9
         DEF Run, LoadFails, DeleteFails, LogReadFails, BreakOff, TearPage, TearManifest,
             LoseEntries, Abandon
  <1>3. ASSUME NEW p \in Pages, Synthesize(p) \/ RemovePage(p)
        PROVE  ManifestLoaded' /\ Mirrored'
    BY <1>3 DEF Synthesize, RemovePage, bundle, memory
  <1> QED BY <1>1, <1>2, <1>3 DEF Next

(* Without failures a run leaves files, index and manifest as its queries    *)
(* found the pages, for every set of pages, links, rewrites and removals.    *)
THEOREM ExportMirrors == Spec => []MirrorsDatabase
  <1>1. Init => MirrorInv
    BY ExportAssumption
       DEF Init, MirrorInv, ManifestLoaded, Mirrored, BeforeSave, Nothing
  <1>2. TypeOK /\ MirrorInv => MirrorsDatabase
    BY DEF MirrorInv, Mirrored, MirrorsDatabase, IndexOf
  <1> QED BY <1>1, <1>2, MirrorNext, ExportRepairs, PTL DEF Spec

-----------------------------------------------------------------------------
(* The lives of the pages in the log.                                        *)

IsLife(lines) ==
    /\ lines # <<>> => lines[1] = "added"
    /\ \A i \in 2 .. Len(lines) : MayFollow(lines[i - 1], lines[i])

IsAlive(lines) == lines # <<>> /\ lines[Len(lines)] # "removed"

(* What a line still to be written says of a page that was in `before` and   *)
(* is in `after`.                                                            *)
Tells(line, before, after) ==
    CASE line = "added"    -> ~before /\ after
      [] line = "modified" -> before /\ after
      [] line = "removed"  -> before /\ ~after
      [] OTHER             -> before <=> after

EntriesTell ==
    /\ phase = "writing" => \A p \in Pages :
            IF p \in todo THEN entries[p] = "none" /\ snap[p] # NoFile
            ELSE IF snap[p] = NoFile THEN entries[p] = "none"
            ELSE Tells(entries[p], old[p] # NoFile, TRUE)
    /\ phase \in {"deleting", "saving"} => \A p \in Pages :
            Tells(entries[p], old[p] # NoFile, snap[p] # NoFile)
    /\ phase = "logging" => \A p \in Pages :
            Tells(entries[p], IsAlive(log[p]), Listed(p))

LogInv ==
    intact =>
        /\ ManifestLoaded
        /\ EntriesTell
        /\ \A p \in Pages : IsLife(log[p])
        /\ phase # "logging" => \A p \in Pages : Listed(p) <=> IsAlive(log[p])

(* Every line but "added" goes on with the life of a page, and only that one *)
(* begins it, also a second time.                                            *)
LEMMA LifeGoesOn ==
    ASSUME NEW lines \in Seq(Actions), IsLife(lines), NEW line \in Actions,
           line = "added" <=> ~IsAlive(lines)
    PROVE  LET longer == Append(lines, line)
           IN  IsLife(longer) /\ (IsAlive(longer) <=> line # "removed")
  <1> DEFINE longer == Append(lines, line)
  <1>1. /\ Len(longer) = Len(lines) + 1 /\ longer # <<>> /\ longer[Len(longer)] = line
        /\ \A i \in 1 .. Len(lines) : longer[i] = lines[i]
        /\ Len(lines) \in Nat /\ (lines = <<>> <=> Len(lines) = 0)
    OBVIOUS
  <1>2. IsAlive(longer) <=> line # "removed"
    BY <1>1 DEF IsAlive
  <1>3. longer[1] = "added"
    BY <1>1 DEF IsAlive, IsLife
  <1>4. lines # <<>> => MayFollow(lines[Len(lines)], line)
    BY DEF IsAlive, MayFollow
  <1>5. ASSUME NEW i \in 2 .. Len(longer) PROVE MayFollow(longer[i - 1], longer[i])
    BY <1>1, <1>4, <1>5 DEF IsLife
  <1> QED BY <1>1, <1>2, <1>3, <1>5 DEF IsLife

LEMMA LogNext == TypeOK /\ NothingQueued /\ LogInv /\ [Next]_vars => LogInv'
  <1> DEFINE Alive == \A p \in Pages : Listed(p) <=> IsAlive(log[p])
             Goal == /\ ManifestLoaded /\ EntriesTell
                     /\ \A p \in Pages : IsLife(log[p])
                     /\ phase # "logging" => Alive
  <1> SUFFICES ASSUME TypeOK, NothingQueued, LogInv, [Next]_vars, intact'
               PROVE  Goal'
    BY DEF LogInv
  <1>0. Goal
    <2>1. intact
      BY DEF Next, Run, LoadManifest, LoadFails, ReadNames, ReadPages, WritePage, TearPage,
             FindOrphans, DeleteOrphan, DeleteFails, WriteIndexes, SaveManifest, TearManifest,
             FlushLog, LogReadFails, LoseEntries, BreakOff, Abandon, Synthesize, RemovePage, vars
    <2> QED BY <2>1 DEF LogInv
  <1> USE ExportAssumption DEF ManifestLoaded, EntriesTell, Listed, BeforeSave
  <1>1. CASE UNCHANGED vars
    BY <1>0, <1>1 DEF vars, database, bundle, memory
  <1>2. CASE Run
    <2> USE <1>0 DEF bundle, database, memory, TypeOK, NothingQueued
    <2>1. CASE LoadManifest
      BY <2>1 DEF LoadManifest, Loaded
    <2>2. CASE ReadNames
      BY <2>2 DEF ReadNames
    <2>3. CASE ReadPages
      <3>1. \A p \in Pages : Rendered(p) \in Renderings
        BY DEF Rendered, Renderings
      <3>2. /\ UNCHANGED <<manifest, log, old, entries>>
            /\ phase = "selecting" /\ phase' = "writing"
        BY <2>3 DEF ReadPages
      <3>3. ASSUME NEW p \in Pages
            PROVE  IF p \in todo' THEN entries'[p] = "none" /\ snap'[p] # NoFile
                   ELSE IF snap'[p] = NoFile THEN entries'[p] = "none"
                   ELSE Tells(entries'[p], old'[p] # NoFile, TRUE)
        BY <2>3, <3>1 DEF ReadPages, Unchanged, Tells
      <3> QED BY <3>2, <3>3
    <2>4. ASSUME NEW p \in Pages, WritePage(p) PROVE Goal'
      BY <2>4 DEF WritePage, Action, Tells
    <2>5. ASSUME NEW p \in Pages, TearPage(p) PROVE Goal'
      BY <2>5 DEF TearPage, Abandon
    <2>6. CASE FindOrphans
      <3>1. /\ UNCHANGED <<manifest, log, old, snap>>
            /\ phase = "writing" /\ phase' = "deleting" /\ todo = {}
            /\ entries' = [p \in Pages |-> IF p \in Removed THEN "removed" ELSE entries[p]]
        BY <2>6 DEF FindOrphans
      <3>2. ASSUME NEW p \in Pages
            PROVE  Tells(entries'[p], old'[p] # NoFile, snap'[p] # NoFile)
        BY <3>1 DEF Removed, Tells
      <3> QED BY <3>1, <3>2
    <2>7. ASSUME NEW p \in Pages, DeleteOrphan(p) \/ DeleteFails(p) PROVE Goal'
      BY <2>7 DEF DeleteOrphan, DeleteFails
    <2>8. CASE WriteIndexes
      BY <2>8 DEF WriteIndexes
    <2>9. CASE SaveManifest
      <3>1. /\ UNCHANGED <<log, entries>> /\ manifest' = snap
            /\ phase = "saving" /\ phase' = "logging" /\ old = manifest
        BY <2>9 DEF SaveManifest
      <3>2. ASSUME NEW p \in Pages
            PROVE  Tells(entries'[p], IsAlive(log[p])', Listed(p)')
        BY <3>1 DEF Tells
      <3> QED BY <3>1, <3>2
    <2>10. CASE FlushLog
      <3>1. /\ UNCHANGED manifest /\ phase = "logging" /\ phase' = "idle"
            /\ log' = [p \in Pages |-> IF entries[p] = "none" THEN log[p]
                                       ELSE Append(log[p], entries[p])]
        BY <2>10 DEF FlushLog, Appended
      <3>2. ASSUME NEW p \in Pages
            PROVE  IsLife(log'[p]) /\ (Listed(p) <=> IsAlive(log'[p]))
        <4>1. CASE entries[p] = "none"
          BY <3>1, <4>1 DEF Tells
        <4>2. CASE entries[p] # "none"
          <5>1. log'[p] = Append(log[p], entries[p])
            BY <3>1, <4>2
          <5>2. entries[p] \in Actions /\ log[p] \in Seq(Actions)
            BY <4>2
          <5>3. /\ IsLife(log[p])
                /\ entries[p] = "added" <=> ~IsAlive(log[p])
                /\ Listed(p) <=> entries[p] # "removed"
            BY <3>1, <5>2 DEF Tells, Actions
          <5> QED BY <5>1, <5>2, <5>3, LifeGoesOn
        <4> QED BY <4>1, <4>2
      <3> QED BY <3>1, <3>2
    <2>11. CASE BreakOff
      BY <2>11 DEF BreakOff, Abandon
    <2> QED
      BY <1>2, <2>1, <2>2, <2>3, <2>4, <2>5, <2>6, <2>7, <2>8, <2>9, <2>10, <2>11
         DEF Run, LoadFails, TearManifest, LogReadFails, LoseEntries
  <1>3. ASSUME NEW p \in Pages, Synthesize(p) \/ RemovePage(p) PROVE Goal'
    BY <1>0, <1>3 DEF Synthesize, RemovePage, bundle, memory
  <1> QED BY <1>1, <1>2, <1>3 DEF Next

(* As long as manifest and log never came apart, the log tells a well-formed *)
(* life of every page and ends with what the manifest says: runs that break  *)
(* off before they save the manifest do not disturb it.                      *)
THEOREM LogStaysTrue == Spec => []LogTellsLives
  <1>1. Init => LogInv
    BY ExportAssumption
       DEF Init, LogInv, ManifestLoaded, EntriesTell, IsLife, IsAlive, Listed, BeforeSave, Nothing
  <1>2. LogInv => LogTellsLives
    BY DEF LogInv, LogTellsLives, IsLife, IsAlive
  <1>3. RepairInv => NothingQueued
    BY DEF RepairInv
  <1> QED
    BY <1>1, <1>2, <1>3, LogNext, TypesInit, TypesNext, RepairInit, RepairNext, PTL DEF Spec
=============================================================================

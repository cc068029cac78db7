------------------------------ MODULE WikiExport ------------------------------
(***************************************************************************)
(* export_bundle (wiki/export.py): runs of `rag-wiki export` that bring a  *)
(* bundle of files up to date with the published pages, by comparison with *)
(* the manifest of hashes that the last run saved.  Workers rewrite pages  *)
(* meanwhile, an operator may delete them from the database, and a run may *)
(* break off at any point.                                                 *)
(*                                                                         *)
(* A file, or its hash in the manifest, is the rendering of a page: the    *)
(* version of its row, and the pages it links to that show their display   *)
(* name instead of their slug.  index.md, entities/index.md and            *)
(* sources/index.md are one variable: they are written in a row and never  *)
(* read back.  Two runs at the same time are left out: one operator.       *)
(***************************************************************************)
EXTENDS Naturals, Sequences

CONSTANTS
    Pages,
    LinksTo,       (* the pages that a page's text links to                 *)
    NoFile, Torn,  (* in place of a rendering: no file, or half of one      *)
    MaxVersion, MaxRemovals, MaxRuns,
    MaxFaults      (* bounds; faults: failures of the storage, crashes      *)

Renderings == [version : Nat, labels : SUBSET Pages]

ASSUME ExportAssumption ==
    /\ LinksTo \in [Pages -> SUBSET Pages]
    /\ NoFile \notin Renderings /\ Torn \notin Renderings /\ NoFile # Torn
    /\ Torn \notin [Pages -> Renderings \cup {NoFile}]
    /\ MaxVersion \in Nat /\ MaxRemovals \in Nat /\ MaxRuns \in Nat /\ MaxFaults \in Nat

VARIABLES
    local,         (* local storage, which overwrites a file in place; S3   *)
                   (* replaces it at once                                   *)
    published, version,           (* the rows of wiki_pages                 *)
    file, manifest, index, log,   (* the bundle; log[p]: p's lines in log.md *)
    phase,         (* where the run is                                      *)
    old,           (* the manifest as loaded                                *)
    names,         (* the pages in its slug map                             *)
    snap,          (* what it renders                                       *)
    todo,          (* pages still to be written, or files to be deleted     *)
    entries,       (* log lines it has queued                               *)
    dirty,         (* history: files changed by a run that broke off, and   *)
                   (* by none since                                         *)
    intact,        (* history: manifest and log never came apart            *)
    removals, runs, faults

database == <<published, version, removals>>
bundle   == <<file, manifest, index, log>>
memory   == <<old, names, snap, todo, entries>>
vars     == <<local, database, bundle, phase, memory, dirty, intact, runs, faults>>

Nothing == [p \in Pages |-> NoFile]
NoEntry == [p \in Pages |-> "none"]

Init ==
    /\ local \in BOOLEAN
    /\ published = {} /\ version = [p \in Pages |-> 0]
    /\ file = Nothing /\ manifest = Nothing /\ index = {}
    /\ log = [p \in Pages |-> <<>>]
    /\ phase = "idle"
    /\ old = Nothing /\ names = {} /\ snap = Nothing /\ todo = {} /\ entries = NoEntry
    /\ dirty = {} /\ intact = TRUE
    /\ removals = 0 /\ runs = 0 /\ faults = 0

Fault == faults < MaxFaults /\ faults' = faults + 1

-----------------------------------------------------------------------------
(* The database *)

(* Every synthesis sets synthesized_at, which the rendering contains. *)
Synthesize(p) ==
    /\ version[p] < MaxVersion
    /\ version' = [version EXCEPT ![p] = @ + 1]
    /\ published' = published \cup {p}
    /\ UNCHANGED <<bundle, phase, memory, dirty, intact, removals, runs, faults>>

(* Nothing in the program deletes a page; docs/prd/003-okf-export-format.md  *)
(* has it done by hand.                                                      *)
RemovePage(p) ==
    /\ p \in published
    /\ removals < MaxRemovals
    /\ removals' = removals + 1
    /\ published' = published \ {p}
    /\ UNCHANGED <<version, bundle, phase, memory, dirty, intact, runs, faults>>

-----------------------------------------------------------------------------
(* The run *)

(* Mutant: a corrupt manifest is used as it is. *)
LoadedAsIs == manifest

Loaded == IF manifest = Torn THEN Nothing ELSE manifest

LoadManifest ==
    /\ phase = "idle"
    /\ runs < MaxRuns
    /\ runs' = runs + 1
    /\ old' = Loaded
    /\ phase' = "mapping"
    /\ UNCHANGED <<database, bundle, names, snap, todo, entries, dirty, intact, faults>>

(* Every error of the storage counts as "no manifest". *)
LoadFails ==
    /\ phase = "idle"
    /\ runs < MaxRuns
    /\ runs' = runs + 1
    /\ Fault
    /\ old' = Nothing
    /\ phase' = "mapping"
    /\ intact' = FALSE
    /\ UNCHANGED <<database, bundle, names, snap, todo, entries, dirty>>

(* build_slug_name_map *)
ReadNames ==
    /\ phase = "mapping"
    /\ names' = published
    /\ phase' = "selecting"
    /\ UNCHANGED <<database, bundle, old, snap, todo, entries, dirty, intact, runs, faults>>

Rendered(p) == [version |-> version[p], labels |-> LinksTo[p] \cap names]

(* Mutant: a page that the manifest knows is not written again. *)
UnchangedPath(p) == old[p] # NoFile

(* In terms of the snapshot that ReadPages takes. *)
Unchanged(p) == old[p] = snap'[p]

(* The second query; the pages are compared with the manifest in memory. *)
ReadPages ==
    /\ phase = "selecting"
    /\ snap' = [p \in Pages |-> IF p \in published THEN Rendered(p) ELSE NoFile]
    /\ todo' = {p \in published : ~ Unchanged(p)}
    /\ phase' = "writing"
    /\ UNCHANGED <<database, bundle, old, names, entries, dirty, intact, runs, faults>>

(* Mutant: "added" means that there is no such file. *)
ActionByFile(p) == IF file[p] = NoFile THEN "added" ELSE "modified"

Action(p) == IF old[p] = NoFile THEN "added" ELSE "modified"

WritePage(p) ==
    /\ phase = "writing"
    /\ p \in todo
    /\ file' = [file EXCEPT ![p] = snap[p]]
    /\ entries' = [entries EXCEPT ![p] = Action(p)]
    /\ todo' = todo \ {p}
    /\ dirty' = dirty \ {p}
    /\ UNCHANGED <<database, manifest, index, log, phase, old, names, snap, intact, runs, faults>>

(* Mutant: the two sides of removed_vs are swapped. *)
RemovedSwapped == {p \in Pages : snap[p] # NoFile /\ old[p] = NoFile}

Removed == {p \in Pages : old[p] # NoFile /\ snap[p] = NoFile}

FindOrphans ==
    /\ phase = "writing"
    /\ todo = {}
    /\ todo' = Removed
    /\ entries' = [p \in Pages |-> IF p \in Removed THEN "removed" ELSE entries[p]]
    /\ phase' = "deleting"
    /\ UNCHANGED <<database, bundle, old, names, snap, dirty, intact, runs, faults>>

(* A file that is missing already is skipped.  The order does not matter. *)
DeleteOrphan(p) ==
    /\ phase = "deleting"
    /\ p \in todo
    /\ file' = [file EXCEPT ![p] = NoFile]
    /\ todo' = todo \ {p}
    /\ dirty' = dirty \ {p}
    /\ UNCHANGED <<database, manifest, index, log, phase, old, names, snap, entries,
                   intact, runs, faults>>

(* Every error of the storage counts as "no such file". *)
DeleteFails(p) ==
    /\ phase = "deleting"
    /\ p \in todo
    /\ Fault
    /\ todo' = todo \ {p}
    /\ UNCHANGED <<database, bundle, phase, old, names, snap, entries, dirty, intact, runs>>

WriteIndexes ==
    /\ phase = "deleting"
    /\ todo = {}
    /\ index' = {p \in Pages : snap[p] # NoFile}
    /\ phase' = "saving"
    /\ UNCHANGED <<database, file, manifest, log, memory, dirty, intact, runs, faults>>

SaveManifest ==
    /\ phase = "saving"
    /\ manifest' = snap
    /\ phase' = "logging"
    /\ UNCHANGED <<database, file, index, log, memory, dirty, intact, runs, faults>>

(* What flush makes of the lines that it has read. *)
Appended(lines) ==
    [p \in Pages |-> IF entries[p] = "none" THEN lines[p] ELSE Append(lines[p], entries[p])]

FlushLog ==
    /\ phase = "logging"
    /\ log' = Appended(log)
    /\ entries' = NoEntry
    /\ phase' = "idle"
    /\ UNCHANGED <<database, file, manifest, index, old, names, snap, todo, dirty, intact,
                   runs, faults>>

(* Every error of the storage counts as "no log yet", and the log is          *)
(* overwritten.                                                              *)
LogReadFails ==
    /\ phase = "logging"
    /\ entries # NoEntry
    /\ Fault
    /\ log' = Appended([p \in Pages |-> <<>>])
    /\ entries' = NoEntry
    /\ phase' = "idle"
    /\ intact' = FALSE
    /\ UNCHANGED <<database, file, manifest, index, old, names, snap, todo, dirty, runs>>

-----------------------------------------------------------------------------
(* A write fails, and export_bundle raises, or the process ends *)

Written == {p \in Pages : entries[p] # "none"}

(* What the run has queued is lost with it. *)
Abandon ==
    /\ Fault
    /\ phase' = "idle"
    /\ entries' = NoEntry
    /\ UNCHANGED <<database, index, old, names, snap, todo, runs>>

BreakOff ==
    /\ phase \notin {"idle", "logging"}
    /\ Abandon
    /\ dirty' = dirty \cup Written
    /\ UNCHANGED <<file, manifest, log, intact>>

TearPage(p) ==
    /\ phase = "writing" /\ local
    /\ p \in todo
    /\ Abandon
    /\ file' = [file EXCEPT ![p] = Torn]
    /\ dirty' = dirty \cup Written \cup {p}
    /\ UNCHANGED <<manifest, log, intact>>

TearManifest ==
    /\ phase = "saving" /\ local
    /\ Abandon
    /\ manifest' = Torn
    /\ dirty' = dirty \cup Written
    /\ intact' = FALSE
    /\ UNCHANGED <<file, log>>

(* The manifest is saved, the log is not; local storage may have emptied it. *)
LoseEntries ==
    /\ phase = "logging"
    /\ Abandon
    /\ log' \in {log} \cup IF local THEN {[p \in Pages |-> <<>>]} ELSE {}
    /\ intact' = FALSE
    /\ UNCHANGED <<file, manifest, dirty>>

-----------------------------------------------------------------------------

Run ==
    \/ LoadManifest \/ LoadFails
    \/ ReadNames
    \/ ReadPages
    \/ \E p \in Pages : WritePage(p) \/ TearPage(p)
    \/ FindOrphans
    \/ \E p \in Pages : DeleteOrphan(p) \/ DeleteFails(p)
    \/ WriteIndexes
    \/ SaveManifest \/ TearManifest
    \/ FlushLog \/ LogReadFails \/ LoseEntries
    \/ BreakOff

Next ==
    /\ Run \/ \E p \in Pages : Synthesize(p) \/ RemovePage(p)
    /\ UNCHANGED local

Spec == Init /\ [][Next]_vars

-----------------------------------------------------------------------------
(* Properties *)

Phases == {"idle", "mapping", "selecting", "writing", "deleting", "saving", "logging"}

Actions == {"added", "modified", "removed"}

(* Every variable has a value of its type; a torn manifest never gets into a *)
(* run.                                                                      *)
TypeOK ==
    /\ local \in BOOLEAN /\ intact \in BOOLEAN
    /\ published \subseteq Pages /\ names \subseteq Pages /\ index \subseteq Pages
    /\ version \in [Pages -> Nat]
    /\ file \in [Pages -> Renderings \cup {NoFile, Torn}]
    /\ manifest \in [Pages -> Renderings \cup {NoFile}] \cup {Torn}
    /\ log \in [Pages -> Seq(Actions)]
    /\ phase \in Phases
    /\ old \in [Pages -> Renderings \cup {NoFile}]
    /\ snap \in [Pages -> Renderings \cup {NoFile}]
    /\ todo \subseteq Pages /\ dirty \subseteq Pages
    /\ entries \in [Pages -> Actions \cup {"none"}]
    /\ removals \in 0..MaxRemovals /\ runs \in 0..MaxRuns /\ faults \in 0..MaxFaults

PagesWritten == phase \in {"deleting", "saving", "logging"}

(* A run that has written its pages leaves the rendering of every published  *)
(* page in the bundle, whatever runs before it broke off, in whatever state  *)
(* the manifest was.  The one exception: a file that a broken run changed,   *)
(* when the page has since returned to what the manifest still says.         *)
PagesRepaired ==
    PagesWritten => \A p \in Pages :
        snap[p] # NoFile /\ file[p] # snap[p] => p \in dirty /\ old[p] = snap[p]

(* "The bundle always mirrors Postgres exactly" (ADR-0019): without failures *)
(* a run leaves files, index and manifest as its queries found the pages,    *)
(* however these change between its steps and between runs.                  *)
MirrorsDatabase ==
    faults = 0 /\ phase = "logging" =>
        /\ file = snap /\ manifest = snap
        /\ index = {p \in Pages : file[p] # NoFile}

(* The actions that may follow each other in the life of a page. *)
MayFollow(a, b) == (b = "added") <=> (a = "removed")

Listed(p) == manifest[p] # NoFile

(* The log tells the life of every page: added, modified, removed, added     *)
(* again; and its last line says whether the manifest lists the page.  Runs  *)
(* that break off before they save the manifest do not disturb that: the     *)
(* next run logs what they did, and logs it once.                            *)
LogTellsLives ==
    intact => \A p \in Pages :
        /\ log[p] # <<>> => log[p][1] = "added"
        /\ \A i \in 2..Len(log[p]) : MayFollow(log[p][i - 1], log[p][i])
        /\ phase # "logging" =>
              Listed(p) <=> (log[p] # <<>> /\ log[p][Len(log[p])] # "removed")
=============================================================================
